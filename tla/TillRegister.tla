--------------------------- MODULE TillRegister ------------------------------
(***************************************************************************)
(* Tills, terminals, cashiers and cash registers: who holds which drawer,  *)
(* at which till it is in use and what it is worth.                        *)
(*                                                                         *)
(* A cash register is handed to a cashier with some change (stock up), may *)
(* be passed on to another cashier and is emptied into the vault when the  *)
(* cashier is closed out. While its cashier is logged in at a terminal it  *)
(* can be the active register of the terminal's till, and the till's cash  *)
(* orders are booked on it.                                                *)
(*                                                                         *)
(* Rows are known by their ids, which are positive integers, and NULL is   *)
(* the missing reference. The ids of different tables are unrelated, so a  *)
(* till and a register may well share one.                                 *)
(***************************************************************************)
EXTENDS Ledger

CONSTANTS
    Tills,        \* ids of the tills
    CashTills,    \* those whose profile has enable_cash_payment
    Terminals,    \* ids of the terminals
    Users,        \* ids of the users who may be cashiers
    Registers,    \* ids of the cash registers
    Amounts,      \* the positive amounts that are booked
    CashLimit     \* bound of the model: no account leaves -CashLimit..CashLimit

NULL == 0

ASSUME IdsAssumption ==
    /\ Tills \subseteq Nat \ {NULL} /\ CashTills \subseteq Tills
    /\ Terminals \subseteq Nat \ {NULL}
    /\ Users \subseteq Nat \ {NULL}
    /\ Registers \subseteq Nat \ {NULL}
ASSUME AmountsAssumption == Amounts \subseteq Nat \ {0} /\ CashLimit \in Nat
\* All accounts together have a sum.
ASSUME RegistersAssumption == IsFiniteSet(Registers)

\* The account of a register, and the system accounts cash moves from and to.
RegisterAccount(r) == <<"cash_register", r>>
CashVault == <<"cash_vault", NULL>>
CashImbalance == <<"cash_imbalance", NULL>>
Transport == <<"transport", NULL>>
CashEntry == <<"cash_entry", NULL>>

Accounts == {RegisterAccount(r) : r \in Registers}
              \union {CashVault, CashImbalance, Transport, CashEntry}

VARIABLES
    terminalOf,      \* till.terminal_id
    activeRegister,  \* till.active_cash_register_id
    activeUser,      \* terminal.active_user_id
    registerOf,      \* usr.cash_register_id
    openShifts,      \* cashier and register of each shift with no end order yet
    balance,         \* account balances
    booked           \* the sum of the cash orders booked at each till

vars == <<terminalOf, activeRegister, activeUser, registerOf, openShifts,
          balance, booked>>

Init ==
    /\ terminalOf = [t \in Tills |-> NULL]
    /\ activeRegister = [t \in Tills |-> NULL]
    /\ activeUser = [tm \in Terminals |-> NULL]
    /\ registerOf = [u \in Users |-> NULL]
    /\ openShifts = {}
    /\ balance = [a \in Accounts |-> 0]
    /\ booked = [t \in Tills |-> 0]

-----------------------------------------------------------------------------
(* Looking things up. *)

TillsOf(tm) == {t \in Tills : terminalOf[t] = tm}
LoggedIn(u) == \E tm \in Terminals : activeUser[tm] = u
CashierAt(t) == IF terminalOf[t] = NULL THEN NULL ELSE activeUser[terminalOf[t]]
CashTillsOf(u) == {t \in CashTills : CashierAt(t) = u}

\* till.terminal_id is unique: a terminal goes to one till.
Assignable(t, tm) == tm = NULL \/ TillsOf(tm) \subseteq {t}

\* The bound of the model: a booking is not considered beyond it.
WithinBound(bal) == \A a \in Accounts : -CashLimit <= bal[a] /\ bal[a] <= CashLimit

-----------------------------------------------------------------------------
(* Mutated forms of definitions below, each a bug that is easy to write. They  *)
(* are not part of the specification; the properties have to tell them apart.  *)

\* Logging out leaves the register in the till.
Emptied_Not(ts) == activeRegister

\* Whether the register is in use is not asked, and left to the database.
InUse_Unasked(r, active) == FALSE

\* A register that comes right after another is taken for the only change.
DrawerOrders_Incoming(books, from, to, bal) ==
    [t \in Tills |->
        IF from[t] = to[t] \/ to[t] = NULL THEN books[t]
        ELSE books[t] + bal[RegisterAccount(to[t])]]

\* A shift is started with the register in the user's row, which is not written
\* yet; one is never ended.
Started_Unwritten(shifts, u, r) == shifts \union {<<u, registerOf[u]>>}
Ended_Never(shifts, u, r) == shifts \union {<<u, r>>}

\* Only the counted cash is booked; the imbalance is booked the wrong way round.
Settled_Counted(r, actual) ==
    BookTransaction(balance, RegisterAccount(r), CashVault, actual)
Settled_Swapped(r, actual) ==
    LET imbalance == actual - balance[RegisterAccount(r)]
        toVault == BookTransaction(balance, RegisterAccount(r), CashVault, actual)
        settled == BookTransaction(toVault, RegisterAccount(r), CashImbalance, imbalance)
    IN  [settled EXCEPT ![RegisterAccount(r)] = 0]

-----------------------------------------------------------------------------
(* Registers at tills. *)

InUse(r, active) == \E t \in Tills : active[t] = r

\* The registers of the tills ts are taken out.
Emptied(ts) == [t \in Tills |-> IF t \in ts THEN NULL ELSE activeRegister[t]]

\* handle_till_cash_register_change: whatever changes the register of a till,
\* a trigger books a money transfer order for the cash that comes or goes.
DrawerOrders(books, from, to, bal) ==
    [t \in Tills |->
        IF from[t] = to[t] THEN books[t]
        ELSE IF to[t] = NULL THEN books[t] - bal[RegisterAccount(from[t])]
        ELSE books[t] + bal[RegisterAccount(to[t])]]

TakeOut(ts) ==
    /\ activeRegister' = Emptied(ts)
    /\ booked' = DrawerOrders(booked, activeRegister, Emptied(ts), balance)

-----------------------------------------------------------------------------
(* Logging in and out. *)

\* login_user: the drawer of whoever was there before is taken out, and that of
\* the new user put in, unless it is in use at another till.
LoginUser(tm, u) ==
    /\ activeUser' = [activeUser EXCEPT ![tm] = u]
    /\ LET emptied == Emptied(TillsOf(tm))
           filled == [t \in Tills |->
                IF /\ t \in TillsOf(tm)
                   /\ registerOf[u] # NULL
                   /\ ~InUse(registerOf[u], emptied)
                THEN registerOf[u] ELSE emptied[t]]
           takenOut == DrawerOrders(booked, activeRegister, emptied, balance)
       IN  /\ activeRegister' = filled
           /\ booked' = DrawerOrders(takenOut, emptied, filled, balance)
    /\ UNCHANGED <<terminalOf, registerOf, openShifts, balance>>

\* logout_user and force_logout_user.
LogoutUser(tm) ==
    /\ activeUser' = [activeUser EXCEPT ![tm] = NULL]
    /\ TakeOut(TillsOf(tm))
    /\ UNCHANGED <<terminalOf, registerOf, openShifts, balance>>

-----------------------------------------------------------------------------
(* Moving terminals between tills. *)

\* remove_terminal_from_till of the tills ts, which lose their terminals and
\* registers, and the terminals their users; then till t gets terminal tm. The
\* terminals in alsoLoggedOut lose their users too.
Reassign(ts, t, tm, alsoLoggedOut) ==
    /\ terminalOf' = [x \in Tills |-> IF x = t THEN tm
                                      ELSE IF x \in ts THEN NULL ELSE terminalOf[x]]
    /\ TakeOut(ts)
    /\ activeUser' = [x \in Terminals |->
          IF x \in alsoLoggedOut \/ \E y \in ts : terminalOf[y] = x
          THEN NULL ELSE activeUser[x]]
    /\ UNCHANGED <<registerOf, openShifts, balance>>

\* remove_from_terminal, and both ways to log out the terminal of a till.
RemoveFromTerminal(t) == Reassign({t}, t, NULL, {})

\* switch_terminal keeps the new terminal's user logged in.
SwitchTerminal(t, tm) ==
    /\ Assignable(t, tm)
    /\ Reassign({t}, t, tm, {})

\* update_till with another terminal, or none: the new one's user is logged out.
UpdateTill(t, tm) ==
    /\ terminalOf[t] # tm
    /\ Assignable(t, tm)
    /\ Reassign(IF terminalOf[t] = NULL THEN {} ELSE {t}, t, tm, {tm})

\* switch_till: the terminal leaves its till, its user is logged out, and it
\* goes to a till without a terminal.
SwitchTill(tm, t) ==
    /\ terminalOf[t] \in {NULL, tm}
    /\ Reassign(TillsOf(tm), t, tm, {tm})

-----------------------------------------------------------------------------
(* Registers and cashiers. *)

\* _select_till_for_cash_register_insertion refuses a user who is logged in at
\* several tills with cash payment. For a single one it runs
\*     update till set active_cash_register_id = $1 where id = $2
\* with the till's id as $1 and the register's as $2: it is the till with the
\* register's id that changes, if there is one.
SelectionRefused(u) == Cardinality(CashTillsOf(u)) > 1

Inserted(u, r, active) ==
    [t \in Tills |-> IF t = r /\ CashTillsOf(u) # {}
                     THEN CHOOSE x \in CashTillsOf(u) : TRUE
                     ELSE active[t]]

\* The foreign key and the unique constraint of till.active_cash_register_id.
ConstraintsHold(active) ==
    /\ \A t \in Tills : active[t] \in Registers \union {NULL}
    /\ \A t, x \in Tills : active[t] = active[x] /\ active[t] # NULL => t = x

\* The start order and the end order of a shift.
Started(shifts, u, r) == shifts \union {<<u, r>>}
Ended(shifts, u, r) == shifts \ {<<u, r>>}

\* stock_up_cash_register. That nobody else holds the register is left to the
\* unique constraint of usr.cash_register_id. The template is optional.
StockUp(u, r, amount) ==
    LET inserted == Inserted(u, r, activeRegister)
        stocked == BookTransaction(balance, CashVault, RegisterAccount(r), amount)
    IN  /\ ~InUse(r, activeRegister)
        /\ registerOf[u] = NULL
        /\ \A x \in Users : registerOf[x] # r
        /\ ~SelectionRefused(u)
        /\ ConstraintsHold(inserted)
        /\ activeRegister' = inserted
        /\ registerOf' = [registerOf EXCEPT ![u] = r]
        /\ openShifts' = Started(openShifts, u, r)
        /\ balance' = stocked
        /\ WithinBound(balance')
        /\ booked' = DrawerOrders(booked, activeRegister, inserted, stocked)
        /\ UNCHANGED <<terminalOf, activeUser>>

\* _transfer_cash_register. The till is selected twice, once before the
\* register is taken out of its till and once after.
Transfer(u, v) ==
    LET r == registerOf[u]
        first == IF LoggedIn(v) THEN Inserted(v, r, activeRegister) ELSE activeRegister
        takenOut == [t \in Tills |-> IF first[t] = r THEN NULL ELSE first[t]]
        second == Inserted(v, r, takenOut)
        books1 == DrawerOrders(booked, activeRegister, first, balance)
        books2 == DrawerOrders(books1, first, takenOut, balance)
    IN  /\ u # v /\ r # NULL
        /\ registerOf[v] = NULL
        /\ ~SelectionRefused(v)
        /\ ConstraintsHold(first) /\ ConstraintsHold(second)
        /\ activeRegister' = second
        /\ booked' = DrawerOrders(books2, takenOut, second, balance)
        /\ registerOf' = [registerOf EXCEPT ![u] = NULL, ![v] = r]
        /\ openShifts' = Started(Ended(openShifts, u, r), v, r)
        /\ UNCHANGED <<terminalOf, activeUser, balance>>

\* modify_cashier_account_balance: a transport brings cash to a cashier who is
\* logged in with the register, or takes some away if amount is negative. The
\* order is booked at the cashier's till.
ModifyCashierBalance(u, t, amount) ==
    LET r == registerOf[u]
    IN  /\ r # NULL
        /\ activeRegister[t] = r /\ CashierAt(t) = u
        /\ ~IsBalanceNegative(balance[RegisterAccount(r)] + amount)
        /\ ~IsBalanceNegative(balance[Transport] - amount)
        /\ balance' = BookTransaction(balance, Transport, RegisterAccount(r), amount)
        /\ WithinBound(balance')
        /\ booked' = [booked EXCEPT ![t] = @ + amount]
        /\ UNCHANGED <<terminalOf, activeRegister, activeUser, registerOf, openShifts>>

\* modify_transport_account_balance: between the vault and the transport.
ModifyTransportBalance(amount) ==
    /\ ~IsBalanceNegative(balance[Transport] + amount)
    /\ balance' = BookTransaction(balance, CashVault, Transport, amount)
    /\ WithinBound(balance')
    /\ UNCHANGED <<terminalOf, activeRegister, activeUser, registerOf, openShifts,
                   booked>>

\* A cash order of the till's user: a sale or top-up brings cash, a pay-out
\* (a negative amount) takes some, even if the drawer does not hold enough.
\* CashEntry stands for the cash_entry and cash_exit accounts alike.
CashOrder(t, amount) ==
    /\ CashierAt(t) # NULL
    /\ activeRegister[t] # NULL
    /\ balance' = BookTransaction(balance, CashEntry, RegisterAccount(activeRegister[t]), amount)
    /\ WithinBound(balance')
    /\ booked' = [booked EXCEPT ![t] = @ + amount]
    /\ UNCHANGED <<terminalOf, activeRegister, activeUser, registerOf, openShifts>>

\* What closing out leaves of the balances: the counted cash goes to the vault,
\* what is too much or missing to the imbalance account, and then the register
\* is set to zero.
Settled(r, actual) ==
    LET imbalance == actual - balance[RegisterAccount(r)]
        toVault == BookTransaction(balance, RegisterAccount(r), CashVault, actual)
        settled == BookTransaction(toVault, RegisterAccount(r), CashImbalance, -imbalance)
    IN  [settled EXCEPT ![RegisterAccount(r)] = 0]

\* close_out_cashier. Its orders are booked at the virtual till and cancel each
\* other out there. The code also asks for an order since the last shift: the
\* start order of this one always is.
CloseOut(u, actual) ==
    LET r == registerOf[u]
    IN  /\ r # NULL
        /\ ~LoggedIn(u)
        /\ balance' = Settled(r, actual)
        /\ WithinBound(balance')
        /\ registerOf' = [registerOf EXCEPT ![u] = NULL]
        /\ openShifts' = Ended(openShifts, u, r)
        /\ UNCHANGED <<terminalOf, activeRegister, activeUser, booked>>

-----------------------------------------------------------------------------
SignedAmounts == Amounts \union {-n : n \in Amounts}

TerminalStep ==
    \/ \E tm \in Terminals, u \in Users : LoginUser(tm, u)
    \/ \E tm \in Terminals : LogoutUser(tm)
    \/ \E t \in Tills : RemoveFromTerminal(t)
    \/ \E t \in Tills, tm \in Terminals :
          SwitchTerminal(t, tm) \/ SwitchTill(tm, t)
    \/ \E t \in Tills, tm \in Terminals \union {NULL} : UpdateTill(t, tm)

RegisterStep ==
    \/ \E u \in Users, r \in Registers, n \in Amounts \union {0} : StockUp(u, r, n)
    \/ \E u, v \in Users : Transfer(u, v)
    \/ \E u \in Users, t \in Tills, n \in SignedAmounts : ModifyCashierBalance(u, t, n)
    \/ \E n \in SignedAmounts : ModifyTransportBalance(n)
    \/ \E t \in Tills, n \in SignedAmounts : CashOrder(t, n)
    \/ \E u \in Users, n \in Amounts \union {0} : CloseOut(u, n)

Next == TerminalStep \/ RegisterStep

Spec == Init /\ [][Next]_vars

-----------------------------------------------------------------------------
(* Properties. *)

\* Every reference is null or a row that exists.
TypeOK ==
    /\ terminalOf \in [Tills -> Terminals \union {NULL}]
    /\ activeRegister \in [Tills -> Registers \union {NULL}]
    /\ activeUser \in [Terminals -> Users \union {NULL}]
    /\ registerOf \in [Users -> Registers \union {NULL}]
    /\ openShifts \subseteq Users \X Registers
    /\ balance \in [Accounts -> Int]
    /\ booked \in [Tills -> Int]

\* A register is in use at a till only while the cashier who holds it is logged
\* in at that till, however terminals, users and registers are moved around.
DrawerWithItsCashier ==
    \A t \in Tills : activeRegister[t] # NULL =>
        /\ CashierAt(t) # NULL
        /\ registerOf[CashierAt(t)] = activeRegister[t]

\* A register is never in use at two tills. login_user does not rely on the
\* database to refuse it.
DrawerAtOneTill ==
    \A t, x \in Tills :
        activeRegister[t] = activeRegister[x] /\ activeRegister[t] # NULL => t = x

\* A register nobody holds is empty, so whoever is handed it next starts with
\* exactly the stocked up change.
UnheldIsEmpty ==
    \A r \in Registers :
        (\A u \in Users : registerOf[u] # r) => balance[RegisterAccount(r)] = 0

\* Cash only moves between accounts. In particular setting the balance of a
\* closed out register to zero changes nothing.
CashIsConserved == Balanced(balance)

\* Every shift start order is paired with an end order: a cashier has an open
\* shift exactly with the register the cashier holds.
ShiftFollowsRegister ==
    openShifts = {s \in Users \X Registers : registerOf[s[1]] = s[2]}

\* The cash orders of a till, all of which are signed, add up to the cash that
\* is in its drawer, and to nothing while it has none.
BooksMatchDrawer ==
    \A t \in Tills :
        booked[t] = IF activeRegister[t] = NULL THEN 0
                    ELSE balance[RegisterAccount(activeRegister[t])]

\* The register handed to a cashier who is logged in at one till with cash
\* payment becomes the active register of that till.
StockUpFillsDrawer ==
    [][\A u \in Users, t \in Tills :
          registerOf[u] = NULL /\ registerOf'[u] # NULL /\ CashTillsOf(u) = {t}
             => activeRegister'[t] = registerOf'[u]]_vars
=============================================================================
