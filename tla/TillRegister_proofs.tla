----------------------- MODULE TillRegister_proofs ----------------------------
(***************************************************************************)
(* Proofs about TillRegister, for any number of tills, terminals, cashiers *)
(* and registers and any amounts.                                          *)
(*                                                                         *)
(* What is said of the drawers of tills assumes that no till has the id of *)
(* a register. Without that, the swapped arguments of the update in        *)
(* _select_till_for_cash_register_insertion write to a till that has       *)
(* nothing to do with the cashier. Types, shifts and the money need no     *)
(* such assumption.                                                        *)
(***************************************************************************)
EXTENDS TillRegister, Ledger_proofs

DisjointIds == Tills \intersect Registers = {}

\* Neither a terminal nor a register is given to two.
TerminalAtOneTill ==
    \A t, x \in Tills : terminalOf[t] = terminalOf[x] /\ terminalOf[t] # NULL => t = x
HeldByOne ==
    \A u, v \in Users : registerOf[u] = registerOf[v] /\ registerOf[u] # NULL => u = v

IInv ==
    /\ TypeOK
    /\ DrawerWithItsCashier
    /\ DrawerAtOneTill
    /\ UnheldIsEmpty
    /\ ShiftFollowsRegister
    /\ BooksMatchDrawer
    /\ TerminalAtOneTill
    /\ HeldByOne

RegisterRefs == [Tills -> Registers \union {NULL}]

\* The orders of each till add up to what is in its drawer.
Matches(books, active, bal) ==
    \A t \in Tills :
        books[t] = IF active[t] = NULL THEN 0 ELSE bal[RegisterAccount(active[t])]

-----------------------------------------------------------------------------
(* Accounts and bookings. *)

\* Registers have accounts of their own, none of which is a system account.
LEMMA RegisterAccounts ==
    /\ \A r \in Registers :
          /\ RegisterAccount(r) \in Accounts
          /\ RegisterAccount(r) \notin {CashVault, CashImbalance, Transport, CashEntry}
    /\ \A r, s : RegisterAccount(r) = RegisterAccount(s) => r = s
    /\ {CashVault, CashImbalance, Transport, CashEntry} \subseteq Accounts
BY DEF RegisterAccount, Accounts, CashVault, CashImbalance, Transport, CashEntry

SystemAccounts == {CashVault, CashImbalance, Transport, CashEntry}

\* A transaction with a system account touches no other register.
LEMMA BookingTouchesOne ==
    ASSUME NEW b \in [Accounts -> Int], NEW r \in Registers, NEW other \in SystemAccounts,
           NEW n \in Int
    PROVE  /\ BookTransaction(b, other, RegisterAccount(r), n) \in [Accounts -> Int]
           /\ BookTransaction(b, RegisterAccount(r), other, n) \in [Accounts -> Int]
           /\ BookTransaction(b, other, RegisterAccount(r), n)[RegisterAccount(r)]
                = b[RegisterAccount(r)] + n
           /\ \A s \in Registers \ {r} :
                 /\ BookTransaction(b, other, RegisterAccount(r), n)[RegisterAccount(s)]
                      = b[RegisterAccount(s)]
                 /\ BookTransaction(b, RegisterAccount(r), other, n)[RegisterAccount(s)]
                      = b[RegisterAccount(s)]
<1>1. /\ RegisterAccount(r) \in Accounts /\ other \in Accounts
      /\ other # RegisterAccount(r)
      /\ \A s \in Registers \ {r} :
            /\ RegisterAccount(s) \in Accounts
            /\ RegisterAccount(s) \notin {other, RegisterAccount(r)}
  BY RegisterAccounts DEF SystemAccounts
<1> QED
  BY <1>1 DEF BookTransaction, Post, Transaction

\* A till that gets or loses a register gets an order for what is in it.
LEMMA DrawerOrdersMatch ==
    ASSUME NEW books \in [Tills -> Int], NEW from \in RegisterRefs, NEW to \in RegisterRefs,
           NEW bal \in [Accounts -> Int],
           Matches(books, from, bal),
           \A t \in Tills : from[t] = to[t] \/ from[t] = NULL \/ to[t] = NULL
    PROVE  /\ DrawerOrders(books, from, to, bal) \in [Tills -> Int]
           /\ Matches(DrawerOrders(books, from, to, bal), to, bal)
<1>1. \A t \in Tills : /\ from[t] # NULL => bal[RegisterAccount(from[t])] \in Int
                       /\ to[t] # NULL => bal[RegisterAccount(to[t])] \in Int
  BY RegisterAccounts DEF RegisterRefs
<1> QED
  BY <1>1 DEF DrawerOrders, Matches, RegisterRefs

\* Nothing comes or goes where the registers stay.
LEMMA DrawerOrdersSame ==
    ASSUME NEW books \in [Tills -> Int], NEW active, NEW bal
    PROVE  DrawerOrders(books, active, active, bal) = books
BY DEF DrawerOrders

\* The update that is meant for a till of the cashier reaches no till at all.
LEMMA NothingInserted ==
    ASSUME DisjointIds, NEW u, NEW r \in Registers, NEW active \in RegisterRefs
    PROVE  Inserted(u, r, active) = active
BY DEF DisjointIds, Inserted, RegisterRefs

\* Taking the registers out of some tills keeps the books.
LEMMA TakenOut ==
    ASSUME IInv, NEW ts, TakeOut(ts)
    PROVE  /\ activeRegister' \in RegisterRefs
           /\ booked' \in [Tills -> Int]
           /\ Matches(booked', activeRegister', balance)
           /\ \A t \in Tills : activeRegister'[t] = IF t \in ts THEN NULL ELSE activeRegister[t]
<1>1. activeRegister \in RegisterRefs /\ Emptied(ts) \in RegisterRefs
  BY DEF IInv, TypeOK, Emptied, RegisterRefs
<1>2. Matches(booked, activeRegister, balance)
  BY DEF IInv, BooksMatchDrawer, Matches
<1>3. \A t \in Tills : activeRegister[t] = Emptied(ts)[t] \/ Emptied(ts)[t] = NULL
  BY DEF Emptied
<1> QED
  BY <1>1, <1>2, <1>3, DrawerOrdersMatch DEF TakeOut, Emptied, IInv, TypeOK

-----------------------------------------------------------------------------
(* The steps of terminals. *)

\* A step that leaves the registers with their cashiers, and the money alone,
\* keeps what is said about these.
LEMMA RegistersKept ==
    ASSUME IInv, UNCHANGED <<registerOf, openShifts, balance>>
    PROVE  UnheldIsEmpty' /\ ShiftFollowsRegister' /\ HeldByOne'
BY DEF IInv, UnheldIsEmpty, ShiftFollowsRegister, HeldByOne

LEMMA LoginKeeps ==
    ASSUME IInv, NEW tm \in Terminals, NEW u \in Users, LoginUser(tm, u)
    PROVE  IInv'
<1> DEFINE emptied == Emptied(TillsOf(tm))
           filled == [t \in Tills |->
                IF /\ t \in TillsOf(tm)
                   /\ registerOf[u] # NULL
                   /\ ~InUse(registerOf[u], emptied)
                THEN registerOf[u] ELSE emptied[t]]
           takenOut == DrawerOrders(booked, activeRegister, emptied, balance)
<1>1. /\ activeUser' = [activeUser EXCEPT ![tm] = u]
      /\ activeRegister' = filled
      /\ booked' = DrawerOrders(takenOut, emptied, filled, balance)
      /\ UNCHANGED <<terminalOf, registerOf, openShifts, balance>>
  BY DEF LoginUser
<1>2. activeRegister \in RegisterRefs /\ emptied \in RegisterRefs /\ filled \in RegisterRefs
  BY DEF IInv, TypeOK, Emptied, RegisterRefs
<1>3. /\ \A t \in Tills : emptied[t] = IF t \in TillsOf(tm) THEN NULL ELSE activeRegister[t]
      /\ \A t \in Tills : emptied[t] = filled[t] \/ emptied[t] = NULL
  BY DEF Emptied
<1>4. \A t \in Tills : t \in TillsOf(tm) <=> terminalOf[t] = tm
  BY DEF TillsOf
<1>5. tm # NULL /\ u # NULL
  BY IdsAssumption
<1>6. booked' \in [Tills -> Int] /\ Matches(booked', filled, balance)
  <2>1. booked \in [Tills -> Int] /\ balance \in [Accounts -> Int]
    BY DEF IInv, TypeOK
  <2>2. Matches(booked, activeRegister, balance)
    BY DEF IInv, BooksMatchDrawer, Matches
  <2>3. takenOut \in [Tills -> Int] /\ Matches(takenOut, emptied, balance)
    BY <1>2, <1>3, <2>1, <2>2, DrawerOrdersMatch
  <2> HIDE DEF emptied, filled, takenOut
  <2> QED
    BY <1>1, <1>2, <1>3, <2>1, <2>3, DrawerOrdersMatch
<1>7. TypeOK'
  BY <1>1, <1>2, <1>6 DEF IInv, TypeOK, RegisterRefs
<1>8. DrawerWithItsCashier'
  <2> SUFFICES ASSUME NEW t \in Tills, filled[t] # NULL
               PROVE  CashierAt(t)' # NULL /\ registerOf[CashierAt(t)'] = filled[t]
    BY <1>1 DEF DrawerWithItsCashier
  <2>1. CASE terminalOf[t] = tm
    <3>1. CashierAt(t)' = u
      BY <1>1, <1>5, <2>1 DEF CashierAt, IInv, TypeOK
    <3>2. filled[t] = registerOf[u]
      BY <1>3, <1>4, <2>1
    <3> QED
      BY <1>5, <3>1, <3>2
  <2>2. CASE terminalOf[t] # tm
    <3>1. filled[t] = activeRegister[t]
      BY <1>3, <1>4, <2>2
    <3>2. CashierAt(t)' = CashierAt(t)
      BY <1>1, <2>2 DEF CashierAt, IInv, TypeOK
    <3> QED
      BY <3>1, <3>2 DEF IInv, DrawerWithItsCashier
  <2> QED
    BY <2>1, <2>2
<1>9. DrawerAtOneTill'
  <2> SUFFICES ASSUME NEW t \in Tills, NEW x \in Tills,
                      filled[t] = filled[x], filled[t] # NULL
               PROVE  t = x
    BY <1>1 DEF DrawerAtOneTill
  <2>1. CASE terminalOf[t] = tm /\ terminalOf[x] = tm
    BY <1>5, <2>1 DEF IInv, TerminalAtOneTill
  <2>2. CASE terminalOf[t] # tm /\ terminalOf[x] # tm
    BY <1>3, <1>4, <2>2 DEF IInv, DrawerAtOneTill
  <2>3. ASSUME NEW y \in {t, x}, NEW z \in {t, x}, terminalOf[y] = tm, terminalOf[z] # tm
        PROVE  FALSE
    <3>1. ~InUse(registerOf[u], emptied) /\ filled[y] = registerOf[u]
      BY <1>3, <1>4, <2>3
    <3>2. filled[z] = emptied[z]
      BY <1>3, <1>4, <2>3
    <3> QED
      BY <3>1, <3>2 DEF InUse
  <2> QED
    BY <2>1, <2>2, <2>3
<1>10. BooksMatchDrawer' /\ TerminalAtOneTill'
  BY <1>1, <1>6 DEF Matches, BooksMatchDrawer, IInv, TerminalAtOneTill
<1> QED
  BY <1>1, <1>7, <1>8, <1>9, <1>10, RegistersKept DEF IInv

LEMMA LogoutKeeps ==
    ASSUME IInv, NEW tm \in Terminals, LogoutUser(tm)
    PROVE  IInv'
<1>1. /\ activeUser' = [activeUser EXCEPT ![tm] = NULL]
      /\ TakeOut(TillsOf(tm))
      /\ UNCHANGED <<terminalOf, registerOf, openShifts, balance>>
  BY DEF LogoutUser
<1>2. /\ activeRegister' \in RegisterRefs
      /\ booked' \in [Tills -> Int]
      /\ Matches(booked', activeRegister', balance)
      /\ \A t \in Tills :
            activeRegister'[t] = IF t \in TillsOf(tm) THEN NULL ELSE activeRegister[t]
  BY <1>1, TakenOut
<1>3. TypeOK'
  BY <1>1, <1>2 DEF IInv, TypeOK, RegisterRefs
<1>4. DrawerWithItsCashier'
  <2> SUFFICES ASSUME NEW t \in Tills, activeRegister'[t] # NULL
               PROVE  CashierAt(t)' # NULL /\ registerOf[CashierAt(t)'] = activeRegister'[t]
    BY <1>1 DEF DrawerWithItsCashier
  <2>1. terminalOf[t] # tm /\ activeRegister'[t] = activeRegister[t]
    BY <1>2 DEF TillsOf
  <2>2. CashierAt(t)' = CashierAt(t)
    BY <1>1, <2>1 DEF CashierAt, IInv, TypeOK
  <2> QED
    BY <2>1, <2>2 DEF IInv, DrawerWithItsCashier
<1>5. DrawerAtOneTill'
  BY <1>2 DEF IInv, DrawerAtOneTill
<1>6. BooksMatchDrawer' /\ TerminalAtOneTill'
  BY <1>1, <1>2 DEF Matches, BooksMatchDrawer, IInv, TerminalAtOneTill
<1> QED
  BY <1>1, <1>3, <1>4, <1>5, <1>6, RegistersKept DEF IInv

\* All ways of moving a terminal: till t gets it, or none, and is among the
\* emptied tills ts unless it had no terminal; no other till keeps the terminal.
LEMMA ReassignKeeps ==
    ASSUME IInv, NEW ts \in SUBSET Tills, NEW t \in Tills, NEW tm \in Terminals \union {NULL},
           NEW also \in SUBSET {tm},
           Reassign(ts, t, tm, also),
           t \in ts \/ terminalOf[t] = NULL,
           \A x \in Tills \ (ts \union {t}) : tm = NULL \/ terminalOf[x] # tm
    PROVE  IInv'
<1>1. /\ terminalOf' = [x \in Tills |-> IF x = t THEN tm
                                        ELSE IF x \in ts THEN NULL ELSE terminalOf[x]]
      /\ TakeOut(ts)
      /\ activeUser' = [x \in Terminals |->
            IF x \in also \/ \E y \in ts : terminalOf[y] = x THEN NULL ELSE activeUser[x]]
      /\ UNCHANGED <<registerOf, openShifts, balance>>
  BY DEF Reassign
<1>2. /\ activeRegister' \in RegisterRefs
      /\ booked' \in [Tills -> Int]
      /\ Matches(booked', activeRegister', balance)
      /\ \A x \in Tills : activeRegister'[x] = IF x \in ts THEN NULL ELSE activeRegister[x]
  BY <1>1, TakenOut
<1>3. TypeOK'
  BY <1>1, <1>2 DEF IInv, TypeOK, RegisterRefs
<1>4. DrawerWithItsCashier'
  <2> SUFFICES ASSUME NEW x \in Tills, activeRegister'[x] # NULL
               PROVE  CashierAt(x)' # NULL /\ registerOf[CashierAt(x)'] = activeRegister'[x]
    BY <1>1 DEF DrawerWithItsCashier
  <2>1. x \notin ts /\ activeRegister'[x] = activeRegister[x]
    BY <1>2
  <2>2. CashierAt(x) # NULL /\ registerOf[CashierAt(x)] = activeRegister[x]
    BY <2>1 DEF IInv, DrawerWithItsCashier
  <2>3. terminalOf[x] # NULL /\ x # t
    BY <2>1, <2>2 DEF CashierAt
  <2>4. terminalOf[x] \in Terminals /\ terminalOf[x] \notin also
    BY <2>1, <2>3 DEF IInv, TypeOK
  <2>5. ~ \E y \in ts : terminalOf[y] = terminalOf[x]
    BY <2>1, <2>3 DEF IInv, TerminalAtOneTill
  <2>6. terminalOf'[x] = terminalOf[x] /\ activeUser'[terminalOf[x]] = activeUser[terminalOf[x]]
    BY <1>1, <2>1, <2>3, <2>4, <2>5
  <2>7. CashierAt(x)' = CashierAt(x)
    BY <2>6 DEF CashierAt
  <2> QED
    BY <2>1, <2>2, <2>7
<1>5. DrawerAtOneTill'
  BY <1>2 DEF IInv, DrawerAtOneTill
<1>6. TerminalAtOneTill'
  BY <1>1 DEF IInv, TerminalAtOneTill
<1>7. BooksMatchDrawer'
  BY <1>1, <1>2 DEF Matches, BooksMatchDrawer
<1> QED
  BY <1>1, <1>3, <1>4, <1>5, <1>6, <1>7, RegistersKept DEF IInv

LEMMA TerminalStepKeeps == IInv /\ TerminalStep => IInv'
<1> SUFFICES ASSUME IInv, TerminalStep PROVE IInv'
  OBVIOUS
<1>1. ASSUME NEW t \in Tills, RemoveFromTerminal(t) PROVE IInv'
  BY <1>1, ReassignKeeps DEF RemoveFromTerminal
<1>2. ASSUME NEW t \in Tills, NEW tm \in Terminals, SwitchTerminal(t, tm) PROVE IInv'
  <2>1. \A x \in Tills \ {t} : terminalOf[x] # tm
    BY <1>2, IdsAssumption DEF SwitchTerminal, Assignable, TillsOf
  <2> QED
    BY <1>2, <2>1, ReassignKeeps DEF SwitchTerminal
<1>3. ASSUME NEW t \in Tills, NEW tm \in Terminals \union {NULL}, UpdateTill(t, tm) PROVE IInv'
  <2>1. \A x \in Tills \ {t} : tm = NULL \/ terminalOf[x] # tm
    BY <1>3 DEF UpdateTill, Assignable, TillsOf
  <2> QED
    BY <1>3, <2>1, ReassignKeeps DEF UpdateTill
<1>4. ASSUME NEW t \in Tills, NEW tm \in Terminals, SwitchTill(tm, t) PROVE IInv'
  <2>1. t \in TillsOf(tm) \/ terminalOf[t] = NULL
    BY <1>4 DEF SwitchTill, TillsOf
  <2>2. \A x \in Tills \ (TillsOf(tm) \union {t}) : terminalOf[x] # tm
    BY DEF TillsOf
  <2>3. TillsOf(tm) \in SUBSET Tills
    BY DEF TillsOf
  <2> QED
    BY <1>4, <2>1, <2>2, <2>3, ReassignKeeps DEF SwitchTill
<1> QED
  BY <1>1, <1>2, <1>3, <1>4, LoginKeeps, LogoutKeeps DEF TerminalStep

-----------------------------------------------------------------------------
(* The steps of registers. *)

\* The cashier at a till with a register is a user who holds it.
LEMMA InUseIsHeld ==
    ASSUME IInv, NEW t \in Tills, activeRegister[t] # NULL
    PROVE  /\ CashierAt(t) \in Users
           /\ registerOf[CashierAt(t)] = activeRegister[t]
           /\ LoggedIn(CashierAt(t))
<1>1. CashierAt(t) # NULL /\ registerOf[CashierAt(t)] = activeRegister[t]
  BY DEF IInv, DrawerWithItsCashier
<1>2. terminalOf[t] \in Terminals /\ CashierAt(t) = activeUser[terminalOf[t]]
  BY <1>1 DEF CashierAt, IInv, TypeOK
<1> QED
  BY <1>1, <1>2 DEF LoggedIn, IInv, TypeOK

\* Cash that is booked on a till's register is also on the till's books.
LEMMA DrawerBookingKeeps ==
    ASSUME IInv, NEW t \in Tills, NEW n \in Int, NEW from \in {Transport, CashEntry},
           activeRegister[t] # NULL,
           balance' = BookTransaction(balance, from, RegisterAccount(activeRegister[t]), n),
           booked' = [booked EXCEPT ![t] = @ + n],
           UNCHANGED <<terminalOf, activeRegister, activeUser, registerOf, openShifts>>
    PROVE  IInv'
<1> DEFINE r == activeRegister[t]
<1>1. r \in Registers
  BY DEF IInv, TypeOK
<1>2. /\ balance' \in [Accounts -> Int]
      /\ balance'[RegisterAccount(r)] = balance[RegisterAccount(r)] + n
      /\ \A s \in Registers \ {r} : balance'[RegisterAccount(s)] = balance[RegisterAccount(s)]
  <2>1. balance \in [Accounts -> Int] /\ from \in SystemAccounts
    BY DEF IInv, TypeOK, SystemAccounts
  <2> QED
    BY <1>1, <2>1, BookingTouchesOne
<1>3. TypeOK'
  BY <1>2 DEF IInv, TypeOK
<1>4. UnheldIsEmpty'
  BY <1>2, InUseIsHeld DEF IInv, UnheldIsEmpty
<1>5. BooksMatchDrawer'
  <2> SUFFICES ASSUME NEW x \in Tills
               PROVE  booked'[x] = IF activeRegister[x] = NULL THEN 0
                                   ELSE balance'[RegisterAccount(activeRegister[x])]
    BY DEF BooksMatchDrawer
  <2>1. CASE x = t
    BY <1>2, <2>1 DEF IInv, BooksMatchDrawer, TypeOK
  <2>2. CASE x # t
    <3>1. booked'[x] = booked[x] /\ activeRegister[x] # r
      BY <2>2 DEF IInv, DrawerAtOneTill, TypeOK
    <3>2. activeRegister[x] = NULL \/ activeRegister[x] \in Registers \ {r}
      BY <3>1 DEF IInv, TypeOK
    <3> QED
      BY <1>2, <3>1, <3>2 DEF IInv, BooksMatchDrawer
  <2> QED
    BY <2>1, <2>2
<1>6. DrawerWithItsCashier'
  BY DEF IInv, DrawerWithItsCashier, CashierAt
<1> QED
  BY <1>3, <1>4, <1>5, <1>6
     DEF IInv, DrawerAtOneTill, ShiftFollowsRegister, TerminalAtOneTill, HeldByOne

\* The open shifts, told pair by pair.
LEMMA ShiftPairs ==
    ASSUME NEW shifts \in SUBSET (Users \X Registers), NEW held
    PROVE  shifts = {s \in Users \X Registers : held[s[1]] = s[2]}
             <=> \A w \in Users, s \in Registers : <<w, s>> \in shifts <=> held[w] = s
<1>1. \A p \in Users \X Registers : p[1] \in Users /\ p[2] \in Registers /\ p = <<p[1], p[2]>>
  OBVIOUS
<1>2. \A w \in Users, s \in Registers :
          /\ <<w, s>> \in Users \X Registers
          /\ <<w, s>>[1] = w /\ <<w, s>>[2] = s
  OBVIOUS
<1>3. ASSUME shifts = {s \in Users \X Registers : held[s[1]] = s[2]},
             NEW w \in Users, NEW s \in Registers
      PROVE  <<w, s>> \in shifts <=> held[w] = s
  BY <1>2, <1>3
<1>4. ASSUME \A w \in Users, s \in Registers : <<w, s>> \in shifts <=> held[w] = s
      PROVE  shifts = {s \in Users \X Registers : held[s[1]] = s[2]}
  <2>1. ASSUME NEW p \in Users \X Registers
        PROVE  p \in shifts <=> held[p[1]] = p[2]
    BY <1>1, <1>4
  <2> QED
    BY <2>1
<1> QED
  BY <1>3, <1>4

LEMMA StockUpKeeps ==
    ASSUME DisjointIds, IInv, NEW u \in Users, NEW r \in Registers, NEW n \in Nat,
           StockUp(u, r, n)
    PROVE  IInv'
<1> DEFINE stocked == BookTransaction(balance, CashVault, RegisterAccount(r), n)
<1>1. activeRegister \in RegisterRefs
  BY DEF IInv, TypeOK, RegisterRefs
<1>2. Inserted(u, r, activeRegister) = activeRegister
  BY <1>1, NothingInserted
<1>3. booked \in [Tills -> Int]
  BY DEF IInv, TypeOK
<1>4. /\ ~InUse(r, activeRegister)
      /\ registerOf[u] = NULL
      /\ \A x \in Users : registerOf[x] # r
      /\ registerOf' = [registerOf EXCEPT ![u] = r]
      /\ openShifts' = openShifts \union {<<u, r>>}
      /\ balance' = stocked
      /\ UNCHANGED <<terminalOf, activeRegister, activeUser, booked>>
  BY <1>2, <1>3, DrawerOrdersSame DEF StockUp, Started
<1>5. /\ balance' \in [Accounts -> Int]
      /\ \A s \in Registers \ {r} : balance'[RegisterAccount(s)] = balance[RegisterAccount(s)]
  <2>1. balance \in [Accounts -> Int] /\ CashVault \in SystemAccounts /\ n \in Int
    BY DEF IInv, TypeOK, SystemAccounts
  <2> QED
    BY <1>4, <2>1, BookingTouchesOne
<1>6. r # NULL
  BY IdsAssumption
<1>7. TypeOK'
  BY <1>4, <1>5 DEF IInv, TypeOK
<1>8. DrawerWithItsCashier'
  <2> SUFFICES ASSUME NEW t \in Tills, activeRegister[t] # NULL
               PROVE  CashierAt(t) # NULL /\ registerOf'[CashierAt(t)] = activeRegister[t]
    BY <1>4 DEF DrawerWithItsCashier, CashierAt
  <2>1. CashierAt(t) # NULL /\ registerOf[CashierAt(t)] = activeRegister[t]
    BY DEF IInv, DrawerWithItsCashier
  <2>2. CashierAt(t) # u
    BY <1>4, <2>1
  <2> QED
    BY <1>4, <2>1, <2>2, InUseIsHeld DEF IInv, TypeOK
<1>9. UnheldIsEmpty'
  <2> SUFFICES ASSUME NEW s \in Registers, \A w \in Users : registerOf'[w] # s
               PROVE  balance'[RegisterAccount(s)] = 0
    BY DEF UnheldIsEmpty
  <2>1. s # r
    BY <1>4 DEF IInv, TypeOK
  <2>2. \A w \in Users : registerOf[w] # s
    BY <1>4, IdsAssumption DEF IInv, TypeOK
  <2> QED
    BY <1>5, <2>1, <2>2 DEF IInv, UnheldIsEmpty
<1>10. ShiftFollowsRegister'
  <2>1. \A w \in Users, s \in Registers : <<w, s>> \in openShifts <=> registerOf[w] = s
    BY ShiftPairs DEF IInv, TypeOK, ShiftFollowsRegister
  <2>2. \A w \in Users, s \in Registers : <<w, s>> \in openShifts' <=> registerOf'[w] = s
    <3> SUFFICES ASSUME NEW w \in Users, NEW s \in Registers
                 PROVE  <<w, s>> \in openShifts' <=> registerOf'[w] = s
      OBVIOUS
    <3>1. CASE w = u
      BY <1>4, <2>1, <3>1, IdsAssumption DEF IInv, TypeOK
    <3>2. CASE w # u
      BY <1>4, <2>1, <3>2 DEF IInv, TypeOK
    <3> QED
      BY <3>1, <3>2
  <2>3. openShifts' \in SUBSET (Users \X Registers)
    BY <1>7 DEF TypeOK
  <2> QED
    BY <2>2, <2>3, ShiftPairs DEF ShiftFollowsRegister
<1>11. BooksMatchDrawer'
  <2>1. \A t \in Tills : activeRegister[t] = NULL \/ activeRegister[t] \in Registers \ {r}
    BY <1>4 DEF InUse, IInv, TypeOK
  <2> QED
    BY <1>4, <1>5, <2>1 DEF IInv, BooksMatchDrawer
<1>12. HeldByOne'
  BY <1>4 DEF IInv, HeldByOne, TypeOK
<1> QED
  BY <1>4, <1>7, <1>8, <1>9, <1>10, <1>11, <1>12 DEF IInv, DrawerAtOneTill, TerminalAtOneTill

LEMMA TransferKeeps ==
    ASSUME DisjointIds, IInv, NEW u \in Users, NEW v \in Users, Transfer(u, v)
    PROVE  IInv'
<1> DEFINE r == registerOf[u]
           takenOut == [t \in Tills |-> IF activeRegister[t] = r THEN NULL ELSE activeRegister[t]]
<1>1. u # v /\ r # NULL /\ registerOf[v] = NULL /\ r \in Registers
  BY DEF Transfer, IInv, TypeOK
<1>2. activeRegister \in RegisterRefs /\ takenOut \in RegisterRefs
  BY DEF IInv, TypeOK, RegisterRefs
<1>3. /\ Inserted(v, r, activeRegister) = activeRegister
      /\ Inserted(v, r, takenOut) = takenOut
  BY <1>1, <1>2, NothingInserted
<1>4. booked \in [Tills -> Int] /\ balance \in [Accounts -> Int]
  BY DEF IInv, TypeOK
<1> DEFINE books == DrawerOrders(booked, activeRegister, takenOut, balance)
<1>5. books \in [Tills -> Int] /\ Matches(books, takenOut, balance)
  <2>1. Matches(booked, activeRegister, balance)
    BY DEF IInv, BooksMatchDrawer, Matches
  <2>2. \A t \in Tills : activeRegister[t] = takenOut[t] \/ takenOut[t] = NULL
    OBVIOUS
  <2> HIDE DEF takenOut
  <2> QED
    BY <1>2, <1>4, <2>1, <2>2, DrawerOrdersMatch
<1>6. /\ activeRegister' = takenOut
      /\ registerOf' = [registerOf EXCEPT ![u] = NULL, ![v] = r]
      /\ openShifts' = (openShifts \ {<<u, r>>}) \union {<<v, r>>}
      /\ UNCHANGED <<terminalOf, activeUser, balance>>
  BY <1>3 DEF Transfer, Started, Ended
<1>7. booked' = books
  <2>1. DrawerOrders(booked, activeRegister, activeRegister, balance) = booked
    BY <1>4, DrawerOrdersSame
  <2>2. DrawerOrders(books, takenOut, takenOut, balance) = books
    BY <1>5, DrawerOrdersSame
  <2>3. booked' = DrawerOrders(
                    DrawerOrders(
                      DrawerOrders(booked, activeRegister, activeRegister, balance),
                      activeRegister, takenOut, balance),
                    takenOut, takenOut, balance)
    BY <1>3 DEF Transfer
  <2> QED
    BY <2>1, <2>2, <2>3
<1>8. TypeOK'
  BY <1>1, <1>2, <1>5, <1>6, <1>7 DEF IInv, TypeOK, RegisterRefs
<1>9. DrawerWithItsCashier'
  <2> SUFFICES ASSUME NEW t \in Tills, takenOut[t] # NULL
               PROVE  CashierAt(t) # NULL /\ registerOf'[CashierAt(t)] = takenOut[t]
    BY <1>6 DEF DrawerWithItsCashier, CashierAt
  <2>1. takenOut[t] = activeRegister[t] /\ activeRegister[t] # r
    OBVIOUS
  <2>2. CashierAt(t) # NULL /\ registerOf[CashierAt(t)] = activeRegister[t]
    BY <2>1 DEF IInv, DrawerWithItsCashier
  <2>3. CashierAt(t) \in Users \ {u, v}
    BY <1>1, <2>1, <2>2, InUseIsHeld
  <2> QED
    BY <1>6, <2>1, <2>2, <2>3 DEF IInv, TypeOK
<1>10. DrawerAtOneTill'
  BY <1>6 DEF IInv, DrawerAtOneTill
<1>11. UnheldIsEmpty'
  <2> SUFFICES ASSUME NEW s \in Registers, \A w \in Users : registerOf'[w] # s
               PROVE  balance[RegisterAccount(s)] = 0
    BY <1>6 DEF UnheldIsEmpty
  <2>1. s # r
    BY <1>1, <1>6 DEF IInv, TypeOK
  <2>2. \A w \in Users : registerOf[w] # s
    BY <1>1, <1>6, <2>1, IdsAssumption DEF IInv, TypeOK
  <2> QED
    BY <2>2 DEF IInv, UnheldIsEmpty
<1>12. ShiftFollowsRegister'
  <2>1. \A w \in Users, s \in Registers : <<w, s>> \in openShifts <=> registerOf[w] = s
    BY ShiftPairs DEF IInv, TypeOK, ShiftFollowsRegister
  <2>2. \A w \in Users, s \in Registers : <<w, s>> \in openShifts' <=> registerOf'[w] = s
    <3> SUFFICES ASSUME NEW w \in Users, NEW s \in Registers
                 PROVE  <<w, s>> \in openShifts' <=> registerOf'[w] = s
      OBVIOUS
    <3>1. CASE w = u
      BY <1>1, <1>6, <2>1, <3>1, IdsAssumption DEF IInv, TypeOK
    <3>2. CASE w # u
      BY <1>1, <1>6, <2>1, <3>2, IdsAssumption DEF IInv, TypeOK
    <3> QED
      BY <3>1, <3>2
  <2>3. openShifts' \in SUBSET (Users \X Registers)
    BY <1>8 DEF TypeOK
  <2> QED
    BY <2>2, <2>3, ShiftPairs DEF ShiftFollowsRegister
<1>13. BooksMatchDrawer'
  BY <1>5, <1>6, <1>7 DEF Matches, BooksMatchDrawer
<1>14. HeldByOne'
  BY <1>1, <1>6 DEF IInv, HeldByOne, TypeOK
<1> QED
  BY <1>6, <1>8, <1>9, <1>10, <1>11, <1>12, <1>13, <1>14 DEF IInv, TerminalAtOneTill

\* Closing out empties the register and touches no other.
LEMMA CloseOutKeeps ==
    ASSUME IInv, NEW u \in Users, NEW n \in Nat, CloseOut(u, n)
    PROVE  IInv'
<1> DEFINE r == registerOf[u]
           imbalance == n - balance[RegisterAccount(r)]
           toVault == BookTransaction(balance, RegisterAccount(r), CashVault, n)
           settled == BookTransaction(toVault, RegisterAccount(r), CashImbalance, -imbalance)
<1>1. r \in Registers /\ r # NULL /\ ~LoggedIn(u)
  BY DEF CloseOut, IInv, TypeOK
<1>2. /\ balance' = [settled EXCEPT ![RegisterAccount(r)] = 0]
      /\ registerOf' = [registerOf EXCEPT ![u] = NULL]
      /\ openShifts' = openShifts \ {<<u, r>>}
      /\ UNCHANGED <<terminalOf, activeRegister, activeUser, booked>>
  BY DEF CloseOut, Settled, Ended
<1>3. /\ balance' \in [Accounts -> Int]
      /\ balance'[RegisterAccount(r)] = 0
      /\ \A s \in Registers \ {r} : balance'[RegisterAccount(s)] = balance[RegisterAccount(s)]
  <2>1. balance \in [Accounts -> Int] /\ n \in Int
    BY DEF IInv, TypeOK
  <2>2. imbalance \in Int
    BY <1>1, <2>1, RegisterAccounts
  <2>3. /\ toVault \in [Accounts -> Int]
        /\ \A s \in Registers \ {r} : toVault[RegisterAccount(s)] = balance[RegisterAccount(s)]
    <3>1. CashVault \in SystemAccounts
      BY DEF SystemAccounts
    <3> QED
      BY <1>1, <2>1, <3>1, BookingTouchesOne
  <2>4. /\ settled \in [Accounts -> Int]
        /\ \A s \in Registers \ {r} : settled[RegisterAccount(s)] = toVault[RegisterAccount(s)]
    <3>1. -imbalance \in Int /\ CashImbalance \in SystemAccounts
      BY <2>2 DEF SystemAccounts
    <3> HIDE DEF imbalance, toVault
    <3> QED
      BY <1>1, <2>3, <3>1, BookingTouchesOne
  <2> HIDE DEF settled, toVault
  <2> QED
    BY <1>1, <1>2, <2>3, <2>4, RegisterAccounts
<1> HIDE DEF settled
<1>4. TypeOK'
  BY <1>2, <1>3 DEF IInv, TypeOK
<1>5. \A t \in Tills : activeRegister[t] # NULL =>
          activeRegister[t] \in Registers \ {r} /\ CashierAt(t) \in Users \ {u}
  <2> SUFFICES ASSUME NEW t \in Tills, activeRegister[t] # NULL
               PROVE  activeRegister[t] \in Registers \ {r} /\ CashierAt(t) \in Users \ {u}
    OBVIOUS
  <2>1. /\ CashierAt(t) \in Users /\ LoggedIn(CashierAt(t))
        /\ registerOf[CashierAt(t)] = activeRegister[t]
    BY InUseIsHeld
  <2>2. CashierAt(t) # u
    BY <1>1, <2>1
  <2> QED
    BY <1>1, <2>1, <2>2 DEF IInv, HeldByOne, TypeOK
<1>6. DrawerWithItsCashier'
  <2> SUFFICES ASSUME NEW t \in Tills, activeRegister[t] # NULL
               PROVE  CashierAt(t) # NULL /\ registerOf'[CashierAt(t)] = activeRegister[t]
    BY <1>2 DEF DrawerWithItsCashier, CashierAt
  <2> QED
    BY <1>2, <1>5 DEF IInv, DrawerWithItsCashier, TypeOK
<1>7. UnheldIsEmpty'
  <2> SUFFICES ASSUME NEW s \in Registers \ {r}, \A w \in Users : registerOf'[w] # s
               PROVE  balance'[RegisterAccount(s)] = 0
    BY <1>3 DEF UnheldIsEmpty
  <2>1. \A w \in Users : registerOf[w] # s
    BY <1>2 DEF IInv, TypeOK
  <2> QED
    BY <1>3, <2>1 DEF IInv, UnheldIsEmpty
<1>8. ShiftFollowsRegister'
  <2>1. \A w \in Users, s \in Registers : <<w, s>> \in openShifts <=> registerOf[w] = s
    BY ShiftPairs DEF IInv, TypeOK, ShiftFollowsRegister
  <2>2. \A w \in Users, s \in Registers : <<w, s>> \in openShifts' <=> registerOf'[w] = s
    <3> SUFFICES ASSUME NEW w \in Users, NEW s \in Registers
                 PROVE  <<w, s>> \in openShifts' <=> registerOf'[w] = s
      OBVIOUS
    <3>1. CASE w = u
      BY <1>1, <1>2, <2>1, <3>1, IdsAssumption DEF IInv, TypeOK
    <3>2. CASE w # u
      BY <1>1, <1>2, <2>1, <3>2 DEF IInv, TypeOK
    <3> QED
      BY <3>1, <3>2
  <2>3. openShifts' \in SUBSET (Users \X Registers)
    BY <1>4 DEF TypeOK
  <2> QED
    BY <2>2, <2>3, ShiftPairs DEF ShiftFollowsRegister
<1>9. BooksMatchDrawer'
  BY <1>2, <1>3, <1>5 DEF IInv, BooksMatchDrawer
<1>10. HeldByOne'
  BY <1>2 DEF IInv, HeldByOne, TypeOK
<1> QED
  BY <1>2, <1>4, <1>6, <1>7, <1>8, <1>9, <1>10 DEF IInv, DrawerAtOneTill, TerminalAtOneTill

LEMMA RegisterStepKeeps ==
    ASSUME DisjointIds, IInv, RegisterStep
    PROVE  IInv'
<1>1. SignedAmounts \subseteq Int /\ Amounts \union {0} \subseteq Nat
  <2>1. Amounts \subseteq Nat
    BY AmountsAssumption
  <2>2. \A n \in Amounts : n \in Int /\ -n \in Int
    BY <2>1
  <2>3. \A n \in SignedAmounts : n \in Amounts \/ \E m \in Amounts : n = -m
    BY DEF SignedAmounts
  <2>4. \A n \in SignedAmounts : n \in Int
    BY <2>2, <2>3
  <2> QED
    BY <2>1, <2>4
<1>2. ASSUME NEW u \in Users, NEW r \in Registers, NEW n \in Amounts \union {0}, StockUp(u, r, n)
      PROVE  IInv'
  BY <1>1, <1>2, StockUpKeeps
<1>3. ASSUME NEW u \in Users, NEW v \in Users, Transfer(u, v)
      PROVE  IInv'
  BY <1>3, TransferKeeps
<1>4. ASSUME NEW u \in Users, NEW t \in Tills, NEW n \in SignedAmounts,
             ModifyCashierBalance(u, t, n)
      PROVE  IInv'
  <2>1. n \in Int
    BY <1>1
  <2>2. /\ activeRegister[t] # NULL
        /\ balance' = BookTransaction(balance, Transport, RegisterAccount(activeRegister[t]), n)
        /\ booked' = [booked EXCEPT ![t] = @ + n]
        /\ UNCHANGED <<terminalOf, activeRegister, activeUser, registerOf, openShifts>>
    BY <1>4 DEF ModifyCashierBalance
  <2> QED
    BY <2>1, <2>2, DrawerBookingKeeps
<1>5. ASSUME NEW n \in SignedAmounts, ModifyTransportBalance(n)
      PROVE  IInv'
  <2>1. n \in Int /\ balance \in [Accounts -> Int]
    BY <1>1 DEF IInv, TypeOK
  <2>2. /\ balance' = BookTransaction(balance, CashVault, Transport, n)
        /\ UNCHANGED <<terminalOf, activeRegister, activeUser, registerOf, openShifts, booked>>
    BY <1>5 DEF ModifyTransportBalance
  <2>3. /\ balance' \in [Accounts -> Int]
        /\ \A s \in Registers : balance'[RegisterAccount(s)] = balance[RegisterAccount(s)]
    BY <2>1, <2>2, RegisterAccounts DEF BookTransaction, Post, Transaction
  <2>4. TypeOK'
    BY <2>2, <2>3 DEF IInv, TypeOK
  <2>5. UnheldIsEmpty'
    BY <2>2, <2>3 DEF IInv, UnheldIsEmpty
  <2>6. BooksMatchDrawer'
    BY <2>2, <2>3 DEF IInv, BooksMatchDrawer, TypeOK
  <2> QED
    BY <2>2, <2>4, <2>5, <2>6
       DEF IInv, DrawerWithItsCashier, CashierAt, DrawerAtOneTill, ShiftFollowsRegister,
           TerminalAtOneTill, HeldByOne
<1>6. ASSUME NEW t \in Tills, NEW n \in SignedAmounts, CashOrder(t, n)
      PROVE  IInv'
  <2>1. n \in Int
    BY <1>1
  <2>2. /\ activeRegister[t] # NULL
        /\ balance' = BookTransaction(balance, CashEntry, RegisterAccount(activeRegister[t]), n)
        /\ booked' = [booked EXCEPT ![t] = @ + n]
        /\ UNCHANGED <<terminalOf, activeRegister, activeUser, registerOf, openShifts>>
    BY <1>6 DEF CashOrder
  <2> QED
    BY <2>1, <2>2, DrawerBookingKeeps
<1>7. ASSUME NEW u \in Users, NEW n \in Amounts \union {0}, CloseOut(u, n)
      PROVE  IInv'
  BY <1>1, <1>7, CloseOutKeeps
<1> QED
  BY <1>2, <1>3, <1>4, <1>5, <1>6, <1>7 DEF RegisterStep

-----------------------------------------------------------------------------
(* The invariants. *)

LEMMA InitInvariant == Init => IInv
<1> SUFFICES ASSUME Init PROVE IInv
  OBVIOUS
<1>1. TypeOK
  BY IdsAssumption DEF Init, TypeOK
<1>2. ShiftFollowsRegister
  <2>1. \A w \in Users, s \in Registers : <<w, s>> \in openShifts <=> registerOf[w] = s
    BY IdsAssumption DEF Init
  <2> QED
    BY <1>1, <2>1, ShiftPairs DEF TypeOK, ShiftFollowsRegister
<1>3. UnheldIsEmpty
  BY RegisterAccounts DEF Init, UnheldIsEmpty
<1> QED
  BY <1>1, <1>2, <1>3
     DEF Init, IInv, DrawerWithItsCashier, DrawerAtOneTill, BooksMatchDrawer,
         TerminalAtOneTill, HeldByOne

\* Every step keeps the inductive invariant.
LEMMA NextInvariant ==
    ASSUME DisjointIds
    PROVE  IInv /\ [Next]_vars => IInv'
<1> SUFFICES ASSUME IInv, [Next]_vars PROVE IInv'
  OBVIOUS
<1>1. CASE UNCHANGED vars
  BY <1>1 DEF vars, IInv, TypeOK, DrawerWithItsCashier, CashierAt, DrawerAtOneTill,
              UnheldIsEmpty, ShiftFollowsRegister, BooksMatchDrawer, TerminalAtOneTill,
              HeldByOne
<1> QED
  BY <1>1, TerminalStepKeeps, RegisterStepKeeps DEF Next

LEMMA Invariance ==
    ASSUME DisjointIds
    PROVE  Spec => []IInv
<1>1. IInv /\ [Next]_vars => IInv'
  BY NextInvariant
<1> QED
  BY <1>1, InitInvariant, PTL DEF Spec

\* However terminals, users and registers are moved around, a till has only the
\* register of the cashier who is logged in there, and no other till has it.
THEOREM DrawerStaysWithCashier ==
    ASSUME DisjointIds
    PROVE  Spec => [](DrawerWithItsCashier /\ DrawerAtOneTill)
<1>1. IInv => DrawerWithItsCashier /\ DrawerAtOneTill
  BY DEF IInv
<1> QED
  BY <1>1, Invariance, PTL

\* Nobody is handed a register with cash of a shift that has been closed out.
THEOREM RegistersAreHandedOutEmpty ==
    ASSUME DisjointIds
    PROVE  Spec => []UnheldIsEmpty
<1>1. IInv => UnheldIsEmpty
  BY DEF IInv
<1> QED
  BY <1>1, Invariance, PTL

\* The signed cash orders of a till always add up to what is in its drawer.
THEOREM BooksFollowDrawer ==
    ASSUME DisjointIds
    PROVE  Spec => []BooksMatchDrawer
<1>1. IInv => BooksMatchDrawer
  BY DEF IInv
<1> QED
  BY <1>1, Invariance, PTL

-----------------------------------------------------------------------------
(* What holds even where a till has the id of a register. *)

\* Whatever comes and goes, the books of the tills are integers.
LEMMA DrawerOrdersType ==
    ASSUME NEW books \in [Tills -> Int], NEW from \in RegisterRefs, NEW to \in RegisterRefs,
           NEW bal \in [Accounts -> Int]
    PROVE  DrawerOrders(books, from, to, bal) \in [Tills -> Int]
<1>1. \A t \in Tills : /\ from[t] # NULL => bal[RegisterAccount(from[t])] \in Int
                       /\ to[t] # NULL => bal[RegisterAccount(to[t])] \in Int
  BY RegisterAccounts DEF RegisterRefs
<1>2. \A t \in Tills : from[t] # to[t] /\ to[t] = NULL => from[t] # NULL
  OBVIOUS
<1> QED
  BY <1>1, <1>2 DEF DrawerOrders

\* The foreign key and its constraint see to it that a till has a register or none.
LEMMA ConstrainedType ==
    ASSUME NEW u, NEW r, NEW active, ConstraintsHold(Inserted(u, r, active))
    PROVE  Inserted(u, r, active) \in RegisterRefs
BY DEF ConstraintsHold, Inserted, RegisterRefs

\* Terminals leave cashiers, shifts and money alone.
LEMMA TerminalStepTypes ==
    ASSUME TypeOK, TerminalStep
    PROVE  TypeOK' /\ UNCHANGED <<registerOf, openShifts, balance>>
<1>1. /\ activeRegister \in RegisterRefs /\ booked \in [Tills -> Int]
      /\ balance \in [Accounts -> Int]
  BY DEF TypeOK, RegisterRefs
<1>2. \A ts : Emptied(ts) \in RegisterRefs
  BY <1>1 DEF Emptied, RegisterRefs
<1>3. ASSUME NEW ts, TakeOut(ts)
      PROVE  activeRegister' \in RegisterRefs /\ booked' \in [Tills -> Int]
  BY <1>1, <1>2, <1>3, DrawerOrdersType DEF TakeOut
<1>4. ASSUME NEW tm \in Terminals, NEW u \in Users, LoginUser(tm, u)
      PROVE  TypeOK' /\ UNCHANGED <<registerOf, openShifts, balance>>
  <2> DEFINE emptied == Emptied(TillsOf(tm))
             filled == [t \in Tills |->
                  IF /\ t \in TillsOf(tm)
                     /\ registerOf[u] # NULL
                     /\ ~InUse(registerOf[u], emptied)
                  THEN registerOf[u] ELSE emptied[t]]
             takenOut == DrawerOrders(booked, activeRegister, emptied, balance)
  <2>1. /\ activeUser' = [activeUser EXCEPT ![tm] = u]
        /\ activeRegister' = filled
        /\ booked' = DrawerOrders(takenOut, emptied, filled, balance)
        /\ UNCHANGED <<terminalOf, registerOf, openShifts, balance>>
    BY <1>4 DEF LoginUser
  <2>2. emptied \in RegisterRefs /\ filled \in RegisterRefs
    BY <1>2 DEF TypeOK, RegisterRefs
  <2>3. takenOut \in [Tills -> Int]
    <3> HIDE DEF emptied
    <3> QED BY <1>1, <2>2, DrawerOrdersType
  <2>4. booked' \in [Tills -> Int]
    <3> HIDE DEF emptied, filled, takenOut
    <3> QED BY <1>1, <2>1, <2>2, <2>3, DrawerOrdersType
  <2> HIDE DEF filled
  <2> QED
    BY <2>1, <2>2, <2>4 DEF TypeOK, RegisterRefs
<1>5. ASSUME NEW tm \in Terminals, LogoutUser(tm)
      PROVE  TypeOK' /\ UNCHANGED <<registerOf, openShifts, balance>>
  BY <1>3, <1>5 DEF LogoutUser, TypeOK, RegisterRefs
<1>6. ASSUME NEW ts, NEW t, NEW tm \in Terminals \union {NULL}, NEW also,
             Reassign(ts, t, tm, also)
      PROVE  TypeOK' /\ UNCHANGED <<registerOf, openShifts, balance>>
  <2>1. activeRegister' \in RegisterRefs /\ booked' \in [Tills -> Int]
    BY <1>3, <1>6 DEF Reassign
  <2> QED
    BY <1>6, <2>1 DEF Reassign, TypeOK, RegisterRefs
<1> QED
  BY <1>4, <1>5, <1>6
     DEF TerminalStep, RemoveFromTerminal, SwitchTerminal, SwitchTill, UpdateTill

\* A register has one account, so there are finitely many.
LEMMA AccountsAreFinite == IsFiniteSet(Accounts)
<1> DEFINE own == {RegisterAccount(r) : r \in Registers}
           f == [r \in Registers |-> RegisterAccount(r)]
<1>1. f \in Surjection(Registers, own)
  BY DEF Surjection
<1>2. IsFiniteSet(own)
  BY <1>1, RegistersAssumption, FS_Surjection
<1>3. IsFiniteSet({CashVault, CashImbalance, Transport, CashEntry})
  <2>1. IsFiniteSet({CashVault} \union {CashImbalance})
    BY FS_Singleton, FS_Union
  <2>2. IsFiniteSet({Transport} \union {CashEntry})
    BY FS_Singleton, FS_Union
  <2>3. {CashVault, CashImbalance, Transport, CashEntry}
           = ({CashVault} \union {CashImbalance}) \union ({Transport} \union {CashEntry})
    OBVIOUS
  <2>4. IsFiniteSet(({CashVault} \union {CashImbalance}) \union ({Transport} \union {CashEntry}))
    BY <2>1, <2>2, FS_Union
  <2> QED
    BY <2>3, <2>4
<1> QED
  BY <1>2, <1>3, FS_Union DEF Accounts

\* Closing out is two transactions; they leave nothing in the register, so that
\* setting it to zero changes nothing.
LEMMA SettledFacts ==
    ASSUME NEW r \in Registers, NEW n \in Int, balance \in [Accounts -> Int]
    PROVE  /\ Settled(r, n) \in [Accounts -> Int]
           /\ SumOver(Settled(r, n), Accounts) = SumOver(balance, Accounts)
<1> DEFINE a == RegisterAccount(r)
           surplus == -(n - balance[a])
           toVault == BookTransaction(balance, a, CashVault, n)
           settled == BookTransaction(toVault, a, CashImbalance, surplus)
<1>1. /\ a \in Accounts /\ CashVault \in Accounts /\ CashImbalance \in Accounts
      /\ a # CashVault /\ a # CashImbalance /\ IsFiniteSet(Accounts)
  BY RegisterAccounts, AccountsAreFinite
<1>2. /\ toVault \in [Accounts -> Int]
      /\ SumOver(toVault, Accounts) = SumOver(balance, Accounts)
  <2> HIDE DEF a
  <2> QED
    BY <1>1, BookTransactionConserves
<1>3. toVault[a] = balance[a] - n
  <2> HIDE DEF a
  <2> QED
    BY <1>1 DEF BookTransaction, Post, Transaction
<1>4. surplus \in Int /\ balance[a] \in Int
  BY <1>1
<1>5. /\ settled \in [Accounts -> Int]
      /\ SumOver(settled, Accounts) = SumOver(toVault, Accounts)
  <2>1. a \in Accounts /\ CashImbalance \in Accounts /\ a # CashImbalance
        /\ IsFiniteSet(Accounts) /\ toVault \in [Accounts -> Int] /\ surplus \in Int
    BY <1>1, <1>2, <1>4
  <2> HIDE DEF a, toVault, surplus
  <2> QED
    BY <2>1, BookTransactionConserves
<1>6. settled[a] = toVault[a] - surplus
  <2> HIDE DEF a, toVault, surplus
  <2> QED
    BY <1>1, <1>2, <1>4 DEF BookTransaction, Post, Transaction
<1>7. settled[a] = 0
  <2> HIDE DEF a, toVault, settled
  <2> QED
    BY <1>3, <1>4, <1>6
<1>8. Settled(r, n) = [settled EXCEPT ![a] = 0]
  BY DEF Settled
<1>9. Settled(r, n) = settled
  <2> HIDE DEF settled, a
  <2> QED
    BY <1>1, <1>5, <1>7, <1>8
<1> HIDE DEF settled
<1> QED
  BY <1>2, <1>5, <1>9

\* A step of registers keeps the types, and moves money without making any.
LEMMA RegisterStepTypes ==
    ASSUME TypeOK, RegisterStep
    PROVE  TypeOK' /\ SumOver(balance', Accounts) = SumOver(balance, Accounts)
<1>1. /\ activeRegister \in RegisterRefs /\ booked \in [Tills -> Int]
      /\ balance \in [Accounts -> Int]
  BY DEF TypeOK, RegisterRefs
<1>2. /\ \A n \in Amounts \union {0} : n \in Int
      /\ \A n \in SignedAmounts : n \in Int
  <2>1. \A n \in Amounts : n \in Int /\ -n \in Int
    BY AmountsAssumption
  <2>2. \A n \in SignedAmounts : n \in Amounts \/ \E m \in Amounts : n = -m
    BY DEF SignedAmounts
  <2> QED
    BY <2>1, <2>2
<1>3. ASSUME NEW s \in SystemAccounts, NEW t \in Accounts, s # t, NEW n \in Int
      PROVE  /\ BookTransaction(balance, s, t, n) \in [Accounts -> Int]
             /\ SumOver(BookTransaction(balance, s, t, n), Accounts) = SumOver(balance, Accounts)
  <2>1. s \in Accounts
    BY RegisterAccounts DEF SystemAccounts
  <2> QED
    BY <1>1, <1>3, <2>1, AccountsAreFinite, BookTransactionConserves
<1>4. ASSUME NEW u \in Users, NEW r \in Registers, NEW n \in Amounts \union {0}, StockUp(u, r, n)
      PROVE  TypeOK' /\ SumOver(balance', Accounts) = SumOver(balance, Accounts)
  <2> DEFINE inserted == Inserted(u, r, activeRegister)
             stocked == BookTransaction(balance, CashVault, RegisterAccount(r), n)
  <2>1. /\ ConstraintsHold(inserted)
        /\ activeRegister' = inserted
        /\ registerOf' = [registerOf EXCEPT ![u] = r]
        /\ openShifts' = openShifts \union {<<u, r>>}
        /\ balance' = stocked
        /\ booked' = DrawerOrders(booked, activeRegister, inserted, stocked)
        /\ UNCHANGED <<terminalOf, activeUser>>
    BY <1>4 DEF StockUp, Started
  <2>2. inserted \in RegisterRefs
    BY <2>1, ConstrainedType
  <2>3. stocked \in [Accounts -> Int] /\ SumOver(stocked, Accounts) = SumOver(balance, Accounts)
    BY <1>2, <1>3, RegisterAccounts DEF SystemAccounts
  <2> HIDE DEF inserted, stocked
  <2>4. booked' \in [Tills -> Int]
    BY <1>1, <2>1, <2>2, <2>3, DrawerOrdersType
  <2> QED
    BY <2>1, <2>2, <2>3, <2>4 DEF TypeOK, RegisterRefs
<1>5. ASSUME NEW u \in Users, NEW v \in Users, Transfer(u, v)
      PROVE  TypeOK' /\ SumOver(balance', Accounts) = SumOver(balance, Accounts)
  <2> DEFINE r == registerOf[u]
             first == IF LoggedIn(v) THEN Inserted(v, r, activeRegister) ELSE activeRegister
             takenOut == [t \in Tills |-> IF first[t] = r THEN NULL ELSE first[t]]
             second == Inserted(v, r, takenOut)
             books1 == DrawerOrders(booked, activeRegister, first, balance)
             books2 == DrawerOrders(books1, first, takenOut, balance)
  <2>1. /\ r # NULL
        /\ ConstraintsHold(first) /\ ConstraintsHold(second)
        /\ activeRegister' = second
        /\ booked' = DrawerOrders(books2, takenOut, second, balance)
        /\ registerOf' = [registerOf EXCEPT ![u] = NULL, ![v] = r]
        /\ openShifts' = (openShifts \ {<<u, r>>}) \union {<<v, r>>}
        /\ UNCHANGED <<terminalOf, activeUser, balance>>
    BY <1>5 DEF Transfer, Started, Ended
  <2>2. r \in Registers
    BY <2>1 DEF TypeOK
  <2>3. first \in RegisterRefs
    BY <1>1, <2>1, ConstrainedType
  <2>4. second \in RegisterRefs
    <3> HIDE DEF takenOut
    <3> QED BY <2>1, ConstrainedType
  <2>5. takenOut \in RegisterRefs
    <3> HIDE DEF first, r
    <3> QED BY <2>3 DEF RegisterRefs
  <2>6. books1 \in [Tills -> Int]
    <3> HIDE DEF first
    <3> QED BY <1>1, <2>3, DrawerOrdersType
  <2>7. books2 \in [Tills -> Int]
    <3> HIDE DEF first, takenOut, books1
    <3> QED BY <1>1, <2>3, <2>5, <2>6, DrawerOrdersType
  <2>8. booked' \in [Tills -> Int]
    <3> HIDE DEF second, takenOut, books2
    <3> QED BY <1>1, <2>1, <2>4, <2>5, <2>7, DrawerOrdersType
  <2> HIDE DEF second, takenOut, books2, r
  <2> QED
    BY <2>1, <2>2, <2>4, <2>8 DEF TypeOK, RegisterRefs
<1>6. ASSUME NEW u \in Users, NEW t \in Tills, NEW n \in SignedAmounts,
             ModifyCashierBalance(u, t, n)
      PROVE  TypeOK' /\ SumOver(balance', Accounts) = SumOver(balance, Accounts)
  <2>1. registerOf[u] \in Registers
    BY <1>6 DEF ModifyCashierBalance, TypeOK
  <2>2. /\ balance' \in [Accounts -> Int]
        /\ SumOver(balance', Accounts) = SumOver(balance, Accounts)
    BY <1>2, <1>3, <1>6, <2>1, RegisterAccounts DEF ModifyCashierBalance, SystemAccounts
  <2> QED
    BY <1>2, <1>6, <2>2 DEF ModifyCashierBalance, TypeOK
<1>7. ASSUME NEW n \in SignedAmounts, ModifyTransportBalance(n)
      PROVE  TypeOK' /\ SumOver(balance', Accounts) = SumOver(balance, Accounts)
  <2>1. /\ balance' \in [Accounts -> Int]
        /\ SumOver(balance', Accounts) = SumOver(balance, Accounts)
    <3>1. CashVault \in SystemAccounts /\ Transport \in Accounts /\ CashVault # Transport
      BY RegisterAccounts DEF SystemAccounts, CashVault, Transport
    <3> QED
      BY <1>2, <1>3, <1>7, <3>1 DEF ModifyTransportBalance
  <2> QED
    BY <1>7, <2>1 DEF ModifyTransportBalance, TypeOK
<1>8. ASSUME NEW t \in Tills, NEW n \in SignedAmounts, CashOrder(t, n)
      PROVE  TypeOK' /\ SumOver(balance', Accounts) = SumOver(balance, Accounts)
  <2>1. activeRegister[t] \in Registers
    BY <1>8 DEF CashOrder, TypeOK
  <2>2. /\ balance' \in [Accounts -> Int]
        /\ SumOver(balance', Accounts) = SumOver(balance, Accounts)
    BY <1>2, <1>3, <1>8, <2>1, RegisterAccounts DEF CashOrder, SystemAccounts
  <2> QED
    BY <1>2, <1>8, <2>2 DEF CashOrder, TypeOK
<1>9. ASSUME NEW u \in Users, NEW n \in Amounts \union {0}, CloseOut(u, n)
      PROVE  TypeOK' /\ SumOver(balance', Accounts) = SumOver(balance, Accounts)
  <2>1. registerOf[u] \in Registers
    BY <1>9 DEF CloseOut, TypeOK
  <2>2. /\ balance' \in [Accounts -> Int]
        /\ SumOver(balance', Accounts) = SumOver(balance, Accounts)
    BY <1>1, <1>2, <1>9, <2>1, SettledFacts DEF CloseOut
  <2> QED
    BY <1>9, <2>2 DEF CloseOut, Ended, TypeOK
<1> QED
  BY <1>4, <1>5, <1>6, <1>7, <1>8, <1>9 DEF RegisterStep

\* Only the steps that hand a register over start and end shifts.
LEMMA ShiftsFollow ==
    ASSUME TypeOK, TypeOK', ShiftFollowsRegister, RegisterStep
    PROVE  ShiftFollowsRegister'
<1>1. \A w \in Users, s \in Registers : <<w, s>> \in openShifts <=> registerOf[w] = s
  BY ShiftPairs DEF TypeOK, ShiftFollowsRegister
<1>2. SUFFICES \A w \in Users, s \in Registers : <<w, s>> \in openShifts' <=> registerOf'[w] = s
  BY ShiftPairs DEF TypeOK, ShiftFollowsRegister
<1>3. CASE UNCHANGED <<registerOf, openShifts>>
  BY <1>1, <1>3
<1>4. ASSUME NEW u \in Users, NEW r \in Registers, registerOf[u] = NULL,
             registerOf' = [registerOf EXCEPT ![u] = r],
             openShifts' = openShifts \union {<<u, r>>}
      PROVE  \A w \in Users, s \in Registers : <<w, s>> \in openShifts' <=> registerOf'[w] = s
  <2>1. \A w \in Users : registerOf'[w] = IF w = u THEN r ELSE registerOf[w]
    BY <1>4 DEF TypeOK
  <2>2. NULL \notin Registers
    BY IdsAssumption
  <2>3. \A w \in Users, s \in Registers :
           <<w, s>> \in openShifts' <=> <<w, s>> \in openShifts \/ (w = u /\ s = r)
    BY <1>4
  <2>4. registerOf[u] = NULL
    BY <1>4
  <2> SUFFICES ASSUME NEW w \in Users, NEW s \in Registers
               PROVE  <<w, s>> \in openShifts' <=> registerOf'[w] = s
    OBVIOUS
  <2> QED
    BY <1>1, <2>1, <2>2, <2>3, <2>4
<1>5. ASSUME NEW u \in Users, NEW v \in Users, NEW r \in Registers,
             u # v, registerOf[u] = r, registerOf[v] = NULL,
             registerOf' = [registerOf EXCEPT ![u] = NULL, ![v] = r],
             openShifts' = (openShifts \ {<<u, r>>}) \union {<<v, r>>}
      PROVE  \A w \in Users, s \in Registers : <<w, s>> \in openShifts' <=> registerOf'[w] = s
  <2>1. \A w \in Users : registerOf'[w] = IF w = v THEN r ELSE IF w = u THEN NULL ELSE registerOf[w]
    BY <1>5 DEF TypeOK
  <2>2. NULL \notin Registers
    BY IdsAssumption
  <2>3. \A w \in Users, s \in Registers :
           <<w, s>> \in openShifts' <=> (<<w, s>> \in openShifts /\ ~(w = u /\ s = r)) \/ (w = v /\ s = r)
    BY <1>5
  <2>4. u # v /\ registerOf[u] = r /\ registerOf[v] = NULL
    BY <1>5
  <2> SUFFICES ASSUME NEW w \in Users, NEW s \in Registers
               PROVE  <<w, s>> \in openShifts' <=> registerOf'[w] = s
    OBVIOUS
  <2> QED
    BY <1>1, <2>1, <2>2, <2>3, <2>4
<1>6. ASSUME NEW u \in Users, NEW r \in Registers, registerOf[u] = r,
             registerOf' = [registerOf EXCEPT ![u] = NULL],
             openShifts' = openShifts \ {<<u, r>>}
      PROVE  \A w \in Users, s \in Registers : <<w, s>> \in openShifts' <=> registerOf'[w] = s
  <2>1. \A w \in Users : registerOf'[w] = IF w = u THEN NULL ELSE registerOf[w]
    BY <1>6 DEF TypeOK
  <2>2. NULL \notin Registers
    BY IdsAssumption
  <2>3. \A w \in Users, s \in Registers :
           <<w, s>> \in openShifts' <=> <<w, s>> \in openShifts /\ ~(w = u /\ s = r)
    BY <1>6
  <2>4. registerOf[u] = r
    BY <1>6
  <2> SUFFICES ASSUME NEW w \in Users, NEW s \in Registers
               PROVE  <<w, s>> \in openShifts' <=> registerOf'[w] = s
    OBVIOUS
  <2> QED
    BY <1>1, <2>1, <2>2, <2>3, <2>4
<1>7. ASSUME NEW u \in Users, NEW r \in Registers, NEW n, StockUp(u, r, n)
      PROVE  \A w \in Users, s \in Registers : <<w, s>> \in openShifts' <=> registerOf'[w] = s
  <2>1. /\ registerOf[u] = NULL
        /\ registerOf' = [registerOf EXCEPT ![u] = r]
        /\ openShifts' = openShifts \union {<<u, r>>}
    BY <1>7 DEF StockUp, Started
  <2> QED
    BY <2>1, <1>4
<1>8. ASSUME NEW u \in Users, NEW v \in Users, Transfer(u, v)
      PROVE  \A w \in Users, s \in Registers : <<w, s>> \in openShifts' <=> registerOf'[w] = s
  <2>1. /\ u # v /\ registerOf[u] \in Registers /\ registerOf[v] = NULL
        /\ registerOf' = [registerOf EXCEPT ![u] = NULL, ![v] = registerOf[u]]
        /\ openShifts' = (openShifts \ {<<u, registerOf[u]>>}) \union {<<v, registerOf[u]>>}
    BY <1>8 DEF Transfer, Started, Ended, TypeOK
  <2> QED
    BY <2>1, <1>5
<1>9. ASSUME NEW u \in Users, NEW n, CloseOut(u, n)
      PROVE  \A w \in Users, s \in Registers : <<w, s>> \in openShifts' <=> registerOf'[w] = s
  <2>1. /\ registerOf[u] \in Registers
        /\ registerOf' = [registerOf EXCEPT ![u] = NULL]
        /\ openShifts' = openShifts \ {<<u, registerOf[u]>>}
    BY <1>9 DEF CloseOut, Ended, TypeOK
  <2> QED
    BY <2>1, <1>6
<1>10. ASSUME \/ \E u \in Users, t \in Tills, n \in SignedAmounts : ModifyCashierBalance(u, t, n)
              \/ \E n \in SignedAmounts : ModifyTransportBalance(n)
              \/ \E t \in Tills, n \in SignedAmounts : CashOrder(t, n)
       PROVE  UNCHANGED <<registerOf, openShifts>>
  BY <1>10 DEF ModifyCashierBalance, ModifyTransportBalance, CashOrder
<1> QED
  BY <1>3, <1>7, <1>8, <1>9, <1>10 DEF RegisterStep

\* Of these the sum speaks of all accounts, which are the balances there are.
CashInv == TypeOK /\ ShiftFollowsRegister /\ SumOver(balance, Accounts) = 0

\* All is empty at first.
LEMMA CashInit == Init => CashInv
<1> SUFFICES ASSUME Init PROVE CashInv
  OBVIOUS
<1>1. SumOver(balance, Accounts) = 0
  BY AccountsAreFinite, SumOverZero DEF Init
<1> QED
  BY <1>1, InitInvariant DEF IInv, CashInv

\* The steps of registers pair the shifts and book, those of terminals do neither.
LEMMA CashNext == CashInv /\ [Next]_vars => CashInv'
<1> SUFFICES ASSUME CashInv, [Next]_vars PROVE CashInv'
  OBVIOUS
<1>1. CASE TerminalStep
  BY <1>1, TerminalStepTypes DEF CashInv, ShiftFollowsRegister
<1>2. CASE RegisterStep
  BY <1>2, RegisterStepTypes, ShiftsFollow DEF CashInv
<1>3. CASE UNCHANGED vars
  BY <1>3 DEF vars, CashInv, TypeOK, ShiftFollowsRegister
<1> QED
  BY <1>1, <1>2, <1>3 DEF Next

\* So it holds always.
LEMMA CashInvariance == Spec => []CashInv
BY CashInit, CashNext, PTL DEF Spec

\* Every reference stays null or goes to a row that exists.
THEOREM TypeCorrect == Spec => []TypeOK
<1>1. CashInv => TypeOK
  BY DEF CashInv
<1> QED
  BY <1>1, CashInvariance, PTL

\* Every start order of a shift gets its end order: a cashier's shift is open as long as
\* the cashier holds the register.
THEOREM ShiftsArePaired == Spec => []ShiftFollowsRegister
<1>1. CashInv => ShiftFollowsRegister
  BY DEF CashInv
<1> QED
  BY <1>1, CashInvariance, PTL

\* Cash only moves. In particular nothing is lost when a closed out register is set to
\* zero, whatever was counted.
THEOREM NoCashIsMade == Spec => []CashIsConserved
<1>1. CashInv => CashIsConserved
  <2>1. TypeOK => DOMAIN balance = Accounts
    BY DEF TypeOK
  <2> QED
    BY <2>1 DEF CashInv, CashIsConserved, Balanced
<1> QED
  BY <1>1, CashInvariance, PTL
=============================================================================
