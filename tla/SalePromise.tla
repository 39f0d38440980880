---------------------------- MODULE SalePromise ------------------------------
(***************************************************************************)
(* What the orders at the tills promise their customers: every order       *)
(* counts once and for one customer, may be undone once and then leaves    *)
(* nothing behind, and puts nobody into debt, with money or with vouchers. *)
(* Editing an order is undoing it and booking another one, both or neither.*)
(* Vouchers are also set by hand, to any number: whoever owes some because *)
(* of that does not owe more because of an order.                          *)
(***************************************************************************)
EXTENDS Integers

CONSTANTS
    Orders,
    Customers

\* A customer has money and vouchers.
Purses == Customers \X {"money", "vouchers"}

VARIABLES
    stage,     \* "open", "standing" or "undone"
    effect,    \* what an order adds to the purses
    purse,     \* what is in them
    granted    \* the vouchers that were given away, less those taken back

vars == <<stage, effect, purse, granted>>

Init ==
    /\ stage = [o \in Orders |-> "open"]
    /\ effect = [o \in Orders |-> [p \in Purses |-> 0]]
    /\ purse = [p \in Purses |-> 0]
    /\ granted = 0

\* The effects e and f are on the purses of one customer, if on any.
OneCustomer(e, f) ==
    \A p, q \in Purses : (e[p] # 0 \/ f[p] # 0) /\ (e[q] # 0 \/ f[q] # 0) => p[1] = q[1]

\* The effect of o, and of no other order, becomes known.
EffectOf(o) ==
    /\ effect' \in [Orders -> [Purses -> Int]]
    /\ \A x \in Orders \ {o} : effect'[x] = effect[x]

Book(o) ==
    /\ stage[o] = "open"
    /\ stage' = [stage EXCEPT ![o] = "standing"]
    /\ EffectOf(o)
    /\ OneCustomer(effect'[o], effect'[o])
    /\ purse' = [p \in Purses |-> purse[p] + effect'[o][p]]
    /\ UNCHANGED granted

Undo(o) ==
    /\ stage[o] = "standing"
    /\ stage' = [stage EXCEPT ![o] = "undone"]
    /\ purse' = [p \in Purses |-> purse[p] - effect[o][p]]
    /\ UNCHANGED <<effect, granted>>

Replace(o, n) ==
    /\ stage[o] = "standing" /\ stage[n] = "open"
    /\ stage' = [stage EXCEPT ![o] = "undone", ![n] = "standing"]
    /\ EffectOf(n)
    /\ OneCustomer(effect[o], effect'[n])
    /\ purse' = [p \in Purses |-> purse[p] - effect[o][p] + effect'[n][p]]
    /\ UNCHANGED granted

\* What an order leaves in a purse is no debt, or no less than was in it.
NoDebtMade == \A p \in Purses : purse'[p] >= 0 \/ purse'[p] >= purse[p]

\* A customer is given vouchers, or they are taken away. No order does that.
Grant(c) ==
    /\ \A p \in Purses \ {<<c, "vouchers">>} : purse'[p] = purse[p]
    /\ purse'[<<c, "vouchers">>] - purse[<<c, "vouchers">>] = granted' - granted
    /\ UNCHANGED <<stage, effect>>

Next ==
    \/ /\ \/ \E o \in Orders : Book(o) \/ Undo(o)
          \/ \E o, n \in Orders : Replace(o, n)
       /\ NoDebtMade
    \/ \E c \in Customers : Grant(c)

Spec == Init /\ [][Next]_vars
=============================================================================
