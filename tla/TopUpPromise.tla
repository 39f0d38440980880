--------------------------- MODULE TopUpPromise ------------------------------
(***************************************************************************)
(* What card top-ups promise, whoever carries them out: an order is        *)
(* credited to its customer only after its payment went through, for its   *)
(* full amount, and never twice.                                           *)
(***************************************************************************)
EXTENDS Ledger

CONSTANTS
    Orders,       \* the top-up orders, each known by its uuid
    Accounts,     \* the accounts of the ledger
    CustomerOf,   \* the customer account an order is to be credited to
    EntryOf,      \* the entry account its money comes from
    AmountOf      \* its amount

VARIABLES
    paid,         \* orders whose payment went through
    credited,     \* orders that have been credited
    balance       \* balances of the accounts

vars == <<paid, credited, balance>>

Init ==
    /\ paid = {}
    /\ credited = {}
    /\ balance = [a \in Accounts |-> 0]

Pay(o) ==
    /\ o \notin paid
    /\ paid' = paid \union {o}
    /\ UNCHANGED <<credited, balance>>

Credit(o) ==
    /\ o \in paid \ credited
    /\ credited' = credited \union {o}
    /\ balance' = BookTransaction(balance, EntryOf[o], CustomerOf[o], AmountOf[o])
    /\ UNCHANGED paid

Next == \E o \in Orders: Pay(o) \/ Credit(o)

Spec == Init /\ [][Next]_vars
=============================================================================
