--------------------------- MODULE PayoutPromise -----------------------------
(***************************************************************************)
(* What a payout promises a customer: what is due is fixed when the        *)
(* customer is scheduled, does not change while it is, and is moved once,  *)
(* as a whole or not at all. Until then the payout may be called off, and  *)
(* nothing has moved; afterwards it is over for good.                      *)
(***************************************************************************)
EXTENDS Integers

CONSTANT Customers

Purposes == {"sepa_exit", "donation_exit"}
Nothing == [p \in Purposes |-> 0]

VARIABLES
    claim,   \* "none", "scheduled" or "settled"
    due,     \* how much, and for which purpose
    moved    \* what has left the customer's account

vars == <<claim, due, moved>>

Init ==
    /\ claim = [c \in Customers |-> "none"]
    /\ due = [c \in Customers |-> Nothing]
    /\ moved = [c \in Customers |-> Nothing]

\* Payouts are made for several customers at a time.
Schedule(S) ==
    /\ \A c \in S : claim[c] = "none"
    /\ claim' = [c \in Customers |-> IF c \in S THEN "scheduled" ELSE claim[c]]
    /\ due' \in [Customers -> [Purposes -> Nat]]
    /\ \A c \in Customers \ S : due'[c] = due[c]
    /\ UNCHANGED moved

CallOff(S) ==
    /\ \A c \in S : claim[c] = "scheduled"
    /\ claim' = [c \in Customers |-> IF c \in S THEN "none" ELSE claim[c]]
    /\ due' = [c \in Customers |-> IF c \in S THEN Nothing ELSE due[c]]
    /\ UNCHANGED moved

Settle(S) ==
    /\ \A c \in S : claim[c] = "scheduled"
    /\ claim' = [c \in Customers |-> IF c \in S THEN "settled" ELSE claim[c]]
    /\ \E paid \in SUBSET S :
           moved' = [c \in Customers |-> IF c \in paid THEN due[c] ELSE moved[c]]
    /\ UNCHANGED due

Next == \E S \in SUBSET Customers : Schedule(S) \/ CallOff(S) \/ Settle(S)

Spec == Init /\ [][Next]_vars
=============================================================================
