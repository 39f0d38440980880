--------------------------- MODULE SigningPromise ----------------------------
(***************************************************************************)
(* What the fiscal signing of orders promises: an order is put through a   *)
(* security device (TSE) at most once, it counts as signed only if it was, *)
(* and once its outcome is known it stays.                                 *)
(***************************************************************************)
EXTENDS Naturals

CONSTANT Orders

VARIABLES
    outcome,      \* "none", "waiting", "signed" or "failed"
    signatures    \* how many signatures the devices made for an order

vars == <<outcome, signatures>>

Init ==
    /\ outcome = [o \in Orders |-> "none"]
    /\ signatures = [o \in Orders |-> 0]

Request(o) ==
    /\ outcome[o] = "none"
    /\ outcome' = [outcome EXCEPT ![o] = "waiting"]
    /\ UNCHANGED signatures

Sign(o) ==
    /\ outcome[o] = "waiting" /\ signatures[o] = 0
    /\ signatures' = [signatures EXCEPT ![o] = 1]
    /\ UNCHANGED outcome

\* Waiting orders fail, alone or together, and it may be that the device has
\* signed one all the same, without an answer.
Fail(S) ==
    /\ \A o \in S : outcome[o] = "waiting"
    /\ outcome' = [o \in Orders |-> IF o \in S THEN "failed" ELSE outcome[o]]
    /\ \/ UNCHANGED signatures
       \/ \E o \in S : /\ signatures[o] = 0
                       /\ signatures' = [signatures EXCEPT ![o] = 1]

Succeed(o) ==
    /\ outcome[o] = "waiting" /\ signatures[o] = 1
    /\ outcome' = [outcome EXCEPT ![o] = "signed"]
    /\ UNCHANGED signatures

Next ==
    \/ \E o \in Orders : Request(o) \/ Sign(o) \/ Succeed(o)
    \/ \E S \in SUBSET Orders : Fail(S)

Spec == Init /\ [][Next]_vars
=============================================================================
