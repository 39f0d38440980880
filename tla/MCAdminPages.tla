---------------------------- MODULE MCAdminPages ----------------------------
\* An event with one stand.
EXTENDS AdminPages

CONSTANTS event, stand

MCAbove == [n \in {event, stand} |-> {event, n}]
=============================================================================
