---------------------------- MODULE MCTopUpPage ------------------------------
\* Two top-ups in the portal, made one after the other by the same customer.
EXTENDS TopUpPage

CONSTANT c

MCCustomerOf == [o \in Orders |-> c]
MCAmountOf == [o \in Orders |-> 2]
=============================================================================
