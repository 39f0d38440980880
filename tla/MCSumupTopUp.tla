--------------------------- MODULE MCSumupTopUp ------------------------------
\* A top-up at a terminal and one in the portal, of the same customer. Each is
\* within the limit of 5, the two together are not.
EXTENDS SumupTopUp

CONSTANTS ot, op, c

MCOrders == {ot, op}
MCCustomerOf == [o \in MCOrders |-> c]
MCAmountOf == [o \in MCOrders |-> IF o = ot THEN 3 ELSE 4]
=============================================================================
