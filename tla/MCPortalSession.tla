-------------------------- MODULE MCPortalSession ---------------------------
\* Two customers, one after the other, in the same tab.
EXTENDS PortalSession, TLC

CustomersAlike == Permutations(Customers)
=============================================================================
