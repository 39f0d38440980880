------------------------------ MODULE MCSales --------------------------------
(* Carts and symmetry for the runs of Sales. *)
EXTENDS Sales, TLC

\* A beer in a cup with deposit, which a voucher pays; cups that are returned.
MCCarts == {[goods |-> 2, deposit |-> 1, takes |-> 1, worth |-> 2],
            [goods |-> 0, deposit |-> -1, takes |-> 0, worth |-> 0]}

\* Vouchers set to a debt. Numbers above it are reached by grants.
MCOverrides == {-1}

MCSymmetry == Permutations(Orders) \union Permutations(Customers) \union Permutations(Tags)
=============================================================================
