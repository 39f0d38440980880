SPECIFICATION Spec
CONSTANTS
    Customers = {anna, ben}
    Nobody = nobody
    MaxLogins = 2
SYMMETRY CustomersAlike
INVARIANTS
    TypeOK
    KeptApart
    OthersDataIsReplaced
PROPERTIES
    StaysLoggedIn
CHECK_DEADLOCK FALSE
