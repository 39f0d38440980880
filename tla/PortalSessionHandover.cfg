SPECIFICATION Spec
CONSTANTS
    Customers = {anna, ben}
    Nobody = nobody
    MaxLogins = 2
SYMMETRY CustomersAlike
INVARIANTS
    BankDataIsOwn
CHECK_DEADLOCK FALSE
