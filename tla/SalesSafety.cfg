CONSTANTS
    Orders = {o1, o2, o3}
    Customers = {c1, c2}
    Tags = {g1, g2}
    Tills = {t1, t2}
    CashTills = {t1}
    Carts <- MCCarts
    TopUps = {3}
    PayOuts = {1}
    MaxBalance = 5
    Overrides <- MCOverrides
    MaxGranted = 2
SYMMETRY MCSymmetry
SPECIFICATION Spec
INVARIANTS
    NoDebt
    LedgerMatchesOrders
    CashBacksCredit
    TagsAreTraceable
PROPERTY ImplementsPromise
CHECK_DEADLOCK FALSE
