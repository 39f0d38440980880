SPECIFICATION Spec
CONSTANTS
    ot = ot
    op = op
    c = c
    Orders <- MCOrders
    OnlineOrders = {op}
    Customers = {c}
    CustomerOf <- MCCustomerOf
    AmountOf <- MCAmountOf
    MaxBalance = 5
    Poison = {}
INVARIANTS
    BalanceLimited
CHECK_DEADLOCK FALSE
