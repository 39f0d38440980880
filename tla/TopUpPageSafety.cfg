SPECIFICATION PageSpec
CONSTANTS
    c = c
    Orders = {o1, o2}
    OnlineOrders = {o1, o2}
    Customers = {c}
    CustomerOf <- MCCustomerOf
    AmountOf <- MCAmountOf
    MaxBalance = 4
    Poison = {}
    Checks = {1, 2}
INVARIANTS
    SuccessMeansCredit
    WidgetIsForThisOrder
CHECK_DEADLOCK FALSE
