SPECIFICATION FairSpec
CONSTANTS
    a = a
    b = b
    d1 = d1
    d2 = d2
    Tses = {d1}
    Tills = {a, b}
    Orders = {1, 2, 3}
    TillOf <- MCTillOf
    Interrupting = {}
    MaxRestarts = 0
PROPERTIES
    FailsWithoutTse
