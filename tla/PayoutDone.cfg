SPECIFICATION Spec
CONSTANTS
    Customers = {1, 2}
    Presale = {2}
    Ibans = {i}
    NumRuns = 2
    PayoutSums = {1, 2}
    MaxNumPayouts = 2
    Amounts = {1}
    MaxBalance = 2
INVARIANTS
    DoneRunsAreBooked
CHECK_DEADLOCK FALSE
