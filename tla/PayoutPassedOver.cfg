SPECIFICATION Spec
CONSTANTS
    Customers = {1, 2}
    Presale = {2}
    Ibans = {i}
    NumRuns = 2
    PayoutSums = {0, 4}
    MaxNumPayouts = 2
    Amounts = {1}
    MaxBalance = 2
PROPERTIES
    NobodyIsPassedOver
CHECK_DEADLOCK FALSE
