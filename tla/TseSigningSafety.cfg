SPECIFICATION FairSpec
CONSTANTS
    a = a
    b = b
    d1 = d1
    d2 = d2
    Tses = {d1, d2}
    Tills = {a, b}
    Orders = {1, 2, 3}
    TillOf <- MCTillOf
    Interrupting = {1, 2}
    MaxRestarts = 1
INVARIANTS
    NeverSignedTwice
    OneAtATime
    SignedByItsTse
PROPERTIES
    FinalStays
    ImplementsPromise
    OutcomeComes
