SPECIFICATION FairSpec
CONSTANTS
    c1 = c1
    c2 = c2
    Clients = {c1}
    Params <- Reverse
    MaxParallel = 1
    MaxFaults = 1
PROPERTIES
    BrokenIsReported
CHECK_DEADLOCK FALSE
