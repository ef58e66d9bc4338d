SPECIFICATION FairSpec
CONSTANTS
    c1 = c1
    c2 = c2
    Clients = {c1, c2}
    Params <- TwoAndOne
    MaxParallel = 2
    MaxFaults = 1
INVARIANTS
    StreamsExact
    InStep
    FinishedTogether
PROPERTIES
    ImplementsContract
    Freed
    NoLeftovers
    AcceptedFinish
CHECK_DEADLOCK FALSE
