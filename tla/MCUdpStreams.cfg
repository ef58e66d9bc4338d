SPECIFICATION FairSpec
CONSTANTS
    Clients = {c1, c2}
    Parallel = 3
    Nobody = Nobody
INVARIANTS
    HelloHeard
    SameOrder
PROPERTIES
    SlotFreed
    AllOpen
CHECK_DEADLOCK FALSE
