SPECIFICATION Spec
CONSTANTS
    Clients = {c1}
    Parallel = 2
    Nobody = Nobody
INVARIANTS
    NoSocketAfterClose
CHECK_DEADLOCK FALSE
