SPECIFICATION WorkerSpec
CONSTANTS
    e1 = e1
    e2 = e2
    q1 = q1
    q2 = q2
    q3 = q3
    c1 = c1
    Creates = {e1, e2}
    Claims = {q1, q2, q3}
    Codes = {c1}
    Ttls = {1, 2}
    Reads = {1, 2, 3}
    Limits <- SmallLimits
    OpenMode = TRUE
    MaxAttempts = 2
    MaxTime = 1
    a1 = a1
    a2 = a2
    r1 = r1
    r2 = r2
    r3 = r3
    Requests = {a1, a2}
    RoomCodes = {r1, r2, r3}
    MaxCodeAttempts = 2
SYMMETRY Symmetric
INVARIANTS
    DistinctReads
    ServedInTime
    CreatedIsKept
    OwnsRoom
CHECK_DEADLOCK FALSE
