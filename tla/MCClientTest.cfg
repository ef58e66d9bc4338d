SPECIFICATION FairSpec
CONSTANTS
    HighWater = 3
    YieldInterval = 2
    Deadline = 3
    MaxClock = 5
INVARIANTS
    ErrorIsGenuine
PROPERTIES
    NoStrayTestEnd
    DeadlineKept
    SenderStops
