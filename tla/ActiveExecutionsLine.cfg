SPECIFICATION FairSpec
CONSTANTS
    Calls = {c1, c2, c3}
    NoCall = NoCall
    Limit = 1
    MaxStops = 1
    MaxRestarts = 0
    MaxFaults = 1
CHECK_DEADLOCK FALSE
INVARIANTS
    OverrunOnlyByStops
PROPERTIES
    FirstComeFirstServed
    EventuallyServed
