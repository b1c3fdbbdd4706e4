CONSTANTS
    Hosts = {h1, h2}
    Tasks = {t1}
    Nobody = Nobody
    NoRow = NoRow
    Prompt = FALSE
    MaxAttempts = 2
    LeaseTicks = 1
    Lookahead = 0
    BatchSize = 1
    BackoffBase = 1
    BackoffFactor = 2
    BackoffMax = 1
    MaxEpoch = 4
    MaxFaults = 0
SPECIFICATION TriggerSpec
INVARIANTS
    ReclaimedIsAbandoned
