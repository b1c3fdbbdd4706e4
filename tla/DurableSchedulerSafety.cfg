CONSTANTS
    Hosts = {h1, h2}
    Tasks = {t1}
    Nobody = Nobody
    MaxAttempts = 2
    LeaseTicks = 2
    Lookahead = 1
    BatchSize = 1
    BackoffBase = 2
    BackoffFactor = 2
    BackoffMax = 2
    MaxEpoch = 6
    MaxFaults = 2
SPECIFICATION FairSpec
INVARIANTS
    TypeOK
    SingleOwner
    DispatchMutex
    RetryBudget
    DispatchedNotFailed
    IInv
PROPERTIES
    LeaseHonoured
    StartsAreCounted
    ReaperKeepsDispatched
    OutcomeIsFinal
    ImplementsLifecycle
    EventuallySettled
