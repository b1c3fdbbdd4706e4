SPECIFICATION FairSpec
CONSTANTS
    Null = Null
    cron = cron
    every = every
    never = never
    Names = {cron, every, never}
    PlannedSchedules <- MCPlannedSchedules
    RuleSets <- MCRuleSets
    ScheduleOf <- MCScheduleOf
    Passes = {p1}
    Mains = {m1, m2}
    Lookahead = 2
    BatchSize = 1
    MaxNow = 2
    MaxJobs = 4
    MaxRegistrations = 2
    MaxFaults = 1
    Degenerate = {never}
    MaxSkew = 1
    Window = 1
    MaxPerJob = 2
    PlanRetry = 2
CHECK_DEADLOCK FALSE
INVARIANTS
    TypeOK
    PlansMatchReference
    NothingSkipped
    
    NoDoubleFire
PROPERTIES
    EventuallyRecorded
