SPECIFICATION Spec
CONSTANTS
    Null = Null
    cron = cron
    every = every
    never = never
    Names = {cron, every, never}
    PlannedSchedules <- MCPlannedSchedules
    RuleSets <- MCRuleSets
    ScheduleOf <- ClaimScheduleOf
    Passes = {p1}
    Mains = {m1}
    Lookahead = 2
    BatchSize = 1
    MaxNow = 2
    MaxJobs = 2
    MaxRegistrations = 1
    MaxFaults = 1
    Degenerate = {never}
    MaxSkew = 0
    Window = 1
    MaxPerJob = 2
    PlanRetry = 1
CHECK_DEADLOCK FALSE
INVARIANTS
    OccurrencesAreFires
