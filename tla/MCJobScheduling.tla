--------------------------- MODULE MCJobScheduling ---------------------------
(* Instances of JobScheduling for TLC.                                     *)
EXTENDS JobScheduling

CONSTANTS cron, every, never

MCScheduleOf ==
    [n \in Names |-> CASE n = cron -> Cron(2, 1)
                       [] n \in {every, never} -> Interval(1)]

MCRuleSets == {{cron, every}, {every, never}}

MCPlannedSchedules ==
    {Cron(e, p) : e \in 1..3, p \in {0}} \cup {Interval(e) : e \in 1..3}
      \cup {OneOff(t) : t \in {0}}
      \cup {RecurringCron(e, 0, 2, z) : e \in 1..2, z \in 2..3}
=============================================================================
