------------------------- MODULE MaterializerClaims -------------------------
(* What comments of the materializer say, and its code does not hold to.   *)
EXTENDS MCJobScheduling

ClaimScheduleOf ==
    [n \in Names |-> CASE n = cron -> RecurringCron(2, 1, 2, 2)
                       [] n \in {every, never} -> Interval(1)]

\* next-run.ts: the first instant of the walk of a recurring_cron "must be a real
\* fire, not an arbitrary lower bound".  A deferral puts the retry instant into
\* nextRunAt, and the walk that heals the job yields it as an occurrence.
OccurrencesAreFires ==
    \A k \in task : IsRealFire(ScheduleOf[k.name], k.at)
=============================================================================
