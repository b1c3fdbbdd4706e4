----------------------------- MODULE Recurrence -----------------------------
(***************************************************************************)
(* When a schedule fires: the pure part of the scheduler the materializer  *)
(* and the provisioner share.  Instants are natural numbers; the calendar  *)
(* of cron-parser and luxon is abstracted to residues: a cron expression   *)
(* matches one residue of its cycle, a calendar period is a span of equal  *)
(* instants.                                                               *)
(***************************************************************************)
EXTENDS Integers, FiniteSetsExt

CONSTANT Null    \* no instant: the schedule is exhausted, or the clock dead

ASSUME NullAssumption == Null \notin Nat

Cron(every, phase) == [kind |-> "cron", every |-> every, phase |-> phase]

RecurringCron(every, phase, unit, size) ==
    [kind |-> "recurring_cron", every |-> every, phase |-> phase,
     unit |-> unit, size |-> size]

Interval(every) == [kind |-> "interval", every |-> every]

OneOff(at) == [kind |-> "one_off", fireAt |-> at]

\* What a rule of a trigger node becomes (toSchedule): never a one-off, and the
\* every-N rule for N >= 2 only.
PlainCrons == {s \in [kind : {"cron"}, every : Nat \ {0}, phase : Nat] : s.phase < s.every}

EveryNth ==
    {s \in [kind : {"recurring_cron"}, every : Nat \ {0}, phase : Nat,
            unit : Nat \ {0}, size : Nat \ {0, 1}] : s.phase < s.every}

TriggerSchedules == PlainCrons \cup EveryNth \cup [kind : {"interval"}, every : Nat \ {0}]

\* The cron expression names t.
Matches(s, t) == t % s.every = s.phase

\* The least match after `after`: one lies in every cycle.
cronNextRun(s, after) ==
    CHOOSE t \in (after + 1)..(after + s.every) : Matches(s, t)

periodsBetween(s, from, to) == (to \div s.unit) - (from \div s.unit)

\* A bug to detect: only exactly `size` periods later is on the cadence.
isExactlyOnCadence(s, previousFire, candidate) ==
    periodsBetween(s, previousFire, candidate) = s.size

isOnCadence(s, previousFire, candidate) ==
    LET elapsed == periodsBetween(s, previousFire, candidate)
    IN  elapsed = 0 \/ elapsed >= s.size

\* advanceToOnCadence: a match of the period `size` ahead is always kept.
recurringCronNextRun(s, after) ==
    Min({t \in (after + 1)..(after + (s.size + 1) * s.unit + s.every) :
           Matches(s, t) /\ isOnCadence(s, after, t)})

computeNextRunAt(s, after) ==
    CASE s.kind = "cron" -> cronNextRun(s, after)
      [] s.kind = "recurring_cron" -> recurringCronNextRun(s, after)
      [] s.kind = "interval" -> after + s.every
      [] s.kind = "one_off" -> IF after < s.fireAt THEN s.fireAt ELSE Null

\* The every-N rule has no fire to count from yet.
computeFirstRunAt(s, from) ==
    IF s.kind = "recurring_cron" THEN cronNextRun(s, from)
    ELSE computeNextRunAt(s, from)

\* The n-th fire, from 0, of the walk occurrencesFrom(s, first), for n <= limit.
occurrencesFrom(s, first, limit) ==
    LET fire[n \in 0..limit] ==
          IF n = 0 THEN first
          ELSE IF s.kind = "one_off" \/ fire[n - 1] = Null THEN Null
          ELSE computeNextRunAt(s, fire[n - 1])
    IN  fire

\* The walk stops at the end of the window or of the batch; the clock lands on
\* the first fire it did not record.
planOccurrences(s, first, now, window, maxPerJob) ==
    LET fire == occurrencesFrom(s, first, maxPerJob)
        kept == {n \in 0..(maxPerJob - 1) :
                   fire[n] # Null /\ fire[n] <= now + window}
    IN  [occurrences |-> {fire[n] : n \in kept},
         nextRunAt |-> fire[Cardinality(kept)]]

-----------------------------------------------------------------------------
\* What a walk anchored at `since` ought to fire up to `limit`, as a set and
\* without walking: the reference the materializer is checked against.  The
\* every-N rule keeps every size-th period counted from the anchor's, provided
\* each period holds a match (every <= unit).
ReferenceFires(s, since, limit) ==
    {t \in since..limit :
       \/ t = since
       \/ s.kind = "cron" /\ Matches(s, t)
       \/ s.kind = "interval" /\ (t - since) % s.every = 0
       \/ /\ s.kind = "recurring_cron"
          /\ Matches(s, t)
          /\ periodsBetween(s, since, t) % s.size = 0}

\* The instants the schedule itself names; an interval names none.
IsRealFire(s, t) ==
    CASE s.kind \in {"cron", "recurring_cron"} -> Matches(s, t)
      [] s.kind = "one_off" -> t = s.fireAt
      [] OTHER -> TRUE
=============================================================================
