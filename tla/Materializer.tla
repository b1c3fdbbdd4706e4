---------------------------- MODULE Materializer ----------------------------
(***************************************************************************)
(* The materializer: a pass claims the jobs whose next run is due, plans   *)
(* their occurrences against the time of the claim, records them and       *)
(* advances the clocks, in one transaction.  A job that cannot be planned  *)
(* is deferred, the others of the batch are not.                           *)
(***************************************************************************)
EXTENDS ScheduledJobStore

CONSTANTS
    Window,       \* windowSeconds: how far ahead occurrences are recorded
    MaxPerJob,    \* occurrences recorded per job and pass
    PlanRetry     \* planRetrySeconds: how far a failed job is pushed out

ASSUME MaterializerAssumption ==
    /\ Window \in Nat
    /\ {MaxPerJob, PlanRetry} \subseteq Nat \ {0}

VARIABLE pass    \* per pass: the claim it works on, or Null

\* A claim: the time it was made at and the rows as they were read.
IsClaim(c) ==
    /\ DOMAIN c = {"now", "rows"}
    /\ c.now \in 0..MaxNow
    /\ DOMAIN c.rows \subseteq Names
    /\ \A n \in DOMAIN c.rows : c.rows[n] \in Row

MaterializerTypeOK ==
    /\ DOMAIN pass = Passes
    /\ \A p \in Passes : pass[p] = Null \/ IsClaim(pass[p])

MaterializerInit == pass = [p \in Passes |-> Null]

-----------------------------------------------------------------------------
\* A bug to detect: a job that cannot be planned loses its clock.
DropUnplannable(n, row, at, failing) ==
    IF row.intact /\ n \notin failing
    THEN planOccurrences(ScheduleOf[n], row.clock, at, Window, MaxPerJob)
    ELSE [occurrences |-> {}, nextRunAt |-> Null]

\* planOrDeferJob.  A deferred job records nothing and is retried later; its
\* clock stays set, null is reserved for an exhausted schedule.
planOrDeferJob(n, row, at, failing) ==
    IF row.intact /\ n \notin failing
    THEN planOccurrences(ScheduleOf[n], row.clock, at, Window, MaxPerJob)
    ELSE [occurrences |-> {}, nextRunAt |-> at + PlanRetry]

\* planOrDeferJobs over the rows of a claim.
planOrDeferJobs(claim, failing) ==
    [n \in DOMAIN claim.rows |->
       planOrDeferJob(n, claim.rows[n], claim.now, failing)]

\* Where the fires of the row are counted from once the plan is applied.
Anchor(n, row, plan, failing) ==
    IF row.intact /\ n \notin failing THEN row.since ELSE plan.nextRunAt

toNewOccurrences(claim, plans) ==
    UNION {{[name |-> n, id |-> claim.rows[n].id, at |-> t,
             def |-> claim.rows[n].def, status |-> "pending"]
              : t \in plans[n].occurrences} : n \in DOMAIN plans}

\* advanceMany: the clock, and nothing else, of the claimed rows, by id.
advanceMany(rows, claim, plans, failing) ==
    [n \in Names |->
       IF n \in DOMAIN plans /\ rows[n] # Null /\ rows[n].id = claim.rows[n].id
       THEN [rows[n] EXCEPT
               !.clock = plans[n].nextRunAt,
               !.since = Anchor(n, claim.rows[n], plans[n], failing)]
       ELSE rows[n]]

-----------------------------------------------------------------------------
\* A bug to detect: the claim reads the rows and does not lock them.
ClaimUnlocked(p) ==
    /\ pass[p] = Null
    /\ \E S \in ClaimBatches :
        /\ S # {}
        /\ pass' = [pass EXCEPT ![p] = [now |-> now, rows |-> [n \in S |-> job[n]]]]
    /\ UNCHANGED <<now, job, task, lock, lastId, faults>>

\* claimDueJobs: the rows are locked, a concurrent pass claims others.
ClaimDueJobs(p) ==
    /\ pass[p] = Null
    /\ \E S \in ClaimBatches :
        /\ S # {}
        /\ pass' = [pass EXCEPT ![p] = [now |-> now, rows |-> [n \in S |-> job[n]]]]
        /\ Lock(S, p)
    /\ UNCHANGED <<now, job, task, lastId, faults>>

\* The rest of materialize, up to the commit.  Planning may fail for a passing
\* reason: a timezone this instance does not know, a misconfigured default.
RecordAndAdvance(p) ==
    /\ pass[p] # Null
    /\ \E failing \in SUBSET DOMAIN pass[p].rows :
        LET plans == planOrDeferJobs(pass[p], failing)
        IN  /\ IF failing = {} THEN UNCHANGED faults ELSE Fault
            /\ task' = insertIgnoringDuplicates(task, toNewOccurrences(pass[p], plans))
            /\ job' = advanceMany(job, pass[p], plans, failing)
    /\ pass' = [pass EXCEPT ![p] = Null]
    /\ Unlock(p)
    /\ UNCHANGED <<now, lastId>>

\* A bug to detect: the clocks are advanced outside the transaction.
AbandonAfterAdvance(p) ==
    /\ pass[p] # Null
    /\ job' = advanceMany(job, pass[p], planOrDeferJobs(pass[p], {}), {})
    /\ pass' = [pass EXCEPT ![p] = Null]
    /\ Unlock(p)
    /\ Fault
    /\ UNCHANGED <<now, task, lastId>>

\* signal.throwIfAborted at a checkpoint, a failed statement or a crash: the
\* transaction rolls back and leaves no trace.
AbandonPass(p) ==
    /\ pass[p] # Null
    /\ pass' = [pass EXCEPT ![p] = Null]
    /\ Unlock(p)
    /\ Fault
    /\ UNCHANGED <<now, job, task, lastId>>
=============================================================================
