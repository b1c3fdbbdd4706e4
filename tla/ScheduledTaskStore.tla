------------------------- MODULE ScheduledTaskStore -------------------------
(***************************************************************************)
(* The scheduled_task table of n8n's durable scheduler, and the statements *)
(* ScheduledTaskRepository runs against it.  Each statement is one atomic  *)
(* step on one row (claimDueTasks: on a batch of rows), and is written     *)
(* here as a guard and a new row, so that the actors - executors and       *)
(* reapers on several mains - can interleave between any two statements.   *)
(*                                                                         *)
(* Time is the database clock, kept relative: a row holds the ticks left   *)
(* until its runAt and until its leaseExpiresAt, and Tick counts both down.*)
(***************************************************************************)
EXTENDS Integers, FiniteSets

CONSTANTS
    Hosts,        \* the mains: instances running an executor and a reaper
    Tasks,        \* ids of the scheduled_task rows (one per occurrence)
    Nobody,       \* claimedBy IS NULL
    MaxAttempts,  \* maxAttempts of a row
    LeaseTicks,   \* leaseMs
    Lookahead,    \* lookaheadMs: how far past now a claim reaches
    BatchSize,    \* rows one claim, or one sweep, takes at most
    BackoffBase,  \* baseMs of the retry backoff
    BackoffFactor, \* its factor
    BackoffMax,   \* its maxMs
    MaxEpoch      \* bound on leaseEpoch, for model checking

(***************************************************************************)
(* backoff: exponential in the attempt that just failed, and capped.       *)
(***************************************************************************)
backoff(attempts) ==
    IF attempts < 1 THEN 0
    ELSE LET raw == BackoffBase * BackoffFactor ^ (attempts - 1)
         IN  IF raw < BackoffMax THEN raw ELSE BackoffMax

ASSUME HostsAssumption == Nobody \notin Hosts
ASSUME BoundsAssumption ==
    /\ MaxAttempts \in Nat \ {0}
    /\ LeaseTicks \in Nat \ {0}
    /\ Lookahead \in Nat
    /\ BatchSize \in Nat \ {0}
    /\ MaxEpoch \in Nat
    /\ BackoffMax \in Nat
ASSUME BackoffAssumption ==
    \A n \in 1..MaxAttempts : backoff(n) \in 0..BackoffMax

VARIABLE task     \* the rows

-----------------------------------------------------------------------------
Terminal == {"succeeded", "failed"}
Statuses == {"pending", "running"} \cup Terminal

NoLease == -1     \* leaseExpiresAt IS NULL

Row == [status       : Statuses,
        attempts     : 0..MaxAttempts,
        claimedBy    : Hosts \cup {Nobody},
        leaseEpoch   : 0..MaxEpoch,
        lease        : NoLease..LeaseTicks,  \* ticks to leaseExpiresAt
        wait         : 0..BackoffMax,        \* ticks to runAt
        startedAt    : BOOLEAN,              \* IS NOT NULL
        dispatchedAt : BOOLEAN]

\* What a claim hands to the executor: the row's identity, the epoch it was
\* claimed under and the attempts counted so far.
Claim == [id : Tasks, epoch : 1..MaxEpoch, attempts : 0..MaxAttempts]

StoreTypeOK == task \in [Tasks -> Row]

\* A row as the materializer records it: due now or a little later.
StoreInit ==
    \E w \in [Tasks -> 0..BackoffMax] :
        task = [t \in Tasks |->
                  [status |-> "pending", attempts |-> 0, claimedBy |-> Nobody,
                   leaseEpoch |-> 0, lease |-> NoLease, wait |-> w[t],
                   startedAt |-> FALSE, dispatchedAt |-> FALSE]]

-----------------------------------------------------------------------------
(* The claim.                                                              *)

Due == {t \in Tasks : task[t].status = "pending" /\ task[t].wait <= Lookahead}

\* The batches the SELECT ... ORDER BY runAt LIMIT batchSize may return.
ClaimBatches ==
    {S \in SUBSET Due :
        /\ S # {}
        /\ Cardinality(S) <= BatchSize
        /\ S # Due => Cardinality(S) = BatchSize
        /\ \A t \in S, u \in Due \ S : task[t].wait <= task[u].wait}

\* A bug to detect: every claim starts the epoch anew.
ClaimedAnew(row, h) ==
    [row EXCEPT !.status = "running", !.claimedBy = h,
                !.lease = LeaseTicks, !.leaseEpoch = 1]

Claimed(row, h) ==
    [row EXCEPT !.status = "running", !.claimedBy = h,
                !.lease = LeaseTicks, !.leaseEpoch = @ + 1]

claimDueTasks(h, S) ==
    /\ S \in ClaimBatches
    /\ \A t \in S : task[t].leaseEpoch < MaxEpoch
    /\ task' = [t \in Tasks |-> IF t \in S THEN Claimed(task[t], h) ELSE task[t]]

-----------------------------------------------------------------------------
(* The owner's updates, fenced on the claim (runGuardedUpdate).  They take *)
(* effect when the row is still owned and otherwise affect no row.         *)

\* A bug to detect: the fence forgets the status of the row.
OwnsAnyStatus(f) ==
    /\ task[f.id].claimedBy = f.host
    /\ task[f.id].leaseEpoch = f.epoch

Owns(f) ==
    /\ task[f.id].status = "running"
    /\ task[f.id].claimedBy = f.host
    /\ task[f.id].leaseEpoch = f.epoch

runGuardedUpdate(f, row) ==
    task' = IF Owns(f) THEN [task EXCEPT ![f.id] = row] ELSE task

\* Bugs to detect: a marker survives the return to pending.
UnclaimedKeepsStarted(row) ==
    [row EXCEPT !.status = "pending", !.claimedBy = Nobody, !.lease = NoLease,
                !.dispatchedAt = FALSE]

UnclaimedKeepsDispatched(row) ==
    [row EXCEPT !.status = "pending", !.claimedBy = Nobody, !.lease = NoLease,
                !.startedAt = FALSE]

\* The claim, the lease and both markers go when a row returns to pending.
Unclaimed(row) ==
    [row EXCEPT !.status = "pending", !.claimedBy = Nobody, !.lease = NoLease,
                !.startedAt = FALSE, !.dispatchedAt = FALSE]

\* The pre-dispatch mutex: the guard asks for startedAt IS NULL as well.
WinsDispatch(f) == Owns(f) /\ ~task[f.id].startedAt

beginDispatch(f) ==
    task' = IF WinsDispatch(f)
            THEN [task EXCEPT ![f.id].startedAt = TRUE, ![f.id].lease = LeaseTicks]
            ELSE task

markDispatched(f) ==
    runGuardedUpdate(f, [task[f.id] EXCEPT !.dispatchedAt = TRUE])

completeTask(f) ==
    runGuardedUpdate(f, [task[f.id] EXCEPT !.status = "succeeded"])

failTaskTerminal(f) ==
    runGuardedUpdate(f, [task[f.id] EXCEPT !.status = "failed", !.attempts = @ + 1])

rescheduleTask(f, delay) ==
    runGuardedUpdate(f, [Unclaimed(task[f.id]) EXCEPT
                            !.attempts = @ + 1, !.wait = delay])

releaseClaim(f) == runGuardedUpdate(f, Unclaimed(task[f.id]))

-----------------------------------------------------------------------------
(* The reaper's statements.  They do not ask who owns the row: they are    *)
(* fenced on the epoch the sweep read, on the lease still being expired,   *)
(* and on the effect boundary (runReaperUpdate).                           *)

LeaseExpired(t) == task[t].status = "running" /\ task[t].lease = 0

\* What a sweep keeps of an expired row it has read.
Expired == [id : Tasks, epoch : 0..MaxEpoch, attempts : 0..MaxAttempts,
            dispatched : BOOLEAN]

ExpiredRow(t) ==
    [id |-> t, epoch |-> task[t].leaseEpoch, attempts |-> task[t].attempts,
     dispatched |-> task[t].dispatchedAt]

\* The answers findExpiredLeases(limit) may give: the oldest expiries first;
\* in ticks every expired lease is equally old.
findExpiredLeases ==
    LET expired == {ExpiredRow(t) : t \in {u \in Tasks : LeaseExpired(u)}}
    IN  {S \in SUBSET expired :
            /\ Cardinality(S) <= BatchSize
            /\ S # expired => Cardinality(S) = BatchSize}

\* Bugs to detect: the expiry is not asserted again, or the effect boundary is
\* trusted to be what the sweep read.
ReaperOwnsUnexpired(r, dispatched) ==
    /\ task[r.id].status = "running"
    /\ task[r.id].leaseEpoch = r.epoch
    /\ task[r.id].dispatchedAt = dispatched

ReaperOwnsUnfenced(r, dispatched) ==
    /\ LeaseExpired(r.id)
    /\ task[r.id].leaseEpoch = r.epoch

ReaperOwns(r, dispatched) ==
    /\ LeaseExpired(r.id)
    /\ task[r.id].leaseEpoch = r.epoch
    /\ task[r.id].dispatchedAt = dispatched

runReaperUpdate(r, row, dispatched) ==
    task' = IF ReaperOwns(r, dispatched) THEN [task EXCEPT ![r.id] = row] ELSE task

reclaimExpired(r, delay) ==
    /\ ReaperOwns(r, FALSE) => r.epoch < MaxEpoch
    /\ runReaperUpdate(r, [Unclaimed(task[r.id]) EXCEPT
                              !.attempts = @ + 1, !.leaseEpoch = @ + 1,
                              !.wait = delay], FALSE)

deadLetterExpired(r) ==
    runReaperUpdate(r, [task[r.id] EXCEPT !.status = "failed", !.attempts = @ + 1],
                    FALSE)

completeExpired(r) ==
    runReaperUpdate(r, [task[r.id] EXCEPT !.status = "succeeded"], TRUE)

-----------------------------------------------------------------------------
\* The database clock advances by one tick.
Countdown(n) == IF n > 0 THEN n - 1 ELSE n

ClockAdvances ==
    /\ \E t \in Tasks : task[t].wait > 0 \/ task[t].lease > 0
    /\ task' = [t \in Tasks |-> [task[t] EXCEPT !.wait = Countdown(@),
                                                !.lease = Countdown(@)]]

=============================================================================
