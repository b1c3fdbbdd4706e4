-------------------------- MODULE DurableScheduler --------------------------
(***************************************************************************)
(* Several mains sharing one scheduled_task table: each runs an executor   *)
(* and a reaper, and any of them may stall, lose a write, stop or crash.   *)
(* This is the multi-main configuration n8n builds in createDurableScheduler*)
(* over rows that the materializer has recorded.                           *)
(***************************************************************************)
EXTENDS TaskExecutor, LeaseReaper

vars == <<task, executorVars, sweep>>

TypeOK == StoreTypeOK /\ ExecutorTypeOK /\ ReaperTypeOK

Init == StoreInit /\ ExecutorInit /\ ReaperInit

-----------------------------------------------------------------------------
Execute == ExecutorNext /\ UNCHANGED sweep

Restart(h) == ProcessRestarts(h) /\ sweep' = [sweep EXCEPT ![h] = {}]

Reap(h) ==
    \/ /\ \/ ~stopping[h] /\ SweepReads(h)
          \/ \E r \in sweep[h] : SweepResolves(h, r)
       /\ UNCHANGED executorVars
    \/ /\ \/ \E r \in sweep[h] : SweepSkips(h, r)
          \/ sweep[h] # {} /\ SweepEnds(h)
       /\ Fault
       /\ UNCHANGED <<inflight, fires, claimedTaskById, stopping>>

Tick == ClockAdvances /\ UNCHANGED <<executorVars, sweep>>

\* Nothing is left to do.
Settled == /\ \A t \in Tasks : task[t].status \in Terminal
           /\ UNCHANGED vars

Next ==
    \/ Execute
    \/ \E h \in Hosts : Restart(h) \/ Reap(h)
    \/ Tick
    \/ Settled

Spec == Init /\ [][Next]_vars

(***************************************************************************)
(* The loops run on every main that is not stopping, awaits resolve,       *)
(* handlers end, armed timers go off, the clock runs and a process that    *)
(* was stopped is started again.  Nothing is assumed about faults: they    *)
(* are bounded by MaxFaults.                                               *)
(***************************************************************************)
FireProgress(f) ==
    \/ Release(f) \/ TimerFires(f) \/ BeginDispatch(f) \/ MarkSettles(f)
    \/ HandlerReturns(f) \/ HandlerThrows(f) \/ RecordOutcome(f)

Fairness ==
    /\ WF_vars(Tick)
    /\ WF_vars(\E b \in inflight : (ScheduleClaimed(b) \/ HandBackClaims(b)) /\ UNCHANGED sweep)
    /\ WF_vars(\E f \in fires : FireProgress(f) /\ UNCHANGED sweep)
    /\ \A h \in Hosts :
         /\ WF_vars(ClaimTick(h) /\ UNCHANGED sweep)
         /\ WF_vars(Reap(h))
         /\ WF_vars(stopping[h] /\ Restart(h))

FairSpec == Spec /\ Fairness

-----------------------------------------------------------------------------
(* Safety.                                                                 *)

SameLease(c, d) == c.id = d.id /\ c.epoch = d.epoch

Ran(f) == f.pc \in {"executing", "returned", "threw"}

\* One lease has one holder: of all the claims in flight and the fires on all
\* mains, at most one passes the fence of a row (Executor: claimDueTasks bumps
\* the epoch, every write is fenced on it).
SingleOwner ==
    /\ \A f, g \in fires : SameLease(f, g) => f = g
    /\ \A b, d \in inflight : \A c \in b.claims, e \in d.claims :
         SameLease(c, e) => b = d /\ c = e
    /\ \A f \in fires, b \in inflight : \A c \in b.claims : ~SameLease(f, c)

\* startedAt on a running row is the mutex of its lease: no other fire can
\* still take it, so a handler starts at most once per lease.
DispatchMutex ==
    \A f \in fires :
        Owns(f) => /\ Ran(f) => task[f.id].startedAt
                   /\ f.pc \in {"scheduled", "firing", "releasing"} => ~task[f.id].startedAt

\* The attempts a fire or a sweep decides on are those of the row whenever its
\* write can land, and a failure is recorded terminally on the last attempt
\* and on no other.
RetryBudget ==
    /\ \A f \in fires : Owns(f) => f.attempts = task[f.id].attempts
    /\ \A h \in Hosts : \A r \in sweep[h] :
         ReaperOwns(r, r.dispatched) => r.attempts = task[r.id].attempts
    /\ \A t \in Tasks : task[t].status = "failed" <=> task[t].attempts = MaxAttempts

\* A pending row carries no claim, no lease and no marker (the running-lease
\* CHECK of the table, and the fresh mutex the next attempt needs); a running
\* one has an owner and a lease, and is marked dispatched only once started.
CleanHandover ==
    \A t \in Tasks :
        /\ task[t].status = "pending" =>
             /\ task[t].claimedBy = Nobody /\ task[t].lease = NoLease
             /\ ~task[t].startedAt /\ ~task[t].dispatchedAt
        /\ task[t].status = "running" =>
             /\ task[t].claimedBy \in Hosts /\ task[t].lease # NoLease
        /\ task[t].dispatchedAt => task[t].startedAt

\* A row marked dispatched is never recorded as failed by the lease it was
\* dispatched under, however the marker races a sweep or a throw.
DispatchedNotFailed ==
    \A t \in Tasks : task[t].status = "failed" => ~task[t].dispatchedAt

-----------------------------------------------------------------------------
(* The inductive invariant the safety proofs rest on (see                  *)
(* DurableSchedulerProofs).  It says what every party that remembers a row *)
(* - a fire, a claim on its way, a sweep - knows of the row as long as its *)
(* fence would let it write.                                               *)

\* Nobody remembers an epoch the row has not reached.
EpochsReached ==
    /\ \A f \in fires : f.epoch <= task[f.id].leaseEpoch
    /\ \A b \in inflight : \A c \in b.claims : c.epoch <= task[c.id].leaseEpoch
    /\ \A h \in Hosts : \A r \in sweep[h] : r.epoch <= task[r.id].leaseEpoch

FireAgrees(f) ==
    Owns(f) => /\ f.attempts = task[f.id].attempts
               /\ Ran(f) <=> task[f.id].startedAt
               /\ f.mark # "settled" => ~task[f.id].dispatchedAt

ClaimAgrees(h, c) ==
    Owns([host |-> h, id |-> c.id, epoch |-> c.epoch]) =>
        /\ c.attempts = task[c.id].attempts
        /\ ~task[c.id].startedAt
        /\ ~task[c.id].dispatchedAt

SweepAgrees(r) ==
    /\ task[r.id].status = "running"
    /\ task[r.id].leaseEpoch = r.epoch
    => r.attempts = task[r.id].attempts

MemoriesAgree ==
    /\ \A f \in fires : FireAgrees(f) /\ (f.mark # "undefined" => Ran(f))
    /\ \A b \in inflight : \A c \in b.claims : ClaimAgrees(b.host, c)
    /\ \A h \in Hosts : \A r \in sweep[h] : SweepAgrees(r)

\* An entry of claimedTaskById is for a timer that is armed on that main.
TrackedIsArmed ==
    \A h \in Hosts, t \in Tasks :
        claimedTaskById[h][t] # 0 =>
            \E f \in fires : /\ f.host = h /\ f.id = t /\ f.pc = "scheduled"
                            /\ f.epoch = claimedTaskById[h][t]

RowConsistent(row) ==
    /\ row.status = "pending" =>
         /\ row.claimedBy = Nobody /\ row.lease = NoLease
         /\ ~row.startedAt /\ ~row.dispatchedAt
    /\ row.status = "running" => row.claimedBy \in Hosts /\ row.lease # NoLease
    /\ row.dispatchedAt => row.startedAt
    /\ row.status = "failed" <=> row.attempts = MaxAttempts
    /\ row.status = "failed" => ~row.dispatchedAt

IInv ==
    /\ TypeOK
    /\ SingleOwner
    /\ EpochsReached
    /\ MemoriesAgree
    /\ TrackedIsArmed
    /\ \A t \in Tasks : RowConsistent(task[t])

-----------------------------------------------------------------------------
(* Action properties.                                                      *)

\* Within its lease an owner keeps the row: only its own last write, or the
\* end of its process, separates them (a sweep that read the row before the
\* lease was refreshed must not take it).
LeaseHonoured ==
    [][\A f \in fires :
         Owns(f) /\ task[f.id].lease # 0 /\ f \in fires' => Owns(f)']_vars

\* An occurrence that was started goes back to pending only at the cost of an
\* attempt: no release, by a stop or a late tick, drops a start.
StartsAreCounted ==
    [][\A t \in Tasks :
         task[t].startedAt /\ task'[t].status = "pending" =>
           task'[t].attempts = task[t].attempts + 1]_vars

\* The reaper never sends a dispatched occurrence back: only the throw of the
\* handler that dispatched it does.
ReaperKeepsDispatched ==
    [][\A t \in Tasks :
         task[t].dispatchedAt /\ task'[t].status = "pending" =>
           \E f \in fires \ fires' : f.id = t /\ f.pc = "threw" /\ Owns(f)]_vars

\* A recorded outcome is final: no stale owner and no stale sweep changes it.
OutcomeIsFinal ==
    [][\A t \in Tasks :
         task[t].status \in Terminal =>
           /\ task'[t].status = task[t].status
           /\ task'[t].attempts = task[t].attempts
           /\ task'[t].dispatchedAt = task[t].dispatchedAt]_vars

-----------------------------------------------------------------------------
(* What the database records of an occurrence implements the lifecycle.    *)

Stage(row) ==
    CASE row.status = "pending"  -> "queued"
      [] row.status \in Terminal -> row.status
      [] row.status = "running" /\ ~row.startedAt -> "held"
      [] row.status = "running" /\ row.startedAt /\ ~row.dispatchedAt -> "started"
      [] row.status = "running" /\ row.startedAt /\ row.dispatchedAt  -> "dispatched"

Lifecycle == INSTANCE OccurrenceLifecycle WITH
    stage <- [t \in Tasks |-> Stage(task[t])],
    tries <- [t \in Tasks |-> task[t].attempts]

\* Every behaviour of the mains, their reapers and the table is a behaviour
\* of the abstract occurrence.
ImplementsLifecycle == Lifecycle!Spec

-----------------------------------------------------------------------------
(* Liveness.                                                               *)

\* Every recorded occurrence is eventually settled, whatever was lost on the
\* way: the at-least-once promise of the scheduler.
EventuallySettled == \A t \in Tasks : <>[](task[t].status \in Terminal)

=============================================================================
