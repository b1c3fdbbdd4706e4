---------------------------- MODULE TaskExecutor ----------------------------
(***************************************************************************)
(* The executor of the durable scheduler, one per main: it claims due      *)
(* tasks, arms a timer for each, and when the timer fires takes the        *)
(* dispatch mutex, runs the handler and records the outcome.  Every await  *)
(* of the code is a boundary between two actions here, so claims, fires,   *)
(* other mains and reapers interleave at exactly those points.             *)
(*                                                                         *)
(* A claimed task a main still works on is a fire: the claim and where its *)
(* code has got to (pc).                                                   *)
(***************************************************************************)
EXTENDS ScheduledTaskStore

CONSTANT MaxFaults   \* bound on the faults of a behaviour: failed writes,
                     \* abandoned ticks, stops and crashes

ASSUME MaxFaultsAssumption == MaxFaults \in Nat

VARIABLES
    inflight,    \* claims committed in the database, whose await has not resumed
    fires,       \* claimed tasks whose timer is armed, or that run
    claimedTaskById, \* per main: epoch of the claim the map holds for a task, or 0
    stopping,    \* per main: stop() was called
    faults       \* faults so far

executorVars == <<inflight, fires, claimedTaskById, stopping, faults>>

(***************************************************************************)
(*   scheduled  the precision timer is armed                               *)
(*   firing     the timer fired, beginDispatch is under way                *)
(*   executing  the handler runs                                           *)
(*   returned   the handler returned, the marker is being settled          *)
(*   threw      the handler threw, the marker is being settled             *)
(*   releasing  releaseClaim is under way                                  *)
(***************************************************************************)
Steps == {"scheduled", "firing", "executing", "returned", "threw", "releasing"}

\* dispatchMark: undefined, a write under way, or a settled promise.
Marks == {"undefined", "writing", "settled"}

Fire == [host : Hosts, id : Tasks, epoch : 1..MaxEpoch,
         attempts : 0..MaxAttempts, pc : Steps, mark : Marks]

Batch == [host : Hosts, claims : SUBSET Claim]

ExecutorTypeOK ==
    /\ inflight \subseteq Batch
    /\ fires \subseteq Fire
    /\ claimedTaskById \in [Hosts -> [Tasks -> 0..MaxEpoch]]
    /\ stopping \in [Hosts -> BOOLEAN]
    /\ faults \in 0..MaxFaults

ExecutorInit ==
    /\ inflight = {}
    /\ fires = {}
    /\ claimedTaskById = [h \in Hosts |-> [t \in Tasks |-> 0]]
    /\ stopping = [h \in Hosts |-> FALSE]
    /\ faults = 0

-----------------------------------------------------------------------------
\* The fire moves on to step pc, or ends.
GoTo(f, pc) == fires' = (fires \ {f}) \cup {[f EXCEPT !.pc = pc]}
SetMark(f, mark) == fires' = (fires \ {f}) \cup {[f EXCEPT !.mark = mark]}
End(f) == fires' = fires \ {f}

Fault == /\ faults < MaxFaults
         /\ faults' = faults + 1

NewFire(h, c, pc) ==
    [host |-> h, id |-> c.id, epoch |-> c.epoch, attempts |-> c.attempts,
     pc |-> pc, mark |-> "undefined"]

-----------------------------------------------------------------------------
(* claimAndSchedule                                                        *)

\* The claim commits; the rows travel back to the main that asked for them.
ClaimTick(h) ==
    /\ ~stopping[h]
    /\ \E S \in SUBSET Tasks :
        /\ claimDueTasks(h, S)
        /\ inflight' = inflight \cup
             {[host |-> h,
               claims |-> {[id |-> t, epoch |-> task'[t].leaseEpoch,
                            attempts |-> task'[t].attempts] : t \in S}]}
    /\ UNCHANGED <<fires, claimedTaskById, stopping, faults>>

\* The await resumes in time: each task is tracked and its timer armed, in one
\* synchronous block.  claimedTaskById.set overwrites an older claim's entry.
ScheduleClaimed(b) ==
    /\ ~stopping[b.host]
    /\ inflight' = inflight \ {b}
    /\ fires' = fires \cup {NewFire(b.host, c, "scheduled") : c \in b.claims}
    /\ claimedTaskById' =
         [claimedTaskById EXCEPT ![b.host] =
            [t \in Tasks |->
               IF \E c \in b.claims : c.id = t
               THEN (CHOOSE c \in b.claims : c.id = t).epoch
               ELSE @[t]]]
    /\ UNCHANGED <<task, stopping, faults>>

\* The await resumes after the tick was abandoned at its timeout, or after
\* stop(): every row is handed back instead.
HandBackClaims(b) ==
    /\ \/ stopping[b.host] /\ UNCHANGED faults
       \/ ~stopping[b.host] /\ Fault
    /\ inflight' = inflight \ {b}
    /\ fires' = fires \cup {NewFire(b.host, c, "releasing") : c \in b.claims}
    /\ UNCHANGED <<task, claimedTaskById, stopping>>

\* releaseClaimBestEffort: a failed release is swallowed.
Release(f) ==
    /\ f.pc = "releasing"
    /\ \/ releaseClaim(f) /\ UNCHANGED faults
       \/ UNCHANGED task /\ Fault
    /\ End(f)
    /\ UNCHANGED <<inflight, claimedTaskById, stopping>>

-----------------------------------------------------------------------------
(* fire.  The timer is armed against the clock of the instance, which may  *)
(* differ from the database's, and a blocked event loop fires it late: it  *)
(* may go off at any time after it was armed.                              *)

\* A bug to detect: the task stays tracked while it runs.
KeepTracked(f) == claimedTaskById

\* The entry is dropped by task id, whichever claim it is for.
Untracked(f) == [claimedTaskById EXCEPT ![f.host][f.id] = 0]

TimerFires(f) ==
    /\ f.pc = "scheduled"
    /\ claimedTaskById' = Untracked(f)
    /\ GoTo(f, "firing")
    /\ UNCHANGED <<task, inflight, stopping, faults>>

BeginDispatch(f) ==
    /\ f.pc = "firing"
    /\ beginDispatch(f)
    /\ IF WinsDispatch(f) THEN GoTo(f, "executing") ELSE End(f)
    /\ UNCHANGED <<inflight, claimedTaskById, stopping, faults>>

\* The statement rejects, before or after it took effect; the rejection is
\* reported and the fire is over.
BeginDispatchRejects(f) ==
    /\ f.pc = "firing"
    /\ beginDispatch(f) \/ UNCHANGED task
    /\ End(f)
    /\ Fault
    /\ UNCHANGED <<inflight, claimedTaskById, stopping>>

\* The handler calls report.dispatched(): the marker write is kicked off and
\* not awaited; a second call is a no-op.
ReportDispatched(f) ==
    /\ f.pc = "executing"
    /\ f.mark = "undefined"
    /\ SetMark(f, "writing")
    /\ UNCHANGED <<task, inflight, claimedTaskById, stopping, faults>>

\* The marker write settles; a failed one is reported and swallowed.
MarkSettles(f) ==
    /\ f.mark = "writing"
    /\ \/ markDispatched(f) /\ UNCHANGED faults
       \/ UNCHANGED task /\ Fault
    /\ SetMark(f, "settled")
    /\ UNCHANGED <<inflight, claimedTaskById, stopping>>

\* A handler that returned counts as dispatched.
HandlerReturns(f) ==
    /\ f.pc = "executing"
    /\ fires' = (fires \ {f}) \cup
                  {[f EXCEPT !.pc = "returned",
                             !.mark = IF @ = "undefined" THEN "writing" ELSE @]}
    /\ UNCHANGED <<task, inflight, claimedTaskById, stopping, faults>>

HandlerThrows(f) ==
    /\ f.pc = "executing"
    /\ GoTo(f, "threw")
    /\ UNCHANGED <<task, inflight, claimedTaskById, stopping, faults>>

\* A bug to detect: one attempt too many.
LastAttemptLate(f) == f.attempts >= MaxAttempts

LastAttempt(f) == f.attempts + 1 >= MaxAttempts

\* The write that ends a fire, once the marker is no longer being written.
Outcome(f) ==
    \/ f.pc = "returned" /\ completeTask(f)
    \/ f.pc = "threw" /\ LastAttempt(f) /\ f.mark = "settled" /\ completeTask(f)
    \/ f.pc = "threw" /\ LastAttempt(f) /\ f.mark = "undefined" /\ failTaskTerminal(f)
    \/ f.pc = "threw" /\ ~LastAttempt(f) /\ rescheduleTask(f, backoff(f.attempts + 1))

RecordOutcome(f) ==
    /\ f.mark # "writing"
    /\ Outcome(f)
    /\ End(f)
    /\ UNCHANGED <<inflight, claimedTaskById, stopping, faults>>

\* The outcome write rejects without effect: the row stays running.
OutcomeRejects(f) ==
    /\ f.mark # "writing"
    /\ f.pc \in {"returned", "threw"}
    /\ End(f)
    /\ Fault
    /\ UNCHANGED <<task, inflight, claimedTaskById, stopping>>

-----------------------------------------------------------------------------
(* stop, and the end of the process                                        *)

ScheduledOn(h) == {f \in fires : f.host = h /\ f.pc = "scheduled"}
TrackedOn(h) == {f \in fires : f.host = h /\ claimedTaskById[h][f.id] = f.epoch}

\* Timers are cancelled, and the claims the map holds are released.
Stop(h) ==
    /\ ~stopping[h]
    /\ Fault
    /\ stopping' = [stopping EXCEPT ![h] = TRUE]
    /\ fires' = (fires \ ScheduledOn(h)) \cup
                  {[f EXCEPT !.pc = "releasing"] : f \in TrackedOn(h)}
    /\ claimedTaskById' = [claimedTaskById EXCEPT ![h] = [t \in Tasks |-> 0]]
    /\ UNCHANGED <<task, inflight>>

\* The process exits - after stop(), or by a crash - and a new one starts
\* under the same host id.  Whatever it had in memory is gone.
ProcessRestarts(h) ==
    /\ \/ stopping[h] /\ UNCHANGED faults
       \/ ~stopping[h] /\ Fault
    /\ inflight' = {b \in inflight : b.host # h}
    /\ fires' = {f \in fires : f.host # h}
    /\ claimedTaskById' = [claimedTaskById EXCEPT ![h] = [t \in Tasks |-> 0]]
    /\ stopping' = [stopping EXCEPT ![h] = FALSE]
    /\ UNCHANGED task

FireStep(f) ==
    \/ Release(f)
    \/ TimerFires(f)
    \/ BeginDispatch(f)
    \/ BeginDispatchRejects(f)
    \/ ReportDispatched(f)
    \/ MarkSettles(f)
    \/ HandlerReturns(f)
    \/ HandlerThrows(f)
    \/ RecordOutcome(f)
    \/ OutcomeRejects(f)

ExecutorNext ==
    \/ \E h \in Hosts : ClaimTick(h) \/ Stop(h)
    \/ \E b \in inflight : ScheduleClaimed(b) \/ HandBackClaims(b)
    \/ \E f \in fires : FireStep(f)

=============================================================================
