------------------------- MODULE ScheduleTriggerRuns -------------------------
(***************************************************************************)
(* What the handler of Schedule Trigger occurrences does while the         *)
(* executor has it run: it inserts an execution under a key derived from   *)
(* the occurrence, marks it as running, starts the workflow, and reports   *)
(* the dispatch.  Deliveries of one occurrence meet in the execution table,*)
(* whose key is unique.                                                    *)
(***************************************************************************)
EXTENDS DurableScheduler

CONSTANTS
    NoRow,
    Prompt     \* the handler takes less than a tick of the database clock: no
               \* concurrency limit makes it wait for capacity

ASSUME PromptAssumption == Prompt \in BOOLEAN

VARIABLES
    execution,    \* per occurrence, the execution under its key, or NoRow
    handoff,      \* deliveries in the middle of a handoff, and how far they are
    launches      \* per occurrence, how often its workflow was started

triggerVars == <<execution, handoff, launches>>
allVars == <<vars, triggerVars>>

\* status is "new" until the execution is marked as running; by is the epoch of
\* the delivery that inserted it.
ExecutionRow == [by : 1..MaxEpoch, status : {"new", "started"}]

ASSUME NoRowAssumption == NoRow \notin ExecutionRow

(***************************************************************************)
(*   sawNone, sawTombstone   reclaimTombstone has read the table           *)
(*   created                 the row is inserted; waiting for capacity     *)
(*   marked                  the row is marked as running                  *)
(*   launched                the workflow runs                             *)
(***************************************************************************)
Handoff == [host : Hosts, id : Tasks, epoch : 1..MaxEpoch,
            at : {"sawNone", "sawTombstone", "created", "marked", "launched"}]

TriggerTypeOK ==
    /\ TypeOK
    /\ execution \in [Tasks -> ExecutionRow \cup {NoRow}]
    /\ handoff \subseteq Handoff
    /\ launches \in [Tasks -> 0..MaxEpoch]

TriggerInit ==
    /\ Init
    /\ execution = [t \in Tasks |-> NoRow]
    /\ handoff = {}
    /\ launches = [t \in Tasks |-> 0]

-----------------------------------------------------------------------------
Of(f) == {w \in handoff : w.host = f.host /\ w.id = f.id /\ w.epoch = f.epoch}

Reaches(f, at) ==
    handoff' = (handoff \ Of(f)) \cup
                 {[host |-> f.host, id |-> f.id, epoch |-> f.epoch, at |-> at]}

IsAt(f, at) == \E w \in Of(f) : w.at = at

IsTombstone(row) == row # NoRow /\ row.status = "new"

\* reclaimTombstone looks for a row that never got past "new".  The handler may
\* have thrown before (no published version, no such node).
Look(f) ==
    /\ f.pc = "executing" /\ Of(f) = {}
    /\ Reaches(f, IF IsTombstone(execution[f.id]) THEN "sawTombstone" ELSE "sawNone")
    /\ UNCHANGED <<vars, execution, launches>>

\* Bugs to detect: any row found is reclaimed, or none.
ReclaimsAny(f) == IsAt(f, "sawTombstone") \/ execution[f.id] # NoRow
ReclaimsNone(f) == FALSE

\* The delete is for that row, and only while it is still new.
Reclaims(f) == IsAt(f, "sawTombstone") /\ IsTombstone(execution[f.id])

\* The delete and the insert commit together.
Insert(f) ==
    /\ IsAt(f, "sawNone") \/ IsAt(f, "sawTombstone")
    /\ execution[f.id] = NoRow \/ Reclaims(f)
    /\ execution' = [execution EXCEPT ![f.id] = [by |-> f.epoch, status |-> "new"]]
    /\ Reaches(f, "created")
    /\ UNCHANGED <<vars, launches>>

\* DuplicateExecutionError: the occurrence was handed off before.  The handler
\* returns without reporting a dispatch, and the executor completes the task.
FindsDuplicate(f) ==
    /\ IsAt(f, "sawNone") \/ IsAt(f, "sawTombstone")
    /\ execution[f.id] # NoRow /\ ~Reclaims(f)
    /\ HandlerReturns(f)
    /\ handoff' = handoff \ Of(f)
    /\ UNCHANGED <<sweep, execution, launches>>

\* ActiveExecutions.add has its capacity and marks the row - if it is there.
MarkStarted(f) ==
    /\ IsAt(f, "created")
    /\ execution' = IF execution[f.id] # NoRow /\ execution[f.id].by = f.epoch
                    THEN [execution EXCEPT ![f.id].status = "started"] ELSE execution
    /\ Reaches(f, "marked")
    /\ UNCHANGED <<vars, launches>>

Launch(f) ==
    /\ IsAt(f, "marked")
    /\ launches' = [launches EXCEPT ![f.id] = @ + 1]
    /\ Reaches(f, "launched")
    /\ UNCHANGED <<vars, execution>>

Report(f) ==
    /\ IsAt(f, "launched")
    /\ ReportDispatched(f)
    /\ UNCHANGED <<sweep, triggerVars>>

Return(f) ==
    /\ IsAt(f, "launched") /\ f.mark # "undefined"
    /\ HandlerReturns(f)
    /\ handoff' = handoff \ Of(f)
    /\ UNCHANGED <<sweep, execution, launches>>

\* Until the workflow runs, a lookup or a write of the handoff may reject.
Throw(f) ==
    /\ ~IsAt(f, "launched")
    /\ HandlerThrows(f)
    /\ handoff' = handoff \ Of(f)
    /\ UNCHANGED <<sweep, execution, launches>>

HandlerStep(f) ==
    \/ Look(f) \/ Insert(f) \/ FindsDuplicate(f) \/ MarkStarted(f) \/ Launch(f)
    \/ Report(f) \/ Return(f) \/ Throw(f)

\* The executor around the handler.
OtherFireStep(f) ==
    \/ Release(f) \/ TimerFires(f) \/ BeginDispatch(f) \/ BeginDispatchRejects(f)
    \/ MarkSettles(f) \/ RecordOutcome(f) \/ OutcomeRejects(f)

ExecutorStep ==
    /\ \/ \E h \in Hosts : ClaimTick(h) \/ Stop(h)
       \/ \E b \in inflight : ScheduleClaimed(b) \/ HandBackClaims(b)
       \/ \E f \in fires : OtherFireStep(f)
    /\ UNCHANGED sweep

TriggerNext ==
    \/ \E f \in fires : HandlerStep(f)
    \/ ExecutorStep /\ UNCHANGED triggerVars
    \/ \E h \in Hosts : Reap(h) /\ UNCHANGED triggerVars
    \/ \E h \in Hosts :
         /\ Restart(h)
         /\ handoff' = {w \in handoff : w.host # h}
         /\ UNCHANGED <<execution, launches>>
    \/ /\ Prompt => \A f \in fires : f.pc # "executing"
       /\ Tick
       /\ UNCHANGED triggerVars
    \/ Settled /\ UNCHANGED triggerVars

TriggerSpec == TriggerInit /\ [][TriggerNext]_allVars

-----------------------------------------------------------------------------
\* An occurrence delivered again after a crash, a lost marker or a lost outcome
\* does not start its workflow again: the key of the occurrence finds the first
\* execution (schedule-trigger-task-handler, DuplicateExecutionError).
StartedAtMostOnce == \A t \in Tasks : launches[t] <= 1

\* No occurrence is dropped for an execution that never began: one recorded as
\* succeeded or dispatched has an execution that got past "new" (reclaimTombstone:
\* a tombstone must not be mistaken for "an already-run handoff").
SucceededHasExecution ==
    \A t \in Tasks :
        task[t].status = "succeeded" \/ task[t].dispatchedAt =>
            execution[t] # NoRow /\ execution[t].status = "started"
=============================================================================
