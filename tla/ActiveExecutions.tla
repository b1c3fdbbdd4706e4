--------------------------- MODULE ActiveExecutions ---------------------------
(***************************************************************************)
(* The executions of one main in regular mode: they are created or picked  *)
(* up again by ActiveExecutions.add, wait for capacity, are marked as      *)
(* running, run, wait, are stopped, and survive a restart of the process   *)
(* by the status of their row.                                             *)
(*                                                                         *)
(* A call that creates an execution names it: exec[c] = c for those, and   *)
(* the execution it was made for, for a call that resumes or re-runs one.  *)
(* The list has one entry per execution, and whatever ends a run finds the *)
(* entry by the execution, whichever call has put it there.                *)
(***************************************************************************)
EXTENDS ConcurrencyQueue

CONSTANTS
    NoCall,         \* no entry
    MaxStops,       \* stops and timeouts a behaviour may contain
    MaxRestarts,    \* shutdowns and crashes a behaviour may contain
    MaxFaults       \* errors a behaviour may contain

ASSUME ExecutionBoundsAssumption ==
    /\ NoCall \notin Calls
    /\ {MaxStops, MaxRestarts, MaxFaults} \subseteq Nat

VARIABLES
    step,       \* per call, where it has got to
    exec,       \* per call, its execution
    status,     \* per execution, the status of its row
    cancels,    \* per execution, the writes of "canceled" under way
    entry,      \* activeExecutions: per execution, the call that is listed
    waits,      \* the calls whose entry has the status "waiting"
    attached,   \* the calls that have attached their run, and settle at its end
    stopping,   \* executions the stop handler has read and not acted on
    rerun,      \* the executions startup found enqueued and has not re-run yet
    reruns,     \* the calls startup made
    removals,   \* calls taken out of the queue since the process started
    stopped,    \* executions stopped or timed out while listed, since then
    crossed,    \* executions listed again before their earlier call was settled
    resaved,    \* calls whose first save was answered by an error
    stops, restarts, faults    \* so far, for the bounds

rowVars == <<status, cancels>>
listVars == <<entry, waits, attached>>
pastVars == <<removals, stopped, crossed, resaved>>
bounds == <<stops, restarts, faults>>
vars == <<queueVars, step, exec, rowVars, listVars, stopping, rerun, reruns,
          pastVars, bounds>>

(***************************************************************************)
(*   idle        not made yet                                              *)
(*   created     the row exists, the reservation comes next                *)
(*   reserving   in reserve(): in the line, woken, or removed and lost     *)
(*   marked      the row is marked, the await has not resumed              *)
(*   registered  listed in activeExecutions, about to run the workflow     *)
(*   running     the workflow runs                                         *)
(*   parking     the workflow runs, and a node has put it to wait          *)
(*   cancelled   the run is cancelled, its current node has not returned   *)
(*   saved       the run has saved its row, and is about to settle         *)
(*   failed      a check before the run has failed, and its row says so    *)
(*   cut         run() has rejected where nothing settles the entry        *)
(*   refused     another process was already resuming the execution        *)
(*   ended       over                                                      *)
(***************************************************************************)
Steps == {"idle", "created", "reserving", "marked", "registered", "running", "parking",
          "cancelled", "saved", "failed", "cut", "refused", "ended"}

Statuses == {"none", "new", "running", "waiting", "finished", "canceled", "crashed"}

TypeOK ==
    /\ QueueTypeOK
    /\ step \in [Calls -> Steps]
    /\ exec \in [Calls -> Calls]
    /\ status \in [Calls -> Statuses]
    /\ cancels \in [Calls -> Nat]
    /\ entry \in [Calls -> Calls \cup {NoCall}]
    /\ {waits, attached, stopping, rerun, reruns, stopped, crossed, resaved}
          \subseteq SUBSET Calls
    /\ removals \in Nat
    /\ stops \in 0..MaxStops
    /\ restarts \in 0..MaxRestarts
    /\ faults \in 0..MaxFaults

Init ==
    /\ QueueInit
    /\ step = [c \in Calls |-> "idle"]
    /\ exec = [c \in Calls |-> c]
    /\ status = [c \in Calls |-> "none"]
    /\ cancels = [c \in Calls |-> 0]
    /\ entry = [c \in Calls |-> NoCall]
    /\ waits = {} /\ attached = {}
    /\ stopping = {} /\ rerun = {} /\ reruns = {}
    /\ removals = 0 /\ stopped = {} /\ crossed = {} /\ resaved = {}
    /\ stops = 0 /\ restarts = 0 /\ faults = 0

-----------------------------------------------------------------------------
GoTo(c, to) == step' = [step EXCEPT ![c] = to]

SetStatus(e, s) == status' = [status EXCEPT ![e] = s]

\* requireNotCanceled: a run does not overwrite a cancelled row.
SetUnlessCanceled(e, s) ==
    IF status[e] = "canceled" THEN UNCHANGED status ELSE SetStatus(e, s)

Fault == faults < MaxFaults /\ faults' = faults + 1 /\ UNCHANGED <<stops, restarts>>

IsFresh(c) == exec[c] = c

\* executionPersistence.create: the row is there before the reservation is.
Create(c) ==
    /\ step[c] = "idle"
    /\ GoTo(c, "created") /\ SetStatus(c, "new")
    /\ UNCHANGED <<queueVars, exec, cancels, listVars, stopping, rerun, reruns, pastVars, bounds>>

\* A timer of the wait tracker or a call of a waiting webhook has read a
\* waiting row, and picks the execution up again.
Resume(c, e) ==
    /\ step[c] = "idle"
    /\ status[e] = "waiting"
    /\ GoTo(c, "created")
    /\ exec' = [exec EXCEPT ![c] = e]
    /\ UNCHANGED <<queueVars, rowVars, listVars, stopping, rerun, reruns, pastVars, bounds>>

\* Start.runEnqueuedExecutions, one turn of its loop.
Rerun(c, e) ==
    /\ step[c] = "idle"
    /\ e \in rerun
    /\ GoTo(c, "created")
    /\ exec' = [exec EXCEPT ![c] = e]
    /\ rerun' = rerun \ {e}
    /\ reruns' = reruns \cup {c}
    /\ UNCHANGED <<queueVars, rowVars, listVars, stopping, pastVars, bounds>>

Reserve(c) ==
    /\ step[c] = "created"
    /\ GoTo(c, "reserving")
    /\ enqueue(c)
    /\ UNCHANGED <<exec, rowVars, listVars, stopping, rerun, reruns, pastVars, bounds>>

Reserved(c) == step[c] = "reserving" /\ c \in held

\* A bug to detect: an existing row is marked whatever its status is.
MarkRunningAlways(c) ==
    /\ Reserved(c)
    /\ GoTo(c, "marked") /\ SetStatus(exec[c], "running")
    /\ UNCHANGED <<queueVars, exec, cancels, listVars, stopping, rerun, reruns, pastVars, bounds>>

\* A new execution is marked as running whatever its row says; one that exists
\* only if it waits, and the slot goes back if it does not.
MarkRunning(c) ==
    /\ Reserved(c)
    /\ IF IsFresh(c) \/ status[exec[c]] = "waiting"
       THEN GoTo(c, "marked") /\ SetStatus(exec[c], "running") /\ UNCHANGED queueVars
       ELSE GoTo(c, "refused") /\ dequeue(c) /\ UNCHANGED status
    /\ UNCHANGED <<exec, cancels, listVars, stopping, rerun, reruns, pastVars, bounds>>

\* The database refuses the write: add throws, and the slot goes back.
MarkRunningFails(c) ==
    /\ Reserved(c)
    /\ Fault
    /\ GoTo(c, "ended") /\ dequeue(c)
    /\ UNCHANGED <<exec, rowVars, listVars, stopping, rerun, reruns, pastVars>>

\* The entry takes the place of whatever was listed for the execution.
Register(c) ==
    LET e == exec[c] IN
    /\ step[c] = "marked"
    /\ GoTo(c, "registered")
    /\ entry' = [entry EXCEPT ![e] = c]
    /\ crossed' = IF entry[e] \in held THEN crossed \cup {e} ELSE crossed
    /\ UNCHANGED <<queueVars, exec, rowVars, waits, attached, stopping, rerun, reruns,
                   removals, stopped, resaved, bounds>>

-----------------------------------------------------------------------------
\* A bug to detect: the reservation of an execution that waits is kept.
settleKeepingWaits(c) ==
    IF c \in waits
    THEN UNCHANGED <<queueVars, entry>>
    ELSE dequeue(c) /\ entry' = [entry EXCEPT ![exec[c]] = NoCall]

\* The promise of c settles: its slot goes back, and its entry leaves the list
\* unless the execution waits.
settle(c) ==
    /\ dequeue(c)
    /\ entry' = IF c \in waits THEN entry ELSE [entry EXCEPT ![exec[c]] = NoCall]

\* finalizeExecution: whoever is listed for e is settled.
finalizeExecution(e) ==
    IF entry[e] = NoCall THEN UNCHANGED <<queueVars, entry>> ELSE settle(entry[e])

IsRun(c) == c \in attached /\ step[c] \in {"running", "parking", "saved"}

\* The hook of a cancelled run writes "canceled" in its own time.
CancelWrites(e) == IF \E c \in Calls \ waits : entry[e] = c /\ IsRun(c) THEN 1 ELSE 0

\* stopExecution: an entry that waits is only taken off the list; another one
\* is settled at once, and its run cancelled, which ends with its current node.
stopExecution(e) ==
    \/ /\ entry[e] = NoCall
       /\ UNCHANGED <<queueVars, step, entry, stopped>>
    \/ /\ entry[e] \in waits
       /\ entry' = [entry EXCEPT ![e] = NoCall]
       /\ stopped' = stopped \cup {e}
       /\ UNCHANGED <<queueVars, step>>
    \/ \E c \in Calls \ waits :
       /\ entry[e] = c
       /\ settle(c)
       /\ step' = [step EXCEPT ![c] =
                     IF IsRun(c) /\ @ # "saved" /\ c \notin resaved THEN "cancelled" ELSE @]
       /\ stopped' = stopped \cup {e}

-----------------------------------------------------------------------------
\* A check before the run fails (the context, the credentials, the workflow's
\* issues): a failed run is saved, and settled as if it had run.
CheckFails(c) ==
    /\ step[c] = "registered"
    /\ GoTo(c, "failed") /\ SetUnlessCanceled(exec[c], "finished")
    /\ UNCHANGED <<queueVars, exec, cancels, listVars, stopping, rerun, reruns, pastVars, bounds>>

\* An error where run() has no handler: reading the static data or the base
\* data, setRunning, or the hooks of a failed check.  Nobody settles the entry.
RunFails(c) ==
    /\ step[c] = "registered"
    /\ Fault
    /\ GoTo(c, "cut")
    /\ \/ UNCHANGED status
       \/ SetStatus(exec[c], "running")
       \/ SetUnlessCanceled(exec[c], "finished")
    /\ UNCHANGED <<queueVars, exec, cancels, listVars, stopping, rerun, reruns, pastVars>>

\* attachResponsePromise throws for a call that was stopped meanwhile.
FindsNoEntry(c) ==
    /\ step[c] = "registered"
    /\ entry[exec[c]] = NoCall
    /\ GoTo(c, "ended")
    /\ UNCHANGED <<queueVars, exec, rowVars, listVars, stopping, rerun, reruns, pastVars, bounds>>

\* runMainProcess marks the row as running once more, whatever it says, and
\* starts the run; one that was stopped meanwhile is not attached, and runs on.
RunMainProcess(c) ==
    /\ step[c] = "registered"
    /\ GoTo(c, "running") /\ SetStatus(exec[c], "running")
    /\ attached' = IF entry[exec[c]] = NoCall THEN attached ELSE attached \cup {c}
    /\ UNCHANGED <<queueVars, exec, cancels, entry, waits, stopping, rerun, reruns, pastVars, bounds>>

\* putExecutionToWait, by a node of the run: the entry listed for the execution
\* waits.
PutToWait(c) ==
    /\ step[c] = "running" /\ c \notin resaved
    /\ GoTo(c, "parking")
    /\ waits' = IF entry[exec[c]] = NoCall THEN waits ELSE waits \cup {entry[exec[c]]}
    /\ UNCHANGED <<queueVars, exec, rowVars, entry, attached, stopping, rerun, reruns,
                   pastVars, bounds>>

Outcome(c) == IF step[c] = "parking" THEN "waiting" ELSE "finished"

\* The hook workflowExecuteAfter.
Save(c) ==
    /\ step[c] \in {"running", "parking"}
    /\ GoTo(c, "saved") /\ SetUnlessCanceled(exec[c], Outcome(c))
    /\ UNCHANGED <<queueVars, exec, cancels, listVars, stopping, rerun, reruns, pastVars, bounds>>

\* The hook rejects, its write done or not: it is run once more, and a second
\* error is swallowed.
SaveRejects(c) ==
    /\ step[c] \in {"running", "parking"}
    /\ Fault
    /\ IF c \in resaved
       THEN GoTo(c, "saved") /\ UNCHANGED status
       ELSE UNCHANGED step /\ (UNCHANGED status \/ SetUnlessCanceled(exec[c], Outcome(c)))
    /\ resaved' = resaved \cup {c}
    /\ UNCHANGED <<queueVars, exec, cancels, listVars, stopping, rerun, reruns,
                   removals, stopped, crossed>>

\* The end of a run, or of a failed check: the awaits after the save are over,
\* and the entry listed for the execution is settled.
Finalize(c) ==
    /\ step[c] \in {"saved", "cancelled", "failed"}
    /\ GoTo(c, "ended")
    /\ IF c \in attached \/ step[c] = "failed"
       THEN finalizeExecution(exec[c])
       ELSE UNCHANGED <<queueVars, entry>>
    /\ UNCHANGED <<exec, rowVars, waits, attached, stopping, rerun, reruns, pastVars, bounds>>

-----------------------------------------------------------------------------
\* ExecutionService.stop reads the row, and acts on what it read later.
Stop(e) ==
    /\ stops < MaxStops
    /\ status[e] \in {"new", "running", "waiting"}
    /\ stopping' = stopping \cup {e}
    /\ stops' = stops + 1
    /\ UNCHANGED <<queueVars, step, exec, rowVars, listVars, rerun, reruns, pastVars,
                   restarts, faults>>

Queued(e) == {i \in DOMAIN queue : exec[queue[i]] = e}

\* A call that waits for e leaves the queue: the first one found.
StopQueued(e) ==
    /\ e \in stopping
    /\ isEnabled /\ Queued(e) # {}
    /\ remove(Min(Queued(e)))
    /\ cancels' = [cancels EXCEPT ![e] = @ + 1]
    /\ stopping' = stopping \ {e}
    /\ removals' = removals + 1
    /\ UNCHANGED <<step, exec, status, listVars, rerun, reruns, stopped, crossed, resaved, bounds>>

\* The listed call of e is stopped.  A call still in add is not found, and the
\* row is cancelled all the same.
StopListed(e) ==
    /\ e \in stopping
    /\ ~(isEnabled /\ Queued(e) # {})
    /\ stopExecution(e)
    /\ cancels' = [cancels EXCEPT ![e] = @ + 1 + CancelWrites(e)]
    /\ stopping' = stopping \ {e}
    /\ UNCHANGED <<exec, status, waits, attached, rerun, reruns, removals, crossed, resaved, bounds>>

\* The timer of a run, which is cleared where the run is finalized.
Timeout(c) ==
    /\ stops < MaxStops
    /\ c \in attached /\ step[c] \in {"running", "parking", "saved", "cancelled"}
    /\ stopExecution(exec[c])
    /\ cancels' = [cancels EXCEPT ![exec[c]] = @ + CancelWrites(exec[c])]
    /\ stops' = stops + 1
    /\ UNCHANGED <<exec, status, waits, attached, stopping, rerun, reruns,
                   removals, crossed, resaved, restarts, faults>>

\* A write of "canceled" arrives, whatever the row says by then.
WriteCanceled(e) ==
    /\ cancels[e] > 0
    /\ cancels' = [cancels EXCEPT ![e] = @ - 1]
    /\ SetStatus(e, "canceled")
    /\ UNCHANGED <<queueVars, step, exec, listVars, stopping, rerun, reruns, pastVars, bounds>>

CancelFails(e) ==
    /\ cancels[e] > 0
    /\ Fault
    /\ cancels' = [cancels EXCEPT ![e] = @ - 1]
    /\ UNCHANGED <<queueVars, step, exec, status, listVars, stopping, rerun, reruns, pastVars>>

-----------------------------------------------------------------------------
\* ActiveExecutions.shutdown.  removeAll does nothing on a disabled queue.
Shutdown ==
    /\ isEnabled
    /\ restarts < MaxRestarts
    /\ disable
    /\ entry' = [e \in Calls |-> IF entry[e] \in waits THEN NoCall ELSE entry[e]]
    /\ restarts' = restarts + 1
    /\ UNCHANGED <<step, exec, rowVars, waits, attached, stopping, rerun, reruns, pastVars,
                   stops, faults>>

\* The process ends and another one starts: what it held in memory is gone,
\* runs cut short are marked as crashed, and the rows still new are re-run.
Boot ==
    /\ capacity' = Limit
    /\ queue' = <<>>
    /\ isEnabled' = TRUE
    /\ held' = {}
    /\ step' = [c \in Calls |-> IF step[c] = "idle" THEN "idle" ELSE "ended"]
    /\ status' = [e \in Calls |-> IF status[e] = "running" THEN "crashed" ELSE status[e]]
    /\ cancels' = [e \in Calls |-> 0]
    /\ entry' = [e \in Calls |-> NoCall]
    /\ rerun' = {e \in Calls : status[e] = "new"}
    /\ waits' = {} /\ attached' = {} /\ stopping' = {}
    /\ removals' = 0 /\ stopped' = {} /\ crossed' = {} /\ resaved' = {}
    /\ UNCHANGED <<exec, reruns, stops, faults>>

\* Shutdown has waited for every listed execution, or for as long as it may
\* (forceShutdownTimer).
Exit ==
    /\ ~isEnabled
    /\ Boot
    /\ UNCHANGED restarts

Crash ==
    /\ restarts < MaxRestarts
    /\ restarts' = restarts + 1
    /\ Boot

\* What a call does by itself.
CallStep(c) ==
    \/ Reserve(c)
    \/ MarkRunning(c)
    \/ MarkRunningFails(c)
    \/ Register(c)
    \/ CheckFails(c)
    \/ RunFails(c)
    \/ FindsNoEntry(c)
    \/ RunMainProcess(c)
    \/ PutToWait(c)
    \/ Save(c)
    \/ SaveRejects(c)
    \/ Finalize(c)

Next ==
    \/ \E c \in Calls : Create(c) \/ CallStep(c) \/ Timeout(c)
    \/ \E c, e \in Calls : Resume(c, e) \/ Rerun(c, e)
    \/ \E e \in Calls : Stop(e) \/ StopQueued(e) \/ StopListed(e) \/ WriteCanceled(e) \/ CancelFails(e)
    \/ Shutdown
    \/ Exit
    \/ Crash

Spec == Init /\ [][Next]_vars

\* A call goes on, a workflow ends, and a shutdown exits.
Fairness == WF_vars(Exit) /\ \A c \in Calls : WF_vars(CallStep(c))

FairSpec == Spec /\ Fairness

-----------------------------------------------------------------------------
\* The counter is what is left of the limit, less the line: no path through
\* add, an error, a refusal, a stop or a removal lowers or raises it twice for
\* one reservation (ConcurrencyCapacityReservation.release).
SlotsAddUp ==
    isEnabled => capacity = Limit - Cardinality(held) - Len(queue)

\* A call under way: it may still get, hold or settle what it has reserved.
UnderWay == {"reserving", "marked", "registered", "running", "parking", "saved", "failed"}

\* Executions that nobody stopped, and that were not listed anew too early.
Undisturbed == Calls \ (stopped \cup crossed)

\* A slot outlives its call only if an error met run() where nothing settles
\* the entry, or if the execution was stopped, timed out or resumed while a
\* call of it was still to be settled (finalizeExecution finds the entry by the
\* execution, and stopExecution only unlists one that waits).
SlotsComeBack ==
    isEnabled =>
      \A c \in held : step[c] \in UnderWay \cup {"cut"} \/ exec[c] \notin Undisturbed

Alive == {c \in Calls : step[c] \in {"registered", "running", "parking", "cancelled",
                                     "saved", "failed"}}

\* More executions are under way than the limit allows only by as many as were
\* stopped while they waited in line (remove wakes the next one with no slot
\* to give it), and by those that were stopped or resumed too early themselves,
\* which go on with no slot.
OverrunOnlyByStops ==
    isEnabled => Cardinality({c \in Alive : exec[c] \in Undisturbed}) <= Limit + removals

\* The line is fair: no call gets a slot before one that was ahead of it, nor
\* a newcomer before anyone who waits (enqueue, resolveNext).
FirstComeFirstServed ==
    [][\A c, d \in Calls :
         /\ isEnabled /\ c \in Line /\ c \in Line'
         /\ d \notin held /\ d \in held'
         => \E i, j \in DOMAIN queue : queue[i] = d /\ queue[j] = c /\ i < j]_vars

\* The workflow is this call's to run, and its row is not saved yet.
Executing == {c \in Calls : step[c] \in {"marked", "registered", "running", "parking", "cancelled"}}

\* Two calls never run one execution at a time, however its timer, its webhook
\* and a stop interleave, and across restarts (requireStatus "waiting"); unless
\* a run saves twice, and overwrites the mark of the call that has resumed it.
ResumedOnce ==
    \A c, d \in Executing :
        exec[c] = exec[d] /\ (\A r \in resaved : exec[r] # exec[c]) => c = d

\* The slots whose calls are over.
Stranded == {c \in held : step[c] \notin UnderWay}

\* Whoever waits for capacity gets it in the end, or is stopped, or its process
\* ends; unless every slot is held by a call that is over (release).
EventuallyServed ==
    \A c \in Calls : c \in Line ~> c \notin Line \/ Cardinality(Stranded) >= Limit
=============================================================================
