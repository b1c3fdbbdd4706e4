------------------------ MODULE ScheduleTriggerProofs ------------------------
(***************************************************************************)
(* Proofs about ScheduleTriggerRuns: while no concurrency limit makes a    *)
(* delivery wait for capacity, an occurrence starts its workflow at most   *)
(* once however often it is delivered, and none is recorded as done whose  *)
(* execution did not begin - for any number of mains, occurrences, faults  *)
(* and attempts.                                                           *)
(***************************************************************************)
EXTENDS ScheduleTriggerRuns, SchedulerRefinementProofs

-----------------------------------------------------------------------------
(* The inductive invariant.                                                *)

Delivers(f) == f.pc = "executing"

Begun(t) == execution[t] # NoRow /\ execution[t].status = "started"

\* The handler called dispatched(), or returned, which counts as that.
Reported(f) == f.pc = "returned" \/ f.mark # "undefined"

\* A delivery in the middle of a handoff has its row, and time left on it.
DeliveriesOwn == \A f \in fires : Delivers(f) => Owns(f) /\ task[f.id].lease > 0

ReportedBegan == \A f \in fires : Reported(f) => Begun(f.id)

\* Every handoff is that of a delivery that still runs, and there is one of
\* them for an occurrence.
HandoffsDeliver == \A w \in handoff : \E f \in fires : Delivers(f) /\ w \in Of(f)
OneHandoff == \A v, w \in handoff : v.id = w.id => v = w

\* What a handoff has seen or done is still so.
EntryKnows(w) ==
    /\ w.at = "sawNone" => ~IsTombstone(execution[w.id])
    /\ w.at = "sawTombstone" => IsTombstone(execution[w.id])
    /\ w.at = "created" => execution[w.id] = [by |-> w.epoch, status |-> "new"]
    /\ w.at \in {"marked", "launched"} => Begun(w.id)
    /\ w.at = "marked" => launches[w.id] = 0

LaunchesKnow == \A t \in Tasks : launches[t] <= 1 /\ (launches[t] # 0 => Begun(t))

HandlerTypes ==
    /\ execution \in [Tasks -> ExecutionRow \cup {NoRow}]
    /\ handoff \subseteq Handoff
    /\ launches \in [Tasks -> Nat]

\* What the executor, the reapers and the table keep.
SchedulerKnows == IInv /\ DeliveriesOwn /\ ReportedBegan /\ SucceededHasExecution

\* What the handlers keep.
HandlersKnow ==
    /\ HandlerTypes
    /\ HandoffsDeliver /\ OneHandoff
    /\ \A w \in handoff : EntryKnows(w)
    /\ LaunchesKnow

TriggerInv == SchedulerKnows /\ HandlersKnow

-----------------------------------------------------------------------------
(* A delivery keeps its row.                                               *)

\* Two fires that own one row are one fire.
LEMMA OneOwner ==
    ASSUME IInv, NEW f \in fires, NEW g \in fires, f.id = g.id, Owns(f), Owns(g)
    PROVE  f = g
BY DEF IInv, SingleOwner, SameLease, Owns

\* The write of one fire does not touch the row that another one owns.
LEMMA OthersWrite ==
    ASSUME IInv, NEW f \in fires, NEW g \in fires, f # g, Owns(f), NEW row,
           runGuardedUpdate(g, row) \/ beginDispatch(g) \/ UNCHANGED task
    PROVE  task'[f.id] = task[f.id]
<1>1. f.id \in Tasks /\ g.id \in Tasks /\ task \in [Tasks -> Row]
  BY FireKnows
<1>2. ~Owns(g) \/ g.id # f.id
  BY OneOwner
<1>3. QED
  BY <1>1, <1>2 DEF runGuardedUpdate, beginDispatch, WinsDispatch

\* What a step leaves of a delivery: the fire and its row.
Untouched(f) == f \in fires' /\ task'[f.id] = task[f.id]

\* A step of one fire leaves the deliveries of the others alone.
LEMMA OthersStep ==
    ASSUME IInv, NEW f \in fires, NEW g \in fires, f # g, Owns(f), FireStep(g)
    PROVE  Untouched(f)
<1>1. \A h : f \in (fires \ {g}) \cup {h}
  OBVIOUS
<1>2. f \in fires'
  BY <1>1 DEF FireStep, Release, TimerFires, BeginDispatch, BeginDispatchRejects,
              ReportDispatched, MarkSettles, HandlerReturns, HandlerThrows,
              RecordOutcome, OutcomeRejects, End, GoTo, SetMark
<1>3. (\E row : runGuardedUpdate(g, row)) => task'[f.id] = task[f.id]
  BY OthersWrite
<1>4. beginDispatch(g) \/ UNCHANGED task => task'[f.id] = task[f.id]
  <2>1. \A row : beginDispatch(g) \/ UNCHANGED task => task'[f.id] = task[f.id]
    BY OthersWrite
  <2>2. QED
    BY <2>1
<1>5. (\E row : runGuardedUpdate(g, row)) \/ beginDispatch(g) \/ UNCHANGED task
  <2>1. CASE RecordOutcome(g)
    BY <2>1 DEF RecordOutcome, Outcome, completeTask, failTaskTerminal, rescheduleTask
  <2>2. CASE Release(g)
    BY <2>2 DEF Release, releaseClaim
  <2>3. CASE MarkSettles(g)
    BY <2>3 DEF MarkSettles, markDispatched
  <2>4. QED
    BY <2>1, <2>2, <2>3
       DEF FireStep, TimerFires, BeginDispatch, BeginDispatchRejects, ReportDispatched,
           HandlerReturns, HandlerThrows, OutcomeRejects
<1>6. QED
  BY <1>2, <1>3, <1>4, <1>5 DEF Untouched

-----------------------------------------------------------------------------
(* What a step of a fire makes of its own row and of itself.               *)

\* Recorded as done, or marked as handed off.
Done(row) == row.status = "succeeded" \/ row.dispatchedAt

LEMMA DoneHasBegun ==
    ASSUME SchedulerKnows, NEW t \in Tasks, Done(task[t])
    PROVE  Begun(t)
BY DEF SchedulerKnows, SucceededHasExecution, Done, Begun

LEMMA ReportHasBegun ==
    ASSUME SchedulerKnows, NEW f \in fires, Reported(f)
    PROVE  Begun(f.id)
BY DEF SchedulerKnows, ReportedBegan

\* A guarded write is harmless if it makes no row done whose execution did not
\* begin.
LEMMA GuardedRow ==
    ASSUME IInv, NEW f \in fires, NEW row, Owns(f) /\ Done(row) => Begun(f.id),
           runGuardedUpdate(f, row)
    PROVE  \A t \in Tasks : task'[t] = task[t] \/ (t = f.id /\ (Done(task'[t]) => Begun(t)))
<1>1. f.id \in Tasks /\ task \in [Tasks -> Row]
  BY FireKnows
<1>2. CASE Owns(f)
  <2>1. task'[f.id] = row /\ \A t \in Tasks \ {f.id} : task'[t] = task[t]
    BY <1>1, <1>2, GuardedUpdate DEF Others
  <2>2. QED
    BY <1>2, <2>1
<1>3. CASE ~Owns(f)
  BY <1>3 DEF runGuardedUpdate
<1>4. QED
  BY <1>2, <1>3

\* The rows a fire may write: it records an occurrence as done, or marks it,
\* only after the handler reported or returned.
LEMMA FireWritesDone ==
    ASSUME SchedulerKnows, NEW f \in fires, FireStep(f)
    PROVE  \A t \in Tasks : task'[t] = task[t] \/ (t = f.id /\ (Done(task'[t]) => Begun(t)))
<1>1. /\ IInv /\ f \in Fire /\ f.id \in Tasks /\ task \in [Tasks -> Row]
      /\ task[f.id] \in Row
  BY FireKnows DEF SchedulerKnows
<1>2. /\ Reported(f) => Begun(f.id)
      /\ Done(task[f.id]) => Begun(f.id)
  BY <1>1, DoneHasBegun, ReportHasBegun
<1>3. CASE UNCHANGED task
  BY <1>3
<1>4. CASE releaseClaim(f)
  <2>1. ~Done(Unclaimed(task[f.id]))
    BY <1>1, UnclaimedRow DEF Done
  <2>2. QED
    BY <1>1, <1>4, <2>1, GuardedRow DEF releaseClaim
<1>5. CASE beginDispatch(f)
  <2>1. \A t \in Tasks \ {f.id} : task'[t] = task[t]
    BY <1>1, <1>5 DEF beginDispatch
  <2>2. Done(task'[f.id]) => Done(task[f.id])
    BY <1>1, <1>5 DEF beginDispatch, Done, Row
  <2>3. QED
    BY <1>2, <2>1, <2>2
<1>6. CASE f.mark = "writing" /\ markDispatched(f)
  <2>1. Begun(f.id)
    BY <1>2, <1>6 DEF Reported
  <2>2. QED
    BY <1>1, <1>6, <2>1, GuardedRow DEF markDispatched
<1>7. CASE Outcome(f)
  <2>1. CASE (f.pc = "returned" \/ f.mark = "settled") /\ completeTask(f)
    <3>1. Begun(f.id)
      BY <1>2, <2>1 DEF Reported
    <3>2. QED
      BY <1>1, <2>1, <3>1, GuardedRow DEF completeTask
  <2>2. CASE failTaskTerminal(f)
    <3>. DEFINE row == [task[f.id] EXCEPT !.status = "failed", !.attempts = @ + 1]
    <3>1. Done(row) => Done(task[f.id])
      BY <1>1 DEF Done, Row
    <3>2. runGuardedUpdate(f, row)
      BY <2>2 DEF failTaskTerminal
    <3>. HIDE DEF row
    <3>3. QED
      BY <1>1, <1>2, <3>1, <3>2, GuardedRow
  <2>3. CASE rescheduleTask(f, backoff(f.attempts + 1))
    <3>. DEFINE row == [Unclaimed(task[f.id]) EXCEPT !.attempts = @ + 1,
                                                    !.wait = backoff(f.attempts + 1)]
    <3>1. ~Done(row)
      BY <1>1, UnclaimedRow DEF Done, Row
    <3>2. runGuardedUpdate(f, row)
      BY <2>3 DEF rescheduleTask
    <3>. HIDE DEF row
    <3>3. QED
      BY <1>1, <3>1, <3>2, GuardedRow
  <2>4. QED
    BY <1>7, <2>1, <2>2, <2>3 DEF Outcome
<1>8. QED
  BY <1>3, <1>4, <1>5, <1>6, <1>7
     DEF FireStep, Release, TimerFires, BeginDispatch, BeginDispatchRejects,
         ReportDispatched, MarkSettles, HandlerReturns, HandlerThrows,
         RecordOutcome, OutcomeRejects

\* A fire that goes on: who it is does not change.
Goes(f, g) == g.host = f.host /\ g.id = f.id /\ g.epoch = f.epoch

\* What becomes of a fire that takes a step.
LEMMA FireBecomes ==
    ASSUME SchedulerKnows, NEW f \in fires, FireStep(f), NEW g \in fires', g \notin fires \ {f}
    PROVE  /\ Goes(f, g)
           /\ Delivers(g) /\ ~Delivers(f) => WinsDispatch(f) /\ BeginDispatch(f)
           /\ Delivers(g) /\ Delivers(f) => ReportDispatched(f) \/ MarkSettles(f)
           /\ OtherFireStep(f) \/ HandlerThrows(f) => (Reported(g) => Reported(f))
<1>1. f \in Fire
  BY FireKnows DEF SchedulerKnows
<1>2. CASE \E pc : g = [f EXCEPT !.pc = pc] /\ pc \notin {"executing", "returned"}
  BY <1>1, <1>2 DEF Goes, Delivers, Reported, Fire
<1>3. CASE g = [f EXCEPT !.pc = "executing"] /\ WinsDispatch(f) /\ BeginDispatch(f)
  BY <1>1, <1>3 DEF Goes, Delivers, Reported, Fire, BeginDispatch
<1>4. CASE g = [f EXCEPT !.mark = "settled"] /\ MarkSettles(f)
  BY <1>1, <1>4 DEF Goes, Delivers, Reported, Fire, MarkSettles
<1>5. OtherFireStep(f) \/ HandlerThrows(f) =>
        \/ \E pc : g = [f EXCEPT !.pc = pc] /\ pc \notin {"executing", "returned"}
        \/ g = [f EXCEPT !.pc = "executing"] /\ WinsDispatch(f) /\ BeginDispatch(f)
        \/ g = [f EXCEPT !.mark = "settled"] /\ MarkSettles(f)
  BY DEF OtherFireStep, Release, TimerFires, BeginDispatch, BeginDispatchRejects,
         MarkSettles, HandlerThrows, RecordOutcome, OutcomeRejects, End, GoTo, SetMark
<1>6. CASE OtherFireStep(f) \/ HandlerThrows(f)
  BY <1>2, <1>3, <1>4, <1>5, <1>6
<1>7. CASE ~(OtherFireStep(f) \/ HandlerThrows(f)) /\ ReportDispatched(f)
  BY <1>1, <1>7 DEF Goes, Delivers, Reported, Fire, ReportDispatched, SetMark
<1>8. CASE ~(OtherFireStep(f) \/ HandlerThrows(f)) /\ HandlerReturns(f)
  BY <1>1, <1>8 DEF Goes, Delivers, Reported, Fire, HandlerReturns
<1>9. QED
  BY <1>6, <1>7, <1>8 DEF FireStep, OtherFireStep

-----------------------------------------------------------------------------
(* What the scheduler knows is kept by every step that takes no execution  *)
(* back.                                                                   *)

\* The execution table forgets no execution that began.
BegunStays == \A t \in Tasks : Begun(t) => Begun(t)'

LEMMA FireStepKnows ==
    ASSUME SchedulerKnows, BegunStays, NEW f \in fires, FireStep(f), UNCHANGED sweep,
           OtherFireStep(f) \/ HandlerThrows(f) \/ Begun(f.id)
    PROVE  SchedulerKnows'
<1>1. /\ IInv /\ f \in Fire /\ f.id \in Tasks /\ task \in [Tasks -> Row]
      /\ task[f.id] \in Row
  BY FireKnows DEF SchedulerKnows
<1>2. IInv'
  BY <1>1, FireStepInvariant
<1>3. \A g \in fires' : g \in Fire /\ g.id \in Tasks
  BY <1>2 DEF IInv, TypeOK, ExecutorTypeOK, Fire
<1>4. DeliveriesOwn'
  <2>. SUFFICES ASSUME NEW g \in fires', Delivers(g) PROVE Owns(g)' /\ task'[g.id].lease > 0
    BY DEF DeliveriesOwn, Delivers
  <2>1. CASE g \in fires \ {f}
    <3>1. Owns(g) /\ task[g.id].lease > 0
      BY <2>1 DEF SchedulerKnows, DeliveriesOwn
    <3>2. Untouched(g)
      BY <1>1, <2>1, <3>1, OthersStep
    <3>3. QED
      BY <3>1, <3>2 DEF Untouched, Owns
  <2>2. CASE g \notin fires \ {f}
    <3>1. Goes(f, g)
      BY <2>2, FireBecomes
    <3>2. CASE WinsDispatch(f) /\ BeginDispatch(f)
      <4>1. task' = [task EXCEPT ![f.id].startedAt = TRUE, ![f.id].lease = LeaseTicks]
        BY <3>2 DEF BeginDispatch, beginDispatch
      <4>2. /\ task'[f.id].lease = LeaseTicks /\ task'[f.id].status = task[f.id].status
            /\ task'[f.id].claimedBy = task[f.id].claimedBy
            /\ task'[f.id].leaseEpoch = task[f.id].leaseEpoch
        BY <1>1, <4>1 DEF Row
      <4>3. LeaseTicks > 0
        BY BoundsAssumption
      <4>4. QED
        BY <3>1, <3>2, <4>2, <4>3 DEF Goes, WinsDispatch, Owns
    <3>3. CASE Delivers(f) /\ (ReportDispatched(f) \/ MarkSettles(f))
      <4>1. Owns(f) /\ task[f.id].lease > 0
        BY <3>3 DEF SchedulerKnows, DeliveriesOwn
      <4>2. task' = task \/ task' = [task EXCEPT ![f.id] = [task[f.id] EXCEPT !.dispatchedAt = TRUE]]
        BY <3>3, <4>1 DEF ReportDispatched, MarkSettles, markDispatched, runGuardedUpdate
      <4>3. /\ task'[f.id].lease = task[f.id].lease /\ task'[f.id].status = task[f.id].status
            /\ task'[f.id].claimedBy = task[f.id].claimedBy
            /\ task'[f.id].leaseEpoch = task[f.id].leaseEpoch
        BY <1>1, <4>2 DEF Row
      <4>4. QED
        BY <3>1, <4>1, <4>3 DEF Goes, Owns
    <3>4. QED
      BY <2>2, <3>2, <3>3, FireBecomes
  <2>3. QED
    BY <2>1, <2>2
<1>5. ReportedBegan'
  <2>. SUFFICES ASSUME NEW g \in fires', Reported(g) PROVE Begun(g.id)'
    BY DEF ReportedBegan, Reported
  <2>1. CASE g \in fires \ {f}
    BY <1>3, <2>1, ReportHasBegun DEF BegunStays
  <2>2. CASE g \notin fires \ {f}
    <3>1. g.id = f.id
      BY <2>2, FireBecomes DEF Goes
    <3>2. Begun(f.id)
      BY <2>2, FireBecomes, ReportHasBegun
    <3>3. QED
      BY <1>3, <3>1, <3>2 DEF BegunStays
  <2>3. QED
    BY <2>1, <2>2
<1>6. SucceededHasExecution'
  <2>. SUFFICES ASSUME NEW t \in Tasks, Done(task'[t]) PROVE Begun(t)'
    BY DEF SucceededHasExecution, Done, Begun
  <2>1. Begun(t)
    BY FireWritesDone, DoneHasBegun
  <2>2. QED
    BY <2>1 DEF BegunStays
<1>7. QED
  BY <1>2, <1>4, <1>5, <1>6 DEF SchedulerKnows

\* A step that starts no handler, touches no row of a delivery and records
\* nothing as done that was not.
LEMMA OtherStepKnows ==
    ASSUME SchedulerKnows, BegunStays, IInv',
           \A g \in fires' : g \in fires \/ (~Delivers(g) /\ ~Reported(g)),
           \A f \in fires : Delivers(f) => task'[f.id] = task[f.id],
           \A t \in Tasks : Done(task'[t]) => Done(task[t])
    PROVE  SchedulerKnows'
<1>1. \A g \in fires' : g.id \in Tasks
  BY DEF IInv, TypeOK, ExecutorTypeOK, Fire
<1>2. DeliveriesOwn'
  <2>. SUFFICES ASSUME NEW g \in fires', Delivers(g) PROVE Owns(g)' /\ task'[g.id].lease > 0
    BY DEF DeliveriesOwn, Delivers
  <2>1. g \in fires /\ task'[g.id] = task[g.id]
    OBVIOUS
  <2>2. Owns(g) /\ task[g.id].lease > 0
    BY <2>1 DEF SchedulerKnows, DeliveriesOwn
  <2>3. QED
    BY <2>1, <2>2 DEF Owns
<1>3. ReportedBegan'
  <2>. SUFFICES ASSUME NEW g \in fires', Reported(g) PROVE Begun(g.id)'
    BY DEF ReportedBegan, Reported
  <2>1. Begun(g.id)
    BY ReportHasBegun
  <2>2. QED
    BY <1>1, <2>1 DEF BegunStays
<1>4. SucceededHasExecution'
  <2>. SUFFICES ASSUME NEW t \in Tasks, Done(task'[t]) PROVE Begun(t)'
    BY DEF SucceededHasExecution, Done, Begun
  <2>1. Begun(t)
    BY DoneHasBegun
  <2>2. QED
    BY <2>1 DEF BegunStays
<1>5. QED
  BY <1>2, <1>3, <1>4 DEF SchedulerKnows

-----------------------------------------------------------------------------
(* The other steps of a main: none of them touches a delivery.             *)

\* What OtherStepKnows asks of a step.
Harmless ==
    /\ \A g \in fires' : g \in fires \/ (~Delivers(g) /\ ~Reported(g))
    /\ \A f \in fires : Delivers(f) => task'[f.id] = task[f.id]
    /\ \A t \in Tasks : Done(task'[t]) => Done(task[t])

\* A row that is pending or whose lease has run out is no delivery's.
LEMMA DeliveryRow ==
    ASSUME SchedulerKnows, NEW f \in fires, Delivers(f)
    PROVE  /\ f.id \in Tasks /\ Owns(f)
           /\ task[f.id].status = "running" /\ task[f.id].lease # 0
           /\ task[f.id].lease > 0
BY FireKnows DEF SchedulerKnows, DeliveriesOwn, Owns

LEMMA ClaimTickHarmless ==
    ASSUME SchedulerKnows, NEW h \in Hosts, ClaimTick(h)
    PROVE  Harmless /\ fires' = fires
<1>1. PICK S \in SUBSET Tasks : claimDueTasks(h, S)
  BY DEF ClaimTick
<1>2. task \in [Tasks -> Row]
  BY DEF SchedulerKnows, IInv, TypeOK, StoreTypeOK
<1>3. \A t \in S : task[t].status = "pending"
  BY <1>1 DEF claimDueTasks, ClaimBatches, Due
<1>4. \A t \in Tasks : task'[t] = IF t \in S THEN Claimed(task[t], h) ELSE task[t]
  BY <1>1 DEF claimDueTasks
<1>5. \A t \in Tasks : Done(task'[t]) => Done(task[t])
  <2>. SUFFICES ASSUME NEW t \in S, Done(Claimed(task[t], h)) PROVE Done(task[t])
    BY <1>4
  <2>1. task[t] \in Row /\ task[t].leaseEpoch < MaxEpoch
    BY <1>1, <1>2 DEF claimDueTasks
  <2>2. /\ Claimed(task[t], h).status = "running"
        /\ Claimed(task[t], h).dispatchedAt = task[t].dispatchedAt
    BY <2>1, ClaimedRow
  <2>3. QED
    BY <2>2 DEF Done
<1>6. \A f \in fires : Delivers(f) => task'[f.id] = task[f.id]
  BY <1>3, <1>4, DeliveryRow
<1>7. fires' = fires
  BY DEF ClaimTick
<1>8. QED
  BY <1>5, <1>6, <1>7 DEF Harmless

\* The claims of a batch become fires that have not begun.
LEMMA BatchHarmless ==
    ASSUME SchedulerKnows, NEW b \in inflight, ScheduleClaimed(b) \/ HandBackClaims(b)
    PROVE  Harmless /\ fires \subseteq fires'
<1>1. b \in Batch
  BY DEF SchedulerKnows, IInv, TypeOK, ExecutorTypeOK
<1>2. PICK pc \in {"scheduled", "releasing"} :
        fires' = fires \cup {NewFire(b.host, c, pc) : c \in b.claims}
  BY DEF ScheduleClaimed, HandBackClaims
<1>3. \A c \in b.claims : ~Delivers(NewFire(b.host, c, pc)) /\ ~Reported(NewFire(b.host, c, pc))
  BY <1>1, NewFireFields DEF Delivers, Reported
<1>4. UNCHANGED task
  BY DEF ScheduleClaimed, HandBackClaims
<1>5. QED
  BY <1>2, <1>3, <1>4 DEF Harmless

\* A tracked fire is armed and has not begun (TrackedIsArmed).
LEMMA StopHarmless ==
    ASSUME SchedulerKnows, NEW h \in Hosts, Stop(h)
    PROVE  Harmless /\ \A f \in fires : Delivers(f) => f \in fires'
<1>1. \A f \in fires : f \in Fire /\ (f.mark # "undefined" => Ran(f))
  BY FireKnows DEF SchedulerKnows
<1>2. ASSUME NEW f \in TrackedOn(h)
      PROVE  f \in fires /\ f.pc = "scheduled" /\ f.mark = "undefined"
  <2>1. f \in fires /\ f.host = h /\ claimedTaskById[h][f.id] = f.epoch
    BY DEF TrackedOn
  <2>2. f.epoch # 0 /\ f.id \in Tasks
    BY <1>1, <2>1 DEF Fire
  <2>3. PICK k \in fires : /\ k.host = h /\ k.id = f.id /\ k.pc = "scheduled"
                           /\ k.epoch = f.epoch
    BY <2>1, <2>2 DEF SchedulerKnows, IInv, TrackedIsArmed
  <2>4. k = f
    BY <2>1, <2>3 DEF SchedulerKnows, IInv, SingleOwner, SameLease
  <2>5. QED
    BY <1>1, <2>1, <2>3, <2>4 DEF Ran
<1>3. \A f \in TrackedOn(h) : LET g == [f EXCEPT !.pc = "releasing"]
                               IN  ~Delivers(g) /\ ~Reported(g)
  BY <1>1, <1>2 DEF Delivers, Reported, Fire
<1>4. /\ fires' = (fires \ ScheduledOn(h)) \cup
                    {[f EXCEPT !.pc = "releasing"] : f \in TrackedOn(h)}
      /\ UNCHANGED task
  BY DEF Stop
<1>5. \A g \in fires' : g \in fires \/ (~Delivers(g) /\ ~Reported(g))
  BY <1>3, <1>4
<1>6. \A f \in fires : Delivers(f) => f \in fires'
  BY <1>4 DEF ScheduledOn, Delivers
<1>7. QED
  BY <1>4, <1>5, <1>6 DEF Harmless

LEMMA RestartHarmless ==
    ASSUME SchedulerKnows, NEW h \in Hosts, Restart(h)
    PROVE  Harmless /\ fires' = {f \in fires : f.host # h}
BY DEF Restart, ProcessRestarts, Harmless

\* A sweep writes only rows whose lease has run out, and completes only those
\* that are marked.
LEMMA ReapHarmless ==
    ASSUME SchedulerKnows, NEW h \in Hosts, Reap(h)
    PROVE  Harmless /\ fires' = fires
<1>1. fires' = fires
  BY DEF Reap, executorVars
<1>2. CASE UNCHANGED task
  BY <1>1, <1>2 DEF Harmless
<1>3. ASSUME NEW r \in sweep[h], Resolve(r) PROVE Harmless
  <2>1. r \in Expired /\ r.id \in Tasks /\ task \in [Tasks -> Row] /\ task[r.id] \in Row
    BY DEF SchedulerKnows, IInv, TypeOK, StoreTypeOK, ReaperTypeOK, Expired
  <2>2. PICK row, dispatched :
          /\ runReaperUpdate(r, row, dispatched)
          /\ Done(row) => Done(task[r.id]) \/ ~ReaperOwns(r, dispatched)
    <3>1. CASE completeExpired(r)
      <4>1. ReaperOwns(r, TRUE) => Done(task[r.id])
        BY DEF ReaperOwns, Done
      <4>2. QED
        BY <3>1, <4>1 DEF completeExpired
    <3>2. CASE deadLetterExpired(r)
      <4>. DEFINE row == [task[r.id] EXCEPT !.status = "failed", !.attempts = @ + 1]
      <4>1. Done(row) => Done(task[r.id])
        BY <2>1 DEF Done, Row
      <4>2. runReaperUpdate(r, row, FALSE)
        BY <3>2 DEF deadLetterExpired
      <4>. HIDE DEF row
      <4>3. QED
        BY <4>1, <4>2
    <3>3. CASE reclaimExpired(r, backoff(r.attempts + 1))
      <4>. DEFINE row == [Unclaimed(task[r.id]) EXCEPT !.attempts = @ + 1, !.leaseEpoch = @ + 1,
                                                      !.wait = backoff(r.attempts + 1)]
      <4>1. ~Done(row)
        BY <2>1, UnclaimedRow DEF Done, Row
      <4>2. runReaperUpdate(r, row, FALSE)
        BY <3>3 DEF reclaimExpired
      <4>. HIDE DEF row
      <4>3. QED
        BY <4>1, <4>2
    <3>4. QED
      BY <1>3, <3>1, <3>2, <3>3 DEF Resolve
  <2>3. CASE ReaperOwns(r, dispatched)
    <3>1. /\ task' = [task EXCEPT ![r.id] = row]
          /\ Done(row) => Done(task[r.id])
      BY <2>2, <2>3 DEF runReaperUpdate
    <3>2. task[r.id].lease = 0
      BY <2>3 DEF ReaperOwns, LeaseExpired
    <3>3. \A f \in fires : Delivers(f) => f.id # r.id /\ f.id \in Tasks
      BY <3>2, DeliveryRow
    <3>4. QED
      BY <1>1, <2>1, <2>2, <2>3, <3>1, <3>3 DEF Harmless
  <2>4. CASE ~ReaperOwns(r, dispatched)
    BY <1>1, <2>2, <2>4 DEF runReaperUpdate, Harmless
  <2>5. QED
    BY <2>3, <2>4
<1>4. QED
  BY <1>1, <1>2, <1>3 DEF Reap, SweepReads, SweepResolves, SweepSkips, SweepEnds

\* A tick comes when no handler runs, and changes clocks only.
LEMMA TickHarmless ==
    ASSUME SchedulerKnows, \A f \in fires : f.pc # "executing", Tick
    PROVE  Harmless /\ fires' = fires
<1>1. fires' = fires
  BY DEF Tick, executorVars
<1>2. \A t \in Tasks : Done(task'[t]) => Done(task[t])
  BY DEF Tick, ClockAdvances, Done, SchedulerKnows, IInv, TypeOK, StoreTypeOK, Row
<1>3. QED
  BY <1>1, <1>2 DEF Harmless, Delivers

-----------------------------------------------------------------------------
(* The handlers.                                                           *)

\* Of one handoff there is one delivery, and what it has seen holds.
LEMMA HandoffOf ==
    ASSUME TriggerInv, NEW f \in fires, NEW w \in Of(f)
    PROVE  /\ Delivers(f) /\ w \in Handoff /\ EntryKnows(w)
           /\ w.host = f.host /\ w.id = f.id /\ w.epoch = f.epoch
<1>1. w \in handoff /\ w.host = f.host /\ w.id = f.id /\ w.epoch = f.epoch
  BY DEF Of
<1>2. PICK g \in fires : Delivers(g) /\ w \in Of(g)
  BY <1>1 DEF TriggerInv, HandlersKnow, HandoffsDeliver
<1>3. g = f
  BY <1>1, <1>2 DEF Of, TriggerInv, SchedulerKnows, IInv, SingleOwner, SameLease
<1>4. QED
  BY <1>1, <1>2, <1>3 DEF TriggerInv, HandlersKnow, HandlerTypes

\* Another handoff is of another occurrence.
LEMMA HandoffOfOthers ==
    ASSUME TriggerInv, NEW f \in fires, Delivers(f), NEW w \in handoff, w \notin Of(f)
    PROVE  w.id # f.id
<1>1. PICK g \in fires : Delivers(g) /\ w \in Of(g)
  BY DEF TriggerInv, HandlersKnow, HandoffsDeliver
<1>2. Owns(f) /\ Owns(g) /\ w.id = g.id
  BY <1>1, DeliveryRow DEF Of, TriggerInv
<1>3. QED
  BY <1>1, <1>2, OneOwner DEF TriggerInv, SchedulerKnows

\* The handlers know what they knew while their deliveries go on.
LEMMA HandlersGoOn ==
    ASSUME HandlersKnow, handoff' \subseteq handoff, UNCHANGED <<execution, launches>>,
           \A f \in fires, w \in handoff' :
             Delivers(f) /\ w \in Of(f) => \E g \in fires' : Delivers(g) /\ Goes(f, g)
    PROVE  HandlersKnow'
<1>1. HandlerTypes' /\ OneHandoff'
  BY DEF HandlersKnow, HandlerTypes, OneHandoff
<1>2. HandoffsDeliver'
  <2>. SUFFICES ASSUME NEW w \in handoff'
                PROVE  \E g \in fires' : Delivers(g) /\ w \in Of(g)'
    BY DEF HandoffsDeliver, Delivers
  <2>1. PICK f \in fires : Delivers(f) /\ w \in Of(f)
    BY DEF HandlersKnow, HandoffsDeliver
  <2>2. PICK g \in fires' : Delivers(g) /\ Goes(f, g)
    BY <2>1
  <2>3. w \in Of(g)'
    BY <2>1, <2>2 DEF Of, Goes
  <2>4. QED
    BY <2>2, <2>3
<1>3. \A w \in handoff' : EntryKnows(w)'
  BY DEF HandlersKnow, EntryKnows, IsTombstone, Begun
<1>4. LaunchesKnow'
  BY DEF HandlersKnow, LaunchesKnow, Begun
<1>5. QED
  BY <1>1, <1>2, <1>3, <1>4 DEF HandlersKnow

Entry(f, at) == [host |-> f.host, id |-> f.id, epoch |-> f.epoch, at |-> at]

LEMMA EntryFields ==
    ASSUME NEW f \in Fire, NEW at \in {"sawNone", "sawTombstone", "created", "marked", "launched"}
    PROVE  /\ Entry(f, at) \in Handoff
           /\ Entry(f, at).host = f.host /\ Entry(f, at).id = f.id
           /\ Entry(f, at).epoch = f.epoch /\ Entry(f, at).at = at
BY DEF Entry, Handoff, Fire

\* A step of a handler concerns no other occurrence.
LEMMA HandlerReaches ==
    ASSUME TriggerInv, UNCHANGED vars, NEW f \in fires, Delivers(f),
           NEW at \in {"sawNone", "sawTombstone", "created", "marked", "launched"},
           Reaches(f, at),
           execution' \in [Tasks -> ExecutionRow \cup {NoRow}],
           launches' \in [Tasks -> Nat],
           \A t \in Tasks \ {f.id} : execution'[t] = execution[t] /\ launches'[t] = launches[t],
           EntryKnows(Entry(f, at))',
           launches'[f.id] <= 1 /\ (launches'[f.id] # 0 => Begun(f.id)')
    PROVE  HandlersKnow'
<1>. DEFINE e == Entry(f, at)
<1>1. f \in Fire /\ f.id \in Tasks
  BY FireKnows DEF TriggerInv, SchedulerKnows
<1>2. /\ e \in Handoff /\ e.host = f.host /\ e.id = f.id /\ e.epoch = f.epoch
      /\ EntryKnows(e)'
  BY <1>1, EntryFields
<1>3. handoff' = (handoff \ Of(f)) \cup {e}
  BY DEF Reaches, Entry
<1>. HIDE DEF e
<1>4. \A w \in handoff' : w = e \/ (w \in handoff /\ w.id # f.id)
  BY <1>3, HandoffOfOthers
<1>5. handoff \subseteq Handoff /\ fires' = fires
  BY DEF TriggerInv, HandlersKnow, HandlerTypes, vars, executorVars
<1>6. HandlerTypes'
  BY <1>2, <1>3, <1>5 DEF HandlerTypes
<1>7. OneHandoff'
  BY <1>2, <1>4 DEF TriggerInv, HandlersKnow, OneHandoff
<1>8. HandoffsDeliver'
  <2>. SUFFICES ASSUME NEW w \in handoff'
                PROVE  \E g \in fires' : Delivers(g) /\ w \in Of(g)'
    BY DEF HandoffsDeliver, Delivers
  <2>1. CASE w = e
    BY <1>2, <1>5, <2>1 DEF Of
  <2>2. CASE w \in handoff
    <3>1. PICK g \in fires : Delivers(g) /\ w \in Of(g)
      BY <2>2 DEF TriggerInv, HandlersKnow, HandoffsDeliver
    <3>2. QED
      BY <1>5, <3>1 DEF Of
  <2>3. QED
    BY <1>4, <2>1, <2>2
<1>9. \A w \in handoff' : EntryKnows(w)'
  <2>. SUFFICES ASSUME NEW w \in handoff, w.id # f.id PROVE EntryKnows(w)'
    BY <1>2, <1>4
  <2>1. EntryKnows(w) /\ w.id \in Tasks
    BY <1>5 DEF TriggerInv, HandlersKnow, Handoff
  <2>2. execution'[w.id] = execution[w.id] /\ launches'[w.id] = launches[w.id]
    BY <2>1
  <2>3. QED
    BY <2>1, <2>2 DEF EntryKnows, IsTombstone, Begun
<1>10. LaunchesKnow'
  <2>. SUFFICES ASSUME NEW t \in Tasks
                PROVE  launches'[t] <= 1 /\ (launches'[t] # 0 => Begun(t)')
    BY DEF LaunchesKnow
  <2>1. CASE t = f.id
    BY <2>1
  <2>2. CASE t # f.id
    BY <2>2 DEF TriggerInv, HandlersKnow, LaunchesKnow, Begun
  <2>3. QED
    BY <2>1, <2>2
<1>11. QED
  BY <1>6, <1>7, <1>8, <1>9, <1>10 DEF HandlersKnow

\* What a handler does to the execution table does not disturb the scheduler.
LEMMA HandlerAlone ==
    ASSUME SchedulerKnows, BegunStays, UNCHANGED vars
    PROVE  SchedulerKnows'
<1>1. IInv'
  BY StutterInvariant DEF SchedulerKnows
<1>2. fires' = fires /\ task' = task
  BY DEF vars, executorVars
<1>3. QED
  BY <1>1, <1>2, OtherStepKnows

\* The row of the occurrence a fire is for.
LEMMA ExecutionOf ==
    ASSUME TriggerInv, NEW f \in fires
    PROVE  /\ f.id \in Tasks /\ f \in Fire
           /\ execution \in [Tasks -> ExecutionRow \cup {NoRow}]
           /\ launches \in [Tasks -> Nat] /\ launches[f.id] \in Nat
           /\ execution[f.id] # NoRow => execution[f.id] \in ExecutionRow
           /\ launches[f.id] <= 1 /\ (launches[f.id] # 0 => Begun(f.id))
BY FireKnows DEF TriggerInv, SchedulerKnows, HandlersKnow, HandlerTypes, LaunchesKnow

LEMMA LookKeeps ==
    ASSUME TriggerInv, NEW f \in fires, Look(f) PROVE TriggerInv'
<1>1. PICK at \in {"sawNone", "sawTombstone"} :
        /\ Reaches(f, at)
        /\ at = "sawTombstone" <=> IsTombstone(execution[f.id])
  <2>1. CASE IsTombstone(execution[f.id])
    BY <2>1 DEF Look
  <2>2. CASE ~IsTombstone(execution[f.id])
    BY <2>2 DEF Look
  <2>3. QED
    BY <2>1, <2>2
<1>2. BegunStays
  BY DEF Look, BegunStays, Begun
<1>3. Delivers(f) /\ UNCHANGED <<vars, execution, launches>>
  BY DEF Look, Delivers
<1>4. EntryKnows(Entry(f, at))'
  BY <1>1, <1>3 DEF EntryKnows, IsTombstone, Entry
<1>5. launches'[f.id] <= 1 /\ (launches'[f.id] # 0 => Begun(f.id)')
  BY <1>3, ExecutionOf DEF Begun
<1>6. HandlersKnow'
  BY <1>1, <1>3, <1>4, <1>5, ExecutionOf, HandlerReaches
<1>7. QED
  BY <1>2, <1>3, <1>6, HandlerAlone DEF TriggerInv

\* A row is inserted where there was none, or over one that never began: in
\* neither case was the workflow started.
LEMMA InsertKeeps ==
    ASSUME TriggerInv, NEW f \in fires, Insert(f) PROVE TriggerInv'
<1>. DEFINE row == [by |-> f.epoch, status |-> "new"]
<1>1. PICK w \in Of(f) : w.at \in {"sawNone", "sawTombstone"}
  BY DEF Insert, IsAt
<1>2. Delivers(f)
  BY <1>1, HandoffOf
<1>3. ~Begun(f.id)
  BY DEF Insert, Reclaims, IsTombstone, Begun
<1>4. launches[f.id] = 0
  BY <1>3, ExecutionOf
<1>5. /\ execution' = [execution EXCEPT ![f.id] = row]
      /\ Reaches(f, "created") /\ UNCHANGED <<vars, launches>>
  BY DEF Insert
<1>6. row \in ExecutionRow
  BY ExecutionOf DEF ExecutionRow, Fire
<1>7. BegunStays
  BY <1>3, <1>5 DEF BegunStays, Begun
<1>8. execution'[f.id] = row
  BY <1>5, ExecutionOf
<1>9. EntryKnows(Entry(f, "created"))'
  BY <1>8 DEF EntryKnows, Entry
<1>. HIDE DEF row
<1>10. execution' \in [Tasks -> ExecutionRow \cup {NoRow}]
  BY <1>5, <1>6, ExecutionOf
<1>11. HandlersKnow'
  BY <1>2, <1>4, <1>5, <1>9, <1>10, ExecutionOf, HandlerReaches
<1>12. QED
  BY <1>5, <1>7, <1>11, HandlerAlone DEF TriggerInv

LEMMA MarkStartedKeeps ==
    ASSUME TriggerInv, NEW f \in fires, MarkStarted(f) PROVE TriggerInv'
<1>1. PICK w \in Of(f) : w.at = "created"
  BY DEF MarkStarted, IsAt
<1>2. Delivers(f) /\ execution[f.id] = [by |-> f.epoch, status |-> "new"]
  BY <1>1, HandoffOf DEF EntryKnows
<1>3. execution[f.id] \in ExecutionRow /\ execution[f.id] # NoRow
  BY <1>2, ExecutionOf, NoRowAssumption DEF ExecutionRow, Fire
<1>4. /\ execution' = [execution EXCEPT ![f.id].status = "started"]
      /\ Reaches(f, "marked") /\ UNCHANGED <<vars, launches>>
  BY <1>2, <1>3 DEF MarkStarted
<1>5. /\ execution'[f.id] \in ExecutionRow /\ execution'[f.id] # NoRow
      /\ execution'[f.id].status = "started"
  BY <1>3, <1>4, ExecutionOf, NoRowAssumption DEF ExecutionRow
<1>6. Begun(f.id)'
  BY <1>5 DEF Begun
<1>7. ~Begun(f.id)
  BY <1>2 DEF Begun
<1>8. launches[f.id] = 0
  BY <1>7, ExecutionOf
<1>9. BegunStays
  BY <1>4, <1>6 DEF BegunStays, Begun
<1>10. EntryKnows(Entry(f, "marked"))'
  BY <1>4, <1>6, <1>8 DEF EntryKnows, Entry
<1>11. execution' \in [Tasks -> ExecutionRow \cup {NoRow}]
  BY <1>4, <1>5, ExecutionOf
<1>12. HandlersKnow'
  BY <1>2, <1>4, <1>8, <1>10, <1>11, ExecutionOf, HandlerReaches
<1>13. QED
  BY <1>4, <1>9, <1>12, HandlerAlone DEF TriggerInv

LEMMA LaunchKeeps ==
    ASSUME TriggerInv, NEW f \in fires, Launch(f) PROVE TriggerInv'
<1>1. PICK w \in Of(f) : w.at = "marked"
  BY DEF Launch, IsAt
<1>2. Delivers(f) /\ Begun(f.id) /\ launches[f.id] = 0
  BY <1>1, HandoffOf DEF EntryKnows
<1>3. /\ launches' = [launches EXCEPT ![f.id] = @ + 1]
      /\ Reaches(f, "launched") /\ UNCHANGED <<vars, execution>>
  BY DEF Launch
<1>4. /\ launches'[f.id] = 1 /\ launches' \in [Tasks -> Nat]
      /\ \A t \in Tasks \ {f.id} : launches'[t] = launches[t]
  BY <1>2, <1>3, ExecutionOf
<1>5. BegunStays /\ Begun(f.id)'
  BY <1>2, <1>3 DEF BegunStays, Begun
<1>6. EntryKnows(Entry(f, "launched"))'
  BY <1>5 DEF EntryKnows, Entry
<1>7. HandlersKnow'
  BY <1>2, <1>3, <1>4, <1>5, <1>6, ExecutionOf, HandlerReaches
<1>8. QED
  BY <1>3, <1>5, <1>7, HandlerAlone DEF TriggerInv

\* A step that leaves the execution table alone.
LEMMA SameExecutions ==
    ASSUME UNCHANGED execution PROVE BegunStays
BY DEF BegunStays, Begun

LEMMA ReportKeeps ==
    ASSUME TriggerInv, NEW f \in fires, Report(f) PROVE TriggerInv'
<1>1. PICK w \in Of(f) : w.at = "launched"
  BY DEF Report, IsAt
<1>2. Delivers(f) /\ Begun(f.id) /\ f \in Fire
  BY <1>1, HandoffOf, ExecutionOf DEF EntryKnows
<1>3. ReportDispatched(f) /\ UNCHANGED <<sweep, execution, handoff, launches>>
  BY DEF Report, triggerVars
<1>4. SchedulerKnows'
  BY <1>2, <1>3, FireStepKnows, SameExecutions DEF FireStep, TriggerInv
<1>5. \A k \in fires : Delivers(k) => \E g \in fires' : Delivers(g) /\ Goes(k, g)
  <2>1. fires' = (fires \ {f}) \cup {[f EXCEPT !.mark = "writing"]}
    BY <1>3 DEF ReportDispatched, SetMark
  <2>2. Delivers([f EXCEPT !.mark = "writing"]) /\ Goes(f, [f EXCEPT !.mark = "writing"])
    BY <1>2 DEF Delivers, Goes, Fire
  <2>3. QED
    BY <2>1, <2>2 DEF Goes
<1>6. HandlersKnow'
  BY <1>3, <1>5, HandlersGoOn DEF TriggerInv
<1>7. QED
  BY <1>4, <1>6 DEF TriggerInv

\* The handler is over: its handoff goes with it, and the others stay.
LEMMA HandlerEnds ==
    ASSUME TriggerInv, NEW f \in fires,
           HandlerThrows(f) \/ (HandlerReturns(f) /\ Begun(f.id)),
           handoff' = handoff \ Of(f), UNCHANGED <<sweep, execution, launches>>
    PROVE  TriggerInv'
<1>1. SchedulerKnows'
  BY FireStepKnows, SameExecutions DEF TriggerInv, FireStep
<1>2. fires \ {f} \subseteq fires'
  BY DEF HandlerReturns, HandlerThrows, GoTo
<1>3. \A k \in fires, w \in handoff' :
        Delivers(k) /\ w \in Of(k) => \E g \in fires' : Delivers(g) /\ Goes(k, g)
  BY <1>2 DEF Goes
<1>4. HandlersKnow'
  BY <1>3, HandlersGoOn DEF TriggerInv
<1>5. QED
  BY <1>1, <1>4 DEF TriggerInv

\* A duplicate is found only where an execution began: with nobody beside it,
\* a delivery that saw a tombstone reclaims it.
LEMMA FindsDuplicateKeeps ==
    ASSUME TriggerInv, NEW f \in fires, FindsDuplicate(f) PROVE TriggerInv'
<1>1. PICK w \in Of(f) : w.at \in {"sawNone", "sawTombstone"}
  BY DEF FindsDuplicate, IsAt
<1>2. EntryKnows(w) /\ w.id = f.id
  BY <1>1, HandoffOf
<1>3. execution[f.id] # NoRow /\ ~Reclaims(f)
  BY DEF FindsDuplicate
<1>4. ~IsTombstone(execution[f.id])
  BY <1>1, <1>2, <1>3 DEF EntryKnows, Reclaims, IsAt
<1>5. Begun(f.id)
  BY <1>3, <1>4, ExecutionOf DEF IsTombstone, Begun, ExecutionRow
<1>6. QED
  BY <1>5, HandlerEnds DEF FindsDuplicate

LEMMA ReturnKeeps ==
    ASSUME TriggerInv, NEW f \in fires, Return(f) PROVE TriggerInv'
<1>1. Begun(f.id)
  BY ReportHasBegun DEF TriggerInv, Return, Reported
<1>2. QED
  BY <1>1, HandlerEnds DEF Return

LEMMA ThrowKeeps ==
    ASSUME TriggerInv, NEW f \in fires, Throw(f) PROVE TriggerInv'
BY HandlerEnds DEF Throw

\* The executor around the handler: a delivery goes on until its handler ends.
LEMMA OtherFireStepKeeps ==
    ASSUME TriggerInv, NEW f \in fires, OtherFireStep(f), UNCHANGED <<sweep, triggerVars>>
    PROVE  TriggerInv'
<1>1. FireStep(f)
  BY DEF OtherFireStep, FireStep
<1>2. SchedulerKnows'
  BY <1>1, FireStepKnows, SameExecutions DEF TriggerInv, triggerVars
<1>3. ASSUME NEW k \in fires, Delivers(k)
      PROVE  \E g \in fires' : Delivers(g) /\ Goes(k, g)
  <2>1. CASE k # f
    <3>1. k \in fires'
      BY <1>1, <1>3, <2>1, OthersStep, DeliveryRow DEF Untouched, TriggerInv, SchedulerKnows
    <3>2. QED
      BY <1>3, <3>1 DEF Goes
  <2>2. CASE k = f
    <3>1. MarkSettles(f) /\ f \in Fire
      BY <1>3, <2>2, ExecutionOf
         DEF OtherFireStep, Delivers, Release, TimerFires, BeginDispatch,
             BeginDispatchRejects, RecordOutcome, Outcome, OutcomeRejects
    <3>2. [f EXCEPT !.mark = "settled"] \in fires'
      BY <3>1 DEF MarkSettles, SetMark
    <3>3. QED
      BY <1>3, <2>2, <3>1, <3>2 DEF Delivers, Goes, Fire
  <2>3. QED
    BY <2>1, <2>2
<1>4. HandlersKnow'
  BY <1>3, HandlersGoOn DEF TriggerInv, triggerVars
<1>5. QED
  BY <1>2, <1>4 DEF TriggerInv

LEMMA HarmlessKeeps ==
    ASSUME TriggerInv, Harmless, IInv', UNCHANGED triggerVars,
           \A f \in fires : Delivers(f) => f \in fires'
    PROVE  TriggerInv'
<1>1. SchedulerKnows'
  BY OtherStepKnows, SameExecutions DEF Harmless, TriggerInv, triggerVars
<1>2. HandlersKnow'
  BY HandlersGoOn DEF TriggerInv, triggerVars, Goes
<1>3. QED
  BY <1>1, <1>2 DEF TriggerInv

\* A restart takes the fires of its main and their handoffs with it.
LEMMA RestartKeeps ==
    ASSUME TriggerInv, NEW h \in Hosts, Restart(h), IInv',
           handoff' = {w \in handoff : w.host # h}, UNCHANGED <<execution, launches>>
    PROVE  TriggerInv'
<1>1. Harmless /\ fires' = {f \in fires : f.host # h}
  BY RestartHarmless DEF TriggerInv
<1>2. SchedulerKnows'
  BY <1>1, OtherStepKnows, SameExecutions DEF Harmless, TriggerInv
<1>3. \A f \in fires, w \in handoff' : w \in Of(f) => f \in fires'
  BY <1>1 DEF Of
<1>4. HandlersKnow'
  BY <1>3, HandlersGoOn DEF TriggerInv, Goes
<1>5. QED
  BY <1>2, <1>4 DEF TriggerInv

-----------------------------------------------------------------------------
(* The theorems.                                                           *)

\* To the scheduler, the handlers are handlers that return, report or throw.
LEMMA TriggerStepIsStep == [TriggerNext]_allVars => [Next]_vars
<1>. SUFFICES ASSUME [TriggerNext]_allVars PROVE [Next]_vars
  OBVIOUS
<1>1. CASE UNCHANGED allVars
  BY <1>1 DEF allVars
<1>2. CASE \E f \in fires : HandlerStep(f)
  <2>1. PICK f \in fires : HandlerStep(f)
    BY <1>2
  <2>2. CASE Look(f) \/ Insert(f) \/ MarkStarted(f) \/ Launch(f)
    BY <2>2 DEF Look, Insert, MarkStarted, Launch
  <2>3. CASE FindsDuplicate(f) \/ Report(f) \/ Return(f) \/ Throw(f)
    BY <2>3 DEF FindsDuplicate, Report, Return, Throw, FireStep, ExecutorNext, Execute, Next
  <2>4. QED
    BY <2>1, <2>2, <2>3 DEF HandlerStep
<1>3. CASE ExecutorStep
  <2>1. \A f \in fires : OtherFireStep(f) => FireStep(f)
    BY DEF OtherFireStep, FireStep
  <2>2. QED
    BY <1>3, <2>1 DEF ExecutorStep, ExecutorNext, Execute, Next
<1>4. CASE \/ \E h \in Hosts : Reap(h) \/ Restart(h)
           \/ Tick \/ Settled
  BY <1>4 DEF Next
<1>5. QED
  BY <1>1, <1>2, <1>3, <1>4 DEF TriggerNext

LEMMA TriggerInitInvariant == TriggerInit => TriggerInv
<1>. SUFFICES ASSUME TriggerInit PROVE TriggerInv
  OBVIOUS
<1>1. IInv /\ fires = {}
  BY InitInvariant DEF TriggerInit, Init, ExecutorInit
<1>2. \A t \in Tasks : task[t].status = "pending" /\ task[t].dispatchedAt = FALSE
  BY DEF TriggerInit, Init, StoreInit
<1>3. SchedulerKnows
  BY <1>1, <1>2 DEF SchedulerKnows, DeliveriesOwn, ReportedBegan, SucceededHasExecution
<1>4. HandlersKnow
  BY DEF TriggerInit, HandlersKnow, HandlerTypes, HandoffsDeliver, OneHandoff, LaunchesKnow
<1>5. QED
  BY <1>3, <1>4 DEF TriggerInv

LEMMA TriggerNextInvariant ==
    ASSUME Prompt, TriggerInv, [TriggerNext]_allVars
    PROVE  TriggerInv'
<1>1. IInv'
  BY TriggerStepIsStep, NextInvariant DEF TriggerInv, SchedulerKnows
<1>2. CASE \E f \in fires : HandlerStep(f)
  BY <1>2, LookKeeps, InsertKeeps, FindsDuplicateKeeps, MarkStartedKeeps, LaunchKeeps,
     ReportKeeps, ReturnKeeps, ThrowKeeps DEF HandlerStep
<1>3. CASE ExecutorStep /\ UNCHANGED triggerVars
  <2>1. CASE \E h \in Hosts : ClaimTick(h)
    BY <1>1, <1>3, <2>1, ClaimTickHarmless, HarmlessKeeps DEF TriggerInv
  <2>2. CASE \E h \in Hosts : Stop(h)
    BY <1>1, <1>3, <2>2, StopHarmless, HarmlessKeeps DEF TriggerInv
  <2>3. CASE \E b \in inflight : ScheduleClaimed(b) \/ HandBackClaims(b)
    BY <1>1, <1>3, <2>3, BatchHarmless, HarmlessKeeps DEF TriggerInv
  <2>4. CASE \E f \in fires : OtherFireStep(f)
    BY <1>3, <2>4, OtherFireStepKeeps DEF ExecutorStep
  <2>5. QED
    BY <1>3, <2>1, <2>2, <2>3, <2>4 DEF ExecutorStep
<1>4. CASE \E h \in Hosts : Reap(h) /\ UNCHANGED triggerVars
  BY <1>1, <1>4, ReapHarmless, HarmlessKeeps DEF TriggerInv
<1>5. CASE \E h \in Hosts : /\ Restart(h)
                            /\ handoff' = {w \in handoff : w.host # h}
                            /\ UNCHANGED <<execution, launches>>
  BY <1>1, <1>5, RestartKeeps
<1>6. CASE /\ Prompt => \A f \in fires : f.pc # "executing"
           /\ Tick
           /\ UNCHANGED triggerVars
  BY <1>1, <1>6, TickHarmless, HarmlessKeeps DEF TriggerInv
<1>7. CASE (Settled /\ UNCHANGED triggerVars) \/ UNCHANGED allVars
  <2>1. UNCHANGED vars /\ UNCHANGED triggerVars
    BY <1>7 DEF Settled, allVars
  <2>2. Harmless /\ fires' = fires
    BY <2>1 DEF Harmless, vars, executorVars
  <2>3. QED
    BY <1>1, <2>1, <2>2, HarmlessKeeps
<1>8. QED
  BY <1>2, <1>3, <1>4, <1>5, <1>6, <1>7 DEF TriggerNext

\* Whatever the handlers do, to the scheduler they return, report or throw as it
\* expects (task-handler.ts): its theorems hold with them inside, prompt or not.
THEOREM HandlersFitTheScheduler == TriggerSpec => Spec
<1>1. TriggerInit => Init
  BY DEF TriggerInit
<1>2. QED
  BY <1>1, TriggerStepIsStep, PTL DEF TriggerSpec, Spec

\* The inductive invariant: as long as no limit makes a handler wait, a delivery
\* in the middle of its handoff owns its row, nobody hands the same occurrence
\* off beside it, and what it saw in the execution table is still so.
THEOREM TriggerInvariance == ASSUME Prompt PROVE TriggerSpec => []TriggerInv
<1>1. TriggerInv /\ [TriggerNext]_allVars => TriggerInv'
  BY TriggerNextInvariant
<1>2. QED
  BY <1>1, TriggerInitInvariant, PTL DEF TriggerSpec

\* Types of the execution table and of the handoffs.
THEOREM TriggerTypeCorrect == ASSUME Prompt PROVE TriggerSpec => []TriggerTypeOK
<1>1. TriggerInv => TriggerTypeOK
  <2>. SUFFICES ASSUME TriggerInv PROVE TriggerTypeOK
    OBVIOUS
  <2>1. /\ TypeOK /\ handoff \subseteq Handoff
        /\ execution \in [Tasks -> ExecutionRow \cup {NoRow}]
        /\ launches \in [Tasks -> Nat]
    BY DEF TriggerInv, SchedulerKnows, HandlersKnow, HandlerTypes, IInv
  <2>2. ASSUME NEW t \in Tasks, launches[t] # 0 PROVE MaxEpoch \in Nat /\ 1 <= MaxEpoch
    <3>1. Begun(t)
      BY <2>2 DEF TriggerInv, HandlersKnow, LaunchesKnow
    <3>2. execution[t] \in ExecutionRow
      BY <2>1, <3>1 DEF Begun
    <3>3. execution[t].by \in 1..MaxEpoch
      BY <3>2 DEF ExecutionRow
    <3>4. QED
      BY <3>3, Constants
  <2>3. \A t \in Tasks : launches[t] \in 0..MaxEpoch
    BY <2>1, <2>2, Constants DEF TriggerInv, HandlersKnow, LaunchesKnow
  <2>4. QED
    BY <2>1, <2>3 DEF TriggerTypeOK
<1>2. QED
  BY <1>1, TriggerInvariance, PTL

\* An occurrence delivered again after a crash, a lost marker or a lost outcome
\* does not start its workflow again (DuplicateExecutionError), with any number
\* of mains, occurrences, faults and attempts.
THEOREM WorkflowsStartOnce == ASSUME Prompt PROVE TriggerSpec => []StartedAtMostOnce
<1>1. TriggerInv => StartedAtMostOnce
  BY DEF TriggerInv, HandlersKnow, LaunchesKnow, StartedAtMostOnce
<1>2. QED
  BY <1>1, TriggerInvariance, PTL

\* No occurrence is recorded as succeeded or dispatched for an execution that
\* never began: the tombstone of a dead delivery is not mistaken for a handoff
\* (reclaimTombstone).
THEOREM NoneDoneUnstarted == ASSUME Prompt PROVE TriggerSpec => []SucceededHasExecution
<1>1. TriggerInv => SucceededHasExecution
  BY DEF TriggerInv, SchedulerKnows
<1>2. QED
  BY <1>1, TriggerInvariance, PTL

=============================================================================
