---------------------- MODULE SchedulerRefinementProofs ----------------------
(***************************************************************************)
(* What one step of the mains may do to the rows, and what follows from    *)
(* it: the action properties of DurableScheduler, and that it implements   *)
(* OccurrenceLifecycle - for any number of mains and occurrences.          *)
(***************************************************************************)
EXTENDS DurableSchedulerProofs

-----------------------------------------------------------------------------
(* The moves of one row.                                                   *)

Counted(old, new) == new.attempts = old.attempts + 1
Uncounted(old, new) == new.attempts = old.attempts

RowStep(old, new) ==
    \/ Stage(old) = "held" /\ Stage(new) = "queued" /\ Uncounted(old, new)
    \/ Stage(old) = "held" /\ Stage(new) = "started" /\ Uncounted(old, new)
    \/ Stage(old) = "started" /\ Stage(new) = "dispatched" /\ Uncounted(old, new)
    \/ /\ Stage(old) \in {"held", "started", "dispatched"} /\ Stage(new) = "queued"
       /\ old.attempts + 1 < MaxAttempts /\ Counted(old, new)
    \/ /\ Stage(old) \in {"held", "started"} /\ Stage(new) = "failed"
       /\ old.attempts + 1 = MaxAttempts /\ Counted(old, new)
    \/ Stage(old) \in {"started", "dispatched"} /\ Stage(new) = "succeeded" /\ Uncounted(old, new)

Others(t) == \A u \in Tasks \ {t} : task'[u] = task[u]

\* No row changes but for its clock.
Quiet ==
    \A t \in Tasks :
        /\ task'[t].status = task[t].status
        /\ task'[t].attempts = task[t].attempts
        /\ task'[t].claimedBy = task[t].claimedBy
        /\ task'[t].leaseEpoch = task[t].leaseEpoch
        /\ task'[t].startedAt = task[t].startedAt
        /\ task'[t].dispatchedAt = task[t].dispatchedAt

\* A claim takes a batch of pending rows.
Claims ==
    \E S \in SUBSET Tasks :
        /\ \A t \in S : Stage(task[t]) = "queued" /\ Stage(task'[t]) = "held"
                        /\ Uncounted(task[t], task'[t])
        /\ \A t \in Tasks \ S : task'[t] = task[t]

\* The owner writes, and keeps the row unless this is its last write.
OwnerWrites(g) ==
    /\ Owns(g)
    /\ RowStep(task[g.id], task'[g.id])
    /\ Others(g.id)
    /\ g \notin fires' \/ Owns(g)'
    /\ task[g.id].dispatchedAt /\ task'[g.id].status = "pending" => g.pc = "threw"

\* A sweep resolves an expired row, and never sends a dispatched one back.
SweepWrites(t) ==
    /\ LeaseExpired(t)
    /\ RowStep(task[t], task'[t])
    /\ Others(t)
    /\ task[t].dispatchedAt => task'[t].status # "pending"

TableStep ==
    \/ Quiet
    \/ Claims
    \/ \E g \in fires : OwnerWrites(g)
    \/ \E t \in Tasks : SweepWrites(t)

LEMMA Stages ==
    ASSUME NEW row \in Row
    PROVE  /\ row.status = "pending" => Stage(row) = "queued"
           /\ row.status \in Terminal => Stage(row) = row.status
           /\ row.status = "running" =>
                Stage(row) = IF ~row.startedAt THEN "held"
                             ELSE IF row.dispatchedAt THEN "dispatched" ELSE "started"
BY DEF Stage, Row, Statuses, Terminal

\* The rows of the updates, by their fields.
LEMMA RetryFields ==
    ASSUME NEW row \in Row, NEW w \in 0..BackoffMax, row.attempts + 1 < MaxAttempts
    PROVE  LET new == [Unclaimed(row) EXCEPT !.attempts = @ + 1, !.wait = w]
           IN  /\ new \in Row /\ new.status = "pending"
               /\ new.attempts = row.attempts + 1
<1>1. Unclaimed(row) \in Row /\ Unclaimed(row).attempts = row.attempts
      /\ Unclaimed(row).status = "pending"
  BY UnclaimedRow
<1>2. row.attempts + 1 \in 0..MaxAttempts
  BY Constants DEF Row
<1>3. QED
  BY <1>1, <1>2 DEF Row

LEMMA RunningRow ==
    ASSUME IInv, NEW t \in Tasks, task[t].status = "running"
    PROVE  /\ task[t] \in Row
           /\ task[t].attempts + 1 \in 0..MaxAttempts
           /\ task[t].dispatchedAt => task[t].startedAt
<1>1. task[t] \in Row /\ RowConsistent(task[t])
  BY DEF IInv, TypeOK, StoreTypeOK
<1>2. task[t].attempts \in 0..MaxAttempts /\ task[t].attempts # MaxAttempts
  BY <1>1 DEF RowConsistent, Row
<1>3. QED
  BY <1>1, <1>2, Constants DEF RowConsistent

\* A guarded update leaves the other rows alone, and every row if it is refused.
LEMMA GuardedUpdate ==
    ASSUME NEW f, f.id \in Tasks, NEW row, task \in [Tasks -> Row], runGuardedUpdate(f, row)
    PROVE  /\ Owns(f) => task'[f.id] = row /\ Others(f.id)
           /\ ~Owns(f) => Quiet
BY DEF runGuardedUpdate, Others, Quiet

LEMMA FireKnows ==
    ASSUME IInv, NEW f \in fires
    PROVE  /\ f \in Fire /\ f.id \in Tasks /\ task \in [Tasks -> Row]
           /\ Owns(f) => /\ f.attempts = task[f.id].attempts
                         /\ Ran(f) <=> task[f.id].startedAt
                         /\ f.mark # "settled" => ~task[f.id].dispatchedAt
                         /\ task[f.id].status = "running"
           /\ f.mark # "undefined" => Ran(f)
BY DEF IInv, TypeOK, StoreTypeOK, ExecutorTypeOK, Fire, MemoriesAgree, FireAgrees, Owns

-----------------------------------------------------------------------------
(* Each statement of the owner.                                            *)

\* A guarded update is a step of the row when its new row is one.
LEMMA OwnerStep ==
    ASSUME IInv, NEW f \in fires, NEW new,
           Owns(f) => /\ RowStep(task[f.id], new)
                      /\ task[f.id].dispatchedAt /\ new.status = "pending" => f.pc = "threw",
           \/ f \notin fires'
           \/ /\ new.status = "running"
              /\ new.claimedBy = task[f.id].claimedBy
              /\ new.leaseEpoch = task[f.id].leaseEpoch,
           runGuardedUpdate(f, new)
    PROVE  TableStep
<1>1. f.id \in Tasks /\ task \in [Tasks -> Row]
  BY FireKnows
<1>2. CASE Owns(f)
  <2>1. task'[f.id] = new /\ Others(f.id)
    BY <1>1, <1>2, GuardedUpdate
  <2>2. f \notin fires' \/ Owns(f)'
    BY <1>2, <2>1 DEF Owns
  <2>3. OwnerWrites(f)
    BY <1>2, <2>1, <2>2 DEF OwnerWrites
  <2>4. QED
    BY <2>3 DEF TableStep
<1>3. CASE ~Owns(f)
  BY <1>1, <1>3, GuardedUpdate DEF TableStep
<1>4. QED
  BY <1>2, <1>3

LEMMA ReleaseStep ==
    ASSUME IInv, NEW f \in fires, f.pc = "releasing", f \notin fires', releaseClaim(f)
    PROVE  TableStep
<1>1. f.id \in Tasks /\ task[f.id] \in Row
  BY FireKnows
<1>2. Owns(f) => task[f.id].status = "running" /\ ~task[f.id].startedAt
  BY FireKnows DEF Ran
<1>. DEFINE new == Unclaimed(task[f.id])
<1>3. new \in Row /\ new.status = "pending" /\ Uncounted(task[f.id], new)
  BY <1>1, UnclaimedRow DEF Uncounted
<1>. HIDE DEF new
<1>4. Stage(new) = "queued"
  BY <1>3, Stages
<1>5. Owns(f) => Stage(task[f.id]) = "held" /\ ~task[f.id].dispatchedAt
  BY <1>1, <1>2, Stages, RunningRow
<1>6. runGuardedUpdate(f, new)
  BY DEF releaseClaim, new
<1>7. QED
  BY <1>3, <1>4, <1>5, <1>6, OwnerStep DEF RowStep

LEMMA MarkStep ==
    ASSUME IInv, NEW f \in fires, f.mark = "writing", markDispatched(f)
    PROVE  TableStep
<1>1. f.id \in Tasks /\ task[f.id] \in Row
  BY FireKnows
<1>2. Owns(f) => task[f.id].status = "running" /\ task[f.id].startedAt /\ ~task[f.id].dispatchedAt
  BY FireKnows
<1>3. CASE ~Owns(f)
  BY <1>1, <1>3, FireKnows, GuardedUpdate DEF markDispatched, TableStep
<1>4. CASE Owns(f)
  <2>. DEFINE new == [task[f.id] EXCEPT !.dispatchedAt = TRUE]
  <2>1. /\ new \in Row /\ new.status = "running" /\ new.startedAt /\ new.dispatchedAt
        /\ new.claimedBy = task[f.id].claimedBy /\ new.leaseEpoch = task[f.id].leaseEpoch
        /\ Uncounted(task[f.id], new)
    BY <1>1, <1>2, <1>4 DEF Row, Uncounted
  <2>2. runGuardedUpdate(f, new)
    BY DEF markDispatched
  <2>. HIDE DEF new
  <2>3. Stage(new) = "dispatched" /\ Stage(task[f.id]) = "started"
    BY <1>1, <1>2, <1>4, <2>1, Stages
  <2>4. QED
    BY <1>2, <2>1, <2>2, <2>3, OwnerStep DEF RowStep
<1>5. QED
  BY <1>3, <1>4

LEMMA DispatchStep ==
    ASSUME IInv, NEW f \in fires, beginDispatch(f)
    PROVE  TableStep
<1>1. f.id \in Tasks /\ task \in [Tasks -> Row] /\ task[f.id] \in Row
  BY FireKnows
<1>2. CASE ~WinsDispatch(f)
  BY <1>2 DEF beginDispatch, TableStep, Quiet
<1>3. CASE WinsDispatch(f)
  <2>1. Owns(f) /\ task[f.id].status = "running" /\ ~task[f.id].startedAt
    BY <1>3 DEF WinsDispatch, Owns
  <2>2. ~task[f.id].dispatchedAt
    BY <1>1, <2>1, RunningRow
  <2>. DEFINE new == [task[f.id] EXCEPT !.startedAt = TRUE, !.lease = LeaseTicks]
  <2>3. task'[f.id] = new /\ Others(f.id)
    BY <1>1, <1>3 DEF beginDispatch, Others
  <2>4. /\ new \in Row /\ new.status = "running" /\ new.startedAt /\ ~new.dispatchedAt
        /\ new.claimedBy = task[f.id].claimedBy /\ new.leaseEpoch = task[f.id].leaseEpoch
        /\ Uncounted(task[f.id], new)
    BY <1>1, <2>1, <2>2, Constants DEF Row, Uncounted
  <2>. HIDE DEF new
  <2>5. Stage(new) = "started" /\ Stage(task[f.id]) = "held"
    BY <1>1, <2>1, <2>4, Stages
  <2>6. Owns(f)'
    BY <2>1, <2>3, <2>4 DEF Owns
  <2>7. OwnerWrites(f)
    BY <2>1, <2>2, <2>3, <2>4, <2>5, <2>6 DEF OwnerWrites, RowStep
  <2>8. QED
    BY <2>7 DEF TableStep
<1>4. QED
  BY <1>2, <1>3

LEMMA OutcomeStep ==
    ASSUME IInv, NEW f \in fires, f.mark # "writing", Outcome(f), f \notin fires'
    PROVE  TableStep
<1>1. f.id \in Tasks /\ task[f.id] \in Row /\ f.attempts \in 0..MaxAttempts
  BY FireKnows DEF Fire
<1>2. Ran(f)
  BY DEF Outcome, Ran
<1>3. Owns(f) => /\ task[f.id].status = "running" /\ task[f.id].startedAt
                 /\ f.attempts = task[f.id].attempts
                 /\ Stage(task[f.id]) \in {"started", "dispatched"}
  BY <1>1, <1>2, FireKnows, Stages
<1>4. CASE completeTask(f)
  <2>. DEFINE new == [task[f.id] EXCEPT !.status = "succeeded"]
  <2>1. new \in Row /\ new.status = "succeeded" /\ Uncounted(task[f.id], new)
    BY <1>1 DEF Row, Statuses, Terminal, Uncounted
  <2>2. runGuardedUpdate(f, new)
    BY <1>4 DEF completeTask
  <2>. HIDE DEF new
  <2>3. Stage(new) = "succeeded"
    BY <2>1, Stages DEF Terminal
  <2>4. QED
    BY <1>3, <2>1, <2>2, <2>3, OwnerStep DEF RowStep
<1>5. CASE LastAttempt(f) /\ f.mark = "undefined" /\ failTaskTerminal(f)
  <2>1. CASE ~Owns(f)
    BY <1>5, <2>1, FireKnows, GuardedUpdate DEF failTaskTerminal, TableStep
  <2>2. CASE Owns(f)
    <3>. DEFINE new == [task[f.id] EXCEPT !.status = "failed", !.attempts = @ + 1]
    <3>1. /\ task[f.id].attempts + 1 \in 0..MaxAttempts /\ ~task[f.id].dispatchedAt
          /\ task[f.id].attempts + 1 = MaxAttempts
      BY <1>1, <1>3, <1>5, <2>2, RunningRow, FireKnows, Constants DEF LastAttempt
    <3>2. new \in Row /\ new.status = "failed" /\ Counted(task[f.id], new)
      BY <1>1, <3>1 DEF Row, Statuses, Terminal, Counted
    <3>3. runGuardedUpdate(f, new)
      BY <1>5 DEF failTaskTerminal
    <3>. HIDE DEF new
    <3>4. Stage(new) = "failed" /\ Stage(task[f.id]) = "started"
      BY <1>1, <1>3, <2>2, <3>1, <3>2, Stages DEF Terminal
    <3>5. QED
      BY <3>1, <3>2, <3>3, <3>4, OwnerStep DEF RowStep
  <2>3. QED
    BY <2>1, <2>2
<1>6. CASE f.pc = "threw" /\ ~LastAttempt(f) /\ rescheduleTask(f, backoff(f.attempts + 1))
  <2>1. CASE ~Owns(f)
    BY <1>6, <2>1, FireKnows, GuardedUpdate DEF rescheduleTask, TableStep
  <2>2. CASE Owns(f)
    <3>. DEFINE w == backoff(f.attempts + 1)
                new == [Unclaimed(task[f.id]) EXCEPT !.attempts = @ + 1, !.wait = w]
    <3>1. f.attempts + 1 < MaxAttempts /\ task[f.id].attempts = f.attempts
      BY <1>1, <1>3, <1>6, <2>2, Constants DEF LastAttempt
    <3>2. w \in 0..BackoffMax
      BY <1>1, <3>1, BackoffType
    <3>3. runGuardedUpdate(f, new)
      BY <1>6 DEF rescheduleTask
    <3>. HIDE DEF w
    <3>4. new \in Row /\ new.status = "pending" /\ Counted(task[f.id], new)
      BY <1>1, <3>1, <3>2, RetryFields DEF Counted
    <3>. HIDE DEF new
    <3>5. Stage(new) = "queued"
      BY <3>4, Stages
    <3>6. QED
      BY <1>3, <1>6, <2>2, <3>1, <3>3, <3>4, <3>5, OwnerStep DEF RowStep
  <2>3. QED
    BY <2>1, <2>2
<1>7. QED
  BY <1>4, <1>5, <1>6 DEF Outcome

-----------------------------------------------------------------------------
(* The sweep, the claim and the clock.                                     *)

LEMMA SweepStep ==
    ASSUME IInv, NEW r, r.id \in Tasks, NEW new, NEW dispatched,
           ReaperOwns(r, dispatched) => /\ RowStep(task[r.id], new)
                                        /\ task[r.id].dispatchedAt => new.status # "pending",
           runReaperUpdate(r, new, dispatched)
    PROVE  TableStep
<1>1. task \in [Tasks -> Row]
  BY DEF IInv, TypeOK, StoreTypeOK
<1>2. CASE ~ReaperOwns(r, dispatched)
  BY <1>2 DEF runReaperUpdate, TableStep, Quiet
<1>3. CASE ReaperOwns(r, dispatched)
  <2>1. task'[r.id] = new /\ Others(r.id)
    BY <1>1, <1>3 DEF runReaperUpdate, Others
  <2>2. SweepWrites(r.id)
    BY <1>3, <2>1 DEF SweepWrites, ReaperOwns
  <2>3. QED
    BY <2>2 DEF TableStep
<1>4. QED
  BY <1>2, <1>3

\* Resolving a row a sweep has read.
LEMMA ResolveStep ==
    ASSUME IInv, NEW h \in Hosts, NEW r \in sweep[h], Resolve(r)
    PROVE  TableStep
<1>1. /\ r \in Expired /\ r.id \in Tasks /\ r.attempts \in 0..MaxAttempts
      /\ r.dispatched \in BOOLEAN /\ task[r.id] \in Row
  BY DEF IInv, TypeOK, StoreTypeOK, ReaperTypeOK, Expired
<1>2. ASSUME NEW d, ReaperOwns(r, d)
      PROVE  /\ task[r.id].status = "running" /\ task[r.id].attempts = r.attempts
             /\ task[r.id].dispatchedAt = d
             /\ task[r.id].attempts + 1 \in 0..MaxAttempts
             /\ Stage(task[r.id]) \in {"held", "started", "dispatched"}
             /\ d = FALSE => Stage(task[r.id]) \in {"held", "started"}
             /\ d = TRUE => Stage(task[r.id]) = "dispatched"
  <2>1. /\ task[r.id].status = "running" /\ task[r.id].leaseEpoch = r.epoch
        /\ task[r.id].dispatchedAt = d
    BY <1>2 DEF ReaperOwns, LeaseExpired
  <2>2. task[r.id].attempts = r.attempts
    BY <2>1 DEF IInv, MemoriesAgree, SweepAgrees
  <2>3. task[r.id].attempts + 1 \in 0..MaxAttempts /\ (task[r.id].dispatchedAt => task[r.id].startedAt)
    BY <1>1, <2>1, RunningRow
  <2>4. QED
    BY <1>1, <2>1, <2>2, <2>3, Stages
<1>3. CASE completeExpired(r)
  <2>. DEFINE new == [task[r.id] EXCEPT !.status = "succeeded"]
  <2>1. new \in Row /\ new.status = "succeeded" /\ Uncounted(task[r.id], new)
    BY <1>1 DEF Row, Statuses, Terminal, Uncounted
  <2>2. runReaperUpdate(r, new, TRUE)
    BY <1>3 DEF completeExpired
  <2>. HIDE DEF new
  <2>3. Stage(new) = "succeeded"
    BY <2>1, Stages DEF Terminal
  <2>4. ReaperOwns(r, TRUE) => RowStep(task[r.id], new) /\ new.status # "pending"
    BY <1>2, <2>1, <2>3 DEF RowStep
  <2>5. QED
    BY <1>1, <2>2, <2>4, SweepStep
<1>4. CASE r.attempts + 1 >= MaxAttempts /\ deadLetterExpired(r)
  <2>1. CASE ~ReaperOwns(r, FALSE)
    BY <1>4, <2>1 DEF deadLetterExpired, runReaperUpdate, TableStep, Quiet
  <2>2. CASE ReaperOwns(r, FALSE)
    <3>. DEFINE new == [task[r.id] EXCEPT !.status = "failed", !.attempts = @ + 1]
    <3>1. task[r.id].attempts + 1 = MaxAttempts /\ task[r.id].attempts + 1 \in 0..MaxAttempts
      <4>1. task[r.id].attempts = r.attempts /\ task[r.id].attempts + 1 \in 0..MaxAttempts
        BY <1>2, <2>2
      <4>2. QED
        BY <1>4, <4>1, Constants
    <3>2. new \in Row /\ new.status = "failed" /\ Counted(task[r.id], new)
      BY <1>1, <3>1 DEF Row, Statuses, Terminal, Counted
    <3>3. runReaperUpdate(r, new, FALSE)
      BY <1>4 DEF deadLetterExpired
    <3>. HIDE DEF new
    <3>4. Stage(new) = "failed"
      BY <3>2, Stages DEF Terminal
    <3>5. RowStep(task[r.id], new) /\ new.status # "pending"
      BY <1>2, <2>2, <3>1, <3>2, <3>4 DEF RowStep
    <3>6. QED
      BY <1>1, <3>3, <3>5, SweepStep
  <2>3. QED
    BY <2>1, <2>2
<1>5. CASE r.attempts + 1 < MaxAttempts /\ reclaimExpired(r, backoff(r.attempts + 1))
  <2>1. CASE ~ReaperOwns(r, FALSE)
    BY <1>5, <2>1 DEF reclaimExpired, runReaperUpdate, TableStep, Quiet
  <2>2. CASE ReaperOwns(r, FALSE)
    <3>. DEFINE w == backoff(r.attempts + 1)
                new == [Unclaimed(task[r.id]) EXCEPT
                          !.attempts = @ + 1, !.leaseEpoch = @ + 1, !.wait = w]
    <3>1. task[r.id].attempts = r.attempts /\ task[r.id].attempts + 1 \in 0..MaxAttempts
      BY <1>2, <2>2
    <3>2. w \in 0..BackoffMax
      BY <1>1, <1>5, BackoffType
    <3>3. r.epoch < MaxEpoch /\ task[r.id].leaseEpoch = r.epoch
      BY <1>5, <2>2 DEF reclaimExpired, ReaperOwns
    <3>4. runReaperUpdate(r, new, FALSE)
      BY <1>5 DEF reclaimExpired
    <3>. HIDE DEF w
    <3>5. /\ Unclaimed(task[r.id]) \in Row /\ Unclaimed(task[r.id]).status = "pending"
          /\ Unclaimed(task[r.id]).attempts = task[r.id].attempts
          /\ Unclaimed(task[r.id]).leaseEpoch = task[r.id].leaseEpoch
      BY <1>1, UnclaimedRow
    <3>6. task[r.id].leaseEpoch + 1 \in 0..MaxEpoch
      BY <1>1, <3>3, Constants DEF Row
    <3>7. new \in Row /\ new.status = "pending" /\ Counted(task[r.id], new)
      BY <3>1, <3>2, <3>5, <3>6 DEF Row, Counted
    <3>. HIDE DEF new
    <3>8. Stage(new) = "queued"
      BY <3>7, Stages
    <3>9. RowStep(task[r.id], new)
      BY <1>2, <1>5, <2>2, <3>1, <3>7, <3>8 DEF RowStep
    <3>10. ~task[r.id].dispatchedAt
      BY <1>2, <2>2
    <3>11. QED
      BY <1>1, <3>4, <3>9, <3>10, SweepStep
  <2>3. QED
    BY <2>1, <2>2
<1>6. QED
  BY <1>3, <1>4, <1>5 DEF Resolve

LEMMA ClaimStep ==
    ASSUME IInv, NEW h \in Hosts, NEW S \in SUBSET Tasks, claimDueTasks(h, S)
    PROVE  TableStep
<1>1. task \in [Tasks -> Row] /\ \A t \in Tasks : RowConsistent(task[t])
  BY DEF IInv, TypeOK, StoreTypeOK
<1>2. \A t \in S : task[t].status = "pending" /\ task[t].leaseEpoch < MaxEpoch
  BY DEF claimDueTasks, ClaimBatches, Due
<1>3. \A t \in Tasks : task'[t] = IF t \in S THEN Claimed(task[t], h) ELSE task[t]
  BY DEF claimDueTasks
<1>4. ASSUME NEW t \in S
      PROVE  /\ Stage(task[t]) = "queued" /\ Stage(task'[t]) = "held"
             /\ Uncounted(task[t], task'[t])
  <2>1. t \in Tasks /\ task[t] \in Row /\ ~task[t].startedAt
    BY <1>1, <1>2 DEF RowConsistent
  <2>2. /\ task'[t] \in Row /\ task'[t].status = "running" /\ ~task'[t].startedAt
        /\ task'[t].attempts = task[t].attempts
    BY <1>2, <1>3, <2>1, ClaimedRow
  <2>3. QED
    BY <1>2, <2>1, <2>2, Stages DEF Uncounted
<1>5. Claims
  BY <1>3, <1>4 DEF Claims
<1>6. QED
  BY <1>5 DEF TableStep

LEMMA ClockStep ==
    ASSUME IInv, ClockAdvances
    PROVE  Quiet
<1>1. task \in [Tasks -> Row]
  BY DEF IInv, TypeOK, StoreTypeOK
<1>2. QED
  BY <1>1 DEF ClockAdvances, Quiet, Row

LEMMA UnchangedIsQuiet == UNCHANGED task => Quiet
BY DEF Quiet

\* What every step may do to the rows.
LEMMA NextTableStep == IInv /\ [Next]_vars => TableStep
<1>. SUFFICES ASSUME IInv, [Next]_vars PROVE TableStep
  OBVIOUS
<1>1. UNCHANGED task => TableStep
  BY UnchangedIsQuiet DEF TableStep
<1>2. CASE \E h \in Hosts : ClaimTick(h)
  BY <1>2, ClaimStep DEF ClaimTick
<1>3. ASSUME NEW f \in fires, FireStep(f) PROVE TableStep
  <2>1. CASE Release(f)
    BY <1>1, <2>1, ReleaseStep DEF Release, End
  <2>2. CASE BeginDispatch(f)
    BY <2>2, DispatchStep DEF BeginDispatch
  <2>3. CASE BeginDispatchRejects(f)
    BY <1>1, <2>3, DispatchStep DEF BeginDispatchRejects
  <2>4. CASE MarkSettles(f)
    BY <1>1, <2>4, MarkStep DEF MarkSettles
  <2>5. CASE RecordOutcome(f)
    BY <2>5, OutcomeStep DEF RecordOutcome, End
  <2>6. CASE TimerFires(f) \/ ReportDispatched(f) \/ HandlerReturns(f)
             \/ HandlerThrows(f) \/ OutcomeRejects(f)
    BY <1>1, <2>6 DEF TimerFires, ReportDispatched, HandlerReturns, HandlerThrows,
                      OutcomeRejects
  <2>7. QED
    BY <1>3, <2>1, <2>2, <2>3, <2>4, <2>5, <2>6 DEF FireStep
<1>4. CASE Execute
  <2>1. CASE (\E h \in Hosts : Stop(h)) \/ (\E b \in inflight : ScheduleClaimed(b) \/ HandBackClaims(b))
    BY <1>1, <2>1 DEF Stop, ScheduleClaimed, HandBackClaims
  <2>2. QED
    BY <1>2, <1>3, <1>4, <2>1 DEF Execute, ExecutorNext
<1>5. ASSUME NEW h \in Hosts, Restart(h) \/ Reap(h) PROVE TableStep
  <2>1. CASE \E r \in sweep[h] : SweepResolves(h, r)
    BY <2>1, ResolveStep DEF SweepResolves
  <2>2. CASE UNCHANGED task
    BY <1>1, <2>2
  <2>3. QED
    BY <1>5, <2>1, <2>2 DEF Restart, ProcessRestarts, Reap, SweepReads, SweepSkips, SweepEnds
<1>6. CASE Tick
  BY <1>6, ClockStep DEF Tick, TableStep
<1>7. CASE Settled \/ UNCHANGED vars
  BY <1>1, <1>7 DEF Settled, vars
<1>8. QED
  BY <1>4, <1>5, <1>6, <1>7 DEF Next

-----------------------------------------------------------------------------
(* The theorems.                                                           *)

LEMMA StageOfRow ==
    ASSUME IInv, NEW t \in Tasks
    PROVE  /\ task[t] \in Row /\ RowConsistent(task[t])
           /\ task[t].status = "pending" <=> Stage(task[t]) = "queued"
           /\ \A s \in Terminal : task[t].status = s <=> Stage(task[t]) = s
<1>1. task[t] \in Row /\ RowConsistent(task[t])
  BY DEF IInv, TypeOK, StoreTypeOK
<1>2. task[t].status \in {"pending", "running", "succeeded", "failed"}
  BY <1>1 DEF Row, Statuses, Terminal
<1>3. QED
  BY <1>1, <1>2, Stages DEF Terminal

\* An occurrence that was started goes back to pending only at the cost of an
\* attempt, however stops, late ticks, throws and sweeps interleave
\* (releaseClaim, rescheduleTask, reclaimExpired).
THEOREM StartsCost == Spec => StartsAreCounted
<1>. DEFINE Cost == \A t \in Tasks :
                      task[t].startedAt /\ task'[t].status = "pending" =>
                        task'[t].attempts = task[t].attempts + 1
<1>1. IInv /\ IInv' /\ [Next]_vars => Cost
  <2>. SUFFICES ASSUME IInv, IInv', [Next]_vars, NEW t \in Tasks,
                       task[t].startedAt, task'[t].status = "pending"
                PROVE  task'[t].attempts = task[t].attempts + 1
    OBVIOUS
  <2>1. TableStep
    BY NextTableStep
  <2>2. task[t].status # "pending" /\ Stage(task[t]) # "queued" /\ Stage(task[t]) # "held"
    <3>1. task[t].status # "pending" /\ task[t] \in Row
      BY StageOfRow DEF RowConsistent
    <3>2. task[t].status = "running" => Stage(task[t]) # "held"
      BY <3>1, Stages
    <3>3. task[t].status \in Terminal => Stage(task[t]) # "held"
      BY <3>1, Stages DEF Terminal
    <3>4. QED
      BY <3>1, <3>2, <3>3, StageOfRow DEF Row, Statuses
  <2>3. Stage(task'[t]) = "queued"
    BY Stages DEF IInv, TypeOK, StoreTypeOK
  <2>4. ASSUME NEW u \in Tasks, RowStep(task[u], task'[u]), Others(u)
        PROVE  task'[t].attempts = task[t].attempts + 1
    <3>1. u = t
      BY <2>2, <2>4 DEF Others
    <3>2. QED
      BY <2>2, <2>3, <2>4, <3>1 DEF RowStep, Counted
  <2>5. ~Quiet
    BY <2>2 DEF Quiet
  <2>6. ~Claims
    BY <2>2, <2>3 DEF Claims
  <2>7. QED
    BY <2>1, <2>4, <2>5, <2>6, FireKnows DEF TableStep, OwnerWrites, SweepWrites
<1>2. QED
  <2>1. Spec => [][Cost]_vars
    BY <1>1, Invariance, PTL DEF Spec
  <2>2. QED
    BY <2>1 DEF StartsAreCounted

\* A recorded outcome is final: no stale owner and no stale sweep changes it
\* (the status in every guard).
THEOREM OutcomesAreFinal == Spec => OutcomeIsFinal
<1>. DEFINE Final == \A t \in Tasks :
                       task[t].status \in Terminal =>
                         /\ task'[t].status = task[t].status
                         /\ task'[t].attempts = task[t].attempts
                         /\ task'[t].dispatchedAt = task[t].dispatchedAt
<1>1. IInv /\ [Next]_vars => Final
  <2>. SUFFICES ASSUME IInv, [Next]_vars, NEW t \in Tasks, task[t].status \in Terminal
                PROVE  /\ task'[t].status = task[t].status
                       /\ task'[t].attempts = task[t].attempts
                       /\ task'[t].dispatchedAt = task[t].dispatchedAt
    OBVIOUS
  <2>1. TableStep
    BY NextTableStep
  <2>2. Stage(task[t]) \in {"succeeded", "failed"}
    BY StageOfRow DEF Terminal
  <2>3. ASSUME NEW u \in Tasks, RowStep(task[u], task'[u]), Others(u)
        PROVE  task'[t] = task[t]
    <3>1. u # t
      BY <2>2, <2>3 DEF RowStep
    <3>2. QED
      BY <2>3, <3>1 DEF Others
  <2>4. Claims => task'[t] = task[t]
    BY <2>2 DEF Claims
  <2>5. QED
    BY <2>1, <2>3, <2>4, FireKnows DEF TableStep, OwnerWrites, SweepWrites, Quiet
<1>2. QED
  <2>1. Spec => [][Final]_vars
    BY <1>1, Invariance, PTL DEF Spec
  <2>2. QED
    BY <2>1 DEF OutcomeIsFinal

\* The reaper never sends a dispatched occurrence back: only the throw of the
\* handler that dispatched it does (the effect boundary of reclaimExpired).
THEOREM DispatchedIsKept == Spec => ReaperKeepsDispatched
<1>. DEFINE Kept == \A t \in Tasks :
                      task[t].dispatchedAt /\ task'[t].status = "pending" =>
                        \E f \in fires \ fires' : f.id = t /\ f.pc = "threw" /\ Owns(f)
<1>1. IInv /\ IInv' /\ [Next]_vars => Kept
  <2>. SUFFICES ASSUME IInv, IInv', [Next]_vars, NEW t \in Tasks,
                       task[t].dispatchedAt, task'[t].status = "pending"
                PROVE  \E f \in fires \ fires' : f.id = t /\ f.pc = "threw" /\ Owns(f)
    OBVIOUS
  <2>1. TableStep
    BY NextTableStep
  <2>2. task[t].status # "pending" /\ task'[t] # task[t]
    BY StageOfRow DEF RowConsistent
  <2>3. ~Quiet
    BY <2>2 DEF Quiet
  <2>4. ~Claims
    <3>1. Stage(task'[t]) = "queued"
      BY Stages DEF IInv, TypeOK, StoreTypeOK
    <3>2. QED
      BY <2>2, <3>1 DEF Claims
  <2>5. ASSUME NEW u \in Tasks, SweepWrites(u) PROVE FALSE
    BY <2>2, <2>5 DEF SweepWrites, Others
  <2>6. ASSUME NEW f \in fires, OwnerWrites(f)
        PROVE  f \notin fires' /\ f.id = t /\ f.pc = "threw" /\ Owns(f)
    <3>1. f.id = t
      BY <2>2, <2>6 DEF OwnerWrites, Others
    <3>2. QED
      BY <2>6, <3>1 DEF OwnerWrites, Owns
  <2>7. QED
    BY <2>1, <2>3, <2>4, <2>5, <2>6 DEF TableStep
<1>2. QED
  <2>1. Spec => [][Kept]_vars
    BY <1>1, Invariance, PTL DEF Spec
  <2>2. QED
    BY <2>1 DEF ReaperKeepsDispatched

\* Within its lease an owner keeps the row: only its own last write separates
\* them, or the end of its process (runReaperUpdate asserts the expiry again).
THEOREM OwnersKeepTheirLease == Spec => LeaseHonoured
<1>. DEFINE Honoured == \A f \in fires :
                          Owns(f) /\ task[f.id].lease # 0 /\ f \in fires' => Owns(f)'
<1>1. IInv /\ [Next]_vars => Honoured
  <2>. SUFFICES ASSUME IInv, [Next]_vars, NEW f \in fires,
                       Owns(f), task[f.id].lease # 0, f \in fires'
                PROVE  Owns(f)'
    OBVIOUS
  <2>1. TableStep
    BY NextTableStep
  <2>2. f.id \in Tasks /\ task[f.id].status = "running" /\ task[f.id] \in Row
    BY FireKnows
  <2>3. task'[f.id] = task[f.id] => Owns(f)'
    BY DEF Owns
  <2>4. Quiet => Owns(f)'
    BY <2>2 DEF Quiet, Owns
  <2>5. Claims => Owns(f)'
    <3>1. Stage(task[f.id]) # "queued"
      BY <2>2, StageOfRow
    <3>2. QED
      BY <2>2, <2>3, <3>1 DEF Claims
  <2>6. ASSUME NEW u \in Tasks, SweepWrites(u) PROVE Owns(f)'
    BY <2>2, <2>3, <2>6 DEF SweepWrites, LeaseExpired, Others
  <2>7. ASSUME NEW g \in fires, OwnerWrites(g) PROVE Owns(f)'
    <3>1. CASE g.id # f.id
      BY <2>2, <2>3, <2>7, <3>1 DEF OwnerWrites, Others
    <3>2. CASE g.id = f.id
      <4>1. f = g
        BY <2>7, <3>2 DEF OwnerWrites, Owns, IInv, SingleOwner, SameLease
      <4>2. QED
        BY <2>7, <4>1 DEF OwnerWrites
    <3>3. QED
      BY <3>1, <3>2
  <2>8. QED
    BY <2>1, <2>4, <2>5, <2>6, <2>7 DEF TableStep
<1>2. QED
  <2>1. Spec => [][Honoured]_vars
    BY <1>1, Invariance, PTL DEF Spec
  <2>2. QED
    BY <2>1 DEF LeaseHonoured

-----------------------------------------------------------------------------
(* The refinement.                                                         *)

stages == [t \in Tasks |-> Stage(task[t])]
triesUsed == [t \in Tasks |-> task[t].attempts]

LEMMA InitRefines == Init => Lifecycle!Init
<1>. SUFFICES ASSUME Init PROVE Lifecycle!Init
  OBVIOUS
<1>1. \A t \in Tasks : task[t].status = "pending" /\ task[t].attempts = 0
  BY DEF Init, StoreInit
<1>2. \A t \in Tasks : Stage(task[t]) = "queued"
  BY <1>1, InitInvariant, StageOfRow
<1>3. QED
  BY <1>1, <1>2 DEF Lifecycle!Init

\* One row moves: the occurrence moves as the lifecycle says.
LEMMA RowStepRefines ==
    ASSUME NEW t \in Tasks, RowStep(task[t], task'[t]), Others(t)
    PROVE  Lifecycle!Next
<1>1. /\ stages' = [stages EXCEPT ![t] = Stage(task'[t])]
      /\ stages[t] = Stage(task[t]) /\ triesUsed[t] = task[t].attempts
  BY DEF Others, stages, triesUsed
<1>2. Uncounted(task[t], task'[t]) => triesUsed' = triesUsed
  BY DEF Others, triesUsed, Uncounted
<1>3. Counted(task[t], task'[t]) => triesUsed' = [triesUsed EXCEPT ![t] = @ + 1]
  BY DEF Others, triesUsed, Counted
<1>4. CASE Stage(task[t]) = "held" /\ Stage(task'[t]) = "queued" /\ Uncounted(task[t], task'[t])
  <2>1. Lifecycle!LetGo(t)
    BY <1>1, <1>2, <1>4 DEF Lifecycle!LetGo, Lifecycle!MoveTo, stages, triesUsed
  <2>2. QED
    BY <2>1 DEF Lifecycle!Next
<1>5. CASE Stage(task[t]) = "held" /\ Stage(task'[t]) = "started" /\ Uncounted(task[t], task'[t])
  <2>1. Lifecycle!Start(t)
    BY <1>1, <1>2, <1>5 DEF Lifecycle!Start, Lifecycle!MoveTo, stages, triesUsed
  <2>2. QED
    BY <2>1 DEF Lifecycle!Next
<1>6. CASE Stage(task[t]) = "started" /\ Stage(task'[t]) = "dispatched" /\ Uncounted(task[t], task'[t])
  <2>1. Lifecycle!Dispatch(t)
    BY <1>1, <1>2, <1>6 DEF Lifecycle!Dispatch, Lifecycle!MoveTo, stages, triesUsed
  <2>2. QED
    BY <2>1 DEF Lifecycle!Next
<1>7. CASE /\ Stage(task[t]) \in {"held", "started", "dispatched"} /\ Stage(task'[t]) = "queued"
           /\ task[t].attempts + 1 < MaxAttempts /\ Counted(task[t], task'[t])
  <2>1. Lifecycle!TryAgain(t)
    BY <1>1, <1>3, <1>7
       DEF Lifecycle!TryAgain, Lifecycle!MoveTo, Lifecycle!CountTry, stages, triesUsed
  <2>2. QED
    BY <2>1 DEF Lifecycle!Next
<1>8. CASE /\ Stage(task[t]) \in {"held", "started"} /\ Stage(task'[t]) = "failed"
           /\ task[t].attempts + 1 = MaxAttempts /\ Counted(task[t], task'[t])
  <2>1. Lifecycle!GiveUp(t)
    BY <1>1, <1>3, <1>8
       DEF Lifecycle!GiveUp, Lifecycle!MoveTo, Lifecycle!CountTry, stages, triesUsed
  <2>2. QED
    BY <2>1 DEF Lifecycle!Next
<1>9. CASE /\ Stage(task[t]) \in {"started", "dispatched"}
           /\ Stage(task'[t]) = "succeeded" /\ Uncounted(task[t], task'[t])
  <2>1. Lifecycle!Succeed(t)
    BY <1>1, <1>2, <1>9 DEF Lifecycle!Succeed, Lifecycle!MoveTo, stages, triesUsed
  <2>2. QED
    BY <2>1 DEF Lifecycle!Next
<1>10. QED
  BY <1>4, <1>5, <1>6, <1>7, <1>8, <1>9 DEF RowStep

LEMMA ClaimsRefine ==
    ASSUME Claims
    PROVE  Lifecycle!Next
<1>1. PICK S \in SUBSET Tasks :
        /\ \A t \in S : Stage(task[t]) = "queued" /\ Stage(task'[t]) = "held"
                        /\ Uncounted(task[t], task'[t])
        /\ \A t \in Tasks \ S : task'[t] = task[t]
  BY DEF Claims
<1>2. /\ \A t \in S : stages[t] = "queued"
      /\ stages' = [t \in Tasks |-> IF t \in S THEN "held" ELSE stages[t]]
  BY <1>1 DEF stages
<1>3. triesUsed' = triesUsed
  BY <1>1 DEF triesUsed, Uncounted
<1>4. Lifecycle!Hold
  BY <1>2, <1>3 DEF Lifecycle!Hold, stages, triesUsed
<1>5. QED
  BY <1>4 DEF Lifecycle!Next

LEMMA QuietRefines ==
    ASSUME Quiet
    PROVE  UNCHANGED Lifecycle!occurrence
<1>1. \A t \in Tasks : Stage(task'[t]) = Stage(task[t])
  BY DEF Quiet, Stage
<1>2. stages' = stages /\ triesUsed' = triesUsed
  BY <1>1 DEF Quiet, stages, triesUsed
<1>3. QED
  BY <1>2 DEF Lifecycle!occurrence, stages, triesUsed

\* The mains, their executors and reapers implement the lifecycle of an
\* occurrence: every claim, start, marker, outcome, release, sweep, stop and
\* crash is one of its steps or none (ScheduledTaskRepository).
THEOREM LifecycleIsImplemented == Spec => ImplementsLifecycle
<1>1. IInv /\ [Next]_vars => [Lifecycle!Next]_(Lifecycle!occurrence)
  <2>. SUFFICES ASSUME IInv, [Next]_vars
                PROVE  Lifecycle!Next \/ UNCHANGED Lifecycle!occurrence
    OBVIOUS
  <2>1. TableStep
    BY NextTableStep
  <2>2. ASSUME NEW g \in fires, OwnerWrites(g) PROVE Lifecycle!Next
    BY <2>2, FireKnows, RowStepRefines DEF OwnerWrites
  <2>3. ASSUME NEW t \in Tasks, SweepWrites(t) PROVE Lifecycle!Next
    BY <2>3, RowStepRefines DEF SweepWrites
  <2>4. QED
    BY <2>1, <2>2, <2>3, ClaimsRefine, QuietRefines DEF TableStep
<1>2. QED
  BY <1>1, InitRefines, Invariance, PTL DEF Spec, ImplementsLifecycle, Lifecycle!Spec
=============================================================================
