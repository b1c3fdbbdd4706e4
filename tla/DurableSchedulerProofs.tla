----------------------- MODULE DurableSchedulerProofs -----------------------
(***************************************************************************)
(* Proofs about DurableScheduler, for any number of mains and occurrences, *)
(* any lease, backoff and retry budget.                                    *)
(***************************************************************************)
EXTENDS DurableScheduler, TLAPS

-----------------------------------------------------------------------------
(* The rows that the statements write.                                     *)

LEMMA Constants ==
    /\ MaxAttempts \in Nat /\ MaxAttempts > 0
    /\ {LeaseTicks, NoLease, 0} \subseteq NoLease..LeaseTicks
    /\ LeaseTicks # NoLease
    /\ MaxEpoch \in Nat /\ BackoffMax \in Nat
BY BoundsAssumption DEF NoLease

\* The backoff of an attempt that is not the last stays in its range.
LEMMA BackoffType ==
    ASSUME NEW n \in 0..MaxAttempts, n + 1 < MaxAttempts
    PROVE  backoff(n + 1) \in 0..BackoffMax
<1>1. n + 1 \in 1..MaxAttempts
  BY Constants
<1>2. QED
  BY <1>1, BackoffAssumption

\* One claim: the row keeps its attempts and enters a new epoch.
LEMMA ClaimedRow ==
    ASSUME NEW row \in Row, NEW h \in Hosts, row.leaseEpoch < MaxEpoch
    PROVE  /\ Claimed(row, h) \in Row
           /\ Claimed(row, h).status = "running"
           /\ Claimed(row, h).claimedBy = h
           /\ Claimed(row, h).lease = LeaseTicks
           /\ Claimed(row, h).leaseEpoch = row.leaseEpoch + 1
           /\ Claimed(row, h).attempts = row.attempts
           /\ Claimed(row, h).startedAt = row.startedAt
           /\ Claimed(row, h).dispatchedAt = row.dispatchedAt
<1>1. row.leaseEpoch + 1 \in 0..MaxEpoch
  BY Constants DEF Row
<1>2. "running" \in Statuses /\ h \in Hosts \cup {Nobody} /\ LeaseTicks \in NoLease..LeaseTicks
  BY Constants DEF Statuses
<1>3. Claimed(row, h) \in Row
  BY <1>1, <1>2 DEF Claimed, Row
<1>4. QED
  BY <1>3 DEF Claimed, Row

\* A row handed back is as it was before it was ever claimed, but for its
\* epoch and its attempts.
LEMMA UnclaimedRow ==
    ASSUME NEW row \in Row
    PROVE  /\ Unclaimed(row) \in Row
           /\ Unclaimed(row).status = "pending"
           /\ Unclaimed(row).claimedBy = Nobody
           /\ Unclaimed(row).lease = NoLease
           /\ Unclaimed(row).startedAt = FALSE
           /\ Unclaimed(row).dispatchedAt = FALSE
           /\ Unclaimed(row).leaseEpoch = row.leaseEpoch
           /\ Unclaimed(row).attempts = row.attempts
<1>1. "pending" \in Statuses /\ NoLease \in NoLease..LeaseTicks
  BY Constants DEF Statuses
<1>2. Unclaimed(row) \in Row
  BY <1>1 DEF Unclaimed, Row
<1>3. QED
  BY <1>2 DEF Unclaimed, Row

\* A retry: handed back with one more attempt counted, and due later.
Retried(row, e, w) ==
    [Unclaimed(row) EXCEPT !.attempts = @ + 1, !.leaseEpoch = e, !.wait = w]

LEMMA RetriedRow ==
    ASSUME NEW row \in Row, NEW e \in 0..MaxEpoch, NEW w \in 0..BackoffMax,
           row.attempts + 1 < MaxAttempts
    PROVE  /\ Retried(row, e, w) \in Row
           /\ Retried(row, e, w).status = "pending"
           /\ Retried(row, e, w).leaseEpoch = e
           /\ RowConsistent(Retried(row, e, w))
<1>1. row.attempts + 1 \in 0..MaxAttempts /\ row.attempts + 1 # MaxAttempts
  BY Constants DEF Row
<1>2. /\ Unclaimed(row) \in Row /\ Unclaimed(row).attempts = row.attempts
      /\ Unclaimed(row).status = "pending" /\ Unclaimed(row).claimedBy = Nobody
      /\ Unclaimed(row).lease = NoLease /\ Unclaimed(row).startedAt = FALSE
      /\ Unclaimed(row).dispatchedAt = FALSE
  BY UnclaimedRow
<1>3. Retried(row, e, w) \in Row
  BY <1>1, <1>2 DEF Retried, Row
<1>4. /\ Retried(row, e, w).status = "pending"
      /\ Retried(row, e, w).claimedBy = Nobody
      /\ Retried(row, e, w).lease = NoLease
      /\ Retried(row, e, w).startedAt = FALSE
      /\ Retried(row, e, w).dispatchedAt = FALSE
      /\ Retried(row, e, w).attempts = row.attempts + 1
      /\ Retried(row, e, w).leaseEpoch = e
  BY <1>1, <1>2 DEF Retried, Row
<1>5. QED
  BY <1>1, <1>3, <1>4 DEF RowConsistent

\* An outcome: the status is final, and a failure spends the last attempt.
LEMMA SettledRow ==
    ASSUME NEW row \in Row, RowConsistent(row), row.status = "running"
    PROVE  /\ LET done == [row EXCEPT !.status = "succeeded"]
              IN  /\ done \in Row /\ RowConsistent(done)
                  /\ done.status = "succeeded" /\ done.leaseEpoch = row.leaseEpoch
           /\ row.attempts + 1 >= MaxAttempts /\ ~row.dispatchedAt =>
              LET dead == [row EXCEPT !.status = "failed", !.attempts = @ + 1]
              IN  /\ dead \in Row /\ RowConsistent(dead)
                  /\ dead.status = "failed" /\ dead.leaseEpoch = row.leaseEpoch
<1>1. {"succeeded", "failed"} \subseteq Statuses
  BY DEF Statuses, Terminal
<1>2. row.attempts \in 0..MaxAttempts /\ row.attempts # MaxAttempts
  BY DEF Row, RowConsistent
<1>3. ASSUME NEW done, done = [row EXCEPT !.status = "succeeded"]
      PROVE  /\ done \in Row /\ RowConsistent(done)
             /\ done.status = "succeeded" /\ done.leaseEpoch = row.leaseEpoch
  <2>1. done \in Row
    BY <1>1, <1>3 DEF Row
  <2>2. /\ done.status = "succeeded" /\ done.leaseEpoch = row.leaseEpoch
        /\ done.attempts = row.attempts /\ done.startedAt = row.startedAt
        /\ done.dispatchedAt = row.dispatchedAt
    BY <1>3 DEF Row
  <2>3. QED
    BY <1>2, <2>1, <2>2 DEF RowConsistent
<1>4. ASSUME NEW dead, dead = [row EXCEPT !.status = "failed", !.attempts = @ + 1],
             row.attempts + 1 >= MaxAttempts, ~row.dispatchedAt
      PROVE  /\ dead \in Row /\ RowConsistent(dead)
             /\ dead.status = "failed" /\ dead.leaseEpoch = row.leaseEpoch
  <2>1. row.attempts + 1 \in 0..MaxAttempts /\ row.attempts + 1 = MaxAttempts
    BY <1>2, <1>4, Constants
  <2>2. dead \in Row
    BY <1>1, <1>4, <2>1 DEF Row
  <2>3. /\ dead.status = "failed" /\ dead.leaseEpoch = row.leaseEpoch
        /\ dead.attempts = MaxAttempts /\ dead.startedAt = row.startedAt
        /\ dead.dispatchedAt = row.dispatchedAt
    BY <1>4, <2>1 DEF Row
  <2>4. QED
    BY <1>4, <2>2, <2>3 DEF RowConsistent
<1>5. QED
  BY <1>3, <1>4

-----------------------------------------------------------------------------
(* The initial states.                                                     *)

LEMMA InitType == Init => TypeOK
<1>1. SUFFICES ASSUME Init PROVE TypeOK
  OBVIOUS
<1>2. 0 \in 0..MaxAttempts /\ 0 \in 0..MaxEpoch /\ 0 \in 0..BackoffMax
      /\ NoLease \in NoLease..LeaseTicks /\ "pending" \in Statuses
  BY Constants DEF Statuses
<1>3. StoreTypeOK
  BY <1>1, <1>2 DEF Init, StoreInit, StoreTypeOK, Row
<1>4. ExecutorTypeOK /\ ReaperTypeOK
  BY <1>1, <1>2, MaxFaultsAssumption
     DEF Init, ExecutorInit, ReaperInit, ExecutorTypeOK, ReaperTypeOK
<1>5. QED
  BY <1>3, <1>4 DEF TypeOK

LEMMA InitInvariant == Init => IInv
<1>1. SUFFICES ASSUME Init PROVE IInv
  OBVIOUS
<1>2. TypeOK
  BY <1>1, InitType
<1>3. SingleOwner /\ EpochsReached /\ MemoriesAgree /\ TrackedIsArmed
  BY <1>1 DEF Init, StoreInit, ExecutorInit, ReaperInit, SingleOwner,
              EpochsReached, MemoriesAgree, TrackedIsArmed
<1>4. \A t \in Tasks : RowConsistent(task[t])
  BY <1>1, Constants DEF Init, StoreInit, RowConsistent
<1>5. QED
  BY <1>2, <1>3, <1>4 DEF IInv

-----------------------------------------------------------------------------
(* A fire's write.  Every step of a fire either ends it or moves it on,    *)
(* and either leaves the table alone or writes the one row it owns.        *)

\* What FireAgrees says of a fire and a row it may own.
Fits(f, row) ==
    (row.status = "running" /\ row.claimedBy = f.host /\ row.leaseEpoch = f.epoch) =>
        /\ f.attempts = row.attempts
        /\ Ran(f) <=> row.startedAt
        /\ f.mark # "settled" => ~row.dispatchedAt

\* A timer that goes off drops the entry of its task; any other step keeps the
\* map, and is not that of an armed timer.
Forgets(f) ==
    \/ claimedTaskById' = Untracked(f)
    \/ claimedTaskById' = claimedTaskById /\ f.pc # "scheduled"

LEMMA FireWrites ==
    ASSUME IInv, NEW f \in fires, NEW g \in Fire,
           g.host = f.host, g.id = f.id, g.epoch = f.epoch,
           fires' \subseteq (fires \ {f}) \cup {g}, fires \ {f} \subseteq fires',
           Forgets(f),
           g \in fires' => Fits(g, task'[f.id]) /\ (g.mark # "undefined" => Ran(g)),
           NEW row \in Row, RowConsistent(row),
           row.leaseEpoch = task[f.id].leaseEpoch,
           row.status = "running" => /\ row.claimedBy = task[f.id].claimedBy
                                     /\ row.attempts = task[f.id].attempts,
           task' = task \/ (Owns(f) /\ task' = [task EXCEPT ![f.id] = row]),
           ExecutorTypeOK', UNCHANGED <<inflight, sweep>>
    PROVE  IInv'
<1>0. /\ task \in [Tasks -> Row] /\ fires \subseteq Fire /\ f \in Fire
      /\ inflight \subseteq Batch /\ sweep \in [Hosts -> SUBSET Expired]
      /\ f.id \in Tasks
  BY DEF IInv, TypeOK, StoreTypeOK, ExecutorTypeOK, ReaperTypeOK, Fire
<1>1. task' \in [Tasks -> Row]
  BY <1>0
<1>2. TypeOK'
  BY <1>1 DEF IInv, TypeOK, StoreTypeOK, ReaperTypeOK
<1>3. \A t \in Tasks : task'[t].leaseEpoch = task[t].leaseEpoch
  BY <1>0
<1>4. \A k \in fires' : \E j \in fires : k.id = j.id /\ k.epoch = j.epoch /\ (k # g => j = k) /\ (k = g => j = f)
  OBVIOUS
<1>5. EpochsReached'
  BY <1>0, <1>3 DEF IInv, EpochsReached, Fire, Batch, Claim, Expired
<1>6. SingleOwner'
  BY <1>4 DEF IInv, SingleOwner, SameLease
<1>7. MemoriesAgree'
  <2>1. ASSUME NEW k \in fires' PROVE FireAgrees(k)' /\ (k.mark # "undefined" => Ran(k))
    <3>1. CASE k = g
      BY <3>1 DEF Fits, FireAgrees, Owns
    <3>2. CASE k # g /\ (k.id # f.id \/ task' = task)
      BY <1>0, <3>2 DEF IInv, MemoriesAgree, FireAgrees, Owns, Fire
    <3>3. CASE k # g /\ k.id = f.id /\ task' # task
      BY <1>0, <3>3 DEF IInv, MemoriesAgree, FireAgrees, Owns, SingleOwner, SameLease
    <3>4. QED
      BY <3>1, <3>2, <3>3
  <2>2. ASSUME NEW b \in inflight', NEW c \in b.claims PROVE ClaimAgrees(b.host, c)'
    <3>1. b \in inflight /\ c.id \in Tasks
      BY <1>0 DEF Batch, Claim
    <3>2. CASE c.id # f.id \/ task' = task
      BY <1>0, <3>1, <3>2 DEF IInv, MemoriesAgree, ClaimAgrees, Owns
    <3>3. CASE c.id = f.id /\ task' # task
      BY <1>0, <3>1, <3>3 DEF IInv, MemoriesAgree, ClaimAgrees, Owns, SingleOwner, SameLease
    <3>4. QED
      BY <3>2, <3>3
  <2>3. ASSUME NEW h \in Hosts, NEW r \in sweep'[h] PROVE SweepAgrees(r)'
    <3>1. r \in sweep[h] /\ r.id \in Tasks
      BY <1>0 DEF Expired
    <3>2. QED
      BY <1>0, <3>1 DEF IInv, MemoriesAgree, SweepAgrees, Owns
  <2>4. QED
    BY <2>1, <2>2, <2>3 DEF MemoriesAgree
<1>8. \A t \in Tasks : RowConsistent(task'[t])
  BY <1>0 DEF IInv
<1>9. TrackedIsArmed'
  <2>1. SUFFICES ASSUME NEW h \in Hosts, NEW t \in Tasks, claimedTaskById'[h][t] # 0
                 PROVE  \E k \in fires' : /\ k.host = h /\ k.id = t
                                          /\ k.pc = "scheduled"
                                          /\ k.epoch = claimedTaskById'[h][t]
    BY DEF TrackedIsArmed
  <2>2. /\ claimedTaskById'[h][t] = claimedTaskById[h][t]
        /\ f.pc = "scheduled" => f.host # h \/ f.id # t
    BY <1>0, <2>1 DEF Forgets, Untracked, IInv, TypeOK, ExecutorTypeOK
  <2>3. PICK k \in fires : /\ k.host = h /\ k.id = t /\ k.pc = "scheduled"
                           /\ k.epoch = claimedTaskById[h][t]
    BY <2>1, <2>2 DEF IInv, TrackedIsArmed
  <2>4. k # f
    BY <2>2, <2>3
  <2>5. QED
    BY <2>2, <2>3, <2>4
<1>10. QED
  BY <1>2, <1>5, <1>6, <1>7, <1>8, <1>9 DEF IInv

-----------------------------------------------------------------------------
(* The steps of a fire.                                                    *)

\* The typing of the executor survives a fire that ends or moves on.
LEMMA FireTypes ==
    ASSUME IInv, NEW f \in fires, NEW g \in Fire,
           fires' \subseteq (fires \ {f}) \cup {g},
           UNCHANGED faults \/ Fault,
           Forgets(f),
           UNCHANGED <<inflight, stopping>>
    PROVE  ExecutorTypeOK'
<1>1. ExecutorTypeOK /\ f \in Fire
  BY DEF IInv, TypeOK, ExecutorTypeOK
<1>0. claimedTaskById' = claimedTaskById \/ claimedTaskById' = Untracked(f)
  BY DEF Forgets
<1>2. faults' \in 0..MaxFaults
  BY <1>1, MaxFaultsAssumption DEF ExecutorTypeOK, Fault
<1>3. claimedTaskById' \in [Hosts -> [Tasks -> 0..MaxEpoch]]
  <2>1. f.host \in Hosts /\ f.id \in Tasks /\ 0 \in 0..MaxEpoch
    BY <1>1, Constants DEF Fire
  <2>2. [claimedTaskById[f.host] EXCEPT ![f.id] = 0] \in [Tasks -> 0..MaxEpoch]
    BY <1>1, <2>1 DEF ExecutorTypeOK
  <2>3. Untracked(f) = [claimedTaskById EXCEPT ![f.host] =
                          [claimedTaskById[f.host] EXCEPT ![f.id] = 0]]
    BY <1>1, <2>1 DEF ExecutorTypeOK, Untracked
  <2>4. QED
    BY <1>0, <1>1, <2>1, <2>2, <2>3 DEF ExecutorTypeOK
<1>4. QED
  BY <1>1, <1>2, <1>3 DEF ExecutorTypeOK

\* What the owner of a row knows of it.
LEMMA OwnedRow ==
    ASSUME IInv, NEW f \in fires
    PROVE  /\ f \in Fire /\ f.id \in Tasks
           /\ task[f.id] \in Row /\ RowConsistent(task[f.id])
           /\ Fits(f, task[f.id])
           /\ Owns(f) => /\ task[f.id].status = "running"
                         /\ task[f.id].claimedBy = f.host
                         /\ task[f.id].leaseEpoch = f.epoch
                         /\ f.attempts = task[f.id].attempts
           /\ f.mark # "undefined" => Ran(f)
<1>1. f \in Fire /\ f.id \in Tasks
  BY DEF IInv, TypeOK, ExecutorTypeOK, Fire
<1>2. QED
  BY <1>1 DEF IInv, TypeOK, StoreTypeOK, MemoriesAgree, FireAgrees, Fits, Owns

\* A step that writes no row: the fire ends, or moves on with its knowledge
\* of the row intact.
LEMMA FireMoves ==
    ASSUME IInv, NEW f \in fires, NEW g \in Fire,
           g.host = f.host, g.id = f.id, g.epoch = f.epoch,
           g.attempts = f.attempts,
           Ran(g) <=> Ran(f),
           g.mark # "undefined" => Ran(g),
           g.mark = "settled" <=> f.mark = "settled",
           fires' \subseteq (fires \ {f}) \cup {g}, fires \ {f} \subseteq fires',
           UNCHANGED faults \/ Fault, Forgets(f),
           UNCHANGED <<task, inflight, stopping, sweep>>
    PROVE  IInv'
<1>1. ExecutorTypeOK'
  BY FireTypes
<1>2. /\ task[f.id] \in Row /\ RowConsistent(task[f.id]) /\ Fits(f, task[f.id])
  BY OwnedRow
<1>3. Fits(g, task[f.id])
  BY <1>2 DEF Fits
<1>4. QED
  BY <1>1, <1>2, <1>3, FireWrites

\* A step that ends the fire with a write that takes the row out of running.
LEMMA FireEnds ==
    ASSUME IInv, NEW f \in fires, End(f), f.pc # "scheduled",
           NEW row \in Row, RowConsistent(row), row.status # "running",
           row.leaseEpoch = task[f.id].leaseEpoch,
           task' = task \/ (Owns(f) /\ task' = [task EXCEPT ![f.id] = row]),
           UNCHANGED faults \/ Fault,
           UNCHANGED <<inflight, claimedTaskById, stopping, sweep>>
    PROVE  IInv'
<1>1. f \in Fire
  BY OwnedRow
<1>2. /\ fires' \subseteq (fires \ {f}) \cup {f} /\ f \notin fires'
      /\ fires \ {f} \subseteq fires' /\ Forgets(f)
  BY DEF End, Forgets
<1>3. ExecutorTypeOK'
  BY <1>1, <1>2, FireTypes
<1>4. QED
  BY <1>1, <1>2, <1>3, FireWrites

\* The fire ends, or merely forgets what it was doing.
LEMMA FireIsDropped ==
    ASSUME IInv, NEW f \in fires, End(f), f.pc # "scheduled",
           UNCHANGED faults \/ Fault,
           UNCHANGED <<task, inflight, claimedTaskById, stopping, sweep>>
    PROVE  IInv'
<1>1. f \in Fire /\ (f.mark # "undefined" => Ran(f))
  BY OwnedRow
<1>2. /\ fires' \subseteq (fires \ {f}) \cup {f} /\ fires \ {f} \subseteq fires'
      /\ Forgets(f)
  BY DEF End, Forgets
<1>3. QED
  BY <1>1, <1>2, FireMoves

LEMMA ReleaseInvariant ==
    ASSUME IInv, NEW f \in fires, Release(f), UNCHANGED sweep PROVE IInv'
<1>1. CASE task' = task
  BY <1>1, FireIsDropped DEF Release, Fault
<1>2. CASE task' # task
  <2>1. Owns(f) /\ task' = [task EXCEPT ![f.id] = Unclaimed(task[f.id])]
    BY <1>2 DEF Release, releaseClaim, runGuardedUpdate
  <2>2. /\ task[f.id] \in Row /\ RowConsistent(task[f.id])
        /\ task[f.id].status = "running"
    BY <2>1, OwnedRow
  <2>3. /\ Unclaimed(task[f.id]) \in Row /\ RowConsistent(Unclaimed(task[f.id]))
        /\ Unclaimed(task[f.id]).status # "running"
        /\ Unclaimed(task[f.id]).leaseEpoch = task[f.id].leaseEpoch
    BY <2>2, UnclaimedRow DEF RowConsistent
  <2>4. QED
    BY <2>1, <2>3, FireEnds DEF Release
<1>3. QED
  BY <1>1, <1>2

LEMMA TimerFiresInvariant ==
    ASSUME IInv, NEW f \in fires, TimerFires(f), UNCHANGED sweep PROVE IInv'
<1>. DEFINE g == [f EXCEPT !.pc = "firing"]
<1>1. f \in Fire /\ (f.mark # "undefined" => Ran(f))
  BY OwnedRow
<1>2. /\ g \in Fire /\ g.host = f.host /\ g.id = f.id /\ g.epoch = f.epoch
      /\ g.attempts = f.attempts /\ g.mark = f.mark /\ g.pc = "firing"
  BY <1>1 DEF Fire, Steps
<1>3. QED
  BY <1>1, <1>2, FireMoves DEF TimerFires, GoTo, Ran, Forgets

\* The mutex is taken in one statement: startedAt goes with the fire.
LEMMA BeginDispatchInvariant ==
    ASSUME IInv, NEW f \in fires, BeginDispatch(f), UNCHANGED sweep PROVE IInv'
<1>. DEFINE g == [f EXCEPT !.pc = "executing"]
            row == [task[f.id] EXCEPT !.startedAt = TRUE, !.lease = LeaseTicks]
<1>1. CASE WinsDispatch(f)
  <2>1. /\ f \in Fire /\ f.id \in Tasks /\ task[f.id] \in Row
        /\ RowConsistent(task[f.id]) /\ Fits(f, task[f.id])
        /\ task \in [Tasks -> Row]
    BY OwnedRow DEF IInv, TypeOK, StoreTypeOK
  <2>2. /\ g \in Fire /\ g.host = f.host /\ g.id = f.id /\ g.epoch = f.epoch
        /\ g.attempts = f.attempts /\ g.mark = f.mark /\ g.pc = "executing"
    BY <2>1 DEF Fire, Steps
  <2>3. /\ row \in Row /\ row.startedAt = TRUE /\ row.lease = LeaseTicks
        /\ row.status = task[f.id].status /\ row.claimedBy = task[f.id].claimedBy
        /\ row.leaseEpoch = task[f.id].leaseEpoch
        /\ row.attempts = task[f.id].attempts
        /\ row.dispatchedAt = task[f.id].dispatchedAt
    BY <2>1, Constants DEF Row
  <2>4. task' = [task EXCEPT ![f.id] = row]
    BY <1>1, <2>1, <2>3 DEF BeginDispatch, beginDispatch
  <2>5. Owns(f) /\ task[f.id].status = "running"
    BY <1>1 DEF WinsDispatch, Owns
  <2>6. RowConsistent(row)
    BY <2>1, <2>3, <2>5, Constants DEF RowConsistent
  <2>7. fires' = (fires \ {f}) \cup {g} /\ Forgets(f)
    BY <1>1 DEF BeginDispatch, GoTo, Forgets
  <2>8. ExecutorTypeOK'
    BY <2>2, <2>7, FireTypes DEF BeginDispatch
  <2>9. Fits(g, row) /\ Ran(g)
    BY <2>1, <2>2, <2>3, <2>5 DEF Fits, Ran, Owns, WinsDispatch
  <2>10. task'[f.id] = row
    BY <2>1, <2>3, <2>4
  <2>. HIDE DEF g, row
  <2>11. QED
    BY <2>2, <2>3, <2>4, <2>5, <2>6, <2>7, <2>8, <2>9, <2>10, FireWrites
       DEF BeginDispatch
<1>2. CASE ~WinsDispatch(f)
  BY <1>2, FireIsDropped DEF BeginDispatch, beginDispatch
<1>3. QED
  BY <1>1, <1>2

LEMMA BeginDispatchRejectsInvariant ==
    ASSUME IInv, NEW f \in fires, BeginDispatchRejects(f), UNCHANGED sweep
    PROVE  IInv'
<1>. DEFINE row == [task[f.id] EXCEPT !.startedAt = TRUE, !.lease = LeaseTicks]
<1>1. CASE task' # task
  <2>1. /\ f \in Fire /\ f.id \in Tasks /\ task[f.id] \in Row
        /\ RowConsistent(task[f.id]) /\ task \in [Tasks -> Row]
    BY OwnedRow DEF IInv, TypeOK, StoreTypeOK
  <2>2. /\ row \in Row /\ row.startedAt = TRUE /\ row.lease = LeaseTicks
        /\ row.status = task[f.id].status /\ row.claimedBy = task[f.id].claimedBy
        /\ row.leaseEpoch = task[f.id].leaseEpoch
        /\ row.attempts = task[f.id].attempts
        /\ row.dispatchedAt = task[f.id].dispatchedAt
    BY <2>1, Constants DEF Row
  <2>3. Owns(f) /\ task[f.id].status = "running"
    BY <1>1 DEF BeginDispatchRejects, beginDispatch, WinsDispatch, Owns
  <2>4. task' = [task EXCEPT ![f.id] = row]
    BY <1>1, <2>1, <2>2 DEF BeginDispatchRejects, beginDispatch
  <2>5. RowConsistent(row)
    BY <2>1, <2>2, <2>3, Constants DEF RowConsistent
  <2>6. fires' \subseteq (fires \ {f}) \cup {f} /\ f \notin fires'
    BY DEF BeginDispatchRejects, End
  <2>9. fires \ {f} \subseteq fires' /\ Forgets(f)
    BY DEF BeginDispatchRejects, End, Forgets
  <2>7. ExecutorTypeOK'
    BY <2>1, <2>6, <2>9, FireTypes DEF BeginDispatchRejects
  <2>. HIDE DEF row
  <2>8. QED
    BY <2>1, <2>2, <2>3, <2>4, <2>5, <2>6, <2>7, <2>9, FireWrites
       DEF BeginDispatchRejects
<1>2. CASE task' = task
  BY <1>2, FireIsDropped DEF BeginDispatchRejects
<1>3. QED
  BY <1>1, <1>2

LEMMA ReportDispatchedInvariant ==
    ASSUME IInv, NEW f \in fires, ReportDispatched(f), UNCHANGED sweep PROVE IInv'
<1>. DEFINE g == [f EXCEPT !.mark = "writing"]
<1>1. f \in Fire
  BY OwnedRow
<1>2. /\ g \in Fire /\ g.host = f.host /\ g.id = f.id /\ g.epoch = f.epoch
      /\ g.attempts = f.attempts /\ g.mark = "writing" /\ g.pc = f.pc
  BY <1>1 DEF Fire, Marks
<1>3. QED
  BY <1>1, <1>2, FireMoves DEF ReportDispatched, SetMark, Ran, Forgets

\* The marker write lands before the fire counts it as settled.
LEMMA MarkSettlesInvariant ==
    ASSUME IInv, NEW f \in fires, MarkSettles(f), UNCHANGED sweep PROVE IInv'
<1>. DEFINE g == [f EXCEPT !.mark = "settled"]
            row == [task[f.id] EXCEPT !.dispatchedAt = TRUE]
<1>1. /\ f \in Fire /\ f.id \in Tasks /\ task[f.id] \in Row
      /\ RowConsistent(task[f.id]) /\ Fits(f, task[f.id])
      /\ task \in [Tasks -> Row] /\ Ran(f)
  BY OwnedRow DEF IInv, TypeOK, StoreTypeOK, MarkSettles
<1>2. /\ g \in Fire /\ g.host = f.host /\ g.id = f.id /\ g.epoch = f.epoch
      /\ g.attempts = f.attempts /\ g.mark = "settled" /\ g.pc = f.pc
  BY <1>1 DEF Fire, Marks
<1>3. fires' = (fires \ {f}) \cup {g} /\ Ran(g) /\ Forgets(f)
  BY <1>1, <1>2 DEF MarkSettles, SetMark, Ran, Forgets
<1>4. ExecutorTypeOK'
  BY <1>2, <1>3, FireTypes DEF MarkSettles
<1>5. CASE task' = task
  <2>1. Fits(g, task[f.id])
    BY <1>1, <1>2, <1>3 DEF Fits
  <2>. HIDE DEF g
  <2>2. QED
    BY <1>1, <1>2, <1>3, <1>4, <1>5, <2>1, FireWrites DEF MarkSettles
<1>6. CASE task' # task
  <2>1. Owns(f) /\ task' = [task EXCEPT ![f.id] = row]
    BY <1>6 DEF MarkSettles, markDispatched, runGuardedUpdate
  <2>2. task[f.id].status = "running" /\ task[f.id].startedAt
    BY <1>1, <2>1 DEF Owns, Fits
  <2>3. /\ row \in Row /\ row.dispatchedAt = TRUE /\ row.lease = task[f.id].lease
        /\ row.status = task[f.id].status /\ row.claimedBy = task[f.id].claimedBy
        /\ row.leaseEpoch = task[f.id].leaseEpoch
        /\ row.attempts = task[f.id].attempts
        /\ row.startedAt = task[f.id].startedAt
    BY <1>1 DEF Row
  <2>4. RowConsistent(row) /\ Fits(g, row) /\ task'[f.id] = row
    BY <1>1, <1>2, <1>3, <2>1, <2>2, <2>3 DEF RowConsistent, Fits, Owns
  <2>. HIDE DEF g, row
  <2>5. QED
    BY <1>2, <1>3, <1>4, <2>1, <2>3, <2>4, FireWrites DEF MarkSettles
<1>7. QED
  BY <1>5, <1>6

LEMMA HandlerReturnsInvariant ==
    ASSUME IInv, NEW f \in fires, HandlerReturns(f), UNCHANGED sweep PROVE IInv'
<1>. DEFINE mark == IF f.mark = "undefined" THEN "writing" ELSE f.mark
            g == [f EXCEPT !.pc = "returned", !.mark = mark]
<1>1. f \in Fire
  BY OwnedRow
<1>2. /\ g \in Fire /\ g.host = f.host /\ g.id = f.id /\ g.epoch = f.epoch
      /\ g.attempts = f.attempts /\ g.mark = mark /\ g.pc = "returned"
  BY <1>1 DEF Fire, Marks, Steps
<1>3. fires' = (fires \ {f}) \cup {g}
  BY <1>1 DEF HandlerReturns, Fire
<1>4. /\ Ran(g) /\ Ran(f) /\ (g.mark = "settled" <=> f.mark = "settled")
      /\ UNCHANGED <<task, inflight, stopping, faults>> /\ Forgets(f)
  BY <1>2 DEF HandlerReturns, Ran, Forgets
<1>. HIDE DEF g, mark
<1>5. QED
  BY <1>1, <1>2, <1>3, <1>4, FireMoves

LEMMA HandlerThrowsInvariant ==
    ASSUME IInv, NEW f \in fires, HandlerThrows(f), UNCHANGED sweep PROVE IInv'
<1>. DEFINE g == [f EXCEPT !.pc = "threw"]
<1>1. f \in Fire
  BY OwnedRow
<1>2. /\ g \in Fire /\ g.host = f.host /\ g.id = f.id /\ g.epoch = f.epoch
      /\ g.attempts = f.attempts /\ g.mark = f.mark /\ g.pc = "threw"
  BY <1>1 DEF Fire, Steps
<1>3. QED
  BY <1>1, <1>2, FireMoves DEF HandlerThrows, GoTo, Ran, Forgets

\* The outcome spends the attempt it was decided on, because the attempts the
\* fire holds are those of the row (Fits), and a failure is only recorded when
\* no marker was written.
LEMMA RecordOutcomeInvariant ==
    ASSUME IInv, NEW f \in fires, RecordOutcome(f), UNCHANGED sweep PROVE IInv'
<1>. DEFINE row == task[f.id]
<1>1. CASE task' = task
  BY <1>1, FireIsDropped DEF RecordOutcome, Outcome
<1>2. CASE task' # task
  <2>1. Owns(f)
    BY <1>2 DEF RecordOutcome, Outcome, completeTask, failTaskTerminal,
                rescheduleTask, runGuardedUpdate
  <2>2. /\ f \in Fire /\ row \in Row /\ RowConsistent(row)
        /\ row.status = "running" /\ f.attempts = row.attempts
        /\ (f.mark # "settled" => ~row.dispatchedAt)
    BY <2>1, OwnedRow DEF Fits
  <2>3. CASE task' = [task EXCEPT ![f.id] = [row EXCEPT !.status = "succeeded"]]
    BY <2>1, <2>2, <2>3, SettledRow, FireEnds DEF RecordOutcome, Outcome
  <2>4. CASE /\ LastAttempt(f) /\ f.mark = "undefined"
             /\ task' = [task EXCEPT ![f.id] =
                           [row EXCEPT !.status = "failed", !.attempts = @ + 1]]
    <3>1. row.attempts + 1 >= MaxAttempts /\ ~row.dispatchedAt
      BY <2>2, <2>4 DEF LastAttempt
    <3>2. QED
      BY <2>1, <2>2, <2>4, <3>1, SettledRow, FireEnds DEF RecordOutcome, Outcome
  <2>5. CASE /\ ~LastAttempt(f)
             /\ task' = [task EXCEPT ![f.id] =
                           [Unclaimed(row) EXCEPT !.attempts = @ + 1,
                                                  !.wait = backoff(f.attempts + 1)]]
    <3>1. /\ row.attempts + 1 < MaxAttempts
          /\ backoff(f.attempts + 1) \in 0..BackoffMax
          /\ row.leaseEpoch \in 0..MaxEpoch /\ row.attempts \in 0..MaxAttempts
      <4>1. f.attempts \in 0..MaxAttempts /\ row.leaseEpoch \in 0..MaxEpoch
        BY <2>2 DEF Fire, Row
      <4>2. f.attempts + 1 < MaxAttempts
        BY <2>5, <4>1, Constants DEF LastAttempt
      <4>3. QED
        BY <2>2, <4>1, <4>2, BackoffType
    <3>. DEFINE w == backoff(f.attempts + 1)
    <3>2. /\ Retried(row, row.leaseEpoch, w) \in Row
          /\ RowConsistent(Retried(row, row.leaseEpoch, w))
          /\ Retried(row, row.leaseEpoch, w).status = "pending"
          /\ Retried(row, row.leaseEpoch, w).leaseEpoch = row.leaseEpoch
      BY <2>2, <3>1, RetriedRow
    <3>3. Retried(row, row.leaseEpoch, w)
            = [Unclaimed(row) EXCEPT !.attempts = @ + 1, !.wait = w]
      <4>1. Unclaimed(row) \in Row /\ Unclaimed(row).leaseEpoch = row.leaseEpoch
        BY <2>2, UnclaimedRow
      <4>2. QED
        BY <4>1 DEF Row, Retried
    <3>4. QED
      BY <2>1, <2>5, <3>2, <3>3, FireEnds DEF RecordOutcome, Outcome
  <2>6. QED
    BY <2>1, <2>3, <2>4, <2>5
       DEF RecordOutcome, Outcome, completeTask, failTaskTerminal,
           rescheduleTask, runGuardedUpdate
<1>3. QED
  BY <1>1, <1>2

LEMMA OutcomeRejectsInvariant ==
    ASSUME IInv, NEW f \in fires, OutcomeRejects(f), UNCHANGED sweep PROVE IInv'
BY FireIsDropped DEF OutcomeRejects

LEMMA FireStepInvariant ==
    ASSUME IInv, NEW f \in fires, FireStep(f), UNCHANGED sweep PROVE IInv'
BY ReleaseInvariant, TimerFiresInvariant, BeginDispatchInvariant,
   BeginDispatchRejectsInvariant, ReportDispatchedInvariant,
   MarkSettlesInvariant, HandlerReturnsInvariant, HandlerThrowsInvariant,
   RecordOutcomeInvariant, OutcomeRejectsInvariant DEF FireStep

-----------------------------------------------------------------------------
(* The steps of a main that leave the table alone: claims that arrive or   *)
(* are handed back, a stop, a restart.                                     *)

\* Nobody learns anything new: every fire descends from a fire or from a claim
\* that was on its way.
LEMMA TableUntouched ==
    ASSUME IInv, task' = task, ExecutorTypeOK', ReaperTypeOK', SingleOwner',
           TrackedIsArmed',
           \A k \in fires' :
             \/ \E j \in fires : /\ k.host = j.host /\ k.id = j.id
                                 /\ k.epoch = j.epoch /\ k.attempts = j.attempts
                                 /\ k.mark = j.mark /\ (Ran(k) <=> Ran(j))
             \/ \E b \in inflight : \E c \in b.claims :
                  /\ k.host = b.host /\ k.id = c.id /\ k.epoch = c.epoch
                  /\ k.attempts = c.attempts
                  /\ k.mark = "undefined" /\ ~Ran(k),
           inflight' \subseteq inflight,
           \A h \in Hosts : sweep'[h] \subseteq sweep[h]
    PROVE  IInv'
<1>1. TypeOK'
  BY DEF IInv, TypeOK, StoreTypeOK
<1>2. EpochsReached'
  BY DEF IInv, EpochsReached
<1>3. MemoriesAgree'
  <2>1. ASSUME NEW k \in fires' PROVE FireAgrees(k)' /\ (k.mark # "undefined" => Ran(k))
    BY DEF IInv, MemoriesAgree, FireAgrees, ClaimAgrees, Owns
  <2>2. ASSUME NEW b \in inflight', NEW c \in b.claims PROVE ClaimAgrees(b.host, c)'
    BY DEF IInv, MemoriesAgree, ClaimAgrees, Owns
  <2>3. ASSUME NEW h \in Hosts, NEW r \in sweep'[h] PROVE SweepAgrees(r)'
    BY DEF IInv, MemoriesAgree, SweepAgrees
  <2>4. QED
    BY <2>1, <2>2, <2>3 DEF MemoriesAgree
<1>4. \A t \in Tasks : RowConsistent(task'[t])
  BY DEF IInv
<1>5. QED
  BY <1>1, <1>2, <1>3, <1>4 DEF IInv

\* A claim becomes a fire under the identity the claim gave it.
LEMMA NewFireFields ==
    ASSUME NEW b \in Batch, NEW c \in b.claims, NEW pc \in {"scheduled", "releasing"}
    PROVE  /\ NewFire(b.host, c, pc) \in Fire
           /\ NewFire(b.host, c, pc).host = b.host
           /\ NewFire(b.host, c, pc).id = c.id
           /\ NewFire(b.host, c, pc).epoch = c.epoch
           /\ NewFire(b.host, c, pc).attempts = c.attempts
           /\ NewFire(b.host, c, pc).pc = pc
           /\ NewFire(b.host, c, pc).mark = "undefined"
           /\ ~Ran(NewFire(b.host, c, pc))
BY DEF NewFire, Batch, Claim, Fire, Steps, Marks, Ran

\* The claims of a batch become fires, each the one holder of its lease.
LEMMA BatchBecomesFires ==
    ASSUME IInv, NEW b \in inflight, NEW pc \in {"scheduled", "releasing"},
           inflight' = inflight \ {b},
           fires' = fires \cup {NewFire(b.host, c, pc) : c \in b.claims}
    PROVE  /\ fires' \subseteq Fire /\ inflight' \subseteq Batch
           /\ SingleOwner'
           /\ \A k \in fires' :
                \/ k \in fires
                \/ \E c \in b.claims :
                     /\ k.host = b.host /\ k.id = c.id /\ k.epoch = c.epoch
                     /\ k.attempts = c.attempts
                     /\ k.mark = "undefined" /\ ~Ran(k)
<1>0. fires \subseteq Fire /\ inflight \subseteq Batch
  BY DEF IInv, TypeOK, ExecutorTypeOK
<1>1. ASSUME NEW k \in fires', k \notin fires
      PROVE  \E c \in b.claims :
               /\ k = NewFire(b.host, c, pc) /\ k \in Fire
               /\ k.host = b.host /\ k.id = c.id /\ k.epoch = c.epoch
               /\ k.attempts = c.attempts /\ k.mark = "undefined" /\ ~Ran(k)
  <2>1. PICK c \in b.claims : k = NewFire(b.host, c, pc)
    BY <1>1
  <2>2. QED
    BY <1>0, <2>1, NewFireFields
<1>2. ASSUME NEW j \in fires', NEW k \in fires', SameLease(j, k) PROVE j = k
  <2>1. CASE j \in fires /\ k \in fires
    BY <1>2, <2>1 DEF IInv, SingleOwner
  <2>2. CASE j \notin fires /\ k \notin fires
    BY <1>1, <1>2, <2>2 DEF IInv, SingleOwner, SameLease
  <2>3. CASE j \in fires /\ k \notin fires
    BY <1>1, <1>2, <2>3 DEF IInv, SingleOwner, SameLease
  <2>4. CASE j \notin fires /\ k \in fires
    BY <1>1, <1>2, <2>4 DEF IInv, SingleOwner, SameLease
  <2>5. QED
    BY <2>1, <2>2, <2>3, <2>4
<1>3. ASSUME NEW k \in fires', NEW d \in inflight', NEW c \in d.claims
      PROVE  ~SameLease(k, c)
  <2>1. CASE k \in fires
    BY <2>1 DEF IInv, SingleOwner
  <2>2. CASE k \notin fires
    BY <1>1, <2>2 DEF IInv, SingleOwner, SameLease
  <2>3. QED
    BY <2>1, <2>2
<1>4. SingleOwner'
  BY <1>2, <1>3 DEF IInv, SingleOwner, SameLease
<1>5. QED
  BY <1>0, <1>1, <1>4

LEMMA ScheduleClaimedInvariant ==
    ASSUME IInv, NEW b \in inflight, ScheduleClaimed(b), UNCHANGED sweep
    PROVE  IInv'
<1>. DEFINE entry(t) == (CHOOSE c \in b.claims : c.id = t).epoch
            row == [t \in Tasks |-> IF \E c \in b.claims : c.id = t
                                    THEN entry(t) ELSE claimedTaskById[b.host][t]]
<1>0. /\ b \in Batch /\ b.host \in Hosts
      /\ claimedTaskById \in [Hosts -> [Tasks -> 0..MaxEpoch]]
      /\ \A c \in b.claims : c.id \in Tasks /\ c.epoch \in 1..MaxEpoch
  BY DEF IInv, TypeOK, ExecutorTypeOK, Batch, Claim
<1>1. /\ fires' \subseteq Fire /\ inflight' \subseteq Batch
      /\ SingleOwner'
      /\ \A k \in fires' :
           \/ k \in fires
           \/ \E c \in b.claims :
                /\ k.host = b.host /\ k.id = c.id /\ k.epoch = c.epoch
                /\ k.attempts = c.attempts
                /\ k.mark = "undefined" /\ ~Ran(k)
  BY BatchBecomesFires DEF ScheduleClaimed
<1>2. \A t \in Tasks : (\E c \in b.claims : c.id = t) =>
         \E c \in b.claims : c.id = t /\ entry(t) = c.epoch
  OBVIOUS
<1>. HIDE DEF entry
<1>3. row \in [Tasks -> 0..MaxEpoch]
  BY <1>0, <1>2, Constants
<1>4. claimedTaskById' = [claimedTaskById EXCEPT ![b.host] = row]
  BY <1>0 DEF ScheduleClaimed, entry
<1>5. ExecutorTypeOK' /\ ReaperTypeOK'
  BY <1>0, <1>1, <1>3, <1>4
     DEF IInv, TypeOK, ExecutorTypeOK, ReaperTypeOK, ScheduleClaimed
<1>6. TrackedIsArmed'
  <2>1. SUFFICES ASSUME NEW h \in Hosts, NEW t \in Tasks, claimedTaskById'[h][t] # 0
                 PROVE  \E k \in fires' : /\ k.host = h /\ k.id = t
                                          /\ k.pc = "scheduled"
                                          /\ k.epoch = claimedTaskById'[h][t]
    BY DEF TrackedIsArmed
  <2>2. CASE h = b.host /\ \E c \in b.claims : c.id = t
    <3>1. PICK c \in b.claims : c.id = t /\ entry(t) = c.epoch
      BY <1>2, <2>2
    <3>2. claimedTaskById'[h][t] = c.epoch
      BY <1>0, <1>3, <1>4, <2>2, <3>1
    <3>3. NewFire(b.host, c, "scheduled") \in fires'
      BY DEF ScheduleClaimed
    <3>4. QED
      BY <1>0, <2>2, <3>1, <3>2, <3>3, NewFireFields
  <2>3. CASE ~(h = b.host /\ \E c \in b.claims : c.id = t)
    <3>1. claimedTaskById'[h][t] = claimedTaskById[h][t]
      BY <1>0, <1>3, <1>4, <2>3
    <3>2. fires \subseteq fires'
      BY DEF ScheduleClaimed
    <3>3. QED
      BY <2>1, <3>1, <3>2 DEF IInv, TrackedIsArmed
  <2>4. QED
    BY <2>2, <2>3
<1>7. QED
  BY <1>1, <1>5, <1>6, TableUntouched DEF ScheduleClaimed

LEMMA HandBackClaimsInvariant ==
    ASSUME IInv, NEW b \in inflight, HandBackClaims(b), UNCHANGED sweep
    PROVE  IInv'
<1>1. /\ fires' \subseteq Fire /\ inflight' \subseteq Batch
      /\ SingleOwner'
      /\ \A k \in fires' :
           \/ k \in fires
           \/ \E c \in b.claims :
                /\ k.host = b.host /\ k.id = c.id /\ k.epoch = c.epoch
                /\ k.attempts = c.attempts
                /\ k.mark = "undefined" /\ ~Ran(k)
  BY BatchBecomesFires DEF HandBackClaims
<1>2. ExecutorTypeOK' /\ ReaperTypeOK'
  BY <1>1, MaxFaultsAssumption
     DEF IInv, TypeOK, ExecutorTypeOK, ReaperTypeOK, HandBackClaims, Fault
<1>3. TrackedIsArmed'
  BY DEF IInv, TrackedIsArmed, HandBackClaims
<1>4. QED
  BY <1>1, <1>2, <1>3, TableUntouched DEF HandBackClaims

\* What stop releases are armed timers, so no fire gets a second holder.
LEMMA StopInvariant ==
    ASSUME IInv, NEW h \in Hosts, Stop(h), UNCHANGED sweep PROVE IInv'
<1>. DEFINE released(f) == [f EXCEPT !.pc = "releasing"]
<1>0. fires \subseteq Fire
  BY DEF IInv, TypeOK, ExecutorTypeOK
<1>1. TrackedOn(h) \subseteq ScheduledOn(h)
  <2>1. SUFFICES ASSUME NEW f \in TrackedOn(h) PROVE f \in ScheduledOn(h)
    OBVIOUS
  <2>2. /\ f \in fires /\ f.host = h /\ f.id \in Tasks
        /\ claimedTaskById[h][f.id] = f.epoch /\ f.epoch # 0
    BY <1>0 DEF TrackedOn, Fire
  <2>3. PICK k \in fires : /\ k.host = h /\ k.id = f.id /\ k.pc = "scheduled"
                           /\ k.epoch = claimedTaskById[h][f.id]
    BY <2>2 DEF IInv, TrackedIsArmed
  <2>4. k = f
    BY <2>2, <2>3 DEF IInv, SingleOwner, SameLease
  <2>5. QED
    BY <2>2, <2>3, <2>4 DEF ScheduledOn
<1>2. \A f \in fires : /\ released(f) \in Fire
                       /\ released(f).host = f.host /\ released(f).id = f.id
                       /\ released(f).epoch = f.epoch
                       /\ released(f).attempts = f.attempts
                       /\ released(f).mark = f.mark /\ released(f).pc = "releasing"
  BY <1>0 DEF Fire, Steps
<1>3. fires' = (fires \ ScheduledOn(h)) \cup {released(f) : f \in TrackedOn(h)}
  BY DEF Stop
<1>4. \A k \in fires' : \/ k \in fires /\ k \notin ScheduledOn(h)
                        \/ \E f \in ScheduledOn(h) : k = released(f)
  BY <1>1, <1>3
<1>5. ScheduledOn(h) \subseteq fires
  BY DEF ScheduledOn
<1>. HIDE DEF released
<1>6. fires' \subseteq Fire
  BY <1>0, <1>2, <1>4, <1>5
<1>7. SingleOwner'
  <2>1. \A k \in fires' : \E f \in fires : SameLease(k, f) /\
            ((k = f /\ f \notin ScheduledOn(h)) \/ (k = released(f) /\ f \in ScheduledOn(h)))
    BY <1>2, <1>4, <1>5 DEF SameLease
  <2>2. \A j, k \in fires' : SameLease(j, k) => j = k
    BY <2>1 DEF IInv, SingleOwner, SameLease
  <2>3. \A k \in fires', d \in inflight' : \A c \in d.claims : ~SameLease(k, c)
    BY <2>1 DEF IInv, SingleOwner, SameLease, Stop
  <2>4. \A b, d \in inflight' : \A c \in b.claims, e \in d.claims :
            SameLease(c, e) => b = d /\ c = e
    BY DEF IInv, SingleOwner, Stop
  <2>5. QED
    BY <2>2, <2>3, <2>4 DEF SingleOwner, SameLease
<1>8. claimedTaskById' \in [Hosts -> [Tasks -> 0..MaxEpoch]] /\ TrackedIsArmed'
  <2>1. [t \in Tasks |-> 0] \in [Tasks -> 0..MaxEpoch]
    BY Constants
  <2>2. claimedTaskById' = [claimedTaskById EXCEPT ![h] = [t \in Tasks |-> 0]]
    BY DEF Stop
  <2>3. \A k \in Hosts, t \in Tasks :
          claimedTaskById'[k][t] = IF k = h THEN 0 ELSE claimedTaskById[k][t]
    BY <2>2 DEF IInv, TypeOK, ExecutorTypeOK
  <2>4. \A f \in fires : f.host # h => f \in fires'
    BY <1>3 DEF ScheduledOn
  <2>5. TrackedIsArmed'
    BY <2>3, <2>4 DEF IInv, TrackedIsArmed
  <2>6. QED
    BY <2>1, <2>2, <2>5 DEF IInv, TypeOK, ExecutorTypeOK
<1>9. ExecutorTypeOK' /\ ReaperTypeOK'
  BY <1>6, <1>8, MaxFaultsAssumption
     DEF IInv, TypeOK, ExecutorTypeOK, ReaperTypeOK, Stop, Fault
<1>10. \A k \in fires' : \E j \in fires :
          /\ k.host = j.host /\ k.id = j.id /\ k.epoch = j.epoch
          /\ k.attempts = j.attempts /\ k.mark = j.mark /\ (Ran(k) <=> Ran(j))
  BY <1>2, <1>4, <1>5 DEF ScheduledOn, Ran
<1>11. QED
  BY <1>7, <1>8, <1>9, <1>10, TableUntouched DEF Stop

LEMMA RestartInvariant ==
    ASSUME IInv, NEW h \in Hosts, Restart(h) PROVE IInv'
<1>1. /\ fires' \subseteq fires /\ inflight' \subseteq inflight /\ task' = task
      /\ \A f \in fires : f.host # h => f \in fires'
  BY DEF Restart, ProcessRestarts
<1>2. SingleOwner'
  BY <1>1 DEF IInv, SingleOwner, SameLease
<1>3. claimedTaskById' \in [Hosts -> [Tasks -> 0..MaxEpoch]] /\ TrackedIsArmed'
  <2>1. [t \in Tasks |-> 0] \in [Tasks -> 0..MaxEpoch]
    BY Constants
  <2>2. claimedTaskById' = [claimedTaskById EXCEPT ![h] = [t \in Tasks |-> 0]]
    BY DEF Restart, ProcessRestarts
  <2>3. \A k \in Hosts, t \in Tasks :
          claimedTaskById'[k][t] = IF k = h THEN 0 ELSE claimedTaskById[k][t]
    BY <2>2 DEF IInv, TypeOK, ExecutorTypeOK
  <2>4. TrackedIsArmed'
    BY <1>1, <2>3 DEF IInv, TrackedIsArmed
  <2>5. QED
    BY <2>1, <2>2, <2>4 DEF IInv, TypeOK, ExecutorTypeOK
<1>4. ExecutorTypeOK'
  BY <1>1, <1>3, MaxFaultsAssumption
     DEF IInv, TypeOK, ExecutorTypeOK, Restart, ProcessRestarts, Fault
<1>5. ReaperTypeOK' /\ \A k \in Hosts : sweep'[k] \subseteq sweep[k]
  BY DEF IInv, TypeOK, ReaperTypeOK, Restart
<1>6. QED
  BY <1>1, <1>2, <1>3, <1>4, <1>5, TableUntouched

-----------------------------------------------------------------------------
(* The claim.  The new epoch is above every epoch anybody remembers of the *)
(* row, so whoever held the row before is fenced off.                      *)

LEMMA ClaimTickInvariant ==
    ASSUME IInv, NEW h \in Hosts, ClaimTick(h), UNCHANGED sweep
    PROVE  IInv'
<1>0. /\ task \in [Tasks -> Row] /\ fires \subseteq Fire
      /\ inflight \subseteq Batch /\ sweep \in [Hosts -> SUBSET Expired]
  BY DEF IInv, TypeOK, StoreTypeOK, ExecutorTypeOK, ReaperTypeOK
<1>1. PICK S \in SUBSET Tasks :
        /\ claimDueTasks(h, S)
        /\ inflight' = inflight \cup
             {[host |-> h,
               claims |-> {[id |-> t, epoch |-> task'[t].leaseEpoch,
                            attempts |-> task'[t].attempts] : t \in S}]}
  BY DEF ClaimTick
<1>. DEFINE claim(t) == [id |-> t, epoch |-> task'[t].leaseEpoch,
                         attempts |-> task'[t].attempts]
            new == [host |-> h, claims |-> {claim(t) : t \in S}]
<1>2. UNCHANGED <<fires, claimedTaskById, stopping, faults, sweep>>
  BY DEF ClaimTick
<1>3. \A t \in S : /\ task[t].status = "pending"
                   /\ task[t].leaseEpoch < MaxEpoch
                   /\ task'[t] = Claimed(task[t], h)
  BY <1>1 DEF claimDueTasks, ClaimBatches, Due
<1>4. \A t \in Tasks \ S : task'[t] = task[t]
  BY <1>1 DEF claimDueTasks
<1>5. \A t \in S : /\ task'[t] \in Row /\ task'[t].status = "running"
                   /\ task'[t].claimedBy = h /\ task'[t].lease = LeaseTicks
                   /\ task'[t].leaseEpoch = task[t].leaseEpoch + 1
                   /\ task'[t].attempts = task[t].attempts
                   /\ task'[t].startedAt = task[t].startedAt
                   /\ task'[t].dispatchedAt = task[t].dispatchedAt
  BY <1>0, <1>3, ClaimedRow
<1>6. task' \in [Tasks -> Row]
  BY <1>0, <1>1, <1>4, <1>5 DEF claimDueTasks
<1>7. \A t \in Tasks : task[t].leaseEpoch \in Nat /\ task'[t].leaseEpoch \in Nat
  BY <1>0, <1>6, Constants DEF Row
<1>8. \A t \in S : /\ claim(t) \in Claim /\ claim(t).id = t
                   /\ claim(t).epoch = task'[t].leaseEpoch
                   /\ claim(t).attempts = task'[t].attempts
  <2>1. SUFFICES ASSUME NEW t \in S PROVE claim(t) \in Claim
    OBVIOUS
  <2>2. task'[t].leaseEpoch \in 0..MaxEpoch /\ task'[t].attempts \in 0..MaxAttempts
    BY <1>5 DEF Row
  <2>3. task'[t].leaseEpoch \in 1..MaxEpoch
    BY <1>5, <1>7, <2>2
  <2>4. QED
    BY <2>2, <2>3 DEF Claim
<1>. HIDE DEF claim
<1>9. new \in Batch /\ new.host = h /\ new.claims = {claim(t) : t \in S}
  BY <1>8 DEF Batch
<1>10. inflight' = inflight \cup {new}
  BY <1>1 DEF claim
<1>. HIDE DEF new
<1>11. TypeOK'
  BY <1>2, <1>6, <1>9, <1>10
     DEF IInv, TypeOK, StoreTypeOK, ExecutorTypeOK, ReaperTypeOK
<1>12. \A t \in Tasks : task[t].leaseEpoch <= task'[t].leaseEpoch
  BY <1>4, <1>5, <1>7
<1>13. EpochsReached'
  <2>1. \A f \in fires : f.epoch <= task'[f.id].leaseEpoch
    BY <1>0, <1>7, <1>12 DEF IInv, EpochsReached, Fire
  <2>2. \A b \in inflight : \A c \in b.claims : c.epoch <= task'[c.id].leaseEpoch
    BY <1>0, <1>7, <1>12 DEF IInv, EpochsReached, Batch, Claim
  <2>3. \A k \in Hosts : \A r \in sweep[k] : r.epoch <= task'[r.id].leaseEpoch
    BY <1>0, <1>7, <1>12 DEF IInv, EpochsReached, Expired
  <2>4. \A c \in new.claims : c.epoch <= task'[c.id].leaseEpoch
    BY <1>7, <1>8, <1>9
  <2>5. QED
    BY <1>2, <1>10, <2>1, <2>2, <2>3, <2>4 DEF EpochsReached
<1>14. \A c \in new.claims :
         /\ \A f \in fires : ~SameLease(f, c) /\ ~SameLease(c, f)
         /\ \A b \in inflight : \A e \in b.claims : ~SameLease(e, c) /\ ~SameLease(c, e)
         /\ \A e \in new.claims : SameLease(c, e) => c = e
  <2>1. SUFFICES ASSUME NEW t \in S
                 PROVE  /\ \A f \in fires : ~SameLease(f, claim(t)) /\ ~SameLease(claim(t), f)
                        /\ \A b \in inflight : \A e \in b.claims :
                             ~SameLease(e, claim(t)) /\ ~SameLease(claim(t), e)
                        /\ \A u \in S : SameLease(claim(t), claim(u)) => t = u
    BY <1>9
  <2>2. claim(t).id = t /\ claim(t).epoch = task[t].leaseEpoch + 1
    BY <1>5, <1>8
  <2>3. \A f \in fires : f.id = t => f.epoch # task[t].leaseEpoch + 1
    BY <1>0, <1>7 DEF IInv, EpochsReached, Fire
  <2>4. \A b \in inflight : \A e \in b.claims :
           e.id = t => e.epoch # task[t].leaseEpoch + 1
    BY <1>0, <1>7 DEF IInv, EpochsReached, Batch, Claim
  <2>5. \A u \in S : SameLease(claim(t), claim(u)) => t = u
    BY <1>8 DEF SameLease
  <2>6. QED
    BY <2>2, <2>3, <2>4, <2>5 DEF SameLease
<1>15. SingleOwner'
  BY <1>2, <1>10, <1>14 DEF IInv, SingleOwner, SameLease
<1>16. MemoriesAgree'
  <2>1. ASSUME NEW f \in fires' PROVE FireAgrees(f)' /\ (f.mark # "undefined" => Ran(f))
    <3>1. f \in fires /\ f.id \in Tasks /\ f.epoch \in Nat
      BY <1>0, <1>2, Constants DEF Fire
    <3>2. CASE f.id \in S
      <4>1. f.epoch # task'[f.id].leaseEpoch
        BY <1>5, <1>7, <3>1, <3>2 DEF IInv, EpochsReached
      <4>2. QED
        BY <3>1, <4>1 DEF IInv, MemoriesAgree, FireAgrees, Owns
    <3>3. CASE f.id \notin S
      BY <1>4, <3>1, <3>3 DEF IInv, MemoriesAgree, FireAgrees, Owns
    <3>4. QED
      BY <3>2, <3>3
  <2>2. ASSUME NEW b \in inflight', NEW c \in b.claims PROVE ClaimAgrees(b.host, c)'
    <3>1. CASE b = new
      <4>1. PICK t \in S : c = claim(t)
        BY <1>9, <3>1
      <4>2. ~task'[t].startedAt /\ ~task'[t].dispatchedAt
        BY <1>3, <1>5 DEF IInv, RowConsistent
      <4>3. QED
        BY <1>8, <4>1, <4>2 DEF ClaimAgrees
    <3>2. CASE b # new
      <4>1. b \in inflight /\ c.id \in Tasks /\ c.epoch \in Nat
        BY <1>0, <1>10, <3>2, Constants DEF Batch, Claim
      <4>2. CASE c.id \in S
        <5>1. c.epoch # task'[c.id].leaseEpoch
          BY <1>5, <1>7, <4>1, <4>2 DEF IInv, EpochsReached
        <5>2. QED
          BY <5>1 DEF ClaimAgrees, Owns
      <4>3. CASE c.id \notin S
        BY <1>4, <4>1, <4>3 DEF IInv, MemoriesAgree, ClaimAgrees, Owns
      <4>4. QED
        BY <4>2, <4>3
    <3>3. QED
      BY <3>1, <3>2
  <2>3. ASSUME NEW k \in Hosts, NEW r \in sweep'[k] PROVE SweepAgrees(r)'
    <3>1. r \in sweep[k] /\ r.id \in Tasks /\ r.epoch \in Nat
      BY <1>0, <1>2, Constants DEF Expired
    <3>2. CASE r.id \in S
      <4>1. r.epoch # task'[r.id].leaseEpoch
        BY <1>5, <1>7, <3>1, <3>2 DEF IInv, EpochsReached
      <4>2. QED
        BY <4>1 DEF SweepAgrees
    <3>3. CASE r.id \notin S
      BY <1>4, <3>1, <3>3 DEF IInv, MemoriesAgree, SweepAgrees
    <3>4. QED
      BY <3>2, <3>3
  <2>4. QED
    BY <2>1, <2>2, <2>3 DEF MemoriesAgree
<1>17. TrackedIsArmed'
  BY <1>2 DEF IInv, TrackedIsArmed
<1>18. \A t \in Tasks : RowConsistent(task'[t])
  <2>1. SUFFICES ASSUME NEW t \in S PROVE RowConsistent(task'[t])
    BY <1>4 DEF IInv
  <2>2. RowConsistent(task[t]) /\ h # Nobody
    BY HostsAssumption DEF IInv
  <2>3. QED
    BY <1>3, <1>5, <2>2, Constants DEF RowConsistent
<1>19. QED
  BY <1>11, <1>13, <1>15, <1>16, <1>17, <1>18 DEF IInv

-----------------------------------------------------------------------------
(* The reaper.  A sweep only ever takes a row out of running, so its       *)
(* writes fence off whoever held the row.                                  *)

LEMMA ReaperWrites ==
    ASSUME IInv, NEW t \in Tasks, NEW row \in Row, RowConsistent(row),
           row.status # "running", task[t].leaseEpoch <= row.leaseEpoch,
           task' = task \/ task' = [task EXCEPT ![t] = row],
           UNCHANGED faults \/ Fault,
           UNCHANGED <<inflight, fires, claimedTaskById, stopping>>,
           \A h \in Hosts : sweep'[h] \subseteq sweep[h],
           ReaperTypeOK'
    PROVE  IInv'
<1>0. /\ task \in [Tasks -> Row] /\ fires \subseteq Fire
      /\ inflight \subseteq Batch /\ sweep \in [Hosts -> SUBSET Expired]
      /\ task' \in [Tasks -> Row]
  BY DEF IInv, TypeOK, StoreTypeOK, ExecutorTypeOK, ReaperTypeOK
<1>1. TypeOK'
  BY <1>0, MaxFaultsAssumption DEF IInv, TypeOK, StoreTypeOK, ExecutorTypeOK, Fault
<1>2. \A u \in Tasks : /\ task[u].leaseEpoch \in Nat /\ task'[u].leaseEpoch \in Nat
                       /\ task[u].leaseEpoch <= task'[u].leaseEpoch
                       /\ task'[u].status = "running" => task'[u] = task[u]
  BY <1>0, Constants DEF Row
<1>3. EpochsReached'
  <2>1. \A f \in fires : f.epoch <= task'[f.id].leaseEpoch
    BY <1>0, <1>2 DEF IInv, EpochsReached, Fire
  <2>2. \A b \in inflight : \A c \in b.claims : c.epoch <= task'[c.id].leaseEpoch
    BY <1>0, <1>2 DEF IInv, EpochsReached, Batch, Claim
  <2>3. \A k \in Hosts : \A r \in sweep'[k] : r.epoch <= task'[r.id].leaseEpoch
    BY <1>0, <1>2 DEF IInv, EpochsReached, Expired
  <2>4. QED
    BY <2>1, <2>2, <2>3 DEF EpochsReached
<1>4. SingleOwner' /\ TrackedIsArmed'
  BY DEF IInv, SingleOwner, SameLease, TrackedIsArmed
<1>5. MemoriesAgree'
  <2>1. ASSUME NEW f \in fires' PROVE FireAgrees(f)' /\ (f.mark # "undefined" => Ran(f))
    <3>1. f \in fires /\ f.id \in Tasks
      BY <1>0 DEF Fire
    <3>2. QED
      BY <1>2, <3>1 DEF IInv, MemoriesAgree, FireAgrees, Owns
  <2>2. ASSUME NEW b \in inflight', NEW c \in b.claims PROVE ClaimAgrees(b.host, c)'
    <3>1. b \in inflight /\ c.id \in Tasks
      BY <1>0 DEF Batch, Claim
    <3>2. QED
      BY <1>2, <3>1 DEF IInv, MemoriesAgree, ClaimAgrees, Owns
  <2>3. ASSUME NEW k \in Hosts, NEW r \in sweep'[k] PROVE SweepAgrees(r)'
    <3>1. r \in sweep[k] /\ r.id \in Tasks
      BY <1>0 DEF Expired
    <3>2. QED
      BY <1>2, <3>1 DEF IInv, MemoriesAgree, SweepAgrees
  <2>4. QED
    BY <2>1, <2>2, <2>3 DEF MemoriesAgree
<1>6. \A u \in Tasks : RowConsistent(task'[u])
  BY <1>0 DEF IInv
<1>7. QED
  BY <1>1, <1>3, <1>4, <1>5, <1>6 DEF IInv

\* A sweep reads the rows as they are.
LEMMA SweepReadsInvariant ==
    ASSUME IInv, NEW h \in Hosts, SweepReads(h), UNCHANGED executorVars PROVE IInv'
<1>0. task \in [Tasks -> Row] /\ sweep \in [Hosts -> SUBSET Expired]
  BY DEF IInv, TypeOK, StoreTypeOK, ReaperTypeOK
<1>1. UNCHANGED <<task, inflight, fires, claimedTaskById, stopping, faults>>
  BY DEF SweepReads, executorVars
<1>2. PICK S \in findExpiredLeases : sweep' = [sweep EXCEPT ![h] = S]
  BY DEF SweepReads
<1>3. ASSUME NEW r \in S
      PROVE  /\ r \in Expired /\ r.epoch = task[r.id].leaseEpoch
             /\ r.attempts = task[r.id].attempts
  <2>1. PICK t \in Tasks : r = ExpiredRow(t)
    BY DEF findExpiredLeases
  <2>2. task[t] \in Row
    BY <1>0
  <2>3. QED
    BY <2>1, <2>2 DEF ExpiredRow, Expired, Row
<1>4. TypeOK'
  BY <1>0, <1>1, <1>2, <1>3 DEF IInv, TypeOK, StoreTypeOK, ExecutorTypeOK, ReaperTypeOK
<1>5. \A k \in Hosts : \A r \in sweep'[k] :
        \/ r \in sweep[k]
        \/ r \in S
  BY <1>0, <1>2
<1>6. \A r \in S : r.epoch <= task[r.id].leaseEpoch
  <2>1. \A t \in Tasks : task[t].leaseEpoch \in Nat
    BY <1>0, Constants DEF Row
  <2>2. QED
    BY <1>3, <2>1 DEF Expired
<1>7. EpochsReached'
  BY <1>1, <1>5, <1>6 DEF IInv, EpochsReached
<1>8. MemoriesAgree'
  BY <1>1, <1>3, <1>5 DEF IInv, MemoriesAgree, FireAgrees, ClaimAgrees, SweepAgrees, Owns
<1>9. SingleOwner' /\ TrackedIsArmed' /\ \A t \in Tasks : RowConsistent(task'[t])
  BY <1>1 DEF IInv, SingleOwner, SameLease, TrackedIsArmed
<1>10. QED
  BY <1>4, <1>7, <1>8, <1>9 DEF IInv

\* What the sweep read is still so when its fence lets it write, so the failure
\* it records is the last attempt.
LEMMA SweepResolvesInvariant ==
    ASSUME IInv, NEW h \in Hosts, NEW r \in sweep[h], SweepResolves(h, r),
           UNCHANGED executorVars
    PROVE  IInv'
<1>. DEFINE row == task[r.id]
<1>0. /\ r \in Expired /\ r.id \in Tasks /\ row \in Row /\ RowConsistent(row)
      /\ sweep \in [Hosts -> SUBSET Expired]
  BY DEF IInv, TypeOK, StoreTypeOK, ReaperTypeOK, Expired
<1>1. UNCHANGED <<inflight, fires, claimedTaskById, stopping, faults>>
  BY DEF executorVars
<1>2. ReaperTypeOK' /\ \A k \in Hosts : sweep'[k] \subseteq sweep[k]
  BY <1>0 DEF SweepResolves, ReaperTypeOK
<1>3. CASE task' = task
  <2>1. UNCHANGED <<task, inflight, fires, claimedTaskById, stopping, faults>>
    BY <1>1, <1>3
  <2>2. ExecutorTypeOK' /\ SingleOwner' /\ TrackedIsArmed'
    BY <2>1 DEF IInv, TypeOK, ExecutorTypeOK, SingleOwner, SameLease, TrackedIsArmed
  <2>3. QED
    BY <1>2, <2>1, <2>2, TableUntouched
<1>4. CASE task' # task
  <2>1. row.status = "running" /\ row.leaseEpoch = r.epoch
    BY <1>4 DEF SweepResolves, Resolve, completeExpired, deadLetterExpired,
                reclaimExpired, runReaperUpdate, ReaperOwns, LeaseExpired
  <2>2. r.attempts = row.attempts
    BY <2>1 DEF IInv, MemoriesAgree, SweepAgrees
  <2>3. row.leaseEpoch \in 0..MaxEpoch /\ row.leaseEpoch \in Nat
    BY <1>0, Constants DEF Row
  <2>4. CASE task' = [task EXCEPT ![r.id] = [row EXCEPT !.status = "succeeded"]]
    <3>. DEFINE done == [row EXCEPT !.status = "succeeded"]
    <3>1. /\ done \in Row /\ RowConsistent(done) /\ done.status # "running"
          /\ done.leaseEpoch = row.leaseEpoch
      BY <1>0, <2>1, SettledRow
    <3>2. row.leaseEpoch <= done.leaseEpoch
      BY <2>3, <3>1
    <3>3. task' = [task EXCEPT ![r.id] = done]
      BY <2>4
    <3>. HIDE DEF done
    <3>4. QED
      BY <1>0, <1>1, <1>2, <3>1, <3>2, <3>3, ReaperWrites
  <2>5. CASE /\ r.attempts + 1 >= MaxAttempts /\ ~row.dispatchedAt
             /\ task' = [task EXCEPT ![r.id] =
                           [row EXCEPT !.status = "failed", !.attempts = @ + 1]]
    <3>. DEFINE dead == [row EXCEPT !.status = "failed", !.attempts = @ + 1]
    <3>1. /\ dead \in Row /\ RowConsistent(dead) /\ dead.status # "running"
          /\ dead.leaseEpoch = row.leaseEpoch
      BY <1>0, <2>1, <2>2, <2>5, SettledRow
    <3>2. row.leaseEpoch <= dead.leaseEpoch
      BY <2>3, <3>1
    <3>3. task' = [task EXCEPT ![r.id] = dead]
      BY <2>5
    <3>. HIDE DEF dead
    <3>4. QED
      BY <1>0, <1>1, <1>2, <3>1, <3>2, <3>3, ReaperWrites
  <2>6. CASE /\ r.attempts + 1 < MaxAttempts /\ r.epoch < MaxEpoch
             /\ task' = [task EXCEPT ![r.id] =
                           [Unclaimed(row) EXCEPT
                              !.attempts = @ + 1, !.leaseEpoch = @ + 1,
                              !.wait = backoff(r.attempts + 1)]]
    <3>. DEFINE w == backoff(r.attempts + 1)
                e == row.leaseEpoch + 1
    <3>1. r.attempts \in 0..MaxAttempts
      BY <1>0 DEF Expired
    <3>2. w \in 0..BackoffMax
      BY <2>6, <3>1, BackoffType
    <3>3. e \in 0..MaxEpoch /\ row.leaseEpoch <= e
      BY <2>1, <2>3, <2>6, Constants
    <3>4. Retried(row, e, w) = [Unclaimed(row) EXCEPT
                                  !.attempts = @ + 1, !.leaseEpoch = @ + 1,
                                  !.wait = backoff(r.attempts + 1)]
      <4>1. Unclaimed(row) \in Row /\ Unclaimed(row).leaseEpoch = row.leaseEpoch
        BY <1>0, UnclaimedRow
      <4>2. QED
        BY <4>1 DEF Row, Retried
    <3>. HIDE DEF w, e
    <3>5. /\ Retried(row, e, w) \in Row /\ RowConsistent(Retried(row, e, w))
          /\ Retried(row, e, w).status = "pending"
          /\ Retried(row, e, w).leaseEpoch = e
      BY <1>0, <2>2, <2>6, <3>2, <3>3, RetriedRow
    <3>6. QED
      BY <1>0, <1>1, <1>2, <2>6, <3>3, <3>4, <3>5, ReaperWrites
  <2>7. QED
    BY <1>4, <2>1, <2>4, <2>5, <2>6
       DEF SweepResolves, Resolve, completeExpired, deadLetterExpired,
           reclaimExpired, runReaperUpdate, ReaperOwns
<1>5. QED
  BY <1>3, <1>4

LEMMA ReapInvariant ==
    ASSUME IInv, NEW h \in Hosts, Reap(h) PROVE IInv'
<1>1. CASE SweepReads(h) /\ UNCHANGED executorVars
  BY <1>1, SweepReadsInvariant
<1>2. CASE (\E r \in sweep[h] : SweepResolves(h, r)) /\ UNCHANGED executorVars
  BY <1>2, SweepResolvesInvariant
<1>3. CASE /\ (\E r \in sweep[h] : SweepSkips(h, r)) \/ SweepEnds(h)
           /\ Fault
           /\ UNCHANGED <<inflight, fires, claimedTaskById, stopping>>
  <2>1. UNCHANGED <<task, inflight, fires, claimedTaskById, stopping>>
    BY <1>3 DEF SweepSkips, SweepEnds
  <2>2. ReaperTypeOK' /\ \A k \in Hosts : sweep'[k] \subseteq sweep[k]
    BY <1>3 DEF IInv, TypeOK, ReaperTypeOK, SweepSkips, SweepEnds
  <2>3. ExecutorTypeOK' /\ SingleOwner' /\ TrackedIsArmed'
    BY <1>3, <2>1, MaxFaultsAssumption
       DEF IInv, TypeOK, ExecutorTypeOK, Fault, SingleOwner, SameLease, TrackedIsArmed
  <2>4. QED
    BY <2>1, <2>2, <2>3, TableUntouched
<1>4. QED
  BY <1>1, <1>2, <1>3 DEF Reap

-----------------------------------------------------------------------------
(* The clock.                                                              *)

LEMMA CountdownRow ==
    ASSUME NEW row \in Row
    PROVE  LET later == [row EXCEPT !.wait = Countdown(@), !.lease = Countdown(@)]
           IN  /\ later \in Row
               /\ later.status = row.status /\ later.attempts = row.attempts
               /\ later.claimedBy = row.claimedBy
               /\ later.leaseEpoch = row.leaseEpoch
               /\ later.startedAt = row.startedAt
               /\ later.dispatchedAt = row.dispatchedAt
               /\ later.lease = NoLease <=> row.lease = NoLease
<1>1. row.wait \in 0..BackoffMax /\ row.lease \in NoLease..LeaseTicks
  BY DEF Row
<1>2. /\ Countdown(row.wait) \in 0..BackoffMax
      /\ Countdown(row.lease) \in NoLease..LeaseTicks
      /\ Countdown(row.lease) = NoLease <=> row.lease = NoLease
  BY <1>1, BoundsAssumption DEF Countdown, NoLease
<1>3. QED
  BY <1>2 DEF Row

LEMMA TickInvariant == IInv /\ Tick => IInv'
<1>. SUFFICES ASSUME IInv, Tick PROVE IInv'
  OBVIOUS
<1>0. /\ task \in [Tasks -> Row] /\ fires \subseteq Fire
      /\ inflight \subseteq Batch /\ sweep \in [Hosts -> SUBSET Expired]
  BY DEF IInv, TypeOK, StoreTypeOK, ExecutorTypeOK, ReaperTypeOK
<1>1. UNCHANGED <<inflight, fires, claimedTaskById, stopping, faults, sweep>>
  BY DEF Tick, executorVars
<1>2. \A t \in Tasks :
        /\ task'[t] \in Row
        /\ task'[t].status = task[t].status /\ task'[t].attempts = task[t].attempts
        /\ task'[t].claimedBy = task[t].claimedBy
        /\ task'[t].leaseEpoch = task[t].leaseEpoch
        /\ task'[t].startedAt = task[t].startedAt
        /\ task'[t].dispatchedAt = task[t].dispatchedAt
        /\ task'[t].lease = NoLease <=> task[t].lease = NoLease
  BY <1>0, CountdownRow DEF Tick, ClockAdvances
<1>3. TypeOK'
  <2>1. task' \in [Tasks -> Row]
    BY <1>2 DEF Tick, ClockAdvances
  <2>2. QED
    BY <1>1, <2>1 DEF IInv, TypeOK, StoreTypeOK, ExecutorTypeOK, ReaperTypeOK
<1>4. SingleOwner' /\ TrackedIsArmed'
  BY <1>1 DEF IInv, SingleOwner, SameLease, TrackedIsArmed
<1>5. EpochsReached' /\ MemoriesAgree'
  <2>1. \A f \in fires : f.id \in Tasks
    BY <1>0 DEF Fire
  <2>2. \A b \in inflight : \A c \in b.claims : c.id \in Tasks
    BY <1>0 DEF Batch, Claim
  <2>3. \A h \in Hosts : \A r \in sweep[h] : r.id \in Tasks
    BY <1>0 DEF Expired
  <2>4. EpochsReached'
    BY <1>1, <1>2, <2>1, <2>2, <2>3 DEF IInv, EpochsReached
  <2>5. MemoriesAgree'
    BY <1>1, <1>2, <2>1, <2>2, <2>3
       DEF IInv, MemoriesAgree, FireAgrees, ClaimAgrees, SweepAgrees, Owns
  <2>6. QED
    BY <2>4, <2>5
<1>6. \A t \in Tasks : RowConsistent(task'[t])
  BY <1>2 DEF IInv, RowConsistent
<1>7. QED
  BY <1>3, <1>4, <1>5, <1>6 DEF IInv

-----------------------------------------------------------------------------
(* The theorems.                                                           *)

LEMMA StutterInvariant == IInv /\ UNCHANGED vars => IInv'
BY DEF IInv, vars, executorVars, TypeOK, StoreTypeOK, ExecutorTypeOK, ReaperTypeOK,
       SingleOwner, SameLease, EpochsReached, MemoriesAgree, FireAgrees, ClaimAgrees,
       SweepAgrees, Owns, TrackedIsArmed

LEMMA NextInvariant == IInv /\ [Next]_vars => IInv'
<1>. SUFFICES ASSUME IInv, [Next]_vars PROVE IInv'
  OBVIOUS
<1>1. CASE Execute
  <2>1. UNCHANGED sweep
    BY <1>1 DEF Execute
  <2>2. CASE \E h \in Hosts : ClaimTick(h)
    BY <2>1, <2>2, ClaimTickInvariant
  <2>3. CASE \E h \in Hosts : Stop(h)
    BY <2>1, <2>3, StopInvariant
  <2>4. CASE \E b \in inflight : ScheduleClaimed(b)
    BY <2>1, <2>4, ScheduleClaimedInvariant
  <2>5. CASE \E b \in inflight : HandBackClaims(b)
    BY <2>1, <2>5, HandBackClaimsInvariant
  <2>6. CASE \E f \in fires : FireStep(f)
    BY <2>1, <2>6, FireStepInvariant
  <2>7. QED
    BY <1>1, <2>2, <2>3, <2>4, <2>5, <2>6 DEF Execute, ExecutorNext
<1>2. CASE \E h \in Hosts : Restart(h)
  BY <1>2, RestartInvariant
<1>3. CASE \E h \in Hosts : Reap(h)
  BY <1>3, ReapInvariant
<1>4. CASE Tick
  BY <1>4, TickInvariant
<1>5. CASE Settled \/ UNCHANGED vars
  BY <1>5, StutterInvariant DEF Settled
<1>6. QED
  BY <1>1, <1>2, <1>3, <1>4, <1>5 DEF Next

\* The inductive invariant: what each party that remembers a row may rely on.
THEOREM Invariance == Spec => []IInv
<1>1. QED
  BY InitInvariant, NextInvariant, PTL DEF Spec

\* Type correctness; attempts and epochs never leave their ranges.
THEOREM TypeCorrect == Spec => []TypeOK
<1>1. IInv => TypeOK
  BY DEF IInv
<1>2. QED
  BY <1>1, Invariance, PTL

\* One lease, one holder, however many mains race for the rows.
THEOREM LeaseHasOneHolder == Spec => []SingleOwner
<1>1. IInv => SingleOwner
  BY DEF IInv
<1>2. QED
  BY <1>1, Invariance, PTL

\* A handler starts at most once per lease.
THEOREM HandlerStartsOnce == Spec => []DispatchMutex
<1>1. IInv => DispatchMutex
  <2>1. SUFFICES ASSUME IInv, NEW f \in fires, Owns(f)
                 PROVE  /\ Ran(f) => task[f.id].startedAt
                        /\ f.pc \in {"scheduled", "firing", "releasing"} =>
                             ~task[f.id].startedAt
    BY DEF DispatchMutex
  <2>2. Ran(f) <=> task[f.id].startedAt
    BY <2>1 DEF IInv, MemoriesAgree, FireAgrees
  <2>3. QED
    BY <2>2 DEF Ran
<1>2. QED
  BY <1>1, Invariance, PTL

\* Failures are counted right by executors and reapers alike.
THEOREM BudgetIsKept == Spec => []RetryBudget
<1>1. IInv => RetryBudget
  <2>1. SUFFICES ASSUME IInv PROVE RetryBudget
    OBVIOUS
  <2>2. \A f \in fires : Owns(f) => f.attempts = task[f.id].attempts
    BY <2>1 DEF IInv, MemoriesAgree, FireAgrees
  <2>3. \A h \in Hosts : \A r \in sweep[h] :
          ReaperOwns(r, r.dispatched) => r.attempts = task[r.id].attempts
    BY <2>1 DEF IInv, MemoriesAgree, SweepAgrees, ReaperOwns, LeaseExpired
  <2>4. \A t \in Tasks : task[t].status = "failed" <=> task[t].attempts = MaxAttempts
    BY <2>1 DEF IInv, RowConsistent
  <2>5. QED
    BY <2>2, <2>3, <2>4 DEF RetryBudget
<1>2. QED
  BY <1>1, Invariance, PTL

\* Rows are handed over clean, and the running-lease constraint holds.
THEOREM HandoverIsClean == Spec => []CleanHandover
<1>1. IInv => CleanHandover
  BY DEF IInv, RowConsistent, CleanHandover
<1>2. QED
  BY <1>1, Invariance, PTL

\* What was marked dispatched is never recorded as failed.
THEOREM DispatchedIsNotFailed == Spec => []DispatchedNotFailed
<1>1. IInv => DispatchedNotFailed
  BY DEF IInv, RowConsistent, DispatchedNotFailed
<1>2. QED
  BY <1>1, Invariance, PTL

=============================================================================
