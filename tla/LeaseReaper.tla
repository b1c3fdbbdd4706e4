----------------------------- MODULE LeaseReaper -----------------------------
(***************************************************************************)
(* The reaper of the durable scheduler, one per main.  A sweep reads the   *)
(* expired leases with a plain query and then resolves the rows one by     *)
(* one, each with a statement of its own: everything it decides on may     *)
(* have changed by the time it writes.                                     *)
(***************************************************************************)
EXTENDS ScheduledTaskStore

VARIABLE sweep     \* per main: the rows its sweep has read and not resolved

ReaperTypeOK == sweep \in [Hosts -> SUBSET Expired]

ReaperInit == sweep = [h \in Hosts |-> {}]

-----------------------------------------------------------------------------
SweepReads(h) ==
    /\ sweep[h] = {}
    /\ \E S \in findExpiredLeases :
         /\ S # {}
         /\ sweep' = [sweep EXCEPT ![h] = S]
    /\ UNCHANGED task

\* A bug to detect: dispatched rows are left to somebody else.
ResolveUndispatched(r) ==
    \/ ~r.dispatched /\ r.attempts + 1 >= MaxAttempts /\ deadLetterExpired(r)
    \/ ~r.dispatched /\ r.attempts + 1 < MaxAttempts
         /\ reclaimExpired(r, backoff(r.attempts + 1))
    \/ r.dispatched /\ UNCHANGED task

\* What the sweep does to a row it has read: the effect boundary first, then
\* the attempts.
Resolve(r) ==
    \/ r.dispatched /\ completeExpired(r)
    \/ ~r.dispatched /\ r.attempts + 1 >= MaxAttempts /\ deadLetterExpired(r)
    \/ ~r.dispatched /\ r.attempts + 1 < MaxAttempts
         /\ reclaimExpired(r, backoff(r.attempts + 1))

SweepResolves(h, r) ==
    /\ r \in sweep[h]
    /\ Resolve(r)
    /\ sweep' = [sweep EXCEPT ![h] = @ \ {r}]

\* A row whose statement rejects is skipped and left for the next sweep.
SweepSkips(h, r) ==
    /\ r \in sweep[h]
    /\ sweep' = [sweep EXCEPT ![h] = @ \ {r}]
    /\ UNCHANGED task

\* The rest of the rows are left alone: the pass was aborted, by its timeout,
\* by a stop or by the end of the process.
SweepEnds(h) ==
    /\ sweep' = [sweep EXCEPT ![h] = {}]
    /\ UNCHANGED task

=============================================================================
