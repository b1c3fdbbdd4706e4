------------------------ MODULE ScheduleTriggerClaims ------------------------
(* What comments say of the deduplication of scheduled executions.         *)
EXTENDS ScheduleTriggerRuns

\* execution-persistence.ts, reclaimTombstone: the row it deletes is that of an
\* attempt that died before dispatching it, "an effect that never happened", in
\* every mode but the queue mode: no living delivery is still to start it.
ReclaimedIsAbandoned ==
    \A w \in handoff :
        w.at = "created" => execution[w.id] # NoRow /\ execution[w.id].by = w.epoch
=============================================================================
