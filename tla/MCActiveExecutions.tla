-------------------------- MODULE MCActiveExecutions --------------------------
(* Instances of ActiveExecutions for TLC, and a claim of a comment.        *)
EXTENDS ActiveExecutions

\* The calls are alike.
Symmetry == Permutations(Calls)

\* start.ts, runEnqueuedExecutions: an execution that had been enqueued at the
\* time of a shutdown "either runs concurrently or is queued" at the next start.
EnqueuedRunsAtStartup == \A c \in reruns : step[c] # "refused"
=============================================================================
