------------------------ MODULE OccurrenceLifecycle ------------------------
(***************************************************************************)
(* What the durable scheduler promises of one recorded occurrence, with no *)
(* mains, leases, epochs, clocks or stale writers: it is held and let go   *)
(* at no cost, a start is either brought to an end or paid for with a try, *)
(* a try is lost only while some are left, giving up means that the last   *)
(* try was not known to be dispatched, and an outcome is final.            *)
(***************************************************************************)
EXTENDS Naturals

CONSTANTS Tasks, MaxAttempts

VARIABLES
    stage,     \* where an occurrence is
    tries      \* the tries it has used up

occurrence == <<stage, tries>>

Stages == {"queued", "held", "started", "dispatched", "succeeded", "failed"}

LifecycleTypeOK ==
    /\ stage \in [Tasks -> Stages]
    /\ tries \in [Tasks -> 0..MaxAttempts]

Init ==
    /\ stage = [t \in Tasks |-> "queued"]
    /\ tries = [t \in Tasks |-> 0]

MoveTo(t, s) == stage' = [stage EXCEPT ![t] = s]
CountTry(t) == tries' = [tries EXCEPT ![t] = @ + 1]

\* One claim may hold several occurrences.
Hold ==
    /\ \E S \in SUBSET Tasks :
         /\ \A t \in S : stage[t] = "queued"
         /\ stage' = [t \in Tasks |-> IF t \in S THEN "held" ELSE stage[t]]
    /\ UNCHANGED tries

LetGo(t) == stage[t] = "held" /\ MoveTo(t, "queued") /\ UNCHANGED tries

Start(t) == stage[t] = "held" /\ MoveTo(t, "started") /\ UNCHANGED tries

Dispatch(t) == stage[t] = "started" /\ MoveTo(t, "dispatched") /\ UNCHANGED tries

\* Lost with its holder, or failed: another try.  A dispatched occurrence is
\* tried again only because its own handler threw.
TryAgain(t) ==
    /\ stage[t] \in {"held", "started", "dispatched"}
    /\ tries[t] + 1 < MaxAttempts
    /\ MoveTo(t, "queued")
    /\ CountTry(t)

GiveUp(t) ==
    /\ stage[t] \in {"held", "started"}
    /\ tries[t] + 1 = MaxAttempts
    /\ MoveTo(t, "failed")
    /\ CountTry(t)

Succeed(t) ==
    /\ stage[t] \in {"started", "dispatched"}
    /\ MoveTo(t, "succeeded")
    /\ UNCHANGED tries

Next ==
    \/ Hold
    \/ \E t \in Tasks : \/ LetGo(t) \/ Start(t) \/ Dispatch(t)
                        \/ TryAgain(t) \/ GiveUp(t) \/ Succeed(t)

Spec == Init /\ [][Next]_occurrence

=============================================================================
