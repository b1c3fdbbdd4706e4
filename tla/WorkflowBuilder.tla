--------------------------- MODULE WorkflowBuilder ---------------------------
(***************************************************************************)
(* A workflow of the workflow builder, edited in browser tabs and called   *)
(* through its webhook at the same time.                                   *)
(***************************************************************************)
EXTENDS WebhookEngine

vars == <<graphVars, runVars, faults>>

TypeOK == GraphTypeOK /\ EngineTypeOK

Init == GraphInit /\ EngineInit

Edit == EditingNext /\ UNCHANGED runVars

Call == EngineNext /\ UNCHANGED graphVars

Next == Edit \/ Call

Spec == Init /\ [][Next]_vars

\* Statements and code nodes come to an end (runJsScript has a timeout), so a
\* run that can take a step takes one.  Nobody has to edit or call.
Fairness ==
    \A r \in Runs : WF_vars(RunStep(r) /\ UNCHANGED <<faults, graphVars>>)

FairSpec == Spec /\ Fairness

-----------------------------------------------------------------------------
(* Runs over a graph that is not edited meanwhile: any that can be drawn.  *)

\* The node each node is entered from, if any.
Sources == [Nodes \ {WebhookNode} -> Nodes \cup {NoNode}]

EdgesOf(f) == {<<f[n], n>> : n \in {m \in DOMAIN f : f[m] # NoNode}}

DrawnInit ==
    /\ nodes = Nodes /\ hooked = TRUE /\ fresh = {}
    /\ edges \in {E \in {EdgesOf(f) : f \in Sources} : OneWay(E)}
    /\ draft = [t \in Tabs |-> Closed]
    /\ saving = [t \in Tabs |-> NoSave]
    /\ adding = {} /\ deleting = {} /\ faults = 0
    /\ EngineInit

DrawnSpec == DrawnInit /\ [][Call]_vars /\ Fairness

-----------------------------------------------------------------------------
(* Safety.                                                                 *)

\* A run recorded as COMPLETED leaves no row PENDING: whatever happened to a
\* node, its row was settled before the walk went on.
CompletedIsSettled ==
    \A r \in Runs : history[r] = "COMPLETED" =>
        \A i \in DOMAIN executions[r] : executions[r][i].status # "PENDING"

\* The caller is told what the executions page shows: a result only for a run
\* recorded as COMPLETED, an error for one recorded as FAILED or (if recording
\* that failed too) for one that met a fault.
AnswerMatchesRecord ==
    \A r \in Runs :
        /\ answer[r].status = "200" => history[r] = "COMPLETED"
        /\ answer[r].status = "500" /\ history[r] # "FAILED" => faults > 0

\* The node whose failure stops a run is the last one it executes.
StopEndsTheWalk ==
    \A r \in Runs : \A i \in DOMAIN executions[r] :
        /\ executions[r][i].status = "FAILED"
        /\ executions[r][i].node \in StopNodes
        => i = Len(executions[r])

\* The result is the latest output there is: nodes after the one it comes from
\* have all failed.
LastOutputAnswers ==
    \A r \in Runs :
        answer[r].status = "200" /\ ~RespondsItself(r) =>
            \A i \in DOMAIN executions[r] :
                i > answer[r].row /\ i > 1 => executions[r][i].status = "FAILED"

\* No run executes a node twice: what a tab lets a user draw has no way back to
\* a node that can be reached from the webhook, and neither deletions, nor
\* saves that break off, nor reading nodes and edges apart open one.
NoNodeTwice ==
    \A r \in Runs : \A i, j \in DOMAIN executions[r] :
        executions[r][i].node = executions[r][j].node => i = j

-----------------------------------------------------------------------------
(* Liveness.                                                               *)

\* Every request is answered, unless its process dies.
EventuallyAnswered ==
    \A r \in Runs : pc[r] # "idle" ~> pc[r] \in {"answered", "dead"}

=============================================================================
