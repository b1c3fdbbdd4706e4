---------------------------- MODULE WebhookEngine ----------------------------
(***************************************************************************)
(* The webhook engine of the workflow builder: the request that calls a    *)
(* webhook copies the graph of its workflow and walks the copy, node by    *)
(* node, inside the request.  Every statement is an action.  executionNodes*)
(* and executionEdges are the copy; executions, one row per node visited,  *)
(* and executionsHistory are the record the executions page shows.         *)
(***************************************************************************)
EXTENDS WorkflowGraph, Sequences

CONSTANTS
    Runs,        \* requests to the webhook
    NoNode,      \* undefined
    StopNodes,   \* the nodes whose onError setting is STOP
    BareNodes,   \* the response nodes whose parameters were never saved
    MaxRows      \* bound on the rows of a run, for model checking

ASSUME EngineAssumption ==
    /\ NoNode \notin Nodes
    /\ StopNodes \subseteq Nodes \ {WebhookNode}
    /\ BareNodes \subseteq ResponseNodes
    /\ MaxRows \in Nat \ {0}

VARIABLES
    pc,          \* per run: the statement it has come to
    respondType, \* of the webhook node, as found
    copy,        \* the graph as read, and which of its halves has been read
    next,        \* target of the first outgoing edge of each copied node
    currentNode,
    executions,  \* the run's rows: [node, status]
    currentExecution, \* the row a failure is recorded on
    history,     \* status of the executionsHistory row
    outputJson,  \* the row whose output was computed last, 0 for none
    lastWebhookResponseNode,
    answer       \* what the caller was told

runVars == <<pc, respondType, copy, next, currentNode, executions,
             currentExecution, history, outputJson, lastWebhookResponseNode, answer>>

(***************************************************************************)
(*   idle       the request has not come                                   *)
(*   accepted   the webhook was found                                      *)
(*   reading    nodes and edges are being read                             *)
(*   copied     the copy is complete                                       *)
(*   walking    about to move to the next node                             *)
(*   working    the current node is being processed                        *)
(*   recording  its output is being recorded                               *)
(*   caught     in the catch block of the loop                             *)
(*   stopping   onError is STOP: the run is being marked FAILED            *)
(*   closing    the loop is over                                           *)
(*   failing    in the catch block of the handler                          *)
(*   answered   the response was sent                                      *)
(*   dead       the process died                                           *)
(***************************************************************************)
RunSteps == {"idle", "accepted", "reading", "copied", "walking", "working", "recording",
             "caught", "stopping", "closing", "failing", "answered", "dead"}

RespondTypes == {"IMMEDIATELY", "LAST_NODE", "RESPONSE_WEBHOOK"}
ExecutionStatus == {"PENDING", "COMPLETED", "FAILED"}

Copy == [nodes : SUBSET Nodes, edges : SUBSET Edges, read : SUBSET {"nodes", "edges"}]

\* status: no answer yet, no such webhook (a call with another method ends the
\* same way and is left out), "Workflow Started", the result, an error.
Answer == [status : {"none", "400", "started", "200", "500"}, row : 0..MaxRows]

EngineTypeOK ==
    /\ pc \in [Runs -> RunSteps]
    /\ respondType \in [Runs -> RespondTypes]
    /\ copy \in [Runs -> Copy]
    /\ next \in [Runs -> [Nodes -> Nodes \cup {NoNode}]]
    /\ currentNode \in [Runs -> Nodes \cup {NoNode}]
    /\ \A r \in Runs :
         /\ Len(executions[r]) \in 0..MaxRows
         /\ \A i \in DOMAIN executions[r] :
              executions[r][i] \in [node : Nodes, status : ExecutionStatus]
    /\ currentExecution \in [Runs -> 0..MaxRows]
    /\ history \in [Runs -> ExecutionStatus \cup {"none"}]
    /\ outputJson \in [Runs -> 0..MaxRows]
    /\ lastWebhookResponseNode \in [Runs -> ResponseNodes \cup {NoNode}]
    /\ answer \in [Runs -> Answer]

\* A request finds the respondType that was saved last, which may be any.
EngineInit ==
    /\ pc = [r \in Runs |-> "idle"]
    /\ respondType \in [Runs -> RespondTypes]
    /\ copy = [r \in Runs |-> [nodes |-> {}, edges |-> {}, read |-> {}]]
    /\ next = [r \in Runs |-> [n \in Nodes |-> NoNode]]
    /\ currentNode = [r \in Runs |-> NoNode]
    /\ executions = [r \in Runs |-> <<>>]
    /\ currentExecution = [r \in Runs |-> 0]
    /\ history = [r \in Runs |-> "none"]
    /\ outputJson = [r \in Runs |-> 0]
    /\ lastWebhookResponseNode = [r \in Runs |-> NoNode]
    /\ answer = [r \in Runs |-> [status |-> "none", row |-> 0]]

-----------------------------------------------------------------------------
GoesTo(r, step) == pc' = [pc EXCEPT ![r] = step]

Says(r, status, row) ==
    /\ GoesTo(r, "answered")
    /\ answer' = [answer EXCEPT ![r] = [status |-> status, row |-> row]]

Marks(r, status) == history' = [history EXCEPT ![r] = status]

NewRow(r, node, status) ==
    executions' = [executions EXCEPT ![r] = Append(@, [node |-> node, status |-> status])]

SetRow(r, status) ==
    executions' = [executions EXCEPT ![r][currentExecution[r]].status = status]

-----------------------------------------------------------------------------
(* From the request to the copy.                                           *)

FindWebhook(r) ==
    /\ pc[r] = "idle"
    /\ IF hooked THEN GoesTo(r, "accepted") /\ UNCHANGED answer
                 ELSE Says(r, "400", 0)
    /\ UNCHANGED <<respondType, copy, next, currentNode, executions, currentExecution,
                   history, outputJson, lastWebhookResponseNode>>

CreateHistory(r) ==
    /\ pc[r] = "accepted"
    /\ Marks(r, "PENDING")
    /\ GoesTo(r, "reading")
    /\ UNCHANGED <<respondType, copy, next, currentNode, executions, currentExecution,
                   outputJson, lastWebhookResponseNode, answer>>

\* Two queries at once: either may be served first.
ReadNodes(r) ==
    /\ pc[r] = "reading" /\ "nodes" \notin copy[r].read
    /\ copy' = [copy EXCEPT ![r].nodes = nodes, ![r].read = @ \cup {"nodes"}]
    /\ UNCHANGED <<pc, respondType, next, currentNode, executions, currentExecution,
                   history, outputJson, lastWebhookResponseNode, answer>>

ReadEdges(r) ==
    /\ pc[r] = "reading" /\ "edges" \notin copy[r].read
    /\ copy' = [copy EXCEPT ![r].edges = edges, ![r].read = @ \cup {"edges"}]
    /\ UNCHANGED <<pc, respondType, next, currentNode, executions, currentExecution,
                   history, outputJson, lastWebhookResponseNode, answer>>

Targets(r, n) == {e[2] : e \in {d \in copy[r].edges : d[1] = n}}

\* The order of the edges is the database's: any edge may be the first.
FirstEdges(r) ==
    {f \in [Nodes -> Nodes \cup {NoNode}] :
        \A n \in Nodes : IF Targets(r, n) = {} THEN f[n] = NoNode
                                               ELSE f[n] \in Targets(r, n)}

Whole(r) == copy[r].edges \subseteq copy[r].nodes \X copy[r].nodes

\* An edge with a node that was not read fails the request; a webhook node
\* that was not read does, too, in a statement of its own.
CopyGraph(r) ==
    /\ pc[r] = "reading" /\ copy[r].read = {"nodes", "edges"}
    /\ \/ /\ ~Whole(r)
          /\ GoesTo(r, "failing")
          /\ UNCHANGED <<next, history, answer>>
       \/ /\ Whole(r) /\ WebhookNode \notin copy[r].nodes
          /\ Marks(r, "FAILED")
          /\ Says(r, "500", 0)
          /\ UNCHANGED next
       \/ /\ Whole(r) /\ WebhookNode \in copy[r].nodes
          /\ \E f \in FirstEdges(r) : next' = [next EXCEPT ![r] = f]
          /\ GoesTo(r, "copied")
          /\ UNCHANGED <<history, answer>>
    /\ UNCHANGED <<respondType, copy, currentNode, executions, currentExecution,
                   outputJson, lastWebhookResponseNode>>

\* The webhook node's own row; IMMEDIATELY answers here and walks nothing.
RecordRequest(r) ==
    /\ pc[r] = "copied"
    /\ NewRow(r, WebhookNode, "COMPLETED")
    /\ currentExecution' = [currentExecution EXCEPT ![r] = 1]
    /\ currentNode' = [currentNode EXCEPT ![r] = WebhookNode]
    /\ IF respondType[r] = "IMMEDIATELY"
       THEN Says(r, "started", 0)
       ELSE GoesTo(r, "walking") /\ UNCHANGED answer
    /\ UNCHANGED <<respondType, copy, next, history, outputJson, lastWebhookResponseNode>>

-----------------------------------------------------------------------------
(* The walk.                                                               *)

\* A bug to detect: an edge is found by either of its ends.
SuccessorEitherWay(r) ==
    LET back == {n \in Nodes : next[r][n] = currentNode[r]}
        n    == next[r][currentNode[r]]
    IN  IF n = NoNode /\ back # {} THEN CHOOSE b \in back : TRUE ELSE n

Successor(r) == next[r][currentNode[r]]

\* getValidConnectedNodes keeps every node an edge of the walk can lead to, so
\* its filter never ends a walk.
Move(r) ==
    /\ pc[r] = "walking"
    /\ currentNode' = [currentNode EXCEPT ![r] = Successor(r)]
    /\ IF Successor(r) = NoNode
       THEN /\ GoesTo(r, "closing")
            /\ UNCHANGED <<executions, currentExecution>>
       ELSE /\ Len(executions[r]) < MaxRows
            /\ NewRow(r, Successor(r), "PENDING")
            /\ currentExecution' = [currentExecution EXCEPT ![r] = Len(executions[r]) + 1]
            /\ GoesTo(r, "working")
    /\ UNCHANGED <<respondType, copy, next, history, outputJson,
                   lastWebhookResponseNode, answer>>

\* The create rejects: currentExecution is the webhook's own row again.
MoveRejects(r) ==
    /\ pc[r] = "walking" /\ Successor(r) # NoNode
    /\ currentNode' = [currentNode EXCEPT ![r] = Successor(r)]
    /\ currentExecution' = [currentExecution EXCEPT ![r] = 1]
    /\ GoesTo(r, "caught")
    /\ UNCHANGED <<respondType, copy, next, executions, history, outputJson,
                   lastWebhookResponseNode, answer>>

\* A bug to detect: any node may be noted as the response node.
NoteAnyNode(r) ==
    lastWebhookResponseNode' = [lastWebhookResponseNode EXCEPT ![r] = currentNode[r]]

NoteResponseNode(r) ==
    lastWebhookResponseNode' =
        [lastWebhookResponseNode EXCEPT
            ![r] = IF currentNode[r] \in ResponseNodes THEN currentNode[r] ELSE @]

\* A bug to detect: the output of an earlier node is kept.
WorksSilently(r) ==
    /\ pc[r] = "working"
    /\ currentNode[r] \notin BareNodes
    /\ NoteResponseNode(r)
    /\ GoesTo(r, "recording")
    /\ UNCHANGED <<respondType, copy, next, currentNode, executions, currentExecution,
                   history, outputJson, answer>>

\* References are resolved and the code is run, or the response is parsed.
Works(r) ==
    /\ pc[r] = "working"
    /\ currentNode[r] \notin BareNodes
    /\ NoteResponseNode(r)
    /\ outputJson' = [outputJson EXCEPT ![r] = currentExecution[r]]
    /\ GoesTo(r, "recording")
    /\ UNCHANGED <<respondType, copy, next, currentNode, executions, currentExecution,
                   history, answer>>

Throws(r) ==
    /\ pc[r] = "working"
    /\ NoteResponseNode(r)
    /\ GoesTo(r, "caught")
    /\ UNCHANGED <<respondType, copy, next, currentNode, executions, currentExecution,
                   history, outputJson, answer>>

\* The code throws or times out, or there is no response value to parse.
Breaks(r) == currentNode[r] \in CodeNodes \cup BareNodes /\ Throws(r)

\* A bug to detect: the run goes on before its output is on record.
RecordOutputLater(r) ==
    /\ pc[r] = "recording"
    /\ GoesTo(r, "walking")
    /\ UNCHANGED <<respondType, copy, next, currentNode, executions, currentExecution,
                   history, outputJson, lastWebhookResponseNode, answer>>

RecordOutput(r) ==
    /\ pc[r] = "recording"
    /\ SetRow(r, "COMPLETED")
    /\ GoesTo(r, "walking")
    /\ UNCHANGED <<respondType, copy, next, currentNode, currentExecution,
                   history, outputJson, lastWebhookResponseNode, answer>>

\* A bug to detect: a failed node stops nothing.
StopsNever(r) == FALSE

Stops(r) == currentNode[r] \in StopNodes

\* The failure is recorded; without STOP the catch block moves on, and the
\* loop will move once more.
RecordFailure(r) ==
    /\ pc[r] = "caught"
    /\ SetRow(r, "FAILED")
    /\ IF Stops(r)
       THEN GoesTo(r, "stopping") /\ UNCHANGED currentNode
       ELSE /\ currentNode' = [currentNode EXCEPT ![r] = Successor(r)]
            /\ GoesTo(r, IF Successor(r) = NoNode THEN "closing" ELSE "walking")
    /\ UNCHANGED <<respondType, copy, next, currentExecution,
                   history, outputJson, lastWebhookResponseNode, answer>>

MarkStopped(r) ==
    /\ pc[r] = "stopping"
    /\ Marks(r, "FAILED")
    /\ currentNode' = [currentNode EXCEPT ![r] = NoNode]
    /\ GoesTo(r, "closing")
    /\ UNCHANGED <<respondType, copy, next, executions, currentExecution,
                   outputJson, lastWebhookResponseNode, answer>>

-----------------------------------------------------------------------------
(* The end of the run.                                                     *)

RespondsItself(r) ==
    respondType[r] = "RESPONSE_WEBHOOK" /\ lastWebhookResponseNode[r] # NoNode

\* A bug to detect: the answer does not wait for the record.
CloseUnrecorded(r) ==
    /\ pc[r] = "closing"
    /\ Says(r, "200", outputJson[r])
    /\ UNCHANGED <<respondType, copy, next, currentNode, executions, currentExecution,
                   history, outputJson, lastWebhookResponseNode>>

\* The run is marked COMPLETED and answered.  A response node without
\* parameters throws while the answer is built.
Close(r) ==
    /\ pc[r] = "closing"
    /\ Marks(r, "COMPLETED")
    /\ CASE RespondsItself(r) /\ lastWebhookResponseNode[r] \in BareNodes ->
              GoesTo(r, "failing") /\ UNCHANGED answer
         [] RespondsItself(r) /\ lastWebhookResponseNode[r] \notin BareNodes ->
              Says(r, "200", 0)
         [] OTHER -> Says(r, "200", outputJson[r])
    /\ UNCHANGED <<respondType, copy, next, currentNode, executions, currentExecution,
                   outputJson, lastWebhookResponseNode>>

\* The handler's catch block, with a history to mark or without.
Fail(r) ==
    /\ pc[r] = "failing"
    /\ history' = [history EXCEPT ![r] = IF @ = "none" THEN @ ELSE "FAILED"]
    /\ Says(r, "500", 0)
    /\ UNCHANGED <<respondType, copy, next, currentNode, executions, currentExecution,
                   outputJson, lastWebhookResponseNode>>

-----------------------------------------------------------------------------
(* Faults: a statement rejects without effect, or the process dies.        *)

\* In the body of the loop the inner catch block gets it, elsewhere the outer
\* one; in the outer one the framework answers.
Rejects(r) ==
    \/ MoveRejects(r)
    \/ Throws(r)     \* a reference could not be read
    \/ /\ \/ pc[r] = "recording" /\ GoesTo(r, "caught") /\ UNCHANGED answer
          \/ /\ pc[r] \in {"accepted", "reading", "copied", "caught", "stopping", "closing"}
             /\ GoesTo(r, "failing") /\ UNCHANGED answer
          \/ pc[r] \in {"idle", "failing"} /\ Says(r, "500", 0)
       /\ UNCHANGED <<respondType, copy, next, currentNode, executions, currentExecution,
                      history, outputJson, lastWebhookResponseNode>>

ProcessDies ==
    /\ \E r \in Runs : pc[r] \notin {"idle", "answered", "dead"}
    /\ pc' = [r \in Runs |-> IF pc[r] \in {"idle", "answered"} THEN pc[r] ELSE "dead"]
    /\ UNCHANGED <<respondType, copy, next, currentNode, executions, currentExecution,
                   history, outputJson, lastWebhookResponseNode, answer>>

-----------------------------------------------------------------------------
RunStep(r) ==
    \/ CreateHistory(r) \/ ReadNodes(r) \/ ReadEdges(r) \/ CopyGraph(r)
    \/ RecordRequest(r) \/ Move(r) \/ Works(r) \/ Breaks(r) \/ RecordOutput(r)
    \/ RecordFailure(r) \/ MarkStopped(r) \/ Close(r) \/ Fail(r)

EngineNext ==
    \/ \E r \in Runs : (FindWebhook(r) \/ RunStep(r)) /\ UNCHANGED faults
    \/ ((\E r \in Runs : Rejects(r)) \/ ProcessDies) /\ Fault

=============================================================================
