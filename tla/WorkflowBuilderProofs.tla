------------------------ MODULE WorkflowBuilderProofs ------------------------
(***************************************************************************)
(* What holds of every run of a webhook, whatever graph it copies, whatever*)
(* its nodes do and whichever statement rejects; and, as long as the graph *)
(* it copies can be drawn, that no run executes a node twice.              *)
(***************************************************************************)
EXTENDS WorkflowBuilder, WorkflowGraphProofs

ExecutionRow == [node : Nodes, status : ExecutionStatus]
RowsOf(r) == 1 .. Len(executions[r])

\* EngineTypeOK, with the rows of a run as a sequence.
EngineTypes ==
    /\ pc \in [Runs -> RunSteps]
    /\ respondType \in [Runs -> RespondTypes]
    /\ copy \in [Runs -> Copy]
    /\ next \in [Runs -> [Nodes -> Nodes \cup {NoNode}]]
    /\ currentNode \in [Runs -> Nodes \cup {NoNode}]
    /\ executions \in [Runs -> Seq(ExecutionRow)]
    /\ \A r \in Runs : Len(executions[r]) \in 0..MaxRows
    /\ currentExecution \in [Runs -> 0..MaxRows]
    /\ history \in [Runs -> ExecutionStatus \cup {"none"}]
    /\ outputJson \in [Runs -> 0..MaxRows]
    /\ lastWebhookResponseNode \in [Runs -> ResponseNodes \cup {NoNode}]
    /\ answer \in [Runs -> Answer]

-----------------------------------------------------------------------------
(* The inductive invariant, run by run.                                    *)

\* The loop and its catch block, with the current node at hand.
InLoop == {"walking", "working", "recording", "caught"}
\* The statements after the webhook node's own row, up to the answer.
AfterRequest == InLoop \cup {"stopping", "closing"}

\* Where the rows and currentExecution stand at each statement.
Position(r) ==
    /\ pc[r] \in {"idle", "accepted", "reading", "copied"} => executions[r] = <<>>
    /\ \A i \in RowsOf(r) : i = 1 => executions[r][i].node = WebhookNode
    /\ pc[r] \in AfterRequest => currentExecution[r] \in RowsOf(r) /\ 1 \in RowsOf(r)
    /\ pc[r] \in InLoop => currentNode[r] \in Nodes
    /\ pc[r] \in {"working", "recording", "caught"} =>
         \/ /\ currentExecution[r] = Len(executions[r])
            /\ executions[r][currentExecution[r]].node = currentNode[r]
         \/ pc[r] = "caught" /\ currentExecution[r] = 1

\* What the record of the run says at each statement, and what the answer.
Recorded(r) ==
    /\ pc[r] \in {"idle", "accepted"} => history[r] = "none"
    /\ pc[r] \in {"reading", "copied"} \cup AfterRequest => history[r] # "none"
    /\ history[r] = "COMPLETED" => pc[r] \in {"answered", "failing", "dead"}
    /\ answer[r].status # "none" => pc[r] = "answered"
    /\ pc[r] = "failing" /\ history[r] = "none" => faults > 0
    /\ answer[r].status = "200" => history[r] = "COMPLETED"
    /\ answer[r].status = "500" /\ history[r] # "FAILED" => faults > 0

\* Only the row of the node at hand is pending.
Settled(r) ==
    \A i \in RowsOf(r) : executions[r][i].status = "PENDING" =>
        /\ pc[r] \in {"working", "recording", "caught"} => i = currentExecution[r]
        /\ pc[r] \notin {"walking", "stopping", "closing"}
        /\ history[r] # "COMPLETED"

\* After the row of a node whose failure stops the run there is no other.
Stopped(r) ==
    \A i \in RowsOf(r) :
        executions[r][i].status = "FAILED" /\ executions[r][i].node \in StopNodes =>
            i = Len(executions[r]) /\ pc[r] \notin InLoop

\* Later rows than the last output, the row at hand aside, have failed.
Latest(r) ==
    /\ pc[r] = "recording" => outputJson[r] = currentExecution[r]
    /\ pc[r] \in AfterRequest =>
         \A i \in RowsOf(r) : i > outputJson[r] /\ i > 1 =>
            \/ executions[r][i].status = "FAILED"
            \/ i = currentExecution[r] /\ pc[r] \in {"working", "caught"}
    /\ answer[r].status = "200" /\ ~RespondsItself(r) =>
         \A i \in RowsOf(r) :
            i > answer[r].row /\ i > 1 => executions[r][i].status = "FAILED"

RunInv(r) == Position(r) /\ Recorded(r) /\ Settled(r) /\ Stopped(r) /\ Latest(r)

EngineInv == EngineTypes /\ \A r \in Runs : RunInv(r)

\* Nothing leads to the webhook node, and no node is entered from two.
NextIsOneWay(r) ==
    \A m, n \in Nodes :
        /\ next[r][m] # WebhookNode
        /\ next[r][m] = next[r][n] /\ next[r][m] # NoNode => m = n

\* V: the nodes the run has passed through; each but the first was entered from
\* one of them, and none from the node at hand.
Behind(r, V) ==
    /\ WebhookNode \in V /\ currentNode[r] \in V
    /\ \A i \in RowsOf(r) : executions[r][i].node \in V
    /\ \A m \in V \ {WebhookNode} : \E p \in V : p # currentNode[r] /\ next[r][p] = m

Distinct(r) ==
    \A i, j \in RowsOf(r) : executions[r][i].node = executions[r][j].node => i = j

Route(r) ==
    /\ OneWay(copy[r].edges)
    /\ NextIsOneWay(r)
    /\ Distinct(r)
    /\ pc[r] \in InLoop => \E V \in SUBSET Nodes : Behind(r, V)

RouteInv == \A r \in Runs : Route(r)

-----------------------------------------------------------------------------
(* What the operators of the engine write.                                 *)

Same(q) ==
    /\ pc'[q] = pc[q] /\ respondType'[q] = respondType[q]
    /\ copy'[q] = copy[q] /\ next'[q] = next[q] /\ currentNode'[q] = currentNode[q]
    /\ executions'[q] = executions[q] /\ currentExecution'[q] = currentExecution[q]
    /\ history'[q] = history[q] /\ outputJson'[q] = outputJson[q]
    /\ lastWebhookResponseNode'[q] = lastWebhookResponseNode[q]
    /\ answer'[q] = answer[q]

\* The row a step adds is the last, the others stay.
LEMMA NewRowWrites ==
    ASSUME EngineTypes, NEW r \in Runs, NEW n \in Nodes, NEW s \in ExecutionStatus,
           NewRow(r, n, s)
    PROVE  /\ executions' \in [Runs -> Seq(ExecutionRow)]
           /\ Len(executions'[r]) = Len(executions[r]) + 1
           /\ executions'[r][Len(executions[r]) + 1] = [node |-> n, status |-> s]
           /\ \A i \in RowsOf(r) : executions'[r][i] = executions[r][i]
           /\ \A q \in Runs \ {r} : executions'[q] = executions[q]
<1>1. executions[r] \in Seq(ExecutionRow) /\ [node |-> n, status |-> s] \in ExecutionRow
  BY DEF EngineTypes, ExecutionRow
<1>2. Append(executions[r], [node |-> n, status |-> s]) \in Seq(ExecutionRow)
  BY <1>1
<1>. QED
  BY <1>1, <1>2 DEF EngineTypes, NewRow, RowsOf

\* The row a step settles keeps its node, the others stay.
LEMMA SetRowWrites ==
    ASSUME EngineTypes, NEW r \in Runs, NEW s \in ExecutionStatus,
           currentExecution[r] \in RowsOf(r), SetRow(r, s)
    PROVE  /\ executions' \in [Runs -> Seq(ExecutionRow)]
           /\ Len(executions'[r]) = Len(executions[r])
           /\ \A i \in RowsOf(r) :
                /\ executions'[r][i].node = executions[r][i].node
                /\ executions'[r][i].status = IF i = currentExecution[r] THEN s
                                              ELSE executions[r][i].status
           /\ \A q \in Runs \ {r} : executions'[q] = executions[q]
<1>. DEFINE E == executions[r]
            c == currentExecution[r]
            row == [E[c] EXCEPT !.status = s]
            F == [E EXCEPT ![c] = row]
<1>1. E \in Seq(ExecutionRow) /\ c \in 1..Len(E)
  BY DEF EngineTypes, RowsOf
<1>2. E[c] \in ExecutionRow /\ row \in ExecutionRow
  <2>1. E[c] \in ExecutionRow
    BY <1>1
  <2>. HIDE DEF E, c
  <2>. QED
    BY <2>1 DEF ExecutionRow
<1>3. row.node = E[c].node /\ row.status = s
  BY <1>2 DEF ExecutionRow
<1>. HIDE DEF row
<1>4. F \in Seq(ExecutionRow) /\ Len(F) = Len(E)
  BY <1>1, <1>2
<1>5. \A i \in 1..Len(E) : F[i] = IF i = c THEN row ELSE E[i]
  BY <1>1
<1>6. executions' = [executions EXCEPT ![r] = F]
  BY DEF SetRow, row
<1>. HIDE DEF F, E, c
<1>7. executions'[r] = F /\ executions' \in [Runs -> Seq(ExecutionRow)]
  BY <1>4, <1>6 DEF EngineTypes
<1>. QED
  BY <1>3, <1>4, <1>5, <1>6, <1>7 DEF RowsOf, E, c, EngineTypes

\* The three ways a run is closed.
LEMMA CloseCases ==
    ASSUME NEW r \in Runs, Close(r)
    PROVE  \/ RespondsItself(r) /\ GoesTo(r, "failing") /\ UNCHANGED answer
           \/ RespondsItself(r) /\ Says(r, "200", 0)
           \/ ~RespondsItself(r) /\ Says(r, "200", outputJson[r])
BY DEF Close

-----------------------------------------------------------------------------
(* A step of one run leaves the others as they are.                        *)

\* No statement of a run writes to another.
LEMMA OthersSame ==
    ASSUME EngineTypes, NEW r \in Runs, NEW q \in Runs \ {r},
           FindWebhook(r) \/ RunStep(r) \/ Rejects(r)
    PROVE  Same(q)
<1>. USE DEF Same, EngineTypes, GoesTo, Says, Marks
<1>1. CASE FindWebhook(r)
  BY <1>1 DEF FindWebhook
<1>2. CASE CreateHistory(r)
  BY <1>2 DEF CreateHistory
<1>3. CASE ReadNodes(r) \/ ReadEdges(r)
  BY <1>3 DEF ReadNodes, ReadEdges
<1>4. CASE CopyGraph(r)
  BY <1>4 DEF CopyGraph
<1>5. CASE RecordRequest(r)
  BY <1>5 DEF RecordRequest, NewRow
<1>6. CASE Move(r)
  BY <1>6 DEF Move, NewRow
<1>7. CASE Works(r)
  BY <1>7 DEF Works, NoteResponseNode
<1>8. CASE Throws(r)
  BY <1>8 DEF Throws, NoteResponseNode
<1>9. CASE RecordOutput(r)
  BY <1>9 DEF RecordOutput, SetRow
<1>10. CASE RecordFailure(r)
  BY <1>10 DEF RecordFailure, SetRow
<1>11. CASE MarkStopped(r)
  BY <1>11 DEF MarkStopped
<1>12. CASE Close(r)
  BY <1>12, CloseCases DEF Close
<1>13. CASE Fail(r)
  BY <1>13 DEF Fail
<1>14. CASE MoveRejects(r)
  BY <1>14 DEF MoveRejects
<1>15. CASE Rejects(r)
  BY <1>8, <1>14, <1>15 DEF Rejects
<1>. QED
  BY <1>1, <1>2, <1>3, <1>4, <1>5, <1>6, <1>7, <1>8, <1>9, <1>10, <1>11, <1>12, <1>13,
     <1>15 DEF RunStep, Breaks

\* What holds of a run still holds when another one moves.
LEMMA RunInvSame ==
    ASSUME NEW q \in Runs, RunInv(q), Same(q), faults \in Nat, faults' \in Nat,
           faults' >= faults
    PROVE  RunInv(q)'
<1>1. Position(q)'
  BY DEF RunInv, Position, Same, RowsOf
<1>2. Recorded(q)'
  BY DEF RunInv, Recorded, Same
<1>3. Settled(q)'
  BY DEF RunInv, Settled, Same, RowsOf
<1>4. Stopped(q)'
  BY DEF RunInv, Stopped, Same, RowsOf
<1>5. Latest(q)'
  BY DEF RunInv, Latest, Same, RowsOf, RespondsItself
<1>. QED
  BY <1>1, <1>2, <1>3, <1>4, <1>5 DEF RunInv

-----------------------------------------------------------------------------
(* A step of a run keeps its types and the invariant of the run.           *)

Keeps(r) == EngineTypes' /\ RunInv(r)'

\* EngineTypes says as much as EngineTypeOK.
LEMMA EngineTypesHold == EngineTypes => EngineTypeOK
<1>. SUFFICES ASSUME EngineTypes PROVE EngineTypeOK
  OBVIOUS
<1>1. ASSUME NEW r \in Runs, NEW i \in DOMAIN executions[r]
      PROVE  executions[r][i] \in ExecutionRow
  <2>1. executions[r] \in Seq(ExecutionRow)
    BY DEF EngineTypes
  <2>. QED
    BY <2>1
<1>. QED
  BY <1>1 DEF EngineTypes, EngineTypeOK, ExecutionRow

\* Whatever a step says, it says in the vocabulary of the types.
LEMMA GoesToType ==
    ASSUME EngineTypes, NEW r \in Runs, NEW step \in RunSteps, GoesTo(r, step)
    PROVE  pc' \in [Runs -> RunSteps]
BY DEF GoesTo, EngineTypes

LEMMA MarksType ==
    ASSUME EngineTypes, NEW r \in Runs, NEW status \in ExecutionStatus, Marks(r, status)
    PROVE  history' \in [Runs -> ExecutionStatus \cup {"none"}]
BY DEF Marks, EngineTypes

LEMMA SaysType ==
    ASSUME EngineTypes, NEW r \in Runs,
           NEW status \in {"400", "started", "200", "500"}, NEW row \in 0..MaxRows,
           Says(r, status, row)
    PROVE  pc' \in [Runs -> RunSteps] /\ answer' \in [Runs -> Answer]
<1>1. pc' \in [Runs -> RunSteps]
  BY DEF Says, RunSteps, GoesTo, EngineTypes
<1>2. [status |-> status, row |-> row] \in Answer
  BY DEF Answer
<1>. QED
  BY <1>1, <1>2 DEF Says, EngineTypes

\* The types and the invariant at one run, to start from.
LEMMA At ==
    ASSUME EngineInv, NEW r \in Runs
    PROVE  /\ EngineTypes
           /\ Position(r) /\ Recorded(r) /\ Settled(r) /\ Stopped(r) /\ Latest(r)
BY DEF EngineInv, RunInv

\* Before the walk: nothing is recorded but the history.
LEMMA EarlyKeeps ==
    ASSUME EngineInv, GraphTypeOK, NEW r \in Runs, faults \in Nat,
           faults' = faults,
           FindWebhook(r) \/ CreateHistory(r) \/ ReadNodes(r) \/ ReadEdges(r) \/ CopyGraph(r)
    PROVE  Keeps(r)
<1>0. /\ EngineTypes
      /\ Position(r) /\ Recorded(r) /\ Settled(r) /\ Stopped(r) /\ Latest(r)
  BY At
<1>1. CASE FindWebhook(r)
  <2>1. EngineTypes'
    <3>1. GoesTo(r, "accepted") => pc' \in [Runs -> RunSteps]
      BY <1>0, GoesToType DEF RunSteps
    <3>2. Says(r, "400", 0) => pc' \in [Runs -> RunSteps] /\ answer' \in [Runs -> Answer]
      BY <1>0, SaysType, EngineAssumption
    <3>. QED
      BY <1>0, <1>1, <3>1, <3>2 DEF FindWebhook, EngineTypes
  <2>2. /\ pc[r] = "idle" /\ executions'[r] = executions[r]
        /\ history'[r] = history[r]
        /\ \/ pc'[r] = "accepted" /\ answer'[r] = answer[r]
           \/ pc'[r] = "answered" /\ answer'[r].status = "400"
    BY <1>0, <1>1 DEF FindWebhook, GoesTo, Says, EngineTypes
  <2>3. Position(r)' /\ Recorded(r)'
    BY <1>0, <2>2 DEF Position, Recorded, RowsOf, AfterRequest, InLoop
  <2>4. Settled(r)' /\ Stopped(r)' /\ Latest(r)'
    BY <1>0, <2>2 DEF Position, Recorded, Settled, Stopped, Latest, RowsOf, AfterRequest, InLoop
  <2>. QED
    BY <2>1, <2>3, <2>4 DEF Keeps, RunInv
<1>2. CASE CreateHistory(r)
  <2>1. EngineTypes'
    <3>1. pc' \in [Runs -> RunSteps]
      BY <1>0, <1>2, GoesToType DEF CreateHistory, RunSteps
    <3>2. history' \in [Runs -> ExecutionStatus \cup {"none"}]
      BY <1>0, <1>2, MarksType DEF CreateHistory, ExecutionStatus
    <3>. QED
      BY <1>0, <1>2, <3>1, <3>2 DEF CreateHistory, EngineTypes
  <2>2. /\ pc[r] = "accepted" /\ executions'[r] = executions[r]
        /\ history'[r] = "PENDING" /\ pc'[r] = "reading" /\ answer'[r] = answer[r]
    BY <1>0, <1>2 DEF CreateHistory, GoesTo, Marks, EngineTypes
  <2>3. Position(r)' /\ Recorded(r)'
    BY <1>0, <2>2 DEF Position, Recorded, RowsOf, AfterRequest, InLoop
  <2>4. Settled(r)' /\ Stopped(r)' /\ Latest(r)'
    BY <1>0, <2>2 DEF Position, Recorded, Settled, Stopped, Latest, RowsOf, AfterRequest, InLoop
  <2>. QED
    BY <2>1, <2>3, <2>4 DEF Keeps, RunInv
<1>3. CASE ReadNodes(r) \/ ReadEdges(r)
  <2>1. copy' \in [Runs -> Copy]
    <3>1. nodes \in SUBSET Nodes /\ edges \in SUBSET Edges /\ copy \in [Runs -> Copy]
      BY <1>0 DEF GraphTypeOK, Edges, EngineTypes
    <3>. QED
      BY <1>3, <3>1 DEF ReadNodes, ReadEdges, Copy
  <2>2. EngineTypes'
    BY <1>0, <1>3, <2>1 DEF ReadNodes, ReadEdges, EngineTypes
  <2>3. UNCHANGED <<pc, respondType, next, currentNode, executions, currentExecution,
                  history, outputJson, lastWebhookResponseNode, answer>>
    BY <1>3 DEF ReadNodes, ReadEdges
  <2>4. Position(r)' /\ Recorded(r)'
    BY <1>0, <2>3 DEF Position, Recorded, RowsOf
  <2>5. Settled(r)' /\ Stopped(r)' /\ Latest(r)'
    BY <1>0, <2>3 DEF Settled, Stopped, Latest, RowsOf, RespondsItself
  <2>. QED
    BY <2>2, <2>4, <2>5 DEF Keeps, RunInv
<1>4. CASE CopyGraph(r)
  <2>1. next' \in [Runs -> [Nodes -> Nodes \cup {NoNode}]]
    BY <1>0, <1>4 DEF CopyGraph, FirstEdges, EngineTypes
  <2>2. EngineTypes'
    <3>1. \A step \in {"failing", "copied"} :
            GoesTo(r, step) => pc' \in [Runs -> RunSteps]
      BY <1>0, GoesToType DEF RunSteps
    <3>2. Says(r, "500", 0) => pc' \in [Runs -> RunSteps] /\ answer' \in [Runs -> Answer]
      BY <1>0, SaysType, EngineAssumption
    <3>3. Marks(r, "FAILED") => history' \in [Runs -> ExecutionStatus \cup {"none"}]
      BY <1>0, MarksType DEF ExecutionStatus
    <3>4. pc' \in [Runs -> RunSteps]
      BY <1>4, <3>1, <3>2 DEF CopyGraph
    <3>5. answer' \in [Runs -> Answer] /\ history' \in [Runs -> ExecutionStatus \cup {"none"}]
      BY <1>0, <1>4, <3>2, <3>3 DEF CopyGraph, EngineTypes
    <3>. QED
      BY <1>0, <1>4, <2>1, <3>4, <3>5 DEF CopyGraph, EngineTypes
  <2>3. /\ pc[r] = "reading" /\ executions'[r] = executions[r]
        /\ \/ pc'[r] = "failing" /\ history'[r] = history[r] /\ answer'[r] = answer[r]
           \/ pc'[r] = "answered" /\ history'[r] = "FAILED" /\ answer'[r].status = "500"
           \/ pc'[r] = "copied" /\ history'[r] = history[r] /\ answer'[r] = answer[r]
    BY <1>0, <1>4 DEF CopyGraph, GoesTo, Says, Marks, EngineTypes
  <2>4. Position(r)' /\ Recorded(r)'
    BY <1>0, <2>3 DEF Position, Recorded, RowsOf, AfterRequest, InLoop
  <2>5. Settled(r)' /\ Stopped(r)' /\ Latest(r)'
    BY <1>0, <2>3 DEF Position, Recorded, Settled, Stopped, Latest, RowsOf, AfterRequest, InLoop
  <2>. QED
    BY <2>2, <2>4, <2>5 DEF Keeps, RunInv
<1>. QED
  BY <1>1, <1>2, <1>3, <1>4

\* The webhook node's own row is the first, and settled from the start.
LEMMA RecordRequestKeeps ==
    ASSUME EngineInv, NEW r \in Runs, faults \in Nat, faults' = faults, RecordRequest(r)
    PROVE  Keeps(r)
<1>0. /\ EngineTypes
      /\ Position(r) /\ Recorded(r) /\ Settled(r) /\ Stopped(r) /\ Latest(r)
  BY At
<1>1. WebhookNode \in Nodes /\ "COMPLETED" \in ExecutionStatus
  BY DEF Nodes, ExecutionStatus
<1>2. /\ pc[r] = "copied" /\ executions[r] = <<>> /\ Len(executions[r]) = 0
      /\ answer[r].status = "none" /\ history[r] \notin {"none", "COMPLETED"}
  BY <1>0 DEF RecordRequest, Position, Recorded
<1>3. /\ executions' \in [Runs -> Seq(ExecutionRow)]
      /\ Len(executions'[r]) = 1
      /\ executions'[r][1] = [node |-> WebhookNode, status |-> "COMPLETED"]
      /\ \A q \in Runs \ {r} : executions'[q] = executions[q]
  <2>1. NewRow(r, WebhookNode, "COMPLETED")
    BY DEF RecordRequest
  <2>2. /\ executions' \in [Runs -> Seq(ExecutionRow)]
        /\ Len(executions'[r]) = Len(executions[r]) + 1
        /\ executions'[r][Len(executions[r]) + 1]
              = [node |-> WebhookNode, status |-> "COMPLETED"]
        /\ \A q \in Runs \ {r} : executions'[q] = executions[q]
    BY <1>0, <1>1, <2>1, NewRowWrites
  <2>3. Len(executions[r]) + 1 = 1
    BY <1>2
  <2>. QED
    BY <2>2, <2>3
<1>4. EngineTypes'
  <2>1. \A q \in Runs : Len(executions'[q]) \in 0..MaxRows
    <3>1. \A q \in Runs : q = r \/ Len(executions'[q]) = Len(executions[q])
      BY <1>3
    <3>2. 1 \in 0..MaxRows
      BY EngineAssumption
    <3>3. \A q \in Runs : Len(executions[q]) \in 0..MaxRows
      BY <1>0 DEF EngineTypes
    <3>. QED
      BY <1>3, <3>1, <3>2, <3>3
  <2>2. /\ pc' \in [Runs -> RunSteps] /\ answer' \in [Runs -> Answer]
        /\ currentExecution' \in [Runs -> 0..MaxRows]
        /\ currentNode' \in [Runs -> Nodes \cup {NoNode}]
    <3>1. GoesTo(r, "walking") => pc' \in [Runs -> RunSteps]
      BY <1>0, GoesToType DEF RunSteps
    <3>2. Says(r, "started", 0) => pc' \in [Runs -> RunSteps] /\ answer' \in [Runs -> Answer]
      BY <1>0, SaysType, EngineAssumption
    <3>3. pc' \in [Runs -> RunSteps] /\ answer' \in [Runs -> Answer]
      BY <1>0, <3>1, <3>2 DEF RecordRequest, EngineTypes
    <3>4. 1 \in 0..MaxRows
      BY EngineAssumption
    <3>. QED
      BY <1>0, <1>1, <3>3, <3>4 DEF RecordRequest, EngineTypes
  <2>. QED
    BY <1>0, <1>3, <2>1, <2>2 DEF RecordRequest, EngineTypes
<1>5. /\ currentExecution'[r] = 1 /\ currentNode'[r] = WebhookNode
      /\ history'[r] = history[r] /\ outputJson'[r] = outputJson[r]
      /\ \/ pc'[r] = "answered" /\ answer'[r].status = "started"
         \/ pc'[r] = "walking" /\ answer'[r] = answer[r]
  BY <1>0 DEF RecordRequest, GoesTo, Says, EngineTypes
<1>6. RowsOf(r)' = {1}
  BY <1>3 DEF RowsOf
<1>7. Position(r)' /\ Recorded(r)'
  BY <1>0, <1>1, <1>2, <1>3, <1>5, <1>6 DEF Position, Recorded, AfterRequest, InLoop
<1>8. Settled(r)' /\ Stopped(r)' /\ Latest(r)'
  BY <1>0, <1>2, <1>3, <1>5, <1>6 DEF Settled, Stopped, Latest, AfterRequest, InLoop
<1>. QED
  BY <1>4, <1>7, <1>8 DEF Keeps, RunInv

\* Move adds the row of the next node, pending, or ends the walk.
LEMMA MoveKeeps ==
    ASSUME EngineInv, NEW r \in Runs, faults \in Nat, faults' = faults, Move(r)
    PROVE  Keeps(r)
<1>0. /\ EngineTypes
      /\ Position(r) /\ Recorded(r) /\ Settled(r) /\ Stopped(r) /\ Latest(r)
  BY At
<1>1. /\ pc[r] = "walking" /\ currentNode[r] \in Nodes
      /\ Successor(r) \in Nodes \cup {NoNode} /\ NoNode \notin Nodes
      /\ executions[r] \in Seq(ExecutionRow) /\ Len(executions[r]) \in 0..MaxRows
      /\ 1 \in RowsOf(r) /\ currentExecution[r] \in RowsOf(r)
  BY <1>0, EngineAssumption
  DEF Move, Position, InLoop, AfterRequest, Successor, EngineTypes
<1>2. /\ currentNode'[r] = Successor(r) /\ history'[r] = history[r]
      /\ outputJson'[r] = outputJson[r] /\ answer'[r] = answer[r]
      /\ lastWebhookResponseNode'[r] = lastWebhookResponseNode[r]
      /\ respondType'[r] = respondType[r]
      /\ currentNode' \in [Runs -> Nodes \cup {NoNode}]
  BY <1>0, <1>1 DEF Move, EngineTypes
<1>3. CASE Successor(r) = NoNode
  <2>1. /\ pc'[r] = "closing" /\ executions' = executions
        /\ currentExecution' = currentExecution
    BY <1>0, <1>3 DEF Move, GoesTo, EngineTypes
  <2>2. EngineTypes'
    <3>1. pc' \in [Runs -> RunSteps]
      BY <1>0, <1>3, GoesToType DEF Move, RunSteps
    <3>. QED
      BY <1>0, <1>2, <2>1, <3>1 DEF Move, EngineTypes
  <2>3. Position(r)' /\ Recorded(r)'
    BY <1>0, <1>1, <1>2, <2>1 DEF Position, Recorded, RowsOf, AfterRequest, InLoop
  <2>4. Settled(r)' /\ Stopped(r)'
    BY <1>0, <1>1, <1>2, <2>1 DEF Settled, Stopped, RowsOf, AfterRequest, InLoop
  <2>5. Latest(r)'
    BY <1>0, <1>1, <1>2, <2>1 DEF Latest, Recorded, RowsOf, AfterRequest, InLoop
  <2>. QED
    BY <2>2, <2>3, <2>4, <2>5 DEF Keeps, RunInv
<1>4. CASE Successor(r) # NoNode
  <2>. DEFINE n == Len(executions[r])
  <2>1. Successor(r) \in Nodes /\ "PENDING" \in ExecutionStatus
    BY <1>1, <1>4 DEF ExecutionStatus
  <2>2. /\ n < MaxRows /\ NewRow(r, Successor(r), "PENDING")
        /\ pc'[r] = "working" /\ currentExecution'[r] = n + 1
    BY <1>0, <1>4 DEF Move, GoesTo, EngineTypes
  <2>3. /\ executions' \in [Runs -> Seq(ExecutionRow)]
        /\ Len(executions'[r]) = n + 1
        /\ executions'[r][n + 1] = [node |-> Successor(r), status |-> "PENDING"]
        /\ \A i \in 1..n : executions'[r][i] = executions[r][i]
        /\ \A q \in Runs \ {r} : executions'[q] = executions[q]
    BY <1>0, <2>1, <2>2, NewRowWrites DEF RowsOf
  <2>4. n \in Nat /\ n + 1 \in 0..MaxRows /\ n >= 1
    BY <1>1, <2>2, EngineAssumption DEF RowsOf
  <2>5. EngineTypes'
    <3>1. pc' \in [Runs -> RunSteps]
      BY <1>0, <1>4, GoesToType DEF Move, RunSteps
    <3>2. currentExecution' \in [Runs -> 0..MaxRows]
      BY <1>0, <1>4, <2>4 DEF Move, EngineTypes
    <3>3. \A q \in Runs : q = r \/ Len(executions'[q]) = Len(executions[q])
      BY <2>3
    <3>4. \A q \in Runs : Len(executions[q]) \in 0..MaxRows
      BY <1>0 DEF EngineTypes
    <3>5. \A q \in Runs : Len(executions'[q]) \in 0..MaxRows
      BY <2>3, <2>4, <3>3, <3>4
    <3>. QED
      BY <1>0, <1>2, <2>3, <3>1, <3>2, <3>5 DEF Move, EngineTypes
  <2>. HIDE DEF n
  <2>6. \A i \in 1..(n + 1) : i \in 1..n \/ i = n + 1
    BY <2>4
  <2>7. RowsOf(r) = 1..n /\ RowsOf(r)' = 1..(n + 1)
    BY <2>3 DEF RowsOf, n
  <2>8. Position(r)' /\ Recorded(r)'
    <3>1. \A i \in RowsOf(r)' : i = 1 => executions'[r][i].node = WebhookNode
      BY <1>0, <2>3, <2>4, <2>7 DEF Position
    <3>2. executions'[r][n + 1].node = Successor(r) /\ n + 1 \in RowsOf(r)' /\ 1 \in RowsOf(r)'
      BY <2>3, <2>4, <2>7
    <3>3. Position(r)'
      BY <1>2, <2>1, <2>2, <2>3, <3>1, <3>2 DEF Position
    <3>4. Recorded(r)'
      BY <1>0, <1>1, <1>2, <2>2 DEF Recorded, AfterRequest, InLoop
    <3>. QED
      BY <3>3, <3>4
  <2>9. Settled(r)' /\ Stopped(r)'
    <3>1. history[r] # "COMPLETED"
      BY <1>0, <1>1 DEF Recorded
    <3>2. \A i \in 1..n : /\ executions'[r][i].status # "PENDING"
                          /\ executions'[r][i].status = "FAILED"
                               => executions'[r][i].node \notin StopNodes
      BY <1>0, <1>1, <2>3, <2>7 DEF Settled, Stopped, InLoop
    <3>3. executions'[r][n + 1].status = "PENDING"
      BY <2>3
    <3>4. Settled(r)'
      BY <1>2, <2>2, <2>6, <2>7, <3>1, <3>2, <3>3 DEF Settled
    <3>5. Stopped(r)'
      BY <2>6, <2>7, <3>2, <3>3 DEF Stopped
    <3>. QED
      BY <3>4, <3>5
  <2>10. Latest(r)'
    BY <1>0, <1>1, <1>2, <2>2, <2>3, <2>4, <2>6, <2>7
    DEF Latest, Recorded, AfterRequest, InLoop
  <2>. QED
    BY <2>5, <2>8, <2>9, <2>10 DEF Keeps, RunInv
<1>. QED
  BY <1>3, <1>4

\* A step of the node at hand: it works, or it is caught.
LEMMA WorkKeeps ==
    ASSUME EngineInv, NEW r \in Runs, faults \in Nat, faults' \in Nat, faults' >= faults,
           Works(r) \/ Throws(r) \/ MoveRejects(r)
    PROVE  Keeps(r)
<1>0. /\ EngineTypes
      /\ Position(r) /\ Recorded(r) /\ Settled(r) /\ Stopped(r) /\ Latest(r)
  BY At
<1>1. /\ currentNode[r] \in Nodes
      /\ executions[r] \in Seq(ExecutionRow) /\ Len(executions[r]) \in 0..MaxRows
      /\ 1 \in RowsOf(r) /\ currentExecution[r] \in RowsOf(r)
      /\ outputJson[r] \in 0..MaxRows /\ 1 \in 0..MaxRows
  BY <1>0, EngineAssumption
  DEF Works, Throws, MoveRejects, Position, InLoop, AfterRequest, EngineTypes
<1>2. /\ executions' = executions /\ history'[r] = history[r] /\ answer'[r] = answer[r]
      /\ RowsOf(r)' = RowsOf(r) /\ answer[r].status = "none"
  BY <1>0 DEF Works, Throws, MoveRejects, RowsOf, Recorded
<1>3. NoteResponseNode(r) => lastWebhookResponseNode' \in [Runs -> ResponseNodes \cup {NoNode}]
  BY <1>0 DEF NoteResponseNode, EngineTypes
<1>4. \A step \in {"caught", "recording"} : GoesTo(r, step) => pc' \in [Runs -> RunSteps]
  BY <1>0, GoesToType DEF RunSteps
<1>5. CASE Works(r)
  <2>1. /\ pc[r] = "working" /\ pc'[r] = "recording"
        /\ currentNode' = currentNode /\ currentExecution' = currentExecution
        /\ outputJson'[r] = currentExecution[r]
    BY <1>0, <1>5 DEF Works, GoesTo, EngineTypes
  <2>2. EngineTypes'
    <3>1. outputJson' \in [Runs -> 0..MaxRows]
      BY <1>0, <1>5 DEF Works, EngineTypes
    <3>. QED
      BY <1>0, <1>3, <1>4, <1>5, <3>1 DEF Works, EngineTypes
  <2>3. Position(r)' /\ Recorded(r)'
    BY <1>0, <1>1, <1>2, <2>1 DEF Position, Recorded, AfterRequest, InLoop
  <2>4. Settled(r)' /\ Stopped(r)'
    BY <1>0, <1>1, <1>2, <2>1 DEF Settled, Stopped, AfterRequest, InLoop
  <2>5. Latest(r)'
    <3>1. currentExecution[r] = Len(executions[r])
      BY <1>0, <2>1 DEF Position
    <3>2. \A i \in RowsOf(r) : ~(i > currentExecution[r])
      BY <1>1, <3>1 DEF RowsOf
    <3>. QED
      BY <1>2, <2>1, <3>2 DEF Latest
  <2>. QED
    BY <2>2, <2>3, <2>4, <2>5 DEF Keeps, RunInv
<1>6. CASE Throws(r)
  <2>1. /\ pc[r] = "working" /\ pc'[r] = "caught"
        /\ currentNode' = currentNode /\ currentExecution' = currentExecution
        /\ outputJson' = outputJson
    BY <1>0, <1>6 DEF Throws, GoesTo, EngineTypes
  <2>2. EngineTypes'
    BY <1>0, <1>3, <1>4, <1>6 DEF Throws, EngineTypes
  <2>3. Position(r)' /\ Recorded(r)'
    BY <1>0, <1>1, <1>2, <2>1 DEF Position, Recorded, AfterRequest, InLoop
  <2>4. Settled(r)' /\ Stopped(r)'
    BY <1>0, <1>1, <1>2, <2>1 DEF Settled, Stopped, AfterRequest, InLoop
  <2>5. Latest(r)'
    BY <1>0, <1>1, <1>2, <2>1 DEF Latest, AfterRequest, InLoop
  <2>. QED
    BY <2>2, <2>3, <2>4, <2>5 DEF Keeps, RunInv
<1>7. CASE MoveRejects(r)
  <2>1. /\ pc[r] = "walking" /\ pc'[r] = "caught"
        /\ currentNode'[r] = Successor(r) /\ Successor(r) \in Nodes
        /\ currentExecution'[r] = 1 /\ outputJson' = outputJson
    BY <1>0, <1>1, <1>7 DEF MoveRejects, GoesTo, EngineTypes, Successor
  <2>2. EngineTypes'
    <3>1. /\ currentNode' \in [Runs -> Nodes \cup {NoNode}]
          /\ currentExecution' \in [Runs -> 0..MaxRows]
      BY <1>0, <1>1, <1>7, <2>1 DEF MoveRejects, EngineTypes
    <3>. QED
      BY <1>0, <1>4, <1>7, <3>1 DEF MoveRejects, EngineTypes
  <2>3. Position(r)' /\ Recorded(r)'
    BY <1>0, <1>1, <1>2, <2>1 DEF Position, Recorded, AfterRequest, InLoop
  <2>4. Settled(r)' /\ Stopped(r)'
    BY <1>0, <1>1, <1>2, <2>1 DEF Settled, Stopped, AfterRequest, InLoop
  <2>5. Latest(r)'
    BY <1>0, <1>1, <1>2, <2>1 DEF Latest, AfterRequest, InLoop
  <2>. QED
    BY <2>2, <2>3, <2>4, <2>5 DEF Keeps, RunInv
<1>. QED
  BY <1>5, <1>6, <1>7

\* Recording the output, or the failure, settles the row at hand.
LEMMA RecordOutputKeeps ==
    ASSUME EngineInv, NEW r \in Runs, faults \in Nat, faults' = faults, RecordOutput(r)
    PROVE  Keeps(r)
<1>0. /\ EngineTypes
      /\ Position(r) /\ Recorded(r) /\ Settled(r) /\ Stopped(r) /\ Latest(r)
  BY At
<1>1. /\ pc[r] = "recording" /\ currentNode[r] \in Nodes
      /\ 1 \in RowsOf(r) /\ currentExecution[r] \in RowsOf(r)
      /\ currentExecution[r] = Len(executions[r])
      /\ outputJson[r] = currentExecution[r]
      /\ SetRow(r, "COMPLETED") /\ "COMPLETED" \in ExecutionStatus
  BY <1>0 DEF RecordOutput, Position, Latest, InLoop, AfterRequest, ExecutionStatus
<1>2. /\ executions' \in [Runs -> Seq(ExecutionRow)]
      /\ Len(executions'[r]) = Len(executions[r])
      /\ \A i \in RowsOf(r) :
           /\ executions'[r][i].node = executions[r][i].node
           /\ executions'[r][i].status = IF i = currentExecution[r] THEN "COMPLETED"
                                         ELSE executions[r][i].status
      /\ \A q \in Runs \ {r} : executions'[q] = executions[q]
  BY <1>0, <1>1, SetRowWrites
<1>3. /\ pc'[r] = "walking" /\ history'[r] = history[r] /\ answer'[r] = answer[r]
      /\ currentNode' = currentNode /\ currentExecution' = currentExecution
      /\ outputJson' = outputJson /\ RowsOf(r)' = RowsOf(r)
  BY <1>0, <1>2 DEF RecordOutput, GoesTo, EngineTypes, RowsOf
<1>4. EngineTypes'
  <2>1. pc' \in [Runs -> RunSteps]
    BY <1>0, GoesToType DEF RecordOutput, RunSteps
  <2>2. \A q \in Runs : q = r \/ Len(executions'[q]) = Len(executions[q])
    BY <1>2
  <2>. QED
    BY <1>0, <1>2, <2>1, <2>2 DEF RecordOutput, EngineTypes
<1>5. Position(r)' /\ Recorded(r)'
  BY <1>0, <1>1, <1>2, <1>3 DEF Position, Recorded, AfterRequest, InLoop
<1>6. Settled(r)' /\ Stopped(r)'
  BY <1>0, <1>1, <1>2, <1>3 DEF Settled, Stopped, AfterRequest, InLoop
<1>7. Latest(r)'
  <2>1. \A i \in RowsOf(r) : ~(i > outputJson[r])
    BY <1>1 DEF RowsOf
  <2>2. answer[r].status # "200"
    BY <1>0, <1>1 DEF Recorded
  <2>. QED
    BY <1>3, <2>1, <2>2 DEF Latest
<1>. QED
  BY <1>4, <1>5, <1>6, <1>7 DEF Keeps, RunInv

LEMMA RecordFailureKeeps ==
    ASSUME EngineInv, NEW r \in Runs, faults \in Nat, faults' = faults, RecordFailure(r)
    PROVE  Keeps(r)
<1>0. /\ EngineTypes
      /\ Position(r) /\ Recorded(r) /\ Settled(r) /\ Stopped(r) /\ Latest(r)
  BY At
<1>1. /\ pc[r] = "caught" /\ currentNode[r] \in Nodes
      /\ executions[r] \in Seq(ExecutionRow)
      /\ 1 \in RowsOf(r) /\ currentExecution[r] \in RowsOf(r)
      /\ SetRow(r, "FAILED") /\ "FAILED" \in ExecutionStatus
  BY <1>0
  DEF RecordFailure, Position, InLoop, AfterRequest, ExecutionStatus, EngineTypes
<1>2. /\ executions' \in [Runs -> Seq(ExecutionRow)]
      /\ Len(executions'[r]) = Len(executions[r])
      /\ \A i \in RowsOf(r) :
           /\ executions'[r][i].node = executions[r][i].node
           /\ executions'[r][i].status = IF i = currentExecution[r] THEN "FAILED"
                                         ELSE executions[r][i].status
      /\ \A q \in Runs \ {r} : executions'[q] = executions[q]
  BY <1>0, <1>1, SetRowWrites
<1>3. /\ history'[r] = history[r] /\ answer'[r] = answer[r]
      /\ currentExecution' = currentExecution
      /\ outputJson' = outputJson /\ RowsOf(r)' = RowsOf(r)
      /\ answer[r].status = "none" /\ history[r] \notin {"none", "COMPLETED"}
  BY <1>0, <1>1, <1>2 DEF RecordFailure, RowsOf, Recorded, AfterRequest, InLoop
<1>4. Successor(r) \in Nodes \cup {NoNode} /\ NoNode \notin Nodes
  BY <1>0, <1>1, EngineAssumption DEF Successor, EngineTypes
<1>5. \/ Stops(r) /\ pc'[r] = "stopping" /\ currentNode' = currentNode
      \/ ~Stops(r) /\ pc'[r] = "closing" /\ currentNode' \in [Runs -> Nodes \cup {NoNode}]
      \/ /\ ~Stops(r) /\ pc'[r] = "walking" /\ currentNode'[r] \in Nodes
         /\ currentNode' \in [Runs -> Nodes \cup {NoNode}]
  <2>1. pc \in [Runs -> RunSteps] /\ currentNode \in [Runs -> Nodes \cup {NoNode}]
    BY <1>0 DEF EngineTypes
  <2>2. CASE Stops(r)
    BY <2>1, <2>2 DEF RecordFailure, GoesTo
  <2>3. CASE ~Stops(r)
    <3>1. /\ currentNode' = [currentNode EXCEPT ![r] = Successor(r)]
          /\ GoesTo(r, IF Successor(r) = NoNode THEN "closing" ELSE "walking")
      BY <2>3 DEF RecordFailure
    <3>2. currentNode' \in [Runs -> Nodes \cup {NoNode}] /\ currentNode'[r] = Successor(r)
      BY <1>4, <2>1, <3>1
    <3>3. pc'[r] = IF Successor(r) = NoNode THEN "closing" ELSE "walking"
      BY <2>1, <3>1 DEF GoesTo
    <3>. QED
      BY <1>4, <2>3, <3>2, <3>3
  <2>. QED
    BY <2>2, <2>3
<1>6. EngineTypes'
  <2>1. \A step \in {"stopping", "closing", "walking"} :
          GoesTo(r, step) => pc' \in [Runs -> RunSteps]
    BY <1>0, GoesToType DEF RunSteps
  <2>2. pc' \in [Runs -> RunSteps]
    BY <2>1 DEF RecordFailure
  <2>3. \A q \in Runs : q = r \/ Len(executions'[q]) = Len(executions[q])
    BY <1>2
  <2>4. currentNode' \in [Runs -> Nodes \cup {NoNode}]
    BY <1>0, <1>5 DEF EngineTypes
  <2>. QED
    BY <1>0, <1>2, <2>2, <2>3, <2>4 DEF RecordFailure, EngineTypes
<1>7. Position(r)' /\ Recorded(r)'
  <2>1. Position(r)'
    BY <1>0, <1>1, <1>2, <1>3, <1>5 DEF Position, AfterRequest, InLoop
  <2>2. Recorded(r)'
    BY <1>0, <1>3, <1>5 DEF Recorded, AfterRequest, InLoop
  <2>. QED
    BY <2>1, <2>2
<1>8. Settled(r)'
  BY <1>0, <1>1, <1>2, <1>3 DEF Settled
<1>9. Stopped(r)'
  <2>1. ASSUME NEW i \in RowsOf(r), executions[r][i].status = "FAILED"
        PROVE  executions[r][i].node \notin StopNodes
    BY <1>0, <1>1, <2>1 DEF Stopped, InLoop
  <2>2. CASE currentExecution[r] = 1 /\ executions[r][1].node = WebhookNode
    <3>1. executions[r][currentExecution[r]].node \notin StopNodes
      BY <2>2, EngineAssumption
    <3>2. \A i \in RowsOf(r) : executions'[r][i].status = "FAILED"
             => executions'[r][i].node \notin StopNodes
      BY <1>2, <2>1, <3>1
    <3>. QED
      BY <1>3, <3>2 DEF Stopped
  <2>3. CASE /\ currentExecution[r] = Len(executions[r])
             /\ executions[r][currentExecution[r]].node = currentNode[r]
    <3>1. ASSUME NEW i \in RowsOf(r), executions'[r][i].status = "FAILED",
                 executions'[r][i].node \in StopNodes
          PROVE  i = Len(executions[r]) /\ Stops(r)
      BY <1>2, <2>1, <2>3, <3>1 DEF Stops
    <3>. QED
      BY <1>2, <1>3, <1>5, <3>1 DEF Stopped, InLoop
  <2>. QED
    BY <1>0, <1>1, <2>2, <2>3 DEF Position
<1>10. Latest(r)'
  BY <1>0, <1>1, <1>2, <1>3, <1>5 DEF Latest, AfterRequest, InLoop
<1>. QED
  BY <1>6, <1>7, <1>8, <1>9, <1>10 DEF Keeps, RunInv

\* A run that stops is marked FAILED, and closed all the same.
LEMMA MarkStoppedKeeps ==
    ASSUME EngineInv, NEW r \in Runs, faults \in Nat, faults' = faults, MarkStopped(r)
    PROVE  Keeps(r)
<1>0. /\ EngineTypes
      /\ Position(r) /\ Recorded(r) /\ Settled(r) /\ Stopped(r) /\ Latest(r)
  BY At
<1>1. /\ pc[r] = "stopping" /\ pc'[r] = "closing" /\ history'[r] = "FAILED"
      /\ executions' = executions /\ currentExecution' = currentExecution
      /\ outputJson' = outputJson /\ answer' = answer /\ RowsOf(r)' = RowsOf(r)
      /\ answer[r].status = "none"
  BY <1>0 DEF MarkStopped, GoesTo, Marks, EngineTypes, RowsOf, Recorded
<1>2. EngineTypes'
  <2>1. pc' \in [Runs -> RunSteps]
    BY <1>0, GoesToType DEF MarkStopped, RunSteps
  <2>2. history' \in [Runs -> ExecutionStatus \cup {"none"}]
    BY <1>0, MarksType DEF MarkStopped, ExecutionStatus
  <2>. QED
    BY <1>0, <2>1, <2>2 DEF MarkStopped, EngineTypes
<1>3. Position(r)' /\ Recorded(r)'
  BY <1>0, <1>1 DEF Position, Recorded, AfterRequest, InLoop
<1>4. Settled(r)' /\ Stopped(r)'
  BY <1>0, <1>1 DEF Settled, Stopped, InLoop
<1>5. Latest(r)'
  BY <1>0, <1>1 DEF Latest, AfterRequest, InLoop
<1>. QED
  BY <1>2, <1>3, <1>4, <1>5 DEF Keeps, RunInv

\* A run is closed with every row settled, and answered from its last output.
LEMMA CloseKeeps ==
    ASSUME EngineInv, NEW r \in Runs, faults \in Nat, faults' = faults, Close(r)
    PROVE  Keeps(r)
<1>0. /\ EngineTypes
      /\ Position(r) /\ Recorded(r) /\ Settled(r) /\ Stopped(r) /\ Latest(r)
  BY At
<1>1. /\ pc[r] = "closing" /\ history'[r] = "COMPLETED"
      /\ executions' = executions /\ RowsOf(r)' = RowsOf(r)
      /\ RespondsItself(r)' = RespondsItself(r) /\ answer[r].status = "none"
  BY <1>0 DEF Close, Marks, EngineTypes, RowsOf, Recorded, RespondsItself
<1>2. \/ RespondsItself(r) /\ pc'[r] = "failing" /\ answer' = answer
      \/ RespondsItself(r) /\ pc'[r] = "answered" /\ answer'[r] = [status |-> "200", row |-> 0]
      \/ /\ ~RespondsItself(r) /\ pc'[r] = "answered"
         /\ answer'[r] = [status |-> "200", row |-> outputJson[r]]
  BY <1>0, CloseCases DEF GoesTo, Says, EngineTypes
<1>3. EngineTypes'
  <2>1. GoesTo(r, "failing") => pc' \in [Runs -> RunSteps]
    BY <1>0, GoesToType DEF RunSteps
  <2>2. outputJson[r] \in 0..MaxRows /\ 0 \in 0..MaxRows
    BY <1>0, EngineAssumption DEF EngineTypes
  <2>3. \A row \in 0..MaxRows :
          Says(r, "200", row) => pc' \in [Runs -> RunSteps] /\ answer' \in [Runs -> Answer]
    BY <1>0, SaysType
  <2>4. pc' \in [Runs -> RunSteps] /\ answer' \in [Runs -> Answer]
    BY <1>0, <2>1, <2>2, <2>3, CloseCases DEF EngineTypes
  <2>5. history' \in [Runs -> ExecutionStatus \cup {"none"}]
    BY <1>0, MarksType DEF Close, ExecutionStatus
  <2>. QED
    BY <1>0, <2>4, <2>5 DEF Close, EngineTypes
<1>4. Position(r)' /\ Recorded(r)'
  BY <1>0, <1>1, <1>2 DEF Position, Recorded, AfterRequest, InLoop
<1>5. Settled(r)' /\ Stopped(r)'
  BY <1>0, <1>1, <1>2 DEF Settled, Stopped, InLoop
<1>6. Latest(r)'
  BY <1>0, <1>1, <1>2 DEF Latest, AfterRequest, InLoop
<1>. QED
  BY <1>3, <1>4, <1>5, <1>6 DEF Keeps, RunInv

\* The handler's catch block marks a run that has a record.
LEMMA FailKeeps ==
    ASSUME EngineInv, NEW r \in Runs, faults \in Nat, faults' = faults, Fail(r)
    PROVE  Keeps(r)
<1>0. /\ EngineTypes
      /\ Position(r) /\ Recorded(r) /\ Settled(r) /\ Stopped(r) /\ Latest(r)
  BY At
<1>1. /\ pc[r] = "failing" /\ pc'[r] = "answered" /\ executions' = executions
      /\ RowsOf(r)' = RowsOf(r)
      /\ answer'[r] = [status |-> "500", row |-> 0]
      /\ history'[r] = IF history[r] = "none" THEN "none" ELSE "FAILED"
  BY <1>0 DEF Fail, Says, GoesTo, EngineTypes, RowsOf
<1>2. EngineTypes'
  <2>1. pc' \in [Runs -> RunSteps] /\ answer' \in [Runs -> Answer]
    BY <1>0, SaysType, EngineAssumption DEF Fail
  <2>2. history' \in [Runs -> ExecutionStatus \cup {"none"}]
    BY <1>0 DEF Fail, EngineTypes, ExecutionStatus
  <2>. QED
    BY <1>0, <2>1, <2>2 DEF Fail, EngineTypes
<1>3. Position(r)' /\ Recorded(r)'
  BY <1>0, <1>1 DEF Position, Recorded, AfterRequest, InLoop
<1>4. Settled(r)' /\ Stopped(r)' /\ Latest(r)'
  BY <1>0, <1>1 DEF Settled, Stopped, Latest, AfterRequest, InLoop
<1>. QED
  BY <1>2, <1>3, <1>4 DEF Keeps, RunInv

\* A statement that rejects leaves the record as it is.
LEMMA RejectsKeeps ==
    ASSUME EngineInv, NEW r \in Runs, faults \in Nat, faults' = faults + 1, Rejects(r)
    PROVE  Keeps(r)
<1>0. /\ EngineTypes
      /\ Position(r) /\ Recorded(r) /\ Settled(r) /\ Stopped(r) /\ Latest(r)
  BY At
<1>1. CASE MoveRejects(r) \/ Throws(r)
  BY <1>1, WorkKeeps
<1>2. CASE ~(MoveRejects(r) \/ Throws(r))
  <2>1. UNCHANGED <<respondType, copy, next, currentNode, executions, currentExecution,
                    history, outputJson, lastWebhookResponseNode>>
    BY <1>2 DEF Rejects
  <2>2. \/ pc[r] = "recording" /\ GoesTo(r, "caught") /\ UNCHANGED answer
        \/ /\ pc[r] \in {"accepted", "reading", "copied", "caught", "stopping", "closing"}
           /\ GoesTo(r, "failing") /\ UNCHANGED answer
        \/ pc[r] \in {"idle", "failing"} /\ Says(r, "500", 0)
    BY <1>2 DEF Rejects
  <2>3. \/ pc[r] = "recording" /\ pc'[r] = "caught" /\ answer'[r] = answer[r]
        \/ /\ pc[r] \in {"accepted", "reading", "copied", "caught", "stopping", "closing"}
           /\ pc'[r] = "failing" /\ answer'[r] = answer[r]
        \/ /\ pc[r] \in {"idle", "failing"} /\ pc'[r] = "answered"
           /\ answer'[r] = [status |-> "500", row |-> 0]
    BY <1>0, <2>2 DEF GoesTo, Says, EngineTypes
  <2>4. EngineTypes'
    <3>1. \A step \in {"caught", "failing"} : GoesTo(r, step) => pc' \in [Runs -> RunSteps]
      BY <1>0, GoesToType DEF RunSteps
    <3>2. Says(r, "500", 0) => pc' \in [Runs -> RunSteps] /\ answer' \in [Runs -> Answer]
      BY <1>0, SaysType, EngineAssumption
    <3>3. pc' \in [Runs -> RunSteps] /\ answer' \in [Runs -> Answer]
      BY <1>0, <2>2, <3>1, <3>2 DEF EngineTypes
    <3>. QED
      BY <1>0, <2>1, <3>3 DEF EngineTypes
  <2>5. faults' > 0
    OBVIOUS
  <2>6. Position(r)' /\ Recorded(r)'
    BY <1>0, <2>1, <2>3, <2>5 DEF Position, Recorded, RowsOf, AfterRequest, InLoop
  <2>7. Settled(r)' /\ Stopped(r)'
    BY <1>0, <2>1, <2>3 DEF Settled, Stopped, RowsOf, InLoop
  <2>8. Latest(r)'
    BY <1>0, <2>1, <2>3 DEF Latest, Recorded, RowsOf, AfterRequest, InLoop, RespondsItself
  <2>. QED
    BY <2>4, <2>6, <2>7, <2>8 DEF Keeps, RunInv
<1>. QED
  BY <1>1, <1>2

\* A process that dies takes every run with it that is under way.
LEMMA ProcessDiesKeeps ==
    ASSUME EngineInv, faults \in Nat, faults' = faults + 1, ProcessDies
    PROVE  EngineInv'
<1>1. /\ \A q \in Runs : pc'[q] \in {pc[q], "dead"}
      /\ \A q \in Runs : pc'[q] = "dead" => pc[q] \notin {"idle", "answered"}
      /\ pc' \in [Runs -> RunSteps]
      /\ UNCHANGED <<respondType, copy, next, currentNode, executions, currentExecution,
                     history, outputJson, lastWebhookResponseNode, answer>>
  BY At DEF ProcessDies, EngineInv, EngineTypes, RunSteps
<1>2. EngineTypes'
  BY <1>1 DEF EngineInv, EngineTypes
<1>3. ASSUME NEW q \in Runs
      PROVE  RunInv(q)'
  <2>0. /\ Position(q) /\ Recorded(q) /\ Settled(q) /\ Stopped(q) /\ Latest(q)
        /\ pc'[q] = pc[q] \/ (pc'[q] = "dead" /\ pc[q] \notin {"idle", "answered"})
        /\ RowsOf(q)' = RowsOf(q) /\ RespondsItself(q)' = RespondsItself(q)
    BY <1>1, At DEF RowsOf, RespondsItself
  <2>1. Position(q)' /\ Recorded(q)'
    BY <1>1, <2>0 DEF Position, Recorded, AfterRequest, InLoop
  <2>2. Settled(q)' /\ Stopped(q)'
    BY <1>1, <2>0 DEF Settled, Stopped, InLoop
  <2>3. Latest(q)'
    BY <1>1, <2>0 DEF Latest, AfterRequest, InLoop
  <2>. QED
    BY <2>1, <2>2, <2>3 DEF RunInv
<1>. QED
  BY <1>2, <1>3 DEF EngineInv

-----------------------------------------------------------------------------
(* The invariant of every run.                                             *)

\* Editing counts its faults, too.
LEMMA FaultsGrow == EditingNext => UNCHANGED faults \/ Fault
<1>1. ASSUME NEW t \in Tabs, EditorStep(t)
      PROVE  UNCHANGED faults \/ Fault
  BY <1>1 DEF EditorStep, OpenReadsNodes, OpenReadsEdges, Connect, Disconnect,
     RemoveFromView, SaveStarts, SaveClears, SaveCreates, SaveEnds, SaveRejects,
     AddNode, UpdateNodeData, DeleteStarts
<1>2. ASSUME NEW a \in adding, AddNodeEnds(a) \/ AddWebhookRejects(a)
      PROVE  UNCHANGED faults \/ Fault
  BY <1>2 DEF AddNodeEnds, AddWebhookRejects
<1>3. ASSUME NEW d \in deleting,
             \/ DeleteUnlinks(d) \/ DeleteFinds(d) \/ DeleteUnhooks(d)
             \/ DeleteRemoves(d) \/ DeleteRejects(d)
      PROVE  UNCHANGED faults \/ Fault
  BY <1>3 DEF DeleteUnlinks, DeleteFinds, DeleteUnhooks, DeleteRemoves, DeleteRejects
<1>. QED
  BY <1>1, <1>2, <1>3 DEF EditingNext

\* No request has come.
LEMMA EngineInvInit == EngineInit => EngineInv
<1>. SUFFICES ASSUME EngineInit PROVE EngineInv
  OBVIOUS
<1>1. EngineTypes
  <2>1. copy \in [Runs -> Copy] /\ answer \in [Runs -> Answer] /\ pc \in [Runs -> RunSteps]
    BY EngineAssumption DEF EngineInit, Copy, Answer, RunSteps
  <2>2. executions \in [Runs -> Seq(ExecutionRow)] /\ \A r \in Runs : Len(executions[r]) = 0
    BY DEF EngineInit
  <2>3. 0 \in 0..MaxRows
    BY EngineAssumption
  <2>. QED
    BY <2>1, <2>2, <2>3 DEF EngineInit, EngineTypes
<1>2. ASSUME NEW r \in Runs
      PROVE  RunInv(r)
  <2>1. /\ pc[r] = "idle" /\ executions[r] = <<>> /\ RowsOf(r) = {}
        /\ history[r] = "none" /\ answer[r].status = "none"
    BY DEF EngineInit, RowsOf
  <2>. QED
    BY <2>1 DEF RunInv, Position, Recorded, Settled, Stopped, Latest, AfterRequest, InLoop
<1>. QED
  BY <1>1, <1>2 DEF EngineInv

\* Every step of every run, and every fault, keeps the invariant of all runs.
LEMMA EngineInvNext ==
    ASSUME GraphTypeOK, EngineInv, [Next]_vars
    PROVE  EngineInv'
<1>0. faults \in Nat
  BY GraphFaultsAssumption DEF GraphTypeOK
<1>1. CASE UNCHANGED runVars /\ (EditingNext \/ UNCHANGED faults)
  <2>1. faults' \in Nat /\ faults' >= faults
    BY <1>0, <1>1, FaultsGrow DEF Fault
  <2>2. \A q \in Runs : Same(q)
    BY <1>1 DEF runVars, Same
  <2>3. EngineTypes'
    BY <1>1 DEF runVars, EngineInv, EngineTypes
  <2>. QED
    BY <1>0, <2>1, <2>2, <2>3, RunInvSame DEF EngineInv
<1>2. ASSUME NEW r \in Runs, FindWebhook(r) \/ RunStep(r), UNCHANGED faults
      PROVE  EngineInv'
  <2>1. Keeps(r)
    BY <1>0, <1>2, EarlyKeeps, RecordRequestKeeps, MoveKeeps, WorkKeeps, RecordOutputKeeps,
       RecordFailureKeeps, MarkStoppedKeeps, CloseKeeps, FailKeeps DEF RunStep, Breaks
  <2>2. \A q \in Runs \ {r} : Same(q)
    BY <1>2, OthersSame DEF EngineInv
  <2>. QED
    BY <1>0, <1>2, <2>1, <2>2, RunInvSame DEF EngineInv, Keeps
<1>3. ASSUME NEW r \in Runs, Rejects(r), Fault
      PROVE  EngineInv'
  <2>1. Keeps(r)
    BY <1>0, <1>3, RejectsKeeps DEF Fault
  <2>2. \A q \in Runs \ {r} : Same(q)
    BY <1>3, OthersSame DEF EngineInv
  <2>. QED
    BY <1>0, <1>3, <2>1, <2>2, RunInvSame DEF EngineInv, Keeps, Fault
<1>4. CASE ProcessDies /\ Fault
  BY <1>0, <1>4, ProcessDiesKeeps DEF Fault
<1>. QED
  BY <1>1, <1>2, <1>3, <1>4 DEF Next, Edit, Call, EngineNext, vars

\* A graph that is drawn is a stored graph like any other.
LEMMA DrawnGraph == DrawnInit => GraphTypeOK /\ OneWay(edges) /\ EngineInit
<1>. SUFFICES ASSUME DrawnInit PROVE GraphTypeOK /\ OneWay(edges) /\ EngineInit
  OBVIOUS
<1>1. OneWay(edges) /\ EngineInit
  BY DEF DrawnInit
<1>2. edges \subseteq Nodes \X Nodes
  <2>1. PICK f \in Sources : edges = EdgesOf(f)
    BY DEF DrawnInit
  <2>. QED
    BY <2>1 DEF Sources, EdgesOf
<1>3. draft \in [Tabs -> Drawing] /\ saving \in [Tabs -> Save]
  BY DEF DrawnInit, Drawing, Save, NoSave, Closed
<1>. QED
  BY <1>1, <1>2, <1>3, GraphFaultsAssumption DEF DrawnInit, GraphTypeOK, Nodes

\* A step of the system is one of the editors or leaves the graph alone.
LEMMA NextEdits == [Next]_vars => [EditingNext]_EditorVars \/ UNCHANGED graphVars
BY DEF Next, Edit, Call, vars, EditorVars

\* Calls count their faults, and stay within them.
LEMMA CallType == ASSUME GraphTypeOK, Call PROVE GraphTypeOK'
<1>1. faults' \in 0..MaxFaults
  BY GraphFaultsAssumption DEF Call, EngineNext, Fault, GraphTypeOK
<1>. QED
  BY <1>1 DEF Call, GraphTypeOK, graphVars

BuilderInv == GraphTypeOK /\ EngineInv

LEMMA BuilderInvNext == BuilderInv /\ [Next]_vars => BuilderInv'
<1>1. ASSUME GraphTypeOK, [Next]_vars
      PROVE  GraphTypeOK'
  BY <1>1, CallType, GraphTypeNext DEF Next, Edit, vars, EditorVars
<1>. QED
  BY <1>1, EngineInvNext DEF BuilderInv

\* The invariant holds of a workflow that is edited while it is called, and of
\* one that is called only.
LEMMA BuilderInvariant == (Spec => []BuilderInv) /\ (DrawnSpec => []BuilderInv)
<1>1. Init => BuilderInv
  BY GraphTypeInit, EngineInvInit DEF Init, BuilderInv
<1>2. DrawnInit => BuilderInv
  BY DrawnGraph, EngineInvInit DEF BuilderInv
<1>3. [Call]_vars => [Next]_vars
  BY DEF Next
<1>. QED
  BY <1>1, <1>2, <1>3, BuilderInvNext, PTL DEF Spec, DrawnSpec

-----------------------------------------------------------------------------
(* What follows for the record and the answer of every run.                *)

\* TypeOK: every value a run computes has its type, whatever is edited, rejects
\* or dies meanwhile, and no run is ever at a row it does not have.
THEOREM BuilderTypeCorrect == (Spec => []TypeOK) /\ (DrawnSpec => []TypeOK)
<1>1. BuilderInv => TypeOK
  BY EngineTypesHold DEF BuilderInv, EngineInv, TypeOK
<1>. QED
  BY <1>1, BuilderInvariant, PTL

\* CompletedIsSettled: a run is recorded as COMPLETED only when the row of every
\* node it visited has been settled, including the rows of nodes that failed
\* and of those whose output could not be recorded.
THEOREM CompletedRunsAreSettled ==
    (Spec => []CompletedIsSettled) /\ (DrawnSpec => []CompletedIsSettled)
<1>1. BuilderInv => CompletedIsSettled
  <2>. SUFFICES ASSUME BuilderInv, NEW r \in Runs, history[r] = "COMPLETED",
                       NEW i \in DOMAIN executions[r]
                PROVE  executions[r][i].status # "PENDING"
    BY DEF CompletedIsSettled
  <2>1. executions[r] \in Seq(ExecutionRow) /\ Settled(r)
    BY At DEF BuilderInv, EngineTypes
  <2>2. i \in RowsOf(r)
    BY <2>1 DEF RowsOf
  <2>. QED
    BY <2>1, <2>2 DEF Settled
<1>. QED
  BY <1>1, BuilderInvariant, PTL

\* AnswerMatchesRecord: a caller gets a result only of a run recorded as
\* COMPLETED, and an error only of one recorded as FAILED or one in which a
\* statement of the route itself rejected.
THEOREM AnswersMatchTheRecord ==
    (Spec => []AnswerMatchesRecord) /\ (DrawnSpec => []AnswerMatchesRecord)
<1>1. BuilderInv => AnswerMatchesRecord
  BY At DEF BuilderInv, AnswerMatchesRecord, Recorded
<1>. QED
  BY <1>1, BuilderInvariant, PTL

\* StopEndsTheWalk: after a node whose onError is STOP has failed, the run
\* executes no other, though the loop is left by a break out of a catch block.
THEOREM StoppingEndsTheWalk ==
    (Spec => []StopEndsTheWalk) /\ (DrawnSpec => []StopEndsTheWalk)
<1>1. BuilderInv => StopEndsTheWalk
  <2>. SUFFICES ASSUME BuilderInv, NEW r \in Runs, NEW i \in DOMAIN executions[r],
                       executions[r][i].status = "FAILED",
                       executions[r][i].node \in StopNodes
                PROVE  i = Len(executions[r])
    BY DEF StopEndsTheWalk
  <2>1. executions[r] \in Seq(ExecutionRow) /\ Stopped(r)
    BY At DEF BuilderInv, EngineTypes
  <2>2. i \in RowsOf(r)
    BY <2>1 DEF RowsOf
  <2>. QED
    BY <2>1, <2>2 DEF Stopped
<1>. QED
  BY <1>1, BuilderInvariant, PTL

\* LastOutputAnswers: the result a caller gets is the latest output the run has
\* computed; every node executed after the one it comes from has failed.
THEOREM TheLastOutputAnswers ==
    (Spec => []LastOutputAnswers) /\ (DrawnSpec => []LastOutputAnswers)
<1>1. BuilderInv => LastOutputAnswers
  <2>. SUFFICES ASSUME BuilderInv, NEW r \in Runs, answer[r].status = "200",
                       ~RespondsItself(r), NEW i \in DOMAIN executions[r],
                       i > answer[r].row, i > 1
                PROVE  executions[r][i].status = "FAILED"
    BY DEF LastOutputAnswers
  <2>1. executions[r] \in Seq(ExecutionRow) /\ Latest(r)
    BY At DEF BuilderInv, EngineTypes
  <2>2. i \in RowsOf(r)
    BY <2>1 DEF RowsOf
  <2>. QED
    BY <2>1, <2>2 DEF Latest
<1>. QED
  BY <1>1, BuilderInvariant, PTL

-----------------------------------------------------------------------------
(* The way of a run through a graph that can be drawn.                     *)

\* First edges taken from a graph that can be drawn.
LEMMA FirstEdgesAreOneWay ==
    ASSUME NEW r \in Runs, OneWay(copy[r].edges), EngineTypes, NEW f \in FirstEdges(r)
    PROVE  \A m, n \in Nodes :
             f[m] # WebhookNode /\ (f[m] = f[n] /\ f[m] # NoNode => m = n)
<1>1. ASSUME NEW m \in Nodes, f[m] # NoNode
      PROVE  \E e \in copy[r].edges : e[1] = m /\ e[2] = f[m]
  BY <1>1 DEF FirstEdges, Targets
<1>2. NoNode # WebhookNode
  BY EngineAssumption DEF Nodes
<1>. QED
  BY <1>1, <1>2 DEF OneWay

\* The next node is none of those the run has passed through, and belongs to
\* them from now on.
LEMMA NextIsAhead ==
    ASSUME EngineInv, NEW r \in Runs, Route(r), pc[r] \in InLoop,
           Successor(r) # NoNode, NEW V \in SUBSET Nodes, Behind(r, V)
    PROVE  /\ Successor(r) \in Nodes \ V
           /\ \A m \in (V \cup {Successor(r)}) \ {WebhookNode} :
                \E p \in V \cup {Successor(r)} : p # Successor(r) /\ next[r][p] = m
<1>1. currentNode[r] \in Nodes /\ next[r] \in [Nodes -> Nodes \cup {NoNode}]
  BY At DEF Position, EngineTypes
<1>2. Successor(r) = next[r][currentNode[r]] /\ Successor(r) \in Nodes
  BY <1>1 DEF Successor
<1>3. Successor(r) # WebhookNode
  BY <1>1, <1>2 DEF Route, NextIsOneWay
<1>4. Successor(r) \notin V
  <2>1. ASSUME Successor(r) \in V
        PROVE  FALSE
    <3>1. PICK p \in V : p # currentNode[r] /\ next[r][p] = Successor(r)
      BY <1>3, <2>1 DEF Behind
    <3>2. p = currentNode[r]
      BY <1>1, <1>2, <3>1 DEF Route, NextIsOneWay
    <3>. QED
      BY <3>1, <3>2
  <2>. QED
    BY <2>1
<1>. QED
  BY <1>2, <1>4 DEF Behind

\* What Behind says, it says of a run that did not move.
LEMMA RouteSame ==
    ASSUME NEW q \in Runs, Route(q), Same(q)
    PROVE  Route(q)'
<1>1. NextIsOneWay(q)' /\ Distinct(q)' /\ OneWay(copy'[q].edges)
  BY DEF Route, Same, NextIsOneWay, Distinct, RowsOf
<1>2. ASSUME NEW V, Behind(q, V)
      PROVE  Behind(q, V)'
  BY <1>2 DEF Same, Behind, RowsOf
<1>. QED
  BY <1>1, <1>2 DEF Route, Same

\* A step that adds no row stays at its node or goes on to the next.
LEMMA RouteGoesOn ==
    ASSUME EngineInv, NEW r \in Runs, Route(r),
           OneWay(copy'[r].edges), NextIsOneWay(r)',
           RowsOf(r)' = RowsOf(r),
           \A i \in RowsOf(r) : executions'[r][i].node = executions[r][i].node,
           pc'[r] \in InLoop =>
             /\ pc[r] \in InLoop /\ next'[r] = next[r]
             /\ \/ currentNode'[r] = currentNode[r]
                \/ currentNode'[r] = Successor(r) /\ Successor(r) # NoNode
    PROVE  Route(r)'
<1>1. Distinct(r)'
  BY DEF Route, Distinct
<1>2. ASSUME pc'[r] \in InLoop
      PROVE  \E V \in SUBSET Nodes : Behind(r, V)'
  <2>1. PICK V \in SUBSET Nodes : Behind(r, V)
    BY <1>2 DEF Route
  <2>2. CASE currentNode'[r] = currentNode[r]
    <3>1. Behind(r, V)'
      BY <1>2, <2>1, <2>2 DEF Behind
    <3>. QED
      BY <3>1
  <2>3. CASE currentNode'[r] = Successor(r) /\ Successor(r) # NoNode
    <3>1. /\ Successor(r) \in Nodes \ V
          /\ \A m \in (V \cup {Successor(r)}) \ {WebhookNode} :
               \E p \in V \cup {Successor(r)} : p # Successor(r) /\ next[r][p] = m
      BY <1>2, <2>1, <2>3, NextIsAhead
    <3>2. PICK W \in SUBSET Nodes : W = V \cup {Successor(r)}
      BY <3>1
    <3>3. \A m \in W \ {WebhookNode} : \E p \in W : p # currentNode'[r] /\ next'[r][p] = m
      BY <1>2, <2>3, <3>2, <3>1
    <3>4. \A i \in RowsOf(r)' : executions'[r][i].node \in W
      BY <2>1, <3>2 DEF Behind
    <3>5. WebhookNode \in W /\ currentNode'[r] \in W
      BY <2>1, <2>3, <3>2 DEF Behind
    <3>6. Behind(r, W)'
      BY <3>3, <3>4, <3>5 DEF Behind
    <3>. QED
      BY <3>6
  <2>. QED
    BY <1>2, <2>2, <2>3
<1>. QED
  BY <1>1, <1>2 DEF Route

\* The row Move adds is that of a node the run has not passed through.
LEMMA RouteMove ==
    ASSUME EngineInv, NEW r \in Runs, Route(r), Move(r)
    PROVE  Route(r)'
<1>1. /\ pc[r] = "walking" /\ next' = next /\ copy' = copy
      /\ executions[r] \in Seq(ExecutionRow) /\ EngineTypes
      /\ Successor(r) \in Nodes \cup {NoNode}
  BY At DEF Move, EngineTypes, Successor, Position, InLoop
<1>2. OneWay(copy'[r].edges) /\ NextIsOneWay(r)'
  BY <1>1 DEF Route, NextIsOneWay
<1>3. CASE Successor(r) = NoNode
  <2>1. executions' = executions /\ pc'[r] \notin InLoop
    BY <1>1, <1>3 DEF Move, GoesTo, EngineTypes, InLoop
  <2>. QED
    BY <1>2, <2>1, RouteGoesOn DEF RowsOf
<1>4. CASE Successor(r) # NoNode
  <2>. DEFINE n == Len(executions[r])
  <2>1. PICK V \in SUBSET Nodes : Behind(r, V)
    BY <1>1 DEF Route, InLoop
  <2>2. /\ Successor(r) \in Nodes \ V
        /\ \A m \in (V \cup {Successor(r)}) \ {WebhookNode} :
             \E p \in V \cup {Successor(r)} : p # Successor(r) /\ next[r][p] = m
    BY <1>1, <1>4, <2>1, NextIsAhead DEF InLoop
  <2>3. NewRow(r, Successor(r), "PENDING") /\ "PENDING" \in ExecutionStatus
    BY <1>4 DEF Move, ExecutionStatus
  <2>4. /\ Len(executions'[r]) = n + 1
        /\ executions'[r][n + 1] = [node |-> Successor(r), status |-> "PENDING"]
        /\ \A i \in RowsOf(r) : executions'[r][i] = executions[r][i]
    BY <1>1, <2>2, <2>3, NewRowWrites
  <2>5. currentNode'[r] = Successor(r)
    BY <1>1 DEF Move, EngineTypes
  <2>6. n \in Nat
    BY <1>1
  <2>. HIDE DEF n
  <2>7. \A i \in RowsOf(r)' :
          i \in RowsOf(r) \/ (i = n + 1 /\ executions'[r][i].node = Successor(r))
    BY <2>4, <2>6 DEF RowsOf, n
  <2>8. \A i \in RowsOf(r) : executions'[r][i].node = executions[r][i].node
                             /\ executions[r][i].node \in V
    BY <2>1, <2>4 DEF Behind
  <2>9. Distinct(r)'
    BY <2>2, <2>7, <2>8 DEF Route, Distinct
  <2>10. PICK W \in SUBSET Nodes : W = V \cup {Successor(r)}
    BY <2>2
  <2>11. Behind(r, W)'
    <3>1. \A m \in W \ {WebhookNode} : \E p \in W : p # currentNode'[r] /\ next'[r][p] = m
      BY <1>1, <2>2, <2>5, <2>10
    <3>2. \A i \in RowsOf(r)' : executions'[r][i].node \in W
      BY <2>7, <2>8, <2>10
    <3>3. WebhookNode \in W /\ currentNode'[r] \in W
      BY <2>1, <2>5, <2>10 DEF Behind
    <3>. QED
      BY <3>1, <3>2, <3>3 DEF Behind
  <2>. QED
    BY <1>2, <2>9, <2>11 DEF Route
<1>. QED
  BY <1>3, <1>4

\* The walk starts at the webhook node.
LEMMA RouteStarts ==
    ASSUME EngineInv, NEW r \in Runs, Route(r), RecordRequest(r)
    PROVE  Route(r)'
<1>1. pc[r] = "copied" /\ Len(executions[r]) = 0 /\ EngineTypes
  BY At DEF RecordRequest, Position
<1>2. NewRow(r, WebhookNode, "COMPLETED") /\ WebhookNode \in Nodes
      /\ "COMPLETED" \in ExecutionStatus
  BY DEF RecordRequest, Nodes, ExecutionStatus
<1>3. /\ Len(executions'[r]) = Len(executions[r]) + 1
      /\ executions'[r][Len(executions[r]) + 1]
           = [node |-> WebhookNode, status |-> "COMPLETED"]
  BY <1>1, <1>2, NewRowWrites
<1>4. RowsOf(r)' = {1} /\ executions'[r][1].node = WebhookNode
  BY <1>1, <1>3 DEF RowsOf
<1>5. next' = next /\ copy' = copy /\ currentNode'[r] = WebhookNode
  BY <1>1 DEF RecordRequest, EngineTypes
<1>6. OneWay(copy'[r].edges) /\ NextIsOneWay(r)' /\ Distinct(r)'
  BY <1>4, <1>5 DEF Route, NextIsOneWay, Distinct
<1>7. Behind(r, {WebhookNode})'
  BY <1>4, <1>5 DEF Behind
<1>8. {WebhookNode} \in SUBSET Nodes
  BY <1>2
<1>. QED
  BY <1>6, <1>7, <1>8 DEF Route

\* Every step of a run keeps its route, as long as what it reads can be drawn.
LEMMA RouteStep ==
    ASSUME GraphTypeOK, OneWay(edges), EngineInv, NEW r \in Runs, Route(r),
           FindWebhook(r) \/ RunStep(r) \/ Rejects(r)
    PROVE  Route(r)'
<1>0. EngineTypes /\ Position(r) /\ OneWay(copy[r].edges) /\ NextIsOneWay(r)
  BY At DEF Route
<1>1. CASE next' = next /\ copy' = copy /\ executions' = executions /\ pc'[r] \notin InLoop
  <2>1. OneWay(copy'[r].edges) /\ NextIsOneWay(r)'
    BY <1>0, <1>1 DEF NextIsOneWay
  <2>. QED
    BY <1>1, <2>1, RouteGoesOn DEF RowsOf
<1>2. CASE FindWebhook(r) \/ CreateHistory(r) \/ MarkStopped(r) \/ Fail(r)
  BY <1>0, <1>1, <1>2 DEF FindWebhook, CreateHistory, MarkStopped, Fail, GoesTo, Says,
     EngineTypes, InLoop
<1>3. CASE Close(r)
  <2>1. pc'[r] \notin InLoop
    BY <1>0, <1>3, CloseCases DEF GoesTo, Says, EngineTypes, InLoop
  <2>2. next' = next /\ copy' = copy /\ executions' = executions
    BY <1>3 DEF Close
  <2>. QED
    BY <1>1, <2>1, <2>2
<1>4. CASE ReadNodes(r) \/ ReadEdges(r)
  <2>1. OneWay(copy'[r].edges)
    <3>1. copy[r] \in Copy /\ copy \in [Runs -> Copy]
      BY <1>0 DEF EngineTypes
    <3>2. copy'[r].edges \in {edges, copy[r].edges}
      BY <1>4, <3>1 DEF ReadNodes, ReadEdges, Copy
    <3>. QED
      BY <1>0, <3>2
  <2>2. next' = next /\ executions' = executions /\ pc'[r] \notin InLoop
    BY <1>4 DEF ReadNodes, ReadEdges, InLoop
  <2>. QED
    BY <1>0, <2>1, <2>2, RouteGoesOn DEF NextIsOneWay, RowsOf
<1>5. CASE CopyGraph(r)
  <2>1. copy' = copy /\ executions' = executions /\ pc'[r] \notin InLoop
    BY <1>0, <1>5 DEF CopyGraph, GoesTo, Says, EngineTypes, InLoop
  <2>2. NextIsOneWay(r)'
    <3>1. CASE next' = next
      BY <1>0, <3>1 DEF NextIsOneWay
    <3>2. ASSUME NEW f \in FirstEdges(r), next' = [next EXCEPT ![r] = f]
          PROVE  NextIsOneWay(r)'
      <4>1. next'[r] = f
        BY <1>0, <3>2 DEF EngineTypes
      <4>. QED
        BY <1>0, <4>1, FirstEdgesAreOneWay DEF NextIsOneWay
    <3>. QED
      BY <1>5, <3>1, <3>2 DEF CopyGraph
  <2>. QED
    BY <1>0, <2>1, <2>2, RouteGoesOn DEF RowsOf
<1>6. CASE Works(r) \/ Throws(r) \/ MoveRejects(r)
  <2>1. /\ next' = next /\ copy' = copy /\ executions' = executions /\ pc[r] \in InLoop
        /\ \/ currentNode'[r] = currentNode[r]
           \/ currentNode'[r] = Successor(r) /\ Successor(r) # NoNode
    BY <1>0, <1>6 DEF Works, Throws, MoveRejects, EngineTypes, InLoop
  <2>. QED
    BY <1>0, <2>1, RouteGoesOn DEF NextIsOneWay, RowsOf
<1>7. CASE RecordOutput(r) \/ RecordFailure(r)
  <2>1. /\ pc[r] \in InLoop /\ next' = next /\ copy' = copy
        /\ currentExecution[r] \in RowsOf(r)
    BY <1>0, <1>7 DEF RecordOutput, RecordFailure, Position, InLoop, AfterRequest
  <2>2. \E s \in ExecutionStatus : SetRow(r, s)
    BY <1>7 DEF RecordOutput, RecordFailure, ExecutionStatus
  <2>3. /\ RowsOf(r)' = RowsOf(r)
        /\ \A i \in RowsOf(r) : executions'[r][i].node = executions[r][i].node
    BY <1>0, <2>1, <2>2, SetRowWrites DEF RowsOf
  <2>4. pc'[r] \in InLoop =>
          \/ currentNode'[r] = currentNode[r]
          \/ currentNode'[r] = Successor(r) /\ Successor(r) # NoNode
    <3>1. CASE RecordOutput(r) \/ Stops(r)
      BY <1>7, <3>1 DEF RecordOutput, RecordFailure
    <3>2. CASE RecordFailure(r) /\ ~Stops(r) /\ Successor(r) # NoNode
      BY <1>0, <3>2 DEF RecordFailure, EngineTypes
    <3>3. CASE RecordFailure(r) /\ ~Stops(r) /\ Successor(r) = NoNode
      <4>1. pc'[r] = "closing"
        BY <1>0, <3>3 DEF RecordFailure, GoesTo, EngineTypes
      <4>. QED
        BY <4>1 DEF InLoop
    <3>. QED
      BY <1>7, <3>1, <3>2, <3>3
  <2>. QED
    BY <1>0, <2>1, <2>3, <2>4, RouteGoesOn DEF NextIsOneWay
<1>8. CASE Rejects(r) /\ ~(MoveRejects(r) \/ Throws(r))
  <2>1. /\ next' = next /\ copy' = copy /\ executions' = executions
        /\ currentNode' = currentNode
        /\ pc'[r] \in InLoop => pc[r] \in InLoop
    BY <1>0, <1>8 DEF Rejects, GoesTo, Says, EngineTypes, InLoop
  <2>. QED
    BY <1>0, <2>1, RouteGoesOn DEF NextIsOneWay, RowsOf
<1>. QED
  BY <1>2, <1>3, <1>4, <1>5, <1>6, <1>7, <1>8, RouteMove, RouteStarts DEF RunStep, Breaks

\* The routes of all runs.
LEMMA RouteNext ==
    ASSUME BuilderInv, OneWay(edges), RouteInv, [Next]_vars
    PROVE  RouteInv'
<1>1. CASE UNCHANGED runVars
  BY <1>1, RouteSame DEF RouteInv, runVars, Same
<1>2. ASSUME NEW r \in Runs, FindWebhook(r) \/ RunStep(r) \/ Rejects(r)
      PROVE  RouteInv'
  <2>1. Route(r)'
    BY <1>2, RouteStep DEF BuilderInv, RouteInv
  <2>2. \A q \in Runs \ {r} : Same(q)
    BY <1>2, OthersSame DEF BuilderInv, EngineInv
  <2>. QED
    BY <2>1, <2>2, RouteSame DEF RouteInv
<1>3. CASE ProcessDies
  <2>1. ASSUME NEW q \in Runs
        PROVE  Route(q)'
    <3>1. /\ copy' = copy /\ next' = next /\ executions' = executions
          /\ currentNode' = currentNode /\ pc'[q] \in {pc[q], "dead"}
      BY <1>3 DEF ProcessDies
    <3>. QED
      BY <3>1, RouteGoesOn DEF RouteInv, Route, NextIsOneWay, BuilderInv, RowsOf, InLoop
  <2>. QED
    BY <2>1 DEF RouteInv
<1>. QED
  BY <1>1, <1>2, <1>3 DEF Next, Edit, Call, EngineNext, vars

\* No run has come anywhere.
LEMMA RouteInit == EngineInit => RouteInv
<1>. SUFFICES ASSUME EngineInit, NEW r \in Runs PROVE Route(r)
  BY DEF RouteInv
<1>1. /\ pc[r] = "idle" /\ copy[r].edges = {} /\ RowsOf(r) = {}
      /\ \A n \in Nodes : next[r][n] = NoNode
  BY DEF EngineInit, RowsOf
<1>. QED
  BY <1>1, EngineAssumption DEF Route, OneWay, NextIsOneWay, Distinct, InLoop, Nodes

\* Distinct rows, put as NoNodeTwice puts them.
LEMMA RoutesDiffer == BuilderInv /\ RouteInv => NoNodeTwice
<1>. SUFFICES ASSUME BuilderInv, RouteInv, NEW r \in Runs,
                     NEW i \in DOMAIN executions[r], NEW j \in DOMAIN executions[r],
                     executions[r][i].node = executions[r][j].node
              PROVE  i = j
  BY DEF NoNodeTwice
<1>1. executions[r] \in Seq(ExecutionRow) /\ Distinct(r)
  BY At DEF BuilderInv, RouteInv, Route, EngineTypes
<1>2. i \in RowsOf(r) /\ j \in RowsOf(r)
  BY <1>1 DEF RowsOf
<1>. QED
  BY <1>1, <1>2 DEF Distinct

\* NoNodeTwice, while one tab edits the workflow: whatever a run reads, halfway
\* through a save, after one that broke off, or its nodes before and its edges
\* after a deletion, the walk has no way back to a node it has been at.
THEOREM NoNodeTwiceWhileEdited ==
    ASSUME OneTab
    PROVE  Spec => []NoNodeTwice
<1>1. Init => BuilderInv /\ GraphInv /\ RouteInv
  BY GraphTypeInit, DrawableInit, EngineInvInit, RouteInit
  DEF Init, BuilderInv, GraphInv
<1>2. BuilderInv /\ GraphInv /\ RouteInv /\ [Next]_vars => (BuilderInv /\ GraphInv /\ RouteInv)'
  <2>. SUFFICES ASSUME BuilderInv, GraphInv, RouteInv, [Next]_vars
                PROVE  (BuilderInv /\ GraphInv /\ RouteInv)'
    OBVIOUS
  <2>1. BuilderInv'
    BY BuilderInvNext
  <2>2. RouteInv'
    BY RouteNext DEF GraphInv, Drawable
  <2>3. CASE [EditingNext]_EditorVars
    BY <2>1, <2>2, <2>3, GraphInvNext
  <2>4. CASE UNCHANGED graphVars
    <3>1. Drawable'
      BY <2>4 DEF GraphInv, Drawable, graphVars
    <3>. QED
      BY <2>1, <2>2, <3>1 DEF BuilderInv, GraphInv
  <2>. QED
    BY <2>3, <2>4, NextEdits
<1>3. BuilderInv /\ RouteInv => NoNodeTwice
  BY RoutesDiffer
<1>. QED
  BY <1>1, <1>2, <1>3, PTL DEF Spec

\* NoNodeTwice, for calls only: over any graph that can be drawn no run executes
\* a node twice, though a failed node is skipped and its successor with it.
THEOREM NoNodeTwiceOverDrawn == DrawnSpec => []NoNodeTwice
<1>1. DrawnInit => BuilderInv /\ OneWay(edges) /\ RouteInv
  BY DrawnGraph, EngineInvInit, RouteInit DEF BuilderInv
<1>2. BuilderInv /\ OneWay(edges) /\ RouteInv /\ [Call]_vars
        => (BuilderInv /\ OneWay(edges) /\ RouteInv)'
  <2>. SUFFICES ASSUME BuilderInv, OneWay(edges), RouteInv, [Call]_vars
                PROVE  (BuilderInv /\ OneWay(edges) /\ RouteInv)'
    OBVIOUS
  <2>1. [Next]_vars
    BY DEF Next
  <2>2. edges' = edges
    BY DEF Call, graphVars, vars
  <2>3. OneWay(edges)'
    BY <2>2 DEF OneWay
  <2>. QED
    BY <2>1, <2>3, BuilderInvNext, RouteNext
<1>3. BuilderInv /\ RouteInv => NoNodeTwice
  BY RoutesDiffer
<1>. QED
  BY <1>1, <1>2, <1>3, PTL DEF DrawnSpec

=============================================================================
