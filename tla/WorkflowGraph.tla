---------------------------- MODULE WorkflowGraph ----------------------------
(***************************************************************************)
(* The graph of one workflow in the workflow builder: the rows of          *)
(* workflowNodes and workflowEdges, the webhooks row of its webhook node,  *)
(* and the browser tabs that edit it.  A route runs several statements     *)
(* with no transaction around them, so each statement is an action and the *)
(* requests of all tabs interleave between any two.                        *)
(***************************************************************************)
EXTENDS Naturals, FiniteSets

CONSTANTS
    Tabs,           \* browser tabs with the editor open (a reload is a new tab)
    WebhookNode,    \* id of the node of type WEBHOOK_NODE
    CodeNodes,      \* ids of the nodes of type CODE_NODE
    ResponseNodes,  \* ids of the nodes of type WEBHOOK_RESPONSE_NODE
    MaxFaults       \* bound on the faults of a behaviour

ASSUME NodesAssumption ==
    /\ WebhookNode \notin CodeNodes \cup ResponseNodes
    /\ CodeNodes \cap ResponseNodes = {}
ASSUME GraphFaultsAssumption == MaxFaults \in Nat

Nodes == {WebhookNode} \cup CodeNodes \cup ResponseNodes
Edges == Nodes \X Nodes     \* source and target; ids are derived from them

VARIABLES
    nodes,      \* workflowNodes
    edges,      \* workflowEdges
    hooked,     \* the webhooks row of the webhook node exists
    fresh,      \* node ids not given out yet (v4() never repeats one)
    draft,      \* draftState of each tab
    saving,     \* the updateNodeAndEdges request of each tab
    adding,     \* addNode requests that have created their node, until they answer
    deleting,   \* deleteNode requests
    faults      \* statements that rejected, and crashes, so far

graphVars == <<nodes, edges, hooked, fresh, draft, saving, adding, deleting>>

Drawing == [view : {"closed", "nodes", "open"},
            nodes : SUBSET Nodes, edges : SUBSET Edges]

\* edges: those of the body that are not created yet.
Save == [step : {"none", "clear", "create"}, edges : SUBSET Edges]

NoSave == [step |-> "none", edges |-> {}]

Addition == [tab : Tabs, node : Nodes]

Deletion == [tab : Tabs, node : Nodes,
             step : {"unlink", "find", "unhook", "remove"}]

Touching(n) == {e \in edges : e[1] = n \/ e[2] = n}

\* Foreign keys hold whatever the routes do.
GraphTypeOK ==
    /\ nodes \subseteq Nodes
    /\ edges \subseteq nodes \X nodes
    /\ hooked \in BOOLEAN
    /\ hooked => WebhookNode \in nodes
    /\ fresh \subseteq Nodes \ nodes
    /\ draft \in [Tabs -> Drawing]
    /\ saving \in [Tabs -> Save]
    /\ adding \subseteq Addition
    /\ deleting \subseteq Deletion
    /\ faults \in 0..MaxFaults

Closed == [view |-> "closed", nodes |-> {}, edges |-> {}]

\* A workflow whose nodes have been added and not connected yet, or none.
GraphInit ==
    /\ \/ nodes = {}
       \/ \E R \in SUBSET ResponseNodes :
             Cardinality(R) <= 1 /\ nodes = {WebhookNode} \cup CodeNodes \cup R
    /\ hooked = (WebhookNode \in nodes)
    /\ edges = {}
    /\ fresh = Nodes \ nodes
    /\ draft = [t \in Tabs |-> Closed]
    /\ saving = [t \in Tabs |-> NoSave]
    /\ adding = {}
    /\ deleting = {}
    /\ faults = 0

Fault == /\ faults < MaxFaults
         /\ faults' = faults + 1

-----------------------------------------------------------------------------
(* A tab opens the editor: two queries, one after the other.               *)

OpenReadsNodes(t) ==
    /\ draft[t].view = "closed"
    /\ draft' = [draft EXCEPT ![t].view = "nodes", ![t].nodes = nodes]
    /\ UNCHANGED <<nodes, edges, hooked, fresh, saving, adding, deleting, faults>>

OpenReadsEdges(t) ==
    /\ draft[t].view = "nodes"
    /\ draft' = [draft EXCEPT ![t].view = "open", ![t].edges = edges]
    /\ UNCHANGED <<nodes, edges, hooked, fresh, saving, adding, deleting, faults>>

-----------------------------------------------------------------------------
(* Drawing: connections exist in the tab only, until they are saved.       *)

\* A bug to detect: any two handles may be connected.
ValidAnyhow(d, s, n) == n # WebhookNode

\* isValidConnection: one edge into a node (where two tabs have stored two, a
\* third is let through), one out of it unless it is the webhook node, which has
\* no target handle.
isValidConnection(d, s, n) ==
    /\ n # WebhookNode
    /\ Cardinality({e \in d.edges : e[2] = n}) # 1
    /\ s = WebhookNode \/ \A e \in d.edges : e[1] # s

Connect(t, s, n) ==
    /\ draft[t].view = "open"
    /\ s \in draft[t].nodes /\ n \in draft[t].nodes
    /\ isValidConnection(draft[t], s, n)
    /\ draft' = [draft EXCEPT ![t].edges = @ \cup {<<s, n>>}]
    /\ UNCHANGED <<nodes, edges, hooked, fresh, saving, adding, deleting, faults>>

Disconnect(t, e) ==
    /\ draft[t].view = "open"
    /\ e \in draft[t].edges
    /\ draft' = [draft EXCEPT ![t].edges = @ \ {e}]
    /\ UNCHANGED <<nodes, edges, hooked, fresh, saving, adding, deleting, faults>>

\* The delete key takes a node and its edges out of the view, not out of the
\* database.
RemoveFromView(t, n) ==
    /\ draft[t].view = "open"
    /\ n \in draft[t].nodes
    /\ draft' = [draft EXCEPT ![t].nodes = @ \ {n},
                              ![t].edges = {e \in @ : n \notin {e[1], e[2]}}]
    /\ UNCHANGED <<nodes, edges, hooked, fresh, saving, adding, deleting, faults>>

-----------------------------------------------------------------------------
(* updateNodeAndEdges.  The save button is hidden while a save is under    *)
(* way; everything else can be used meanwhile.                             *)

SaveStarts(t) ==
    /\ draft[t].view = "open"
    /\ saving[t] = NoSave
    /\ saving' = [saving EXCEPT ![t] = [step |-> "clear", edges |-> draft[t].edges]]
    /\ UNCHANGED <<nodes, edges, hooked, fresh, draft, adding, deleting, faults>>

\* A bug to detect: the stored edges stay.
SaveKeeps(t) ==
    /\ saving[t].step = "clear"
    /\ saving' = [saving EXCEPT ![t].step = "create"]
    /\ UNCHANGED <<nodes, edges, hooked, fresh, draft, adding, deleting, faults>>

SaveClears(t) ==
    /\ saving[t].step = "clear"
    /\ edges' = {}
    /\ saving' = [saving EXCEPT ![t].step = "create"]
    /\ UNCHANGED <<nodes, hooked, fresh, draft, adding, deleting, faults>>

\* One create per edge; an edge that exists already, or whose nodes are gone,
\* rejects, and what was created so far stays.
SaveCreates(t, e) ==
    /\ saving[t].step = "create"
    /\ e \in saving[t].edges
    /\ IF e \notin edges /\ {e[1], e[2]} \subseteq nodes
       THEN /\ edges' = edges \cup {e}
            /\ saving' = [saving EXCEPT ![t].edges = @ \ {e}]
       ELSE saving' = [saving EXCEPT ![t] = NoSave] /\ UNCHANGED edges
    /\ UNCHANGED <<nodes, hooked, fresh, draft, adding, deleting, faults>>

\* Then every node is updated, its place and looks only; a node that is gone
\* rejects.  Either way the request is over.
SaveEnds(t) ==
    /\ saving[t].step = "create" /\ saving[t].edges = {}
    /\ saving' = [saving EXCEPT ![t] = NoSave]
    /\ UNCHANGED <<nodes, edges, hooked, fresh, draft, adding, deleting, faults>>

SaveRejects(t) ==
    /\ saving[t] # NoSave
    /\ saving' = [saving EXCEPT ![t] = NoSave]
    /\ Fault
    /\ UNCHANGED <<nodes, edges, hooked, fresh, draft, adding, deleting>>

-----------------------------------------------------------------------------
(* addNode.  The editor allows one webhook node and one response node.     *)

OneOfItsKind(t, n) ==
    /\ n = WebhookNode => WebhookNode \notin draft[t].nodes
    /\ n \in ResponseNodes => draft[t].nodes \cap ResponseNodes = {}

Show(t, n) == draft' = [draft EXCEPT ![t].nodes = @ \cup {n}]

\* A bug to detect: an id is given out twice.
AddNodeAgain(t, n) ==
    /\ draft[t].view = "open"
    /\ n \in fresh
    /\ OneOfItsKind(t, n)
    /\ nodes' = nodes \cup {n}
    /\ adding' = adding \cup {[tab |-> t, node |-> n]}
    /\ UNCHANGED <<edges, hooked, fresh, draft, saving, deleting, faults>>

AddNode(t, n) ==
    /\ draft[t].view = "open"
    /\ n \in fresh
    /\ OneOfItsKind(t, n)
    /\ fresh' = fresh \ {n}
    /\ nodes' = nodes \cup {n}
    /\ adding' = adding \cup {[tab |-> t, node |-> n]}
    /\ UNCHANGED <<edges, hooked, draft, saving, deleting, faults>>

\* The webhooks row follows the webhook node, if the node is still there; then
\* the answer puts the node in the view.
AddNodeEnds(a) ==
    /\ adding' = adding \ {a}
    /\ IF a.node # WebhookNode
       THEN Show(a.tab, a.node) /\ UNCHANGED hooked
       ELSE IF a.node \in nodes /\ ~hooked
            THEN hooked' = TRUE /\ Show(a.tab, a.node)
            ELSE UNCHANGED <<hooked, draft>>
    /\ UNCHANGED <<nodes, edges, fresh, saving, deleting, faults>>

\* The row is not created: the node goes again, unless an edge or a row
\* created meanwhile holds it, or that statement rejects as well.
AddWebhookRejects(a) ==
    /\ a.node = WebhookNode
    /\ Fault
    /\ adding' = adding \ {a}
    /\ \/ Touching(a.node) = {} /\ ~hooked /\ nodes' = nodes \ {a.node}
       \/ UNCHANGED nodes
    /\ UNCHANGED <<edges, hooked, fresh, draft, saving, deleting>>

\* updateNodeData on the webhook node updates its webhooks row, or creates it
\* anew: only the creation shows here, and a foreign key keeps the node.
UpdateNodeData(t) ==
    /\ draft[t].view = "open" /\ WebhookNode \in draft[t].nodes
    /\ WebhookNode \in nodes /\ ~hooked
    /\ hooked' = TRUE
    /\ UNCHANGED <<nodes, edges, fresh, draft, saving, adding, deleting, faults>>

-----------------------------------------------------------------------------
(* deleteNode                                                              *)

DeleteStarts(t, n) ==
    /\ draft[t].view = "open"
    /\ n \in draft[t].nodes
    /\ \A d \in deleting : ~(d.tab = t /\ d.node = n)
    /\ deleting' = deleting \cup {[tab |-> t, node |-> n, step |-> "unlink"]}
    /\ UNCHANGED <<nodes, edges, hooked, fresh, draft, saving, adding, faults>>

DeleteGoesTo(d, step) ==
    deleting' = (deleting \ {d}) \cup {[d EXCEPT !.step = step]}

DeleteEnds(d) == deleting' = deleting \ {d}

DeleteUnlinks(d) ==
    /\ d.step = "unlink"
    /\ edges' = edges \ Touching(d.node)
    /\ DeleteGoesTo(d, "find")
    /\ UNCHANGED <<nodes, hooked, fresh, draft, saving, adding, faults>>

\* The webhooks row is passed over where the data of its node, which is stored
\* as it comes, has no path or no method.
DeleteFinds(d) ==
    /\ d.step = "find"
    /\ IF d.node \notin nodes
       THEN DeleteEnds(d)
       ELSE \/ d.node = WebhookNode /\ DeleteGoesTo(d, "unhook")
            \/ DeleteGoesTo(d, "remove")
    /\ UNCHANGED <<nodes, edges, hooked, fresh, draft, saving, adding, faults>>

\* webhooks.delete of a row that is not there rejects.
DeleteUnhooks(d) ==
    /\ d.step = "unhook"
    /\ IF hooked THEN hooked' = FALSE /\ DeleteGoesTo(d, "remove")
                 ELSE UNCHANGED hooked /\ DeleteEnds(d)
    /\ UNCHANGED <<nodes, edges, fresh, draft, saving, adding, faults>>

\* The tab drops the node from its draft and keeps its edges.
Hide(t, n) == draft' = [draft EXCEPT ![t].nodes = @ \ {n}]

\* An edge saved meanwhile, or a webhooks row, holds the node.
DeleteRemoves(d) ==
    /\ d.step = "remove"
    /\ DeleteEnds(d)
    /\ IF d.node \in nodes /\ Touching(d.node) = {} /\ ~(d.node = WebhookNode /\ hooked)
       THEN /\ nodes' = nodes \ {d.node}
            /\ Hide(d.tab, d.node)
       ELSE UNCHANGED <<nodes, draft>>
    /\ UNCHANGED <<edges, hooked, fresh, saving, adding, faults>>

DeleteRejects(d) ==
    /\ DeleteEnds(d)
    /\ Fault
    /\ UNCHANGED <<nodes, edges, hooked, fresh, draft, saving, adding>>

-----------------------------------------------------------------------------
EditorStep(t) ==
    \/ OpenReadsNodes(t) \/ OpenReadsEdges(t)
    \/ \E s, n \in Nodes : Connect(t, s, n)
    \/ \E e \in draft[t].edges : Disconnect(t, e)
    \/ \E n \in Nodes : AddNode(t, n) \/ DeleteStarts(t, n) \/ RemoveFromView(t, n)
    \/ UpdateNodeData(t)
    \/ SaveStarts(t) \/ SaveClears(t) \/ SaveEnds(t) \/ SaveRejects(t)
    \/ \E e \in saving[t].edges : SaveCreates(t, e)

EditingNext ==
    \/ \E t \in Tabs : EditorStep(t)
    \/ \E a \in adding : AddNodeEnds(a) \/ AddWebhookRejects(a)
    \/ \E d \in deleting :
         \/ DeleteUnlinks(d) \/ DeleteFinds(d) \/ DeleteUnhooks(d)
         \/ DeleteRemoves(d) \/ DeleteRejects(d)

GraphSpec == GraphInit /\ [][EditingNext]_<<graphVars, faults>>

-----------------------------------------------------------------------------
\* A graph a tab lets its user draw: no edge into the webhook node, at most one
\* into any other, and at most one out of a node that is not the webhook node.
OneWay(E) ==
    /\ \A e \in E : e[2] # WebhookNode
    /\ \A e, d \in E : e[2] = d[2] => e = d
    /\ \A e, d \in E : e[1] = d[1] /\ e[1] # WebhookNode => e = d

\* The server checks no edge it stores.  As long as one tab edits, what is
\* stored can be drawn nevertheless, in the middle of a save, after one that
\* broke off and with deletions running beside it.
StoredIsDrawable == OneWay(edges)

=============================================================================
