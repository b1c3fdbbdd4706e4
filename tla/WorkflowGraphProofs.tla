------------------------- MODULE WorkflowGraphProofs -------------------------
(***************************************************************************)
(* What the routes of the graph editor keep true of a stored workflow: its *)
(* types and foreign keys, for any number of tabs, and, for one tab, that  *)
(* the stored edges are a graph this tab lets its user draw.               *)
(***************************************************************************)
EXTENDS WorkflowGraph, FiniteSetTheorems, TLAPS

EditorVars == <<graphVars, faults>>

-----------------------------------------------------------------------------
(* Types and foreign keys.                                                 *)

\* An empty database, and nodes that no edge connects, have their types.
LEMMA GraphTypeInit == GraphInit => GraphTypeOK
<1>. SUFFICES ASSUME GraphInit PROVE GraphTypeOK
  OBVIOUS
<1>1. nodes \subseteq Nodes /\ fresh = Nodes \ nodes /\ edges = {}
  BY DEF GraphInit, Nodes
<1>2. hooked \in BOOLEAN /\ (hooked => WebhookNode \in nodes)
  <2>1. hooked = (WebhookNode \in nodes)
    BY DEF GraphInit
  <2>2. CASE WebhookNode \in nodes
    <3>1. hooked = TRUE
      BY <2>1, <2>2, Zenon
    <3>. QED
      BY <2>2, <3>1
  <2>3. CASE WebhookNode \notin nodes
    <3>1. (WebhookNode \in nodes) = FALSE
      BY <2>3
    <3>. QED
      BY <2>1, <3>1, Zenon
  <2>. QED
    BY <2>2, <2>3
<1>3. draft \in [Tabs -> Drawing] /\ saving \in [Tabs -> Save]
  BY DEF GraphInit, Drawing, Save, NoSave, Closed
<1>4. adding = {} /\ deleting = {} /\ faults \in 0..MaxFaults
  BY GraphFaultsAssumption DEF GraphInit
<1>. QED
  BY <1>1, <1>2, <1>3, <1>4 DEF GraphTypeOK

\* Opening, drawing and taking a node out of the view write a draft only.
LEMMA DraftType ==
    ASSUME GraphTypeOK, NEW t \in Tabs,
           OpenReadsNodes(t) \/ OpenReadsEdges(t)
           \/ (\E s, n \in Nodes : Connect(t, s, n))
           \/ (\E e \in draft[t].edges : Disconnect(t, e))
           \/ (\E n \in Nodes : RemoveFromView(t, n))
    PROVE  GraphTypeOK'
<1>. USE DEF GraphTypeOK
<1>1. edges \subseteq Edges /\ draft[t] \in Drawing
  BY DEF Edges
<1>2. CASE OpenReadsNodes(t)
  BY <1>1, <1>2 DEF OpenReadsNodes, Drawing
<1>3. CASE OpenReadsEdges(t)
  BY <1>1, <1>3 DEF OpenReadsEdges, Drawing
<1>4. CASE \E s, n \in Nodes : Connect(t, s, n)
  BY <1>1, <1>4 DEF Connect, Drawing, Edges
<1>5. CASE \E e \in draft[t].edges : Disconnect(t, e)
  BY <1>1, <1>5 DEF Disconnect, Drawing
<1>6. CASE \E n \in Nodes : RemoveFromView(t, n)
  <2>1. PICK n \in Nodes : RemoveFromView(t, n)
    BY <1>6
  <2>2. {e \in draft[t].edges : n \notin {e[1], e[2]}} \in SUBSET Edges
    BY <1>1 DEF Drawing
  <2>3. draft[t].nodes \ {n} \in SUBSET Nodes
    BY <1>1 DEF Drawing
  <2>4. draft' \in [Tabs -> Drawing]
    BY <1>1, <2>1, <2>2, <2>3 DEF RemoveFromView, Drawing
  <2>. QED
    BY <2>1, <2>4 DEF RemoveFromView
<1>. QED
  BY <1>2, <1>3, <1>4, <1>5, <1>6

\* A save creates an edge between nodes that are there.
LEMMA SaveType ==
    ASSUME GraphTypeOK, NEW t \in Tabs,
           SaveStarts(t) \/ SaveClears(t) \/ SaveEnds(t) \/ SaveRejects(t)
           \/ (\E e \in saving[t].edges : SaveCreates(t, e))
    PROVE  GraphTypeOK'
<1>. USE DEF GraphTypeOK
<1>1. saving[t] \in Save /\ draft[t] \in Drawing /\ NoSave \in Save
  BY DEF Save, NoSave
<1>2. CASE SaveStarts(t)
  BY <1>1, <1>2 DEF SaveStarts, Save, Drawing
<1>3. CASE SaveClears(t)
  BY <1>1, <1>3 DEF SaveClears, Save
<1>4. CASE SaveEnds(t)
  BY <1>1, <1>4 DEF SaveEnds
<1>5. CASE SaveRejects(t)
  BY <1>1, <1>5, GraphFaultsAssumption DEF SaveRejects, Fault
<1>6. CASE \E e \in saving[t].edges : SaveCreates(t, e)
  <2>1. PICK e \in saving[t].edges : SaveCreates(t, e)
    BY <1>6
  <2>2. e \in Edges
    BY <1>1 DEF Save
  <2>3. {e[1], e[2]} \subseteq nodes => e \in nodes \X nodes
    BY <2>2 DEF Edges
  <2>. QED
    BY <1>1, <2>1, <2>3 DEF SaveCreates, Save
<1>. QED
  BY <1>2, <1>3, <1>4, <1>5, <1>6

\* A node that is added takes its id away; the webhooks row is made for a node
\* that is there, and the node is taken back only if nothing refers to it.
LEMMA AddType ==
    ASSUME GraphTypeOK,
           (\E t \in Tabs : (\E n \in Nodes : AddNode(t, n)) \/ UpdateNodeData(t))
           \/ (\E a \in adding : AddNodeEnds(a) \/ AddWebhookRejects(a))
    PROVE  GraphTypeOK'
<1>. USE DEF GraphTypeOK
<1>1. ASSUME NEW t \in Tabs, NEW n \in Nodes, AddNode(t, n)
      PROVE  GraphTypeOK'
  BY <1>1 DEF AddNode, Addition
<1>2. ASSUME NEW t \in Tabs, UpdateNodeData(t)
      PROVE  GraphTypeOK'
  BY <1>2 DEF UpdateNodeData
<1>3. ASSUME NEW a \in adding, AddNodeEnds(a)
      PROVE  GraphTypeOK'
  <2>1. a.tab \in Tabs /\ a.node \in Nodes
    BY DEF Addition
  <2>2. Show(a.tab, a.node) => draft' \in [Tabs -> Drawing]
    BY <2>1 DEF Show, Drawing
  <2>. QED
    BY <1>3, <2>1, <2>2 DEF AddNodeEnds
<1>4. ASSUME NEW a \in adding, AddWebhookRejects(a)
      PROVE  GraphTypeOK'
  <2>1. faults' \in 0..MaxFaults
    BY <1>4, GraphFaultsAssumption DEF AddWebhookRejects, Fault
  <2>2. nodes' \subseteq nodes /\ edges' = edges /\ hooked' = hooked
    BY <1>4 DEF AddWebhookRejects
  <2>3. edges' \subseteq nodes' \X nodes'
    BY <1>4, <2>2 DEF AddWebhookRejects, Touching
  <2>4. hooked' => WebhookNode \in nodes'
    BY <1>4, <2>2 DEF AddWebhookRejects
  <2>. QED
    BY <1>4, <2>1, <2>2, <2>3, <2>4 DEF AddWebhookRejects
<1>. QED
  BY <1>1, <1>2, <1>3, <1>4

\* A node is removed only when no edge and no webhooks row refers to it.
LEMMA DeleteType ==
    ASSUME GraphTypeOK,
           (\E t \in Tabs, n \in Nodes : DeleteStarts(t, n))
           \/ (\E d \in deleting :
                 \/ DeleteUnlinks(d) \/ DeleteFinds(d) \/ DeleteUnhooks(d)
                 \/ DeleteRemoves(d) \/ DeleteRejects(d))
    PROVE  GraphTypeOK'
<1>. USE DEF GraphTypeOK
<1>1. ASSUME NEW t \in Tabs, NEW n \in Nodes, DeleteStarts(t, n)
      PROVE  GraphTypeOK'
  BY <1>1 DEF DeleteStarts, Deletion
<1>2. ASSUME NEW d \in deleting
      PROVE  /\ d.tab \in Tabs /\ d.node \in Nodes
             /\ DeleteEnds(d) => deleting' \subseteq Deletion
             /\ \A step \in {"find", "unhook", "remove"} :
                  DeleteGoesTo(d, step) => deleting' \subseteq Deletion
  BY DEF Deletion, DeleteEnds, DeleteGoesTo
<1>3. ASSUME NEW d \in deleting, DeleteUnlinks(d)
      PROVE  GraphTypeOK'
  BY <1>2, <1>3 DEF DeleteUnlinks
<1>4. ASSUME NEW d \in deleting, DeleteFinds(d)
      PROVE  GraphTypeOK'
  BY <1>2, <1>4 DEF DeleteFinds
<1>5. ASSUME NEW d \in deleting, DeleteUnhooks(d)
      PROVE  GraphTypeOK'
  BY <1>2, <1>5 DEF DeleteUnhooks
<1>6. ASSUME NEW d \in deleting, DeleteRemoves(d)
      PROVE  GraphTypeOK'
  <2>1. nodes' \subseteq nodes /\ edges' = edges /\ hooked' = hooked
    BY <1>6 DEF DeleteRemoves
  <2>2. edges' \subseteq nodes' \X nodes'
    BY <1>6, <2>1 DEF DeleteRemoves, Touching
  <2>3. hooked' => WebhookNode \in nodes'
    BY <1>6, <2>1 DEF DeleteRemoves
  <2>4. Hide(d.tab, d.node) => draft' \in [Tabs -> Drawing]
    BY <1>2 DEF Hide, Drawing
  <2>. QED
    BY <1>2, <1>6, <2>1, <2>2, <2>3, <2>4 DEF DeleteRemoves
<1>7. ASSUME NEW d \in deleting, DeleteRejects(d)
      PROVE  GraphTypeOK'
  BY <1>2, <1>7, GraphFaultsAssumption DEF DeleteRejects, Fault
<1>. QED
  BY <1>1, <1>3, <1>4, <1>5, <1>6, <1>7

\* Every statement of every route keeps the types and the foreign keys.
LEMMA GraphTypeNext == GraphTypeOK /\ [EditingNext]_EditorVars => GraphTypeOK'
<1>1. ASSUME GraphTypeOK, UNCHANGED EditorVars
      PROVE  GraphTypeOK'
  BY <1>1 DEF EditorVars, graphVars, GraphTypeOK
<1>2. ASSUME GraphTypeOK, NEW t \in Tabs, EditorStep(t)
      PROVE  GraphTypeOK'
  BY <1>2, DraftType, SaveType, AddType, DeleteType DEF EditorStep
<1>. QED
  BY <1>1, <1>2, AddType, DeleteType DEF EditingNext

\* GraphTypeOK: whatever the routes of any number of tabs do, and in whatever
\* order, an edge joins nodes that are stored, the webhooks row has its node,
\* and an id that is stored is not given out again.
THEOREM GraphTypeCorrect == GraphSpec => []GraphTypeOK
BY GraphTypeInit, GraphTypeNext, PTL DEF GraphSpec, EditorVars

-----------------------------------------------------------------------------
(* One tab.                                                                *)

\* One browser tab edits the workflow.
OneTab == \A s, t \in Tabs : s = t

\* What the tab draws can be drawn, and so can what a save has stored together
\* with what it has yet to store: SaveClears makes room for all of it.
Drawable ==
    /\ OneWay(edges)
    /\ \A t \in Tabs :
         /\ OneWay(draft[t].edges)
         /\ saving[t].step = "clear" => OneWay(saving[t].edges)
         /\ saving[t].step = "create" => OneWay(edges \cup saving[t].edges)

GraphInv == GraphTypeOK /\ Drawable

\* Taking edges away leaves what can be drawn.
LEMMA FewerEdges ==
    ASSUME NEW E, NEW D, D \subseteq E, OneWay(E)
    PROVE  OneWay(D)
BY DEF OneWay

\* An edge isValidConnection allows leaves what can be drawn.
LEMMA ValidEdge ==
    ASSUME NEW d \in Drawing, OneWay(d.edges), NEW s \in Nodes, NEW n \in Nodes,
           isValidConnection(d, s, n)
    PROVE  OneWay(d.edges \cup {<<s, n>>})
<1>. DEFINE E == d.edges \cup {<<s, n>>}
<1>1. ASSUME NEW e \in E
      PROVE  e \in d.edges \/ (e[1] = s /\ e[2] = n /\ e = <<s, n>>)
  OBVIOUS
<1>2. /\ n # WebhookNode
      /\ Cardinality({e \in d.edges : e[2] = n}) # 1
      /\ s = WebhookNode \/ \A e \in d.edges : e[1] # s
  BY DEF isValidConnection
<1>3. \A e \in d.edges : e[2] # n
  <2>1. SUFFICES ASSUME NEW e \in d.edges, e[2] = n PROVE FALSE
    OBVIOUS
  <2>2. {x \in d.edges : x[2] = n} = {e}
    BY <2>1 DEF OneWay
  <2>3. QED
    BY <1>2, <2>2, FS_Singleton
<1>. HIDE DEF E
<1>. QED
  BY <1>1, <1>2, <1>3 DEF OneWay, E

\* Nothing is drawn and no edge is stored.
LEMMA DrawableInit == GraphInit => Drawable
BY DEF GraphInit, Drawable, OneWay, Closed, NoSave

\* Each statement of the tab's own requests keeps what can be drawn.
LEMMA DrawableStep ==
    ASSUME OneTab, GraphInv, NEW t \in Tabs, EditorStep(t)
    PROVE  Drawable'
<1>. USE DEF Drawable
<1>1. /\ draft[t] \in Drawing /\ saving[t] \in Save
      /\ draft \in [Tabs -> Drawing] /\ saving \in [Tabs -> Save]
      /\ \A s \in Tabs : s = t
      /\ OneWay(edges) /\ OneWay(draft[t].edges)
      /\ OneWay({})
  BY DEF GraphInv, GraphTypeOK, OneTab, OneWay
<1>2. CASE OpenReadsNodes(t)
  BY <1>1, <1>2 DEF OpenReadsNodes, GraphInv, Drawing
<1>3. CASE OpenReadsEdges(t)
  BY <1>1, <1>3 DEF OpenReadsEdges, GraphInv, Drawing
<1>4. ASSUME NEW s \in Nodes, NEW n \in Nodes, Connect(t, s, n)
      PROVE  Drawable'
  <2>1. OneWay(draft[t].edges \cup {<<s, n>>})
    BY <1>1, <1>4, ValidEdge DEF Connect
  <2>. QED
    BY <1>1, <1>4, <2>1 DEF Connect, GraphInv, Drawing
<1>5. ASSUME NEW e \in draft[t].edges, Disconnect(t, e)
      PROVE  Drawable'
  <2>1. OneWay(draft[t].edges \ {e})
    BY <1>1, FewerEdges
  <2>. QED
    BY <1>1, <1>5, <2>1 DEF Disconnect, GraphInv, Drawing
<1>6. ASSUME NEW n \in Nodes, RemoveFromView(t, n)
      PROVE  Drawable'
  <2>1. OneWay({e \in draft[t].edges : n \notin {e[1], e[2]}})
    BY <1>1, FewerEdges
  <2>. QED
    BY <1>1, <1>6, <2>1 DEF RemoveFromView, GraphInv, Drawing
<1>7. CASE SaveStarts(t)
  BY <1>1, <1>7 DEF SaveStarts, GraphInv, Save
<1>8. CASE SaveClears(t)
  <2>1. {} \cup saving[t].edges = saving[t].edges
    OBVIOUS
  <2>. QED
    BY <1>1, <1>8, <2>1 DEF SaveClears, GraphInv, Save
<1>9. CASE SaveEnds(t) \/ SaveRejects(t)
  BY <1>1, <1>9 DEF SaveEnds, SaveRejects, NoSave, GraphInv
<1>10. ASSUME NEW e \in saving[t].edges, SaveCreates(t, e)
       PROVE  Drawable'
  <2>1. OneWay(edges \cup saving[t].edges)
    BY <1>10 DEF SaveCreates, GraphInv
  <2>2. OneWay(edges \cup {e})
    BY <2>1, FewerEdges
  <2>3. (edges \cup {e}) \cup (saving[t].edges \ {e}) = edges \cup saving[t].edges
    OBVIOUS
  <2>4. CASE UNCHANGED edges
    BY <1>1, <1>10, <2>1, <2>4, <2>3 DEF SaveCreates, GraphInv, NoSave, Save
  <2>5. CASE edges' = edges \cup {e} /\ saving' = [saving EXCEPT ![t].edges = @ \ {e}]
    BY <1>1, <1>10, <2>1, <2>2, <2>3, <2>5 DEF SaveCreates, GraphInv, Save
  <2>. QED
    BY <1>10, <2>4, <2>5 DEF SaveCreates
<1>11. ASSUME NEW n \in Nodes, AddNode(t, n) \/ DeleteStarts(t, n)
       PROVE  Drawable'
  BY <1>11 DEF AddNode, DeleteStarts, GraphInv
<1>12. CASE UpdateNodeData(t)
  BY <1>12 DEF UpdateNodeData, GraphInv
<1>. QED
  BY <1>2, <1>3, <1>4, <1>5, <1>6, <1>7, <1>8, <1>9, <1>10, <1>11, <1>12
  DEF EditorStep

\* The rest of addNode and deleteNode takes edges away at most; the draft
\* keeps its edges when a node is shown or hidden.
LEMMA DrawableBeside ==
    ASSUME GraphInv,
           \/ \E a \in adding : AddNodeEnds(a) \/ AddWebhookRejects(a)
           \/ \E d \in deleting :
                \/ DeleteUnlinks(d) \/ DeleteFinds(d) \/ DeleteUnhooks(d)
                \/ DeleteRemoves(d) \/ DeleteRejects(d)
    PROVE  Drawable'
<1>1. edges' \subseteq edges /\ saving' = saving
  BY DEF AddNodeEnds, AddWebhookRejects, DeleteUnlinks, DeleteFinds, DeleteUnhooks,
         DeleteRemoves, DeleteRejects
<1>2. \A t \in Tabs : draft'[t].edges = draft[t].edges
  <2>1. ASSUME NEW u, NEW n, Show(u, n) \/ Hide(u, n), NEW t \in Tabs
        PROVE  draft'[t].edges = draft[t].edges
    BY <2>1 DEF Show, Hide, GraphInv, GraphTypeOK, Drawing
  <2>. QED
    BY <2>1 DEF AddNodeEnds, AddWebhookRejects, DeleteUnlinks, DeleteFinds,
                DeleteUnhooks, DeleteRemoves, DeleteRejects
<1>3. OneWay(edges')
  BY <1>1, FewerEdges DEF GraphInv, Drawable
<1>4. ASSUME NEW t \in Tabs, saving[t].step = "create"
      PROVE  OneWay(edges' \cup saving[t].edges)
  <2>1. edges' \cup saving[t].edges \subseteq edges \cup saving[t].edges
    BY <1>1
  <2>2. OneWay(edges \cup saving[t].edges)
    BY <1>4 DEF GraphInv, Drawable
  <2>. QED
    BY <2>1, <2>2, FewerEdges
<1>. QED
  BY <1>1, <1>2, <1>3, <1>4 DEF GraphInv, Drawable, OneWay

\* GraphInv is inductive as long as one tab edits.
LEMMA GraphInvNext == OneTab /\ GraphInv /\ [EditingNext]_EditorVars => GraphInv'
<1>1. ASSUME GraphInv, UNCHANGED EditorVars
      PROVE  Drawable'
  BY <1>1 DEF EditorVars, graphVars, GraphInv, Drawable
<1>. QED
  BY <1>1, GraphTypeNext, DrawableStep, DrawableBeside DEF EditingNext, GraphInv

\* StoredIsDrawable: though the server checks no edge it stores, as long as one
\* tab edits, the stored edges can be drawn, in the middle of a save, after a
\* save that broke off, and with deletions running beside it.
THEOREM OneTabStoresDrawable ==
    ASSUME OneTab
    PROVE  GraphSpec => []StoredIsDrawable
<1>1. GraphInit => GraphInv
  BY GraphTypeInit, DrawableInit DEF GraphInv
<1>2. GraphInv => StoredIsDrawable
  BY DEF GraphInv, Drawable, StoredIsDrawable
<1>3. GraphInv /\ [EditingNext]_EditorVars => GraphInv'
  BY GraphInvNext
<1>. QED
  BY <1>1, <1>2, <1>3, PTL DEF GraphSpec, EditorVars

=============================================================================
