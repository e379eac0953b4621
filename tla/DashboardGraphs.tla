---------------------------- MODULE DashboardGraphs ----------------------------
(***************************************************************************)
(* The graph area of the dashboard (graphite-web, content/js/dashboard.js): *)
(* graphStore with its records, the nodes that Ext's DataView keeps for     *)
(* them, dragging, the close buttons, the menu of a graph and its edits,    *)
(* and the answer of a breakout request, which comes at any time.  All      *)
(* handlers run in the browser's one thread, so that each is one action.    *)
(***************************************************************************)
EXTENDS Naturals, Sequences, FiniteSets, SequencesExt

CONSTANTS Metrics, None,
          Ids,        \* bound: the records
          MaxGraphs,  \* bound: the graphs of the area
          MaxSize     \* bound: the targets and calls of all the records in use

ASSUME MenuAssumption == None \notin {"shown", "gone"}
ASSUME IdsAssumption == Ids \subseteq Nat /\ IsFiniteSet(Ids) /\ None \notin Ids

VARIABLES
  graphs,   \* the records of graphStore, in order
  record,   \* target (the key), params.target and index of every record in use
  nodes,    \* the elements of the view: their record, the index in the close button,
            \* and viewIndex
  selected, \* selectedRecord, as long as there is an active menu
  menu,     \* activeMenu: None, "shown", or "gone" when it is hidden or destroyed
  justClosedGraph,
  drag,     \* the record that is dragged
  breakout, \* the request of breakoutGraph() that is on its way
  swallowed \* how many clicks in a row opened no menu

vars == <<graphs, record, nodes, selected, menu, justClosedGraph, drag, breakout, swallowed>>

--------------------------------------------------------------------------------
(* Targets and keys *)

\* A target is a metric, or a call of a function on metrics and a literal.
Metric(m) == [call |-> FALSE, args |-> <<m>>]
Targets == {Metric(m) : m \in Metrics} \cup {[call |-> TRUE, args |-> <<m>>] : m \in Metrics}
Call(ts) == [call |-> TRUE, args |-> FlattenSeq([k \in DOMAIN ts |-> ts[k].args])]

Size(ts) == FoldLeft(LAMBDA n, t : n + Len(t.args) + (IF t.call THEN 1 ELSE 0), 0, ts)

\* Ext.urlEncode({target: ...}), and "target=" + path, which leaves a comma as it is.
Encode(ts) == [raw |-> FALSE, targets |-> ts]
RawKey(t) == [raw |-> t.call, targets |-> <<t>>]

\* The targets of the selection S, and the others.
Kth(S, k) == CHOOSE i \in S : Cardinality({j \in S : j <= i}) = k
Selection(ts, S) == [k \in 1 .. Cardinality(S) |-> ts[Kth(S, k)]]
Others(ts, S) == Selection(ts, DOMAIN ts \ S)

\* The first of each.
uniq(ts) == Selection(ts, {i \in DOMAIN ts : \A j \in 1 .. i - 1 : ts[j] # ts[i]})

--------------------------------------------------------------------------------
(* The store and its view, as one record, so that a handler can do several things *)

Area == [graphs |-> graphs, record |-> record, nodes |-> nodes]
InUse == ToSet(graphs) \cup ({selected, drag} \ {None})

\* Records that are in no use are forgotten, and so is the index of one that left the
\* area: it gets a new one when it comes back.
SetArea(area) ==
  \E a \in {area} :
    /\ Len(a.graphs) <= MaxGraphs /\ ToSet(a.graphs) \subseteq Ids
    /\ graphs' = a.graphs /\ nodes' = a.nodes
    /\ record' = [r \in InUse' |-> IF r \in ToSet(a.graphs) THEN a.record[r]
                                   ELSE [a.record[r] EXCEPT !.index = None]]
    /\ FoldFunction(LAMBDA r, n : n + Size(r.targets), 0, record') <= MaxSize

IndexOf(a, r) == IF r \in ToSet(a.graphs) THEN CHOOSE k \in DOMAIN a.graphs : a.graphs[k] = r ELSE 0
Find(a, key) == SelectInSeq(a.graphs, LAMBDA r : a.record[r].key = key)

Render(a, r) == [record |-> r, shown |-> a.record[r].index, viewIndex |-> None]
UpdateIndexes(ns, from, to) ==
  [k \in DOMAIN ns |-> IF k \in from .. to THEN [ns[k] EXCEPT !.viewIndex = k] ELSE ns[k]]

Refresh(a) ==
  [a EXCEPT !.nodes = UpdateIndexes([k \in DOMAIN a.graphs |-> Render(a, a.graphs[k])],
                                    1, Len(a.graphs))]
OnAdd(a, at) ==
  IF a.nodes = <<>> THEN Refresh(a)
  ELSE [a EXCEPT !.nodes = UpdateIndexes(InsertAt(@, at, Render(a, a.graphs[at])), at, Len(@) + 1)]
OnRemove(a, at) ==
  IF a.graphs = <<>> THEN Refresh(a)
  ELSE [a EXCEPT !.nodes = UpdateIndexes(RemoveAt(@, at), at, Len(@) - 1)]
\* Mutant: the new node does not get its index.
Rendered_NoIndex(a, at) == Render(a, a.graphs[at])
\* The node that onUpdate() puts in the place of the old one.
Rendered(a, at) == [Render(a, a.graphs[at]) EXCEPT !.viewIndex = at]
OnUpdate(a, at) == [a EXCEPT !.nodes[at] = Rendered(a, at)]

StoreInsert(a, at, r) == OnAdd([a EXCEPT !.graphs = InsertAt(@, at, r)], at)
StoreRemoveAt(a, at) ==
  IF at \in DOMAIN a.graphs THEN OnRemove([a EXCEPT !.graphs = RemoveAt(@, at)], at) ELSE a
StoreRemove(a, r) == StoreRemoveAt(a, IndexOf(a, r))
RemoveAll(a) == Refresh([a EXCEPT !.graphs = <<>>])

\* Every record gets its index; the ones that change are rendered anew.
UpdateGraphRecords(a) ==
  LET b == [a EXCEPT !.record = [r \in DOMAIN @ |->
              IF r \in ToSet(a.graphs) THEN [@[r] EXCEPT !.index = IndexOf(a, r)] ELSE @[r]]]
  IN  [b EXCEPT !.nodes = [k \in DOMAIN @ |->
         IF a.record[a.graphs[k]].index = k THEN @[k] ELSE Rendered(b, k)]]
RefreshGraphs(a) == Refresh(UpdateGraphRecords(a))

\* A new record is one that nothing refers to.
Free(a) == Ids \ (ToSet(a.graphs) \cup {selected, drag, breakout.record})
Fresh(a) == IF Free(a) = {} THEN None ELSE CHOOSE r \in Free(a) : TRUE
WithNew(a, r, key, ts) ==
  [a EXCEPT !.record = [i \in DOMAIN @ \cup {r} |->
     IF i = r THEN [key |-> key, targets |-> ts, index |-> None] ELSE @[i]]]
AddGraph(a, key, ts) ==
  LET r == Fresh(a) IN
  UpdateGraphRecords(StoreInsert(WithNew(a, r, key, ts), Len(a.graphs) + 1, r))

\* graphAreaToggle() and importGraphUrl(): a removal leaves the indices as they are.
Toggle(a, key, ts, mayRemove, mayAdd) ==
  CASE Find(a, key) # 0 /\ mayRemove -> StoreRemoveAt(a, Find(a, key))
    [] Find(a, key) = 0 /\ mayAdd -> AddGraph(a, key, ts)
    [] OTHER -> a

--------------------------------------------------------------------------------

NoRequest == [record |-> None, results |-> <<>>]

Init ==
  /\ graphs = <<>> /\ nodes = <<>> /\ record = <<>>
  /\ selected = None /\ menu = None /\ justClosedGraph = FALSE
  /\ drag = None /\ breakout = NoRequest /\ swallowed = 0

UI == <<selected, menu, justClosedGraph, drag, breakout, swallowed>>

\* A press of the mouse outside of the menus hides them (Ext.menu.MenuMgr).
AfterMouseDown == IF menu = "shown" THEN "gone" ELSE menu

(* Adding and removing *)

\* A click in the completer, its keyboard shortcuts (also while a graph is dragged), and
\* the nodes of the tree.
ToggleMetric(m) ==
  /\ UNCHANGED UI
  /\ \E mayRemove, mayAdd \in BOOLEAN :
       (mayRemove \/ mayAdd) /\ SetArea(Toggle(Area, RawKey(Metric(m)), <<Metric(m)>>, mayRemove, mayAdd))

ImportGraphUrl(ts) ==
  /\ drag = None
  /\ menu' = AfterMouseDown
  /\ UNCHANGED <<selected, justClosedGraph, drag, breakout, swallowed>>
  /\ SetArea(Toggle(Area, Encode(ts), ts, TRUE, TRUE))

NewFromMetric(m) ==
  /\ drag = None
  /\ menu' = AfterMouseDown
  /\ UNCHANGED <<selected, justClosedGraph, drag, breakout, swallowed>>
  /\ SetArea(AddGraph(Area, Encode(<<Metric(m)>>), <<Metric(m)>>))

\* "Remove All", "New" and the shortcut erase_all_graphs.
RemoveAllGraphs ==
  /\ UNCHANGED UI
  /\ SetArea(RefreshGraphs(RemoveAll(Area)))

\* A dashboard that is loaded brings records with the keys they were saved with; one
\* that is edited as text, with the keys of their targets.
LoadGraphs(gs) ==
  /\ UNCHANGED UI
  /\ Len(gs) <= Cardinality(Free(Area))
  /\ LET news == [k \in DOMAIN gs |-> Kth(Free(Area), k)]
         a == [Area EXCEPT !.graphs = news,
                 !.record = [r \in DOMAIN @ \cup ToSet(news) |->
                   IF r \in ToSet(news) THEN gs[CHOOSE k \in DOMAIN news : news[k] = r] ELSE @[r]]]
     IN SetArea(RefreshGraphs(Refresh(a)))

\* The refresh button, or the refresh task.
RefreshNow == UNCHANGED UI /\ SetArea(RefreshGraphs(Area))

\* The close button of the node at `at`.  The click goes on to the view with the
\* viewIndex of this node, which may be out of the document by now: justClosedGraph is
\* reset unless there is no graph at that index.
CloseButton(at) ==
  /\ drag = None
  /\ menu' = AfterMouseDown /\ swallowed' = 0
  /\ UNCHANGED <<selected, drag, breakout>>
  /\ LET removed == StoreRemoveAt(Area, nodes[at].shown)
         left == SelectInSeq(removed.nodes, LAMBDA n : n.record = nodes[at].record)
         clicked == IF left = 0 THEN nodes[at].viewIndex ELSE removed.nodes[left].viewIndex IN
     /\ SetArea(UpdateGraphRecords(removed))
     /\ justClosedGraph' = (clicked > Len(removed.graphs))

--------------------------------------------------------------------------------
(* Dragging *)

\* Only what needs no mouse happens while a graph is dragged.
DragStart(at) ==
  /\ drag = None
  /\ drag' = graphs[nodes[at].viewIndex]
  /\ menu' = AfterMouseDown
  /\ UNCHANGED <<graphs, record, nodes, selected, justClosedGraph, breakout, swallowed>>

DragEnd ==
  /\ drag # None /\ drag' = None
  /\ UNCHANGED <<selected, menu, justClosedGraph, breakout, swallowed>>
  /\ SetArea(Area)

\* Mutant: the indices are left as they are.
Reorder_NoUpdate(a, at) == StoreInsert(StoreRemove(a, drag), at, drag)
\* A record that left the store while it was dragged is inserted again.
Reorder(a, at) == UpdateGraphRecords(StoreInsert(StoreRemove(a, drag), at, drag))

Merge(a, at) ==
  LET drop == a.graphs[a.nodes[at].viewIndex]
      merged == uniq(a.record[drag].targets \o a.record[drop].targets)
      commit == OnUpdate([a EXCEPT !.record[drop].key = Encode(merged),
                                   !.record[drop].targets = merged], IndexOf(a, drop))
  IN  UpdateGraphRecords(StoreRemove(commit, drag))

\* onNodeDrop()
Drop(at) ==
  /\ drag # None /\ drag' = None
  /\ UNCHANGED <<selected, menu, justClosedGraph, breakout, swallowed>>
  /\ \E a \in {IF graphs[at] = drag THEN Area ELSE Reorder(Area, at),
               IF graphs[at] = drag THEN Area ELSE Merge(Area, at)} :
       SetArea(a)

--------------------------------------------------------------------------------
(* The menu of a graph *)

\* Mutant: the menu is destroyed, and stays the active one.
GraphClicked_KeepsMenu(r) ==
  IF justClosedGraph
  THEN justClosedGraph' = FALSE /\ menu' = AfterMouseDown /\ UNCHANGED selected
  ELSE /\ UNCHANGED justClosedGraph
       /\ IF menu # None /\ selected = r
          THEN menu' = "gone" /\ UNCHANGED selected
          ELSE menu' = "shown" /\ selected' = r

\* graphClicked(): a click on the graph of the active menu, also of one that is hidden
\* or destroyed, only destroys it.
GraphClicked(r) ==
  IF justClosedGraph
  THEN justClosedGraph' = FALSE /\ menu' = AfterMouseDown /\ UNCHANGED selected
  ELSE /\ UNCHANGED justClosedGraph
       /\ IF menu # None /\ selected = r
          THEN menu' = None /\ selected' = None
          ELSE menu' = "shown" /\ selected' = r

ClickGraph(at) ==
  /\ drag = None
  /\ GraphClicked(graphs[nodes[at].viewIndex])
  /\ swallowed' = IF menu' = "shown" \/ menu = "shown" THEN 0 ELSE swallowed + 1
  /\ UNCHANGED <<drag, breakout>>
  /\ SetArea(Area)

\* A click elsewhere.
ClickOutside ==
  /\ drag = None /\ menu = "shown"
  /\ menu' = "gone"
  /\ UNCHANGED <<graphs, record, nodes, selected, justClosedGraph, drag, breakout, swallowed>>

MenuOpen == drag = None /\ menu = "shown"

\* The edits of the menu change selectedRecord, whether it is still in the area or not.
Edit(key, ts) ==
  /\ UNCHANGED UI
  /\ SetArea(RefreshGraphs([Area EXCEPT !.record[selected].key = key,
                                        !.record[selected].targets = ts]))

Now == record[selected].targets
Selections == SUBSET DOMAIN Now \ {{}}

\* Mutant: the key is not computed again.
EditTargets_KeepsKey(ts) == Edit(record[selected].key, ts)
\* addTargetToSelectedGraph() and removeTargetFromSelectedGraph() compute the key again.
EditTargets(ts) == Edit(Encode(ts), ts)

\* A target is typed over.
EditTarget ==
  MenuOpen /\ \E k \in DOMAIN Now, t \in Targets : EditTargets([Now EXCEPT ![k] = t])

Uncalled(S) == \A k \in S : ~Now[k].call

ApplyFuncToEach ==
  MenuOpen /\ \E S \in Selections :
    /\ Uncalled(S)
    /\ EditTargets(Others(Now, S) \o [k \in 1 .. Cardinality(S) |-> Call(<<Selection(Now, S)[k]>>)])

ApplyFuncToAll ==
  MenuOpen /\ \E S \in Selections :
    Uncalled(S) /\ EditTargets(Append(Others(Now, S), Call(Selection(Now, S))))

\* removeOuterCall() changes params.target alone.
RemoveOuterCall ==
  MenuOpen /\ \E S \in Selections :
    LET args == FlattenSeq([k \in 1 .. Cardinality(S) |-> Selection(Now, S)[k].args]) IN
    Edit(record[selected].key, Others(Now, S) \o [k \in DOMAIN args |-> Metric(args[k])])

\* cloneGraph() takes the targets from the key, and goes to the front if the graph is gone.
Clone ==
  /\ MenuOpen
  /\ menu' = "gone"
  /\ UNCHANGED <<selected, justClosedGraph, drag, breakout, swallowed>>
  /\ LET r == Fresh(Area)
         key == record[selected].key IN
     SetArea(RefreshGraphs(StoreInsert(WithNew(Area, r, key, key.targets), IndexOf(Area, selected) + 1, r)))

\* exprInfo has one entry for each path expression, of the last target that contains it.
\* A target with two of them cannot be broken out.
ExprInfo(ts) ==
  {ts[k] : k \in {i \in DOMAIN ts : \E p \in ToSet(ts[i].args) :
                    \A j \in i + 1 .. Len(ts) : ~Contains(ts[j].args, p)}}

\* breakoutGraph(): what the expressions expand to is not known yet.
Breakout ==
  /\ MenuOpen /\ breakout = NoRequest
  /\ \A k \in DOMAIN Now : Len(Now[k].args) = 1
  /\ menu' = "gone"
  /\ breakout' = [record |-> selected, results |-> SetToSeq(ExprInfo(Now))]
  /\ UNCHANGED <<graphs, record, nodes, selected, justClosedGraph, drag, swallowed>>

AddEach(area, ts) == FoldLeft(LAMBDA a, t : Toggle(a, RawKey(t), <<t>>, FALSE, TRUE), area, ts)

\* The answer; expressions may match no metric.
BreakoutAnswer ==
  /\ breakout # NoRequest
  /\ breakout' = NoRequest
  /\ UNCHANGED <<selected, menu, justClosedGraph, drag, swallowed>>
  /\ \E keep \in BOOLEAN :
       SetArea(AddEach(StoreRemove(Area, breakout.record), IF keep THEN breakout.results ELSE <<>>))

BreakoutFails ==
  /\ breakout # NoRequest
  /\ breakout' = NoRequest
  /\ UNCHANGED <<selected, menu, justClosedGraph, drag, swallowed>>
  /\ SetArea(Area)

TargetLists == {<<t>> : t \in Targets}

\* What getState() saves: the key is that of the targets, or of a call that was taken off.
SavedKeys(ts) == {Encode(ts), RawKey(ts[1]), Encode(<<Call(ts)>>), RawKey(Call(ts))}
SavedGraphs ==
  UNION {{[key |-> k, targets |-> ts, index |-> None] : k \in SavedKeys(ts)} : ts \in TargetLists}

Next ==
  \/ \E m \in Metrics : ToggleMetric(m) \/ NewFromMetric(m)
  \/ \E ts \in TargetLists : ImportGraphUrl(ts)
  \/ \E gs \in BoundedSeq(SavedGraphs, 2) : LoadGraphs(gs)
  \/ RemoveAllGraphs \/ RefreshNow
  \/ \E at \in DOMAIN nodes : CloseButton(at) \/ DragStart(at) \/ Drop(at) \/ ClickGraph(at)
  \/ DragEnd \/ ClickOutside
  \/ EditTarget \/ ApplyFuncToEach \/ ApplyFuncToAll \/ RemoveOuterCall \/ Clone
  \/ Breakout \/ BreakoutAnswer \/ BreakoutFails

Spec == Init /\ [][Next]_vars

--------------------------------------------------------------------------------
(* Properties *)

(* The view shows the records of the store, each once and in their order, every node
   knows its place, and its close button has the index of its record: the clicks and
   the drags find the graph they are on, through any order of handlers. *)
ViewFollowsStore ==
  /\ IsInjective(graphs) /\ Len(nodes) = Len(graphs)
  /\ \A k \in DOMAIN nodes :
       nodes[k] = [record |-> graphs[k], shown |-> record[graphs[k]].index, viewIndex |-> k]

(* A close button (dashboard.rst:60) removes its graph, or one after it, or none: never
   one before it, and no two buttons the same graph.  It is a later one after a graph
   before it was toggled off (dashboard.js:993) or broken out, until the next refresh. *)
CloseNeverRemovesEarlier ==
  \A k \in DOMAIN nodes :
    /\ nodes[k].shown >= k
    /\ \A j \in 1 .. k - 1 : nodes[j].shown < nodes[k].shown

(* The key of a graph, by which it is toggled and from which it is cloned, falls behind
   its targets in no way but by "Remove Outer Call" of its menu. *)
InKey(r) == record[r].key.targets = record[r].targets
KeyFallsBehindOnlyByOuterCall ==
  [][ \A r \in ToSet(graphs) \cap ToSet(graphs') :
        InKey(r) /\ ~InKey(r)' => RemoveOuterCall /\ r = selected ]_vars

(* A click on a graph opens its menu, or closes it, at the latest with the third click
   in a row: justClosedGraph, when it is left behind, and a menu that is hidden or
   destroyed but still active, swallow one each. *)
ClicksOpenMenus == swallowed <= 2
================================================================================
