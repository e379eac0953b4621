-------------------------- MODULE DashboardGraphsProofs --------------------------
(***************************************************************************)
(* The graph area of the dashboard, for any metrics, any number of records  *)
(* and graphs: clicks that open no menu do not go on; the view shows what   *)
(* the store holds and a close button removes no earlier graph; keys agree  *)
(* with targets but for one entry of the menu.  The first follows from      *)
(* MenuInv alone, the others from AreaInv, which rests on what the          *)
(* operations of the store and of the view do (Shows, Numbered) and leave   *)
(* of the keys (Extends).                                                   *)
(***************************************************************************)
EXTENDS DashboardGraphs, SequenceLemmas

\* A flag that was left behind and a menu that is only active on paper swallow one click
\* each; a menu that is shown means that neither is there.
MenuInv ==
  /\ swallowed \in Nat
  /\ menu \in {None, "shown", "gone"} /\ justClosedGraph \in BOOLEAN
  /\ menu = "shown" => swallowed = 0 /\ ~justClosedGraph
  /\ menu = "gone" => swallowed <= 1
  /\ justClosedGraph => swallowed <= 1
  /\ menu = "gone" /\ justClosedGraph => swallowed = 0
  /\ swallowed <= 2

\* A press of the mouse that hides the menu, or an entry of the menu that does.
LEMMA HiddenKeeps ==
  ASSUME MenuInv, menu' \in {menu, AfterMouseDown}, UNCHANGED <<justClosedGraph, swallowed>>
  PROVE  MenuInv'
BY MenuAssumption DEF MenuInv, AfterMouseDown

\* A close button starts anew, whether justClosedGraph is left behind or not.
LEMMA CloseButtonKeeps ==
  ASSUME MenuInv, menu' = AfterMouseDown, swallowed' = 0, justClosedGraph' \in BOOLEAN
  PROVE  MenuInv'
<1>1. menu' \in {None, "gone"}
  BY DEF MenuInv, AfterMouseDown
<1> QED
  BY <1>1, MenuAssumption DEF MenuInv

\* A click that opens no menu takes what swallowed it out of the way.
LEMMA ClickKeeps ==
  ASSUME MenuInv, NEW r, GraphClicked(r),
         swallowed' = IF menu' = "shown" \/ menu = "shown" THEN 0 ELSE swallowed + 1
  PROVE  MenuInv'
<1>1. CASE justClosedGraph
  <2>1. /\ justClosedGraph' = FALSE /\ menu # "shown" /\ menu' = menu /\ swallowed' = swallowed + 1
    BY <1>1 DEF GraphClicked, MenuInv, AfterMouseDown
  <2>2. justClosedGraph' \in BOOLEAN /\ ~justClosedGraph'
    BY <2>1, Zenon
  <2> QED
    BY <1>1, <2>1, <2>2 DEF MenuInv
<1>2. CASE ~justClosedGraph /\ menu # None /\ selected = r
  <2>1. justClosedGraph' = justClosedGraph /\ menu' = None
    BY <1>2 DEF GraphClicked
  <2> QED
    BY <1>2, <2>1, MenuAssumption DEF MenuInv
<1>3. CASE ~justClosedGraph /\ ~(menu # None /\ selected = r)
  <2>1. justClosedGraph' = justClosedGraph /\ menu' = "shown" /\ swallowed' = 0
    BY <1>3 DEF GraphClicked
  <2> QED
    BY <1>3, <2>1, MenuAssumption DEF MenuInv
<1> QED
  BY <1>1, <1>2, <1>3

LEMMA MenuNext == MenuInv /\ [Next]_vars => MenuInv'
<1> SUFFICES ASSUME MenuInv, [Next]_vars PROVE MenuInv'
  OBVIOUS
<1>1. ASSUME NEW at \in DOMAIN nodes, CloseButton(at) PROVE MenuInv'
  <2>1. menu' = AfterMouseDown /\ swallowed' = 0
    BY <1>1, Zenon DEF CloseButton
  <2>2. justClosedGraph' \in BOOLEAN
    <3>1. \E n, length : justClosedGraph' = (n > length)
      BY <1>1, Zenon DEF CloseButton
    <3>2. \A n, length : (n > length) \in BOOLEAN
      OBVIOUS
    <3> QED
      BY <3>1, <3>2
  <2> QED
    BY <2>1, <2>2, CloseButtonKeeps
<1>2. ASSUME NEW at \in DOMAIN nodes, ClickGraph(at) PROVE MenuInv'
  BY <1>2, ClickKeeps DEF ClickGraph
<1>3. ASSUME \/ UNCHANGED <<menu, justClosedGraph, swallowed>>
             \/ menu' = AfterMouseDown /\ UNCHANGED <<justClosedGraph, swallowed>>
             \/ menu = "shown" /\ menu' = "gone" /\ UNCHANGED <<justClosedGraph, swallowed>>
      PROVE  MenuInv'
  BY <1>3, HiddenKeeps DEF AfterMouseDown
<1>4. ASSUME NEW m \in Metrics, ToggleMetric(m) \/ NewFromMetric(m) PROVE MenuInv'
  BY <1>3, <1>4 DEF ToggleMetric, NewFromMetric, UI
<1>5. ASSUME NEW ts \in TargetLists, ImportGraphUrl(ts) PROVE MenuInv'
  BY <1>3, <1>5 DEF ImportGraphUrl
<1>6. ASSUME NEW gs, LoadGraphs(gs) PROVE MenuInv'
  BY <1>3, <1>6 DEF LoadGraphs, UI
<1>7. ASSUME NEW at \in DOMAIN nodes, DragStart(at) \/ Drop(at) PROVE MenuInv'
  BY <1>3, <1>7 DEF DragStart, Drop
<1>8. CASE RemoveAllGraphs \/ RefreshNow \/ DragEnd \/ ClickOutside
  BY <1>3, <1>8 DEF RemoveAllGraphs, RefreshNow, DragEnd, ClickOutside, UI
<1>9. ASSUME NEW key, NEW ts, Edit(key, ts) PROVE MenuInv'
  BY <1>3, <1>9 DEF Edit, UI
<1>10. CASE EditTarget \/ ApplyFuncToEach \/ ApplyFuncToAll \/ RemoveOuterCall
  BY <1>9, <1>10 DEF EditTarget, ApplyFuncToEach, ApplyFuncToAll, RemoveOuterCall, EditTargets
<1>11. CASE Clone \/ Breakout \/ BreakoutAnswer \/ BreakoutFails
  BY <1>3, <1>11 DEF Clone, Breakout, BreakoutAnswer, BreakoutFails, MenuOpen
<1>12. CASE UNCHANGED vars
  BY <1>3, <1>12 DEF vars
<1> QED
  BY <1>1, <1>2, <1>4, <1>5, <1>6, <1>7, <1>8, <1>10, <1>11, <1>12 DEF Next

(* A click on a graph opens its menu, or closes it, at the latest with the third click in
   a row (dashboard.js, graphClicked): what swallows a click is used up by it, and there
   is nothing that could come back without a click that counts. *)
THEOREM ThirdClickOpens == Spec => []ClicksOpenMenus
<1>1. Init => MenuInv
  <2> SUFFICES ASSUME Init PROVE MenuInv
    OBVIOUS
  <2>1. justClosedGraph \in BOOLEAN /\ ~justClosedGraph
    BY Zenon DEF Init
  <2> QED
    BY <2>1, MenuAssumption DEF Init, MenuInv
<1>2. MenuInv => ClicksOpenMenus
  BY DEF MenuInv, ClicksOpenMenus
<1> QED
  BY <1>1, <1>2, MenuNext, PTL DEF Spec

--------------------------------------------------------------------------------
(* The area: what its parts are, and what a handler keeps of it *)

Calls == [call : BOOLEAN, args : Seq(Metrics)]
Lists == Seq(Calls)
Keys == [raw : BOOLEAN, targets : Lists]
Records == [key : Keys, targets : Lists, index : Nat \cup {None}]
Nodes == [record : Ids, shown : Nat \cup {None}, viewIndex : Nat \cup {None}]

\* The records of the store are there, each once.
Whole(a) ==
  /\ a = [graphs |-> a.graphs, record |-> a.record, nodes |-> a.nodes]
  /\ a.graphs \in Seq(Ids) /\ IsInjective(a.graphs)
  /\ a.record \in [DOMAIN a.record -> Records]
  /\ ToSet(a.graphs) \subseteq DOMAIN a.record

\* The view shows the store.
View(a) == [k \in DOMAIN a.graphs |-> [record    |-> a.graphs[k],
                                       shown     |-> a.record[a.graphs[k]].index,
                                       viewIndex |-> k]]
Shows(a) == Whole(a) /\ a.nodes = View(a)

\* The indices are no less than the places, and in order.
Index(a, k) == a.record[a.graphs[k]].index
Numbered(a) ==
  \A k \in DOMAIN a.graphs :
    Index(a, k) \in Nat /\ Index(a, k) >= k /\ \A j \in 1 .. k - 1 : Index(a, j) < Index(a, k)

LEMMA WholeParts ==
  ASSUME NEW a, Whole(a)
  PROVE  /\ DOMAIN a.graphs = 1 .. Len(a.graphs) /\ Len(a.graphs) \in Nat
         /\ ToSet(a.graphs) = {a.graphs[k] : k \in 1 .. Len(a.graphs)}
         /\ \A k \in 1 .. Len(a.graphs) :
              a.graphs[k] \in Ids /\ a.graphs[k] \in DOMAIN a.record /\ a.record[a.graphs[k]] \in Records
         /\ \A j, k \in 1 .. Len(a.graphs) : a.graphs[j] = a.graphs[k] => j = k
<1>1. DOMAIN a.graphs = 1 .. Len(a.graphs) /\ Len(a.graphs) \in Nat
  BY LenProperties DEF Whole
<1>2. ToSet(a.graphs) = {a.graphs[k] : k \in 1 .. Len(a.graphs)}
  BY <1>1 DEF ToSet
<1>3. \A k \in 1 .. Len(a.graphs) : a.graphs[k] \in Ids
  BY ElementOfSeq DEF Whole
<1>4. \A k \in 1 .. Len(a.graphs) : a.graphs[k] \in DOMAIN a.record
  BY <1>2 DEF Whole
<1>5. \A r \in DOMAIN a.record : a.record[r] \in Records
  BY DEF Whole
<1>6. \A j, k \in 1 .. Len(a.graphs) : a.graphs[j] = a.graphs[k] => j = k
  BY <1>1 DEF Whole, IsInjective
<1> QED
  BY <1>1, <1>2, <1>3, <1>4, <1>5, <1>6

LEMMA GraphsAreIds ==
  ASSUME NEW a, Whole(a)
  PROVE  ToSet(a.graphs) \subseteq Ids
<1>1. DOMAIN a.graphs = 1 .. Len(a.graphs)
  BY WholeParts
<1>2. \A k \in 1 .. Len(a.graphs) : a.graphs[k] \in Ids
  BY WholeParts
<1> QED
  BY <1>1, <1>2 DEF ToSet

LEMMA ViewIsSeq ==
  ASSUME NEW a, Whole(a)
  PROVE  /\ View(a) \in Seq(Nodes) /\ Len(View(a)) = Len(a.graphs)
         /\ \A k \in 1 .. Len(a.graphs) :
              View(a)[k] = [record |-> a.graphs[k], shown |-> Index(a, k), viewIndex |-> k]
<1> DEFINE n == Len(a.graphs)
<1>1. DOMAIN a.graphs = 1 .. n /\ n \in Nat
  BY WholeParts
<1>2. \A k \in 1 .. n : a.graphs[k] \in Ids /\ a.record[a.graphs[k]] \in Records
  BY WholeParts
<1>3. View(a) = [k \in 1 .. n |-> [record |-> a.graphs[k], shown |-> Index(a, k), viewIndex |-> k]]
  BY <1>1 DEF View, Index
<1> HIDE DEF n
<1>4. \A k \in 1 .. n : Index(a, k) \in Nat \cup {None}
  BY <1>2 DEF Index, Records
<1>5. View(a) \in [1 .. n -> Nodes]
  BY <1>1, <1>2, <1>3, <1>4 DEF Nodes
<1>6. View(a) \in Seq(Nodes)
  BY <1>1, <1>5
<1>7. Len(View(a)) = n
  BY <1>1, <1>5
<1> QED
  BY <1>3, <1>6, <1>7 DEF n

(* refresh() of the view *)
LEMMA Refreshing ==
  ASSUME NEW a, Whole(a), NEW b, b = Refresh(a)
  PROVE  Shows(b) /\ b.graphs = a.graphs /\ b.record = a.record
<1> DEFINE n == Len(a.graphs)
           new == [k \in DOMAIN a.graphs |-> Render(a, a.graphs[k])]
<1>1. a = [graphs |-> a.graphs, record |-> a.record, nodes |-> a.nodes] /\ DOMAIN a.graphs = 1 .. n
  BY WholeParts DEF Whole
<1>2. b = [graphs |-> a.graphs, record |-> a.record, nodes |-> UpdateIndexes(new, 1, n)]
  BY <1>1 DEF Refresh
<1>3. b.graphs = a.graphs /\ b.record = a.record /\ b.nodes = UpdateIndexes(new, 1, n)
  BY <1>2
<1> HIDE DEF n
<1>4. UpdateIndexes(new, 1, n) = View(a)
  BY <1>1 DEF UpdateIndexes, Render, View
<1>5. View(b) = View(a)
  BY <1>3 DEF View
<1>6. Whole(b)
  BY <1>2, <1>3 DEF Whole
<1> QED
  BY <1>3, <1>4, <1>5, <1>6 DEF Shows

LEMMA InsertedOnce ==
  ASSUME NEW a, Whole(a), NEW r \in Ids, r \notin ToSet(a.graphs), r \in DOMAIN a.record,
         NEW at \in 1 .. Len(a.graphs) + 1, NEW nodes2,
         NEW b, b = [graphs |-> InsertAt(a.graphs, at, r), record |-> a.record, nodes |-> nodes2]
  PROVE  /\ Whole(b) /\ ToSet(b.graphs) = ToSet(a.graphs) \cup {r}
         /\ Len(b.graphs) = Len(a.graphs) + 1
         /\ \A k \in 1 .. Len(a.graphs) + 1 :
              b.graphs[k] = IF k < at THEN a.graphs[k] ELSE IF k = at THEN r ELSE a.graphs[k - 1]
<1> DEFINE g == a.graphs
           h == InsertAt(a.graphs, at, r)
<1>1. g \in Seq(Ids) /\ IsInjective(g) /\ at \in 1 .. Len(g) + 1 /\ r \notin ToSet(g)
  BY DEF Whole
<1> HIDE DEF g
<1>2. PutIn(Ids, g, at, r) /\ OnceMore(g, at, r)
  BY <1>1, Inserting, InsertingOnce
<1>3. b.graphs = h /\ b.record = a.record /\ b = [graphs |-> b.graphs, record |-> b.record, nodes |-> b.nodes]
  BY DEF h
<1>4. /\ h \in Seq(Ids) /\ Len(h) = Len(g) + 1
      /\ \A k \in 1 .. Len(g) + 1 : h[k] = IF k < at THEN g[k] ELSE IF k = at THEN r ELSE g[k - 1]
  BY <1>2 DEF PutIn, g
<1>5. IsInjective(h) /\ ToSet(h) = ToSet(g) \cup {r}
  BY <1>2 DEF OnceMore, g
<1>6. Whole(b)
  BY <1>3, <1>4, <1>5 DEF Whole, g
<1> QED
  BY <1>3, <1>4, <1>5, <1>6 DEF g

(* graphStore.insert() of a record that is not in it, with the view's onAdd() *)
LEMMA StoreInserts ==
  ASSUME NEW a, Shows(a), NEW r \in Ids, r \notin ToSet(a.graphs), r \in DOMAIN a.record,
         NEW at \in 1 .. Len(a.graphs) + 1, NEW b, b = StoreInsert(a, at, r)
  PROVE  /\ Shows(b) /\ b.record = a.record /\ ToSet(b.graphs) = ToSet(a.graphs) \cup {r}
         /\ Len(b.graphs) = Len(a.graphs) + 1
<1> DEFINE n == Len(a.graphs)
           c == [a EXCEPT !.graphs = InsertAt(@, at, r)]
<1>1. /\ Whole(a) /\ a.nodes = View(a)
      /\ a = [graphs |-> a.graphs, record |-> a.record, nodes |-> a.nodes]
  BY DEF Shows, Whole
<1>2. c = [graphs |-> InsertAt(a.graphs, at, r), record |-> a.record, nodes |-> a.nodes]
  BY <1>1
<1>3. b = OnAdd(c, at)
  BY DEF StoreInsert
<1>4. c.graphs = InsertAt(a.graphs, at, r) /\ c.record = a.record /\ c.nodes = a.nodes
  BY <1>2
<1> HIDE DEF c
<1>5. Whole(c) /\ ToSet(c.graphs) = ToSet(a.graphs) \cup {r}
  BY <1>1, <1>2, InsertedOnce
<1>6. /\ Len(c.graphs) = n + 1
      /\ \A k \in 1 .. n + 1 :
           c.graphs[k] = IF k < at THEN a.graphs[k] ELSE IF k = at THEN r ELSE a.graphs[k - 1]
  BY <1>1, <1>2, InsertedOnce
<1>7. CASE c.nodes = <<>>
  <2>1. b = Refresh(c)
    BY <1>3, <1>7 DEF OnAdd
  <2>2. Shows(b) /\ b.graphs = c.graphs /\ b.record = c.record
    BY <1>5, <2>1, Refreshing
  <2> QED
    BY <1>4, <1>5, <1>6, <2>2
<1>8. CASE c.nodes # <<>>
  <2> DEFINE v == View(a)
             new == Render(c, c.graphs[at])
             w == InsertAt(v, at, new)
             u == UpdateIndexes(w, at, Len(v) + 1)
  <2>1. v \in Seq(Nodes) /\ Len(v) = n
    BY <1>1, ViewIsSeq
  <2>2. \A k \in 1 .. n : v[k] = [record |-> a.graphs[k], shown |-> Index(a, k), viewIndex |-> k]
    BY <1>1, ViewIsSeq
  <2>3. n \in Nat /\ at \in Int /\ 1 <= at /\ at <= n + 1 /\ at \in 1 .. Len(c.graphs)
    BY <1>1, <1>6, WholeParts
  <2>4. b = [c EXCEPT !.nodes = u]
    BY <1>1, <1>3, <1>4, <1>8 DEF OnAdd
  <2>5. b = [graphs |-> c.graphs, record |-> c.record, nodes |-> u]
    BY <1>5, <2>4 DEF Whole
  <2>6. c.graphs[at] = r /\ c.record[r] \in Records
    BY <1>5, <1>6, <2>3, WholeParts
  <2>7. new = [record |-> r, shown |-> c.record[r].index, viewIndex |-> None] /\ new \in Nodes
    BY <2>6 DEF Render, Nodes, Records
  <2> HIDE DEF v, new, n
  <2>8. PutIn(Nodes, v, at, new)
    <3>1. at \in 1 .. Len(v) + 1 /\ v \in Seq(Nodes) /\ new \in Nodes
      BY <2>1, <2>3, <2>7
    <3> QED
      BY <3>1, Inserting
  <2>9. /\ w \in Seq(Nodes) /\ Len(w) = n + 1
        /\ \A k \in 1 .. n + 1 : w[k] = IF k < at THEN v[k] ELSE IF k = at THEN new ELSE v[k - 1]
    BY <2>1, <2>8 DEF PutIn
  <2>10. DOMAIN w = 1 .. n + 1
    BY <2>9, LenProperties
  <2> HIDE DEF w
  <2>11. u = [k \in 1 .. n + 1 |-> IF k \in at .. n + 1 THEN [w[k] EXCEPT !.viewIndex = k] ELSE w[k]]
    BY <2>1, <2>10 DEF UpdateIndexes
  <2>12. View(c) = [k \in 1 .. n + 1 |-> [record |-> c.graphs[k], shown |-> Index(c, k), viewIndex |-> k]]
    BY <1>5, <1>6, WholeParts DEF View, Index, n
  <2>13. ASSUME NEW k \in 1 .. n + 1
         PROVE  (IF k \in at .. n + 1 THEN [w[k] EXCEPT !.viewIndex = k] ELSE w[k])
                  = [record |-> c.graphs[k], shown |-> Index(c, k), viewIndex |-> k]
    <3>1. CASE k < at
      <4>1. k \in 1 .. n /\ k \notin at .. n + 1
        BY <2>3, <3>1
      <4>2. c.graphs[k] = a.graphs[k] /\ Index(c, k) = Index(a, k) /\ w[k] = v[k]
        BY <1>4, <1>6, <2>9, <3>1 DEF Index, n
      <4> QED
        BY <2>2, <4>1, <4>2
    <3>2. CASE k = at
      <4>1. k \in at .. n + 1 /\ w[k] = new /\ c.graphs[k] = r
        BY <2>3, <2>6, <2>9, <3>2
      <4> QED
        BY <2>7, <4>1 DEF Index
    <3>3. CASE k > at
      <4>1. k \in at .. n + 1 /\ k - 1 \in 1 .. n /\ ~(k < at) /\ k # at
        BY <2>3, <3>3
      <4>2. w[k] = v[k - 1] /\ c.graphs[k] = a.graphs[k - 1]
        BY <1>6, <2>9, <4>1 DEF n
      <4>3. Index(c, k) = Index(a, k - 1)
        BY <1>4, <4>2 DEF Index
      <4>4. v[k - 1] = [record |-> a.graphs[k - 1], shown |-> Index(a, k - 1), viewIndex |-> k - 1]
        BY <2>2, <4>1
      <4> QED
        BY <4>1, <4>2, <4>3, <4>4
    <3>4. k < at \/ k = at \/ k > at
      BY <2>3
    <3> QED
      BY <3>1, <3>2, <3>3, <3>4
  <2>14. u = View(c)
    BY <2>11, <2>12, <2>13
  <2>15. b.graphs = c.graphs /\ b.record = c.record /\ b.nodes = u
    BY <2>5
  <2>16. View(b) = View(c)
    BY <2>15 DEF View
  <2>17. Whole(b)
    BY <1>5, <2>5, <2>15 DEF Whole
  <2> QED
    BY <1>4, <1>5, <1>6, <2>14, <2>15, <2>16, <2>17 DEF Shows, n
<1> QED
  BY <1>7, <1>8

\* The records that a removal leaves.
Left(a, b, at) == ToSet(b.graphs) = ToSet(a.graphs) \ {a.graphs[at]}

LEMMA RemovedOnce ==
  ASSUME NEW a, Whole(a), NEW at \in 1 .. Len(a.graphs), NEW nodes2,
         NEW b, b = [graphs |-> RemoveAt(a.graphs, at), record |-> a.record, nodes |-> nodes2]
  PROVE  /\ Whole(b) /\ Left(a, b, at)
         /\ Len(b.graphs) = Len(a.graphs) - 1
         /\ \A k \in 1 .. Len(a.graphs) - 1 :
              b.graphs[k] = IF k < at THEN a.graphs[k] ELSE a.graphs[k + 1]
<1> DEFINE g == a.graphs
           h == RemoveAt(a.graphs, at)
<1>1. g \in Seq(Ids) /\ IsInjective(g) /\ at \in 1 .. Len(g)
  BY DEF Whole
<1> HIDE DEF g
<1>2. TakenOut(Ids, g, at) /\ OnceLess(g, at)
  BY <1>1, Removing, RemovingOnce
<1>3. b.graphs = h /\ b.record = a.record /\ b = [graphs |-> b.graphs, record |-> b.record, nodes |-> b.nodes]
  BY DEF h
<1>4. /\ h \in Seq(Ids) /\ Len(h) = Len(g) - 1
      /\ \A k \in 1 .. Len(g) - 1 : h[k] = IF k < at THEN g[k] ELSE g[k + 1]
  BY <1>2 DEF TakenOut, g
<1>5. IsInjective(h) /\ ToSet(h) = ToSet(g) \ {g[at]}
  BY <1>2 DEF OnceLess, g
<1>6. Whole(b)
  BY <1>3, <1>4, <1>5 DEF Whole, g
<1> QED
  BY <1>3, <1>4, <1>5, <1>6 DEF Left, g

(* graphStore.remove(), also of nothing, with the view's onRemove().  The indices that are
   left stay in order, and no less than the places. *)
LEMMA StoreRemoves ==
  ASSUME NEW a, Shows(a), NEW at, NEW b, b = StoreRemoveAt(a, at)
  PROVE  /\ Shows(b) /\ b.record = a.record
         /\ ToSet(b.graphs) = ToSet(a.graphs) \ (IF at \in 1 .. Len(a.graphs) THEN {a.graphs[at]} ELSE {})
         /\ Len(b.graphs) \in {Len(a.graphs) - 1, Len(a.graphs)}
         /\ Numbered(a) => Numbered(b)
<1> DEFINE n == Len(a.graphs)
           c == [a EXCEPT !.graphs = RemoveAt(@, at)]
<1>1. /\ Whole(a) /\ a.nodes = View(a) /\ DOMAIN a.graphs = 1 .. n /\ n \in Nat
      /\ a = [graphs |-> a.graphs, record |-> a.record, nodes |-> a.nodes]
  BY WholeParts DEF Shows, Whole
<1>2. CASE at \notin 1 .. n
  BY <1>1, <1>2 DEF StoreRemoveAt
<1>3. CASE at \in 1 .. n
  <2>1. b = OnRemove(c, at)
    BY <1>1, <1>3 DEF StoreRemoveAt
  <2>2. c = [graphs |-> RemoveAt(a.graphs, at), record |-> a.record, nodes |-> a.nodes]
    BY <1>1
  <2>3. c.graphs = RemoveAt(a.graphs, at) /\ c.record = a.record /\ c.nodes = a.nodes
    BY <2>2
  <2> HIDE DEF c
  <2>10. Whole(c) /\ Left(a, c, at)
    BY <1>1, <1>3, <2>2, RemovedOnce
  <2>4. Whole(c) /\ ToSet(c.graphs) = ToSet(a.graphs) \ {a.graphs[at]}
    BY <2>10 DEF Left
  <2>5. /\ Len(c.graphs) = n - 1
        /\ \A k \in 1 .. n - 1 : c.graphs[k] = IF k < at THEN a.graphs[k] ELSE a.graphs[k + 1]
    BY <1>1, <1>3, <2>2, RemovedOnce
  <2>6. at \in Int /\ 1 <= at /\ at <= n
    BY <1>1, <1>3
  <2>7. ASSUME Shows(b), b.graphs = c.graphs, b.record = a.record, Numbered(a) PROVE Numbered(b)
    <3> HIDE DEF n
    <3>1. DOMAIN b.graphs = 1 .. n - 1
      BY <2>4, <2>5, <2>7, WholeParts
    <3> DEFINE Old(k) == IF k < at THEN k ELSE k + 1
    <3>2. \A k \in 1 .. n - 1 : Index(b, k) = Index(a, Old(k))
      BY <2>5, <2>7 DEF Index
    <3>3. \A k \in 1 .. n - 1 : Old(k) \in 1 .. n /\ Old(k) >= k
      BY <1>1, <2>6
    <3>4. \A k \in 1 .. n - 1 : \A j \in 1 .. k - 1 : j \in 1 .. n - 1 /\ Old(j) \in 1 .. Old(k) - 1
      BY <1>1, <2>6
    <3> HIDE DEF Old
    <3>5. \A k \in 1 .. n : Index(a, k) \in Nat /\ Index(a, k) >= k /\ \A j \in 1 .. k - 1 : Index(a, j) < Index(a, k)
      BY <1>1, <2>7 DEF Numbered
    <3>6. ASSUME NEW k \in 1 .. n - 1
          PROVE  Index(b, k) \in Nat /\ Index(b, k) >= k /\ \A j \in 1 .. k - 1 : Index(b, j) < Index(b, k)
      <4>1. Index(a, Old(k)) \in Nat /\ Index(a, Old(k)) >= Old(k)
        BY <3>3, <3>5
      <4>2. Old(k) \in Int /\ Old(k) >= k /\ k \in Int
        BY <1>1, <3>3
      <4>3. \A j \in 1 .. k - 1 : Index(a, Old(j)) < Index(a, Old(k))
        BY <3>3, <3>4, <3>5
      <4>4. \A j \in 1 .. k - 1 : Index(b, j) = Index(a, Old(j))
        BY <3>2, <3>4
      <4>5. Index(b, k) = Index(a, Old(k))
        BY <3>2
      <4> QED
        BY <4>1, <4>2, <4>3, <4>4, <4>5
    <3> QED
      BY <3>1, <3>6 DEF Numbered
  <2>8. CASE c.graphs = <<>>
    <3>1. b = Refresh(c)
      BY <2>1, <2>8 DEF OnRemove
    <3>2. Shows(b) /\ b.graphs = c.graphs /\ b.record = c.record
      BY <2>4, <3>1, Refreshing
    <3> QED
      BY <1>1, <1>3, <2>3, <2>4, <2>5, <2>7, <3>2
  <2>9. CASE c.graphs # <<>>
    <3> DEFINE v == View(a)
               w == RemoveAt(v, at)
               u == UpdateIndexes(w, at, Len(v) - 1)
    <3>1. v \in Seq(Nodes) /\ Len(v) = n
      BY <1>1, ViewIsSeq
    <3>2. \A k \in 1 .. n : v[k] = [record |-> a.graphs[k], shown |-> Index(a, k), viewIndex |-> k]
      BY <1>1, ViewIsSeq
    <3>3. b = [c EXCEPT !.nodes = u]
      BY <1>1, <2>1, <2>3, <2>9 DEF OnRemove
    <3>4. b = [graphs |-> c.graphs, record |-> c.record, nodes |-> u]
      BY <2>4, <3>3 DEF Whole
    <3> HIDE DEF v, n
    <3>5. TakenOut(Nodes, v, at)
      <4>1. at \in 1 .. Len(v) /\ v \in Seq(Nodes)
        BY <1>3, <3>1
      <4> QED
        BY <4>1, Removing
    <3>6. /\ w \in Seq(Nodes) /\ Len(w) = n - 1
          /\ \A k \in 1 .. n - 1 : w[k] = IF k < at THEN v[k] ELSE v[k + 1]
      BY <3>1, <3>5 DEF TakenOut
    <3>7. DOMAIN w = 1 .. n - 1
      BY <3>6, LenProperties
    <3> HIDE DEF w
    <3>8. u = [k \in 1 .. n - 1 |-> IF k \in at .. n - 1 THEN [w[k] EXCEPT !.viewIndex = k] ELSE w[k]]
      BY <3>1, <3>7 DEF UpdateIndexes
    <3>9. View(c) = [k \in 1 .. n - 1 |-> [record |-> c.graphs[k], shown |-> Index(c, k), viewIndex |-> k]]
      BY <2>4, <2>5, WholeParts DEF View, Index, n
    <3>10. ASSUME NEW k \in 1 .. n - 1
           PROVE  (IF k \in at .. n - 1 THEN [w[k] EXCEPT !.viewIndex = k] ELSE w[k])
                    = [record |-> c.graphs[k], shown |-> Index(c, k), viewIndex |-> k]
      <4>1. CASE k < at
        <5>1. k \in 1 .. n /\ k \notin at .. n - 1
          BY <1>1, <2>6, <4>1 DEF n
        <5>2. c.graphs[k] = a.graphs[k] /\ Index(c, k) = Index(a, k) /\ w[k] = v[k]
          BY <2>3, <2>5, <3>6, <4>1 DEF Index, n
        <5> QED
          BY <3>2, <5>1, <5>2
      <4>2. CASE ~(k < at)
        <5>1. k \in at .. n - 1 /\ k + 1 \in 1 .. n
          BY <1>1, <2>6, <4>2 DEF n
        <5>2. w[k] = v[k + 1] /\ c.graphs[k] = a.graphs[k + 1]
          BY <2>5, <3>6, <4>2 DEF n
        <5>3. Index(c, k) = Index(a, k + 1)
          BY <2>3, <5>2 DEF Index
        <5>4. v[k + 1] = [record |-> a.graphs[k + 1], shown |-> Index(a, k + 1), viewIndex |-> k + 1]
          BY <3>2, <5>1
        <5> QED
          BY <5>1, <5>2, <5>3, <5>4
      <4> QED
        BY <4>1, <4>2
    <3>11. u = View(c)
      BY <3>8, <3>9, <3>10
    <3>12. b.graphs = c.graphs /\ b.record = c.record /\ b.nodes = u
      BY <3>4
    <3>13. View(b) = View(c)
      BY <3>12 DEF View
    <3>14. Whole(b)
      BY <2>4, <3>4, <3>12 DEF Whole
    <3>15. Shows(b)
      BY <3>11, <3>12, <3>13, <3>14 DEF Shows
    <3> QED
      BY <1>3, <2>3, <2>4, <2>5, <2>7, <3>12, <3>15 DEF n
  <2> QED
    BY <2>8, <2>9
<1> QED
  BY <1>2, <1>3

\* Where a record is in the store.
LEMMA Places ==
  ASSUME NEW a, Whole(a), NEW r
  PROVE  /\ r \in ToSet(a.graphs) => IndexOf(a, r) \in 1 .. Len(a.graphs) /\ a.graphs[IndexOf(a, r)] = r
         /\ r \notin ToSet(a.graphs) => IndexOf(a, r) = 0
         /\ \A k \in 1 .. Len(a.graphs) : IndexOf(a, a.graphs[k]) = k
<1> DEFINE n == Len(a.graphs)
<1>1. DOMAIN a.graphs = 1 .. n /\ ToSet(a.graphs) = {a.graphs[k] : k \in 1 .. n}
  BY WholeParts
<1>2. \A j, k \in 1 .. n : a.graphs[j] = a.graphs[k] => j = k
  BY WholeParts
<1>3. ASSUME NEW q \in ToSet(a.graphs)
      PROVE  IndexOf(a, q) \in 1 .. n /\ a.graphs[IndexOf(a, q)] = q
  <2>1. \E k \in 1 .. n : a.graphs[k] = q
    BY <1>1
  <2> QED
    BY <1>1, <2>1 DEF IndexOf
<1>4. r \notin ToSet(a.graphs) => IndexOf(a, r) = 0
  BY DEF IndexOf
<1>5. ASSUME NEW k \in 1 .. n PROVE IndexOf(a, a.graphs[k]) = k
  <2>1. a.graphs[k] \in ToSet(a.graphs)
    BY <1>1
  <2>2. IndexOf(a, a.graphs[k]) \in 1 .. n /\ a.graphs[IndexOf(a, a.graphs[k])] = a.graphs[k]
    BY <1>3, <2>1
  <2> QED
    BY <1>2, <2>2
<1> QED
  BY <1>3, <1>4, <1>5

(* graphStore.remove() of a record *)
LEMMA RecordRemoves ==
  ASSUME NEW a, Shows(a), NEW r, NEW b, b = StoreRemove(a, r)
  PROVE  /\ Shows(b) /\ b.record = a.record /\ ToSet(b.graphs) = ToSet(a.graphs) \ {r}
         /\ Len(b.graphs) \in {Len(a.graphs) - 1, Len(a.graphs)}
         /\ Numbered(a) => Numbered(b)
<1> DEFINE at == IndexOf(a, r)
<1>1. Whole(a)
  BY DEF Shows
<1>2. b = StoreRemoveAt(a, at)
  BY DEF StoreRemove
<1>3. /\ r \in ToSet(a.graphs) => at \in 1 .. Len(a.graphs) /\ a.graphs[at] = r
      /\ r \notin ToSet(a.graphs) => at = 0
  BY <1>1, Places
<1> HIDE DEF at
<1>4. ToSet(b.graphs) = ToSet(a.graphs) \ (IF at \in 1 .. Len(a.graphs) THEN {a.graphs[at]} ELSE {})
  BY <1>2, StoreRemoves
<1>5. /\ Shows(b) /\ b.record = a.record
      /\ Len(b.graphs) \in {Len(a.graphs) - 1, Len(a.graphs)}
      /\ Numbered(a) => Numbered(b)
  BY <1>2, StoreRemoves
<1>6. ToSet(b.graphs) = ToSet(a.graphs) \ {r}
  <2>1. CASE r \in ToSet(a.graphs)
    BY <1>3, <1>4, <2>1
  <2>2. CASE r \notin ToSet(a.graphs)
    <3>1. at \notin 1 .. Len(a.graphs)
      BY <1>3, <2>2
    <3> QED
      BY <1>4, <2>2, <3>1
  <2> QED
    BY <2>1, <2>2
<1> QED
  BY <1>5, <1>6

(* updateGraphRecords(): the indices are the places again. *)
LEMMA Updating ==
  ASSUME NEW a, Shows(a), NEW b, b = UpdateGraphRecords(a)
  PROVE  /\ Shows(b) /\ Numbered(b) /\ b.graphs = a.graphs /\ DOMAIN b.record = DOMAIN a.record
         /\ \A r \in DOMAIN a.record :
              b.record[r].key = a.record[r].key /\ b.record[r].targets = a.record[r].targets
<1> DEFINE n == Len(a.graphs)
           New(r) == IF r \in ToSet(a.graphs) THEN [a.record[r] EXCEPT !.index = IndexOf(a, r)]
                     ELSE a.record[r]
           rec == [r \in DOMAIN a.record |-> New(r)]
           c == [a EXCEPT !.record = rec]
           new == [k \in DOMAIN c.nodes |-> IF a.record[a.graphs[k]].index = k THEN c.nodes[k]
                                            ELSE Rendered(c, k)]
<1>1. /\ Whole(a) /\ a.nodes = View(a) /\ DOMAIN a.graphs = 1 .. n /\ n \in Nat
      /\ a = [graphs |-> a.graphs, record |-> a.record, nodes |-> a.nodes]
  BY WholeParts DEF Shows, Whole
<1>2. c = [graphs |-> a.graphs, record |-> rec, nodes |-> a.nodes]
  BY <1>1
<1>3. c.graphs = a.graphs /\ c.record = rec /\ c.nodes = a.nodes
  BY <1>2
<1>4. b = [c EXCEPT !.nodes = new]
  BY DEF UpdateGraphRecords
<1> HIDE DEF c
<1>5. b = [graphs |-> a.graphs, record |-> rec, nodes |-> new]
  BY <1>2, <1>4
<1>6. b.graphs = a.graphs /\ b.record = rec /\ b.nodes = new
  BY <1>5
<1>7. \A r \in ToSet(a.graphs) : IndexOf(a, r) \in 1 .. n
  BY <1>1, Places
<1>8. ASSUME NEW r \in DOMAIN a.record
      PROVE  /\ rec[r] \in Records /\ rec[r].key = a.record[r].key /\ rec[r].targets = a.record[r].targets
             /\ r \in ToSet(a.graphs) => rec[r].index = IndexOf(a, r)
  <2>1. a.record[r] \in Records
    BY <1>1 DEF Whole
  <2>2. CASE r \in ToSet(a.graphs)
    <3>1. IndexOf(a, r) \in Nat
      BY <1>7, <2>2
    <3>2. rec[r] = [a.record[r] EXCEPT !.index = IndexOf(a, r)]
      BY <2>2
    <3> HIDE DEF rec
    <3> QED
      BY <2>1, <3>1, <3>2 DEF Records
  <2>3. CASE r \notin ToSet(a.graphs)
    BY <2>1, <2>3
  <2> QED
    BY <2>2, <2>3
<1>9. ASSUME NEW k \in 1 .. n PROVE a.graphs[k] \in DOMAIN a.record /\ rec[a.graphs[k]].index = k
  <2>1. a.graphs[k] \in DOMAIN a.record /\ a.graphs[k] \in ToSet(a.graphs) /\ IndexOf(a, a.graphs[k]) = k
    BY <1>1, Places, WholeParts
  <2> QED
    BY <1>8, <2>1
<1>10. DOMAIN rec = DOMAIN a.record
  OBVIOUS
<1> HIDE DEF rec
<1>11. Whole(b)
  <2>1. ToSet(b.graphs) \subseteq DOMAIN b.record /\ b.graphs \in Seq(Ids) /\ IsInjective(b.graphs)
    BY <1>1, <1>6, <1>10 DEF Whole
  <2>2. b.record = [r \in DOMAIN b.record |-> b.record[r]]
    BY <1>6 DEF rec
  <2>3. b.record \in [DOMAIN b.record -> Records]
    BY <1>6, <1>8, <1>10, <2>2
  <2> QED
    BY <1>5, <1>6, <2>1, <2>3 DEF Whole
<1>12. new = View(b)
  <2>1. View(b) = [k \in 1 .. n |-> [record |-> a.graphs[k], shown |-> rec[a.graphs[k]].index, viewIndex |-> k]]
    BY <1>1, <1>6 DEF View
  <2>2. c.nodes = [k \in 1 .. n |-> [record |-> a.graphs[k], shown |-> a.record[a.graphs[k]].index, viewIndex |-> k]]
    BY <1>1, <1>3 DEF View
  <2>3. new = [k \in 1 .. n |-> IF a.record[a.graphs[k]].index = k THEN c.nodes[k] ELSE Rendered(c, k)]
    BY <2>2
  <2>4. ASSUME NEW k \in 1 .. n
        PROVE  (IF a.record[a.graphs[k]].index = k THEN c.nodes[k] ELSE Rendered(c, k))
                 = [record |-> a.graphs[k], shown |-> rec[a.graphs[k]].index, viewIndex |-> k]
    <3>1. Rendered(c, k) = [record |-> a.graphs[k], shown |-> rec[a.graphs[k]].index, viewIndex |-> k]
      BY <1>3 DEF Rendered, Render
    <3>2. CASE a.record[a.graphs[k]].index = k
      BY <1>9, <2>2, <3>2
    <3> QED
      BY <3>1, <3>2
  <2> HIDE DEF new
  <2> QED
    BY <2>1, <2>3, <2>4
<1>13. Numbered(b)
  <2>1. \A k \in 1 .. n : Index(b, k) = k
    BY <1>6, <1>9 DEF Index
  <2>2. DOMAIN b.graphs = 1 .. n
    BY <1>1, <1>6
  <2>3. ASSUME NEW k \in 1 .. n
        PROVE Index(b, k) \in Nat /\ Index(b, k) >= k /\ \A j \in 1 .. k - 1 : Index(b, j) < Index(b, k)
    <3>1. \A j \in 1 .. k - 1 : j \in 1 .. n
      BY <1>1
    <3> QED
      BY <1>1, <2>1, <3>1
  <2> QED
    BY <2>2, <2>3 DEF Numbered
<1> HIDE DEF new
<1> QED
  BY <1>6, <1>8, <1>10, <1>11, <1>12, <1>13 DEF Shows

--------------------------------------------------------------------------------
(* The inductive invariant of the area *)

\* What the edits of the menu and the breakout need: selectedRecord is there as long as a
\* menu is shown, and every record that is in use has its entry.
AreaInv ==
  /\ Shows(Area) /\ Numbered(Area)
  /\ DOMAIN record = InUse
  /\ {selected, drag} \subseteq Ids \cup {None}
  /\ menu = "shown" => selected # None
  /\ breakout.results \in Lists

InKeyOf(a, r) == a.record[r].key.targets = a.record[r].targets

\* What a handler leaves of the records, but for "Remove Outer Call".
Extends(a, b) ==
  /\ DOMAIN a.record \subseteq DOMAIN b.record
  /\ \A r \in DOMAIN a.record : InKeyOf(a, r) => InKeyOf(b, r)

Good(a) == Shows(a) /\ Numbered(a)

LEMMA ExtendsTrans ==
  ASSUME NEW a, NEW b, NEW c, Extends(a, b), Extends(b, c)
  PROVE  Extends(a, c)
BY DEF Extends

\* A record, new or not, gets other targets: the view does not see it.
LEMMA Changed ==
  ASSUME NEW a, Shows(a), NEW rec, DOMAIN a.record \subseteq DOMAIN rec,
         rec \in [DOMAIN rec -> Records],
         \A r \in ToSet(a.graphs) : rec[r].index = a.record[r].index,
         NEW b, b = [a EXCEPT !.record = rec]
  PROVE  Shows(b) /\ b.graphs = a.graphs /\ b.record = rec
<1>1. /\ Whole(a) /\ a.nodes = View(a)
      /\ a = [graphs |-> a.graphs, record |-> a.record, nodes |-> a.nodes]
  BY DEF Shows, Whole
<1>2. b = [graphs |-> a.graphs, record |-> rec, nodes |-> a.nodes]
  BY <1>1
<1>3. b.graphs = a.graphs /\ b.record = rec /\ b.nodes = a.nodes
  BY <1>2
<1>4. Whole(b)
  BY <1>1, <1>2, <1>3 DEF Whole
<1>5. \A k \in DOMAIN a.graphs : a.graphs[k] \in ToSet(a.graphs)
  BY DEF ToSet
<1>6. View(b) = View(a)
  BY <1>3, <1>5 DEF View
<1> QED
  BY <1>1, <1>3, <1>4, <1>6 DEF Shows

\* A record that is made and put into the store
LEMMA NewInserted ==
  ASSUME NEW a, Shows(a), NEW r \in Ids, r \notin ToSet(a.graphs),
         NEW key \in Keys, NEW ts \in Lists, key.targets = ts,
         NEW at \in 1 .. Len(a.graphs) + 1,
         NEW b, b = StoreInsert(WithNew(a, r, key, ts), at, r)
  PROVE  Shows(b) /\ Extends(a, b)
<1> DEFINE new == [key |-> key, targets |-> ts, index |-> None]
           rec == [i \in DOMAIN a.record \cup {r} |-> IF i = r THEN new ELSE a.record[i]]
           c == WithNew(a, r, key, ts)
<1>1. Whole(a)
  BY DEF Shows
<1>2. new \in Records
  BY DEF Records
<1>3. /\ DOMAIN rec = DOMAIN a.record \cup {r} /\ rec[r] = new
      /\ \A i \in DOMAIN a.record : i # r => rec[i] = a.record[i]
  OBVIOUS
<1>4. rec \in [DOMAIN rec -> Records]
  BY <1>1, <1>2 DEF Whole
<1>5. c = [a EXCEPT !.record = rec]
  BY DEF WithNew
<1>6. \A i \in ToSet(a.graphs) : rec[i].index = a.record[i].index
  BY <1>1, <1>3 DEF Whole
<1> HIDE DEF rec, c
<1>7. Shows(c) /\ c.graphs = a.graphs /\ c.record = rec
  BY <1>3, <1>4, <1>5, <1>6, Changed
<1>8. b = StoreInsert(c, at, r)
  BY DEF c
<1>9. Shows(b) /\ b.record = rec
  BY <1>3, <1>7, <1>8, StoreInserts
<1>10. Extends(a, b)
  <2>1. new.key.targets = new.targets
    OBVIOUS
  <2> QED
    BY <1>3, <1>9, <2>1 DEF Extends, InKeyOf
<1> QED
  BY <1>9, <1>10

\* There was no free record for a graph: the step does not happen.
Full(a) ==
  /\ a = [graphs |-> a.graphs, record |-> a.record, nodes |-> a.nodes]
  /\ a.graphs \in Seq(Ids \cup {None}) /\ None \in ToSet(a.graphs)

LEMMA FullStays ==
  ASSUME NEW a, a = [graphs |-> a.graphs, record |-> a.record, nodes |-> a.nodes],
         a.graphs \in Seq(Ids \cup {None}),
         NEW r \in Ids \cup {None}, NEW at \in 1 .. Len(a.graphs) + 1,
         r = None \/ (at = Len(a.graphs) + 1 /\ Full(a)),
         NEW key, NEW ts, NEW b, b = StoreInsert(WithNew(a, r, key, ts), at, r)
  PROVE  Full(b) /\ Full(UpdateGraphRecords(b)) /\ Full(RefreshGraphs(b))
<1> DEFINE P == Ids \cup {None}
           n == Len(a.graphs)
           g == a.graphs
           h == InsertAt(a.graphs, at, r)
           c == WithNew(a, r, key, ts)
           d == [c EXCEPT !.graphs = InsertAt(@, at, r)]
           IsArea(x) == x = [graphs |-> x.graphs, record |-> x.record, nodes |-> x.nodes]
<1>1. /\ h \in Seq(P) /\ Len(h) = n + 1
      /\ \A k \in 1 .. n + 1 : h[k] = IF k < at THEN g[k] ELSE IF k = at THEN r ELSE g[k - 1]
  <2>1. at \in 1 .. Len(g) + 1 /\ g \in Seq(P) /\ r \in P
    OBVIOUS
  <2> HIDE DEF P
  <2>2. PutIn(P, g, at, r)
    BY <2>1, Inserting
  <2> QED
    BY <2>2 DEF PutIn
<1>2. n \in Nat /\ DOMAIN g = 1 .. n /\ DOMAIN h = 1 .. n + 1
  BY <1>1, LenProperties
<1>3. None \in ToSet(h)
  <2>1. at \in Int /\ 1 <= at /\ at <= n + 1
    BY <1>2
  <2>2. CASE r = None
    <3>1. at \in 1 .. n + 1 /\ h[at] = None
      BY <1>1, <2>1, <2>2
    <3> HIDE DEF h
    <3> QED
      BY <1>2, <3>1 DEF ToSet
  <2>3. CASE at = n + 1 /\ Full(a)
    <3>1. PICK k \in 1 .. n : g[k] = None
      BY <1>2, <2>3 DEF Full, ToSet
    <3>2. k \in 1 .. n + 1 /\ k < at
      BY <1>2, <2>3
    <3>3. h[k] = None
      BY <1>1, <3>1, <3>2
    <3> HIDE DEF h
    <3> QED
      BY <1>2, <3>2, <3>3 DEF ToSet
  <2> QED
    BY <2>2, <2>3
<1>4. IsArea(c) /\ c.graphs = g
  BY DEF WithNew
<1>5. IsArea(d) /\ d.graphs = h
  BY <1>4
<1> HIDE DEF c, d, h
<1>6. ASSUME NEW x, IsArea(x), NEW nodes2, NEW y, y = [x EXCEPT !.nodes = nodes2]
      PROVE  IsArea(y) /\ y.graphs = x.graphs
  BY <1>6
<1>7. ASSUME NEW x, IsArea(x), x.graphs = h PROVE Full(x)
  BY <1>1, <1>3, <1>7 DEF Full
<1>8. ASSUME NEW x, IsArea(x) PROVE IsArea(Refresh(x)) /\ Refresh(x).graphs = x.graphs
  BY <1>6, <1>8 DEF Refresh
<1>9. b = OnAdd(d, at)
  BY DEF StoreInsert, c, d
<1>10. IsArea(b) /\ b.graphs = h
  <2>1. CASE d.nodes = <<>>
    BY <1>5, <1>8, <1>9, <2>1 DEF OnAdd
  <2>2. CASE d.nodes # <<>>
    <3>1. \E nodes2 : b = [d EXCEPT !.nodes = nodes2]
      BY <1>9, <2>2 DEF OnAdd
    <3> QED
      BY <1>5, <1>6, <3>1
  <2> QED
    BY <2>1, <2>2
<1>11. IsArea(UpdateGraphRecords(b)) /\ UpdateGraphRecords(b).graphs = h
  <2>1. \E rec2, nodes2 : UpdateGraphRecords(b) = [[b EXCEPT !.record = rec2] EXCEPT !.nodes = nodes2]
    BY Zenon DEF UpdateGraphRecords
  <2>2. PICK rec2, nodes2 : UpdateGraphRecords(b) = [[b EXCEPT !.record = rec2] EXCEPT !.nodes = nodes2]
    BY <2>1
  <2> DEFINE e == [b EXCEPT !.record = rec2]
  <2>3. IsArea(e) /\ e.graphs = h
    BY <1>10
  <2>4. UpdateGraphRecords(b) = [e EXCEPT !.nodes = nodes2]
    BY <2>2
  <2> HIDE DEF e
  <2> QED
    BY <1>6, <2>3, <2>4
<1>12. IsArea(RefreshGraphs(b)) /\ RefreshGraphs(b).graphs = h
  BY <1>8, <1>11 DEF RefreshGraphs
<1> QED
  BY <1>7, <1>10, <1>11, <1>12

(* addGraph() of a record that is consistent, with the bound on the records *)
LEMMA Adding ==
  ASSUME NEW a, Good(a) \/ Full(a), NEW key \in Keys, NEW ts \in Lists, key.targets = ts,
         NEW b, b = AddGraph(a, key, ts)
  PROVE  \/ Good(a) /\ Good(b) /\ Extends(a, b)
         \/ Full(b)
<1> DEFINE r == Fresh(a)
           at == Len(a.graphs) + 1
           c == StoreInsert(WithNew(a, r, key, ts), at, r)
<1>1. b = UpdateGraphRecords(c)
  BY DEF AddGraph
<1>2. /\ a = [graphs |-> a.graphs, record |-> a.record, nodes |-> a.nodes]
      /\ a.graphs \in Seq(Ids \cup {None}) /\ Len(a.graphs) \in Nat
  <2>1. CASE Full(a)
    BY <2>1, LenProperties DEF Full
  <2>2. CASE Good(a)
    <3>1. a.graphs \in Seq(Ids)
      BY <2>2 DEF Good, Shows, Whole
    <3>2. Seq(Ids) \subseteq Seq(Ids \cup {None})
      OBVIOUS
    <3> QED
      BY <2>2, <3>1, <3>2, LenProperties DEF Good, Shows, Whole
  <2> QED
    BY <2>1, <2>2
<1>3. at \in 1 .. Len(a.graphs) + 1
  BY <1>2
<1>4. Free(a) \subseteq Ids \ ToSet(a.graphs)
  BY DEF Free
<1>5. r = None \/ (r \in Ids /\ r \notin ToSet(a.graphs))
  BY <1>4 DEF Fresh
<1> HIDE DEF r, at, c
<1>6. CASE r = None \/ Full(a)
  <2>1. r \in Ids \cup {None} /\ (r = None \/ (at = Len(a.graphs) + 1 /\ Full(a)))
    BY <1>5, <1>6 DEF at
  <2> QED
    BY <1>1, <1>2, <1>3, <2>1, FullStays DEF c
<1>7. CASE r # None /\ Good(a)
  <2>1. Shows(c) /\ Extends(a, c)
    BY <1>3, <1>5, <1>7, NewInserted DEF Good, c
  <2>2. /\ Shows(b) /\ Numbered(b) /\ DOMAIN b.record = DOMAIN c.record
        /\ \A i \in DOMAIN c.record :
             b.record[i].key = c.record[i].key /\ b.record[i].targets = c.record[i].targets
    BY <1>1, <2>1, Updating
  <2>3. Extends(c, b)
    BY <2>2 DEF Extends, InKeyOf
  <2> QED
    BY <1>7, <2>1, <2>2, <2>3, ExtendsTrans DEF Good
<1> QED
  BY <1>6, <1>7

(* graphAreaToggle() *)
LEMMA Toggling ==
  ASSUME NEW a, Good(a) \/ Full(a), NEW key \in Keys, NEW ts \in Lists, key.targets = ts,
         NEW mayRemove \in BOOLEAN, NEW mayAdd \in BOOLEAN, Full(a) => ~mayRemove,
         NEW b, b = Toggle(a, key, ts, mayRemove, mayAdd)
  PROVE  \/ Good(a) /\ Good(b) /\ Extends(a, b)
         \/ Full(b)
<1>1. CASE Find(a, key) # 0 /\ mayRemove
  <2>1. b = StoreRemoveAt(a, Find(a, key)) /\ Good(a)
    BY <1>1 DEF Toggle
  <2>2. Shows(b) /\ b.record = a.record /\ Numbered(b)
    BY <2>1, StoreRemoves DEF Good
  <2> QED
    BY <2>1, <2>2 DEF Good, Extends, InKeyOf
<1>2. CASE ~(Find(a, key) # 0 /\ mayRemove) /\ Find(a, key) = 0 /\ mayAdd
  <2>1. b = AddGraph(a, key, ts)
    BY <1>2 DEF Toggle
  <2> QED
    BY <2>1, Adding
<1>3. CASE ~(Find(a, key) # 0 /\ mayRemove) /\ ~(Find(a, key) = 0 /\ mayAdd)
  <2>1. b = a
    BY <1>3 DEF Toggle
  <2> QED
    BY <2>1 DEF Extends
<1> QED
  BY <1>1, <1>2, <1>3

--------------------------------------------------------------------------------
(* The end of a handler *)

LEMMA AreaFields == Area.graphs = graphs /\ Area.record = record /\ Area.nodes = nodes
BY DEF Area

LEMMA SetFull ==
  ASSUME NEW b, Full(b)
  PROVE  ~SetArea(b)
BY IdsAssumption DEF SetArea, Full

LEMMA AreaSet ==
  ASSUME AreaInv, NEW b, Good(b), DOMAIN record \subseteq DOMAIN b.record, SetArea(b),
         {selected', drag'} \subseteq InUse \cup {None},
         menu' = "shown" => selected' # None,
         breakout'.results \in Lists
  PROVE  /\ AreaInv'
         /\ \A r \in DOMAIN record' :
              /\ r \in DOMAIN b.record
              /\ record'[r].key = b.record[r].key /\ record'[r].targets = b.record[r].targets
<1> DEFINE used == ToSet(b.graphs) \cup ({selected', drag'} \ {None})
           New(r) == IF r \in ToSet(b.graphs) THEN b.record[r] ELSE [b.record[r] EXCEPT !.index = None]
<1>1. graphs' = b.graphs /\ nodes' = b.nodes /\ ToSet(b.graphs) \subseteq Ids
  BY DEF SetArea
<1>2. InUse' = used
  BY <1>1 DEF InUse
<1>3. record' = [r \in InUse' |-> New(r)]
  BY DEF SetArea
<1>4. Whole(b) /\ b.nodes = View(b)
  BY DEF Good, Shows
<1>5. InUse \subseteq Ids
  <2>1. Whole(Area) /\ Area.graphs = graphs
    BY AreaFields DEF AreaInv, Shows
  <2>3. ToSet(graphs) \subseteq Ids
    BY <2>1, GraphsAreIds
  <2> QED
    BY <2>3 DEF AreaInv, InUse
<1>6. used \subseteq DOMAIN b.record /\ used \subseteq Ids
  BY <1>1, <1>4, <1>5 DEF AreaInv, Whole
<1>7. ASSUME NEW r \in used
      PROVE  /\ r \in DOMAIN b.record /\ New(r) \in Records
             /\ New(r).key = b.record[r].key /\ New(r).targets = b.record[r].targets
             /\ r \in ToSet(b.graphs) => New(r).index = b.record[r].index
  <2>1. r \in DOMAIN b.record /\ b.record[r] \in Records
    BY <1>4, <1>6 DEF Whole
  <2>2. CASE r \in ToSet(b.graphs)
    BY <2>1, <2>2
  <2>3. CASE r \notin ToSet(b.graphs)
    <3>1. New(r) = [b.record[r] EXCEPT !.index = None]
      BY <2>3
    <3> HIDE DEF New
    <3> QED
      BY <2>1, <2>3, <3>1 DEF Records
  <2> QED
    BY <2>2, <2>3
<1> HIDE DEF New
<1>8. DOMAIN record' = used /\ \A r \in used : record'[r] = New(r)
  BY <1>2, <1>3
<1>9. record' \in [DOMAIN record' -> Records]
  <2>1. record' = [r \in used |-> New(r)]
    BY <1>2, <1>3
  <2> QED
    BY <1>7, <1>8, <2>1
<1> HIDE DEF used
<1>10. Area' = [graphs |-> graphs', record |-> record', nodes |-> nodes']
  BY DEF Area
<1>11. Area'.graphs = b.graphs /\ Area'.record = record' /\ Area'.nodes = b.nodes
  BY <1>1, <1>10
<1> DEFINE a2 == Area'
<1>20. a2 = [graphs |-> a2.graphs, record |-> a2.record, nodes |-> a2.nodes]
  BY <1>1, <1>10, <1>11
<1>21. a2.graphs = b.graphs /\ a2.record = record' /\ a2.nodes = b.nodes
  BY <1>11
<1> HIDE DEF a2
<1>12. ToSet(b.graphs) \subseteq used
  BY DEF used
<1>13. Whole(a2)
  BY <1>4, <1>8, <1>9, <1>12, <1>20, <1>21 DEF Whole
<1>14. \A k \in DOMAIN b.graphs : b.graphs[k] \in ToSet(b.graphs)
  BY DEF ToSet
<1>15. \A k \in DOMAIN b.graphs : record'[b.graphs[k]].index = b.record[b.graphs[k]].index
  BY <1>7, <1>8, <1>12, <1>14
<1>16. View(a2) = View(b)
  BY <1>15, <1>21 DEF View
<1>17. Shows(a2)
  BY <1>4, <1>13, <1>16, <1>21 DEF Shows
<1>18. Numbered(a2)
  <2>1. DOMAIN b.graphs = 1 .. Len(b.graphs) /\ Len(b.graphs) \in Nat
    BY <1>4, WholeParts
  <2>2. \A k \in DOMAIN b.graphs : Index(a2, k) = Index(b, k)
    BY <1>15, <1>21 DEF Index
  <2>3. \A k \in DOMAIN b.graphs : \A j \in 1 .. k - 1 : j \in DOMAIN b.graphs
    BY <2>1
  <2> QED
    BY <1>21, <2>2, <2>3 DEF Numbered, Good
<1>19. {selected', drag'} \subseteq Ids \cup {None}
  BY <1>5
<1>22. DOMAIN record' = InUse'
  BY <1>2, <1>8
<1>23. AreaInv'
  BY <1>17, <1>18, <1>19, <1>22 DEF AreaInv, a2
<1> QED
  BY <1>7, <1>8, <1>23

\* What a step does to the keys of the graphs that stay.
KeysKept == \A r \in ToSet(graphs) \cap ToSet(graphs') : InKey(r) => InKey(r)'

LEMMA AreaKept ==
  ASSUME AreaInv, NEW b, (Good(b) /\ Extends(Area, b)) \/ Full(b), SetArea(b),
         {selected', drag'} \subseteq InUse \cup {None},
         menu' = "shown" => selected' # None,
         breakout'.results \in Lists
  PROVE  AreaInv' /\ KeysKept
<1>1. Good(b) /\ Extends(Area, b)
  BY SetFull
<1>2. DOMAIN record \subseteq DOMAIN b.record
  BY <1>1, AreaFields DEF Extends
<1>3. /\ AreaInv'
      /\ \A r \in DOMAIN record' :
           /\ r \in DOMAIN b.record
           /\ record'[r].key = b.record[r].key /\ record'[r].targets = b.record[r].targets
  BY <1>1, <1>2, AreaSet
<1>4. DOMAIN record = InUse /\ DOMAIN record' = InUse'
  BY <1>3 DEF AreaInv
<1>5. ToSet(graphs) \subseteq InUse /\ ToSet(graphs') \subseteq InUse'
  BY DEF InUse
<1>6. ASSUME NEW r \in ToSet(graphs) \cap ToSet(graphs'), InKey(r) PROVE InKey(r)'
  <2>1. r \in DOMAIN record /\ r \in DOMAIN record'
    BY <1>4, <1>5
  <2>2. InKeyOf(Area, r)
    BY <1>6, AreaFields DEF InKey, InKeyOf
  <2>3. InKeyOf(b, r)
    BY <1>1, <2>1, <2>2, AreaFields DEF Extends
  <2> QED
    BY <1>3, <2>1, <2>3 DEF InKey, InKeyOf
<1> QED
  BY <1>3, <1>6 DEF KeysKept

LEMMA AreaUnchanged ==
  ASSUME AreaInv, UNCHANGED <<graphs, record, nodes, drag>>, selected' = selected,
         menu' = "shown" => selected' # None,
         breakout'.results \in Lists
  PROVE  AreaInv' /\ KeysKept
<1>1. Area' = Area
  BY DEF Area
<1>2. InUse' = InUse
  BY DEF InUse
<1>3. AreaInv'
  BY <1>1, <1>2 DEF AreaInv
<1>4. KeysKept
  BY DEF KeysKept, InKey
<1> QED
  BY <1>3, <1>4

--------------------------------------------------------------------------------
(* Lists of targets *)

HasBound(X) == \E m \in Nat : \A x \in X : x <= m

LEMMA Bounded ==
  ASSUME NEW X \in SUBSET Nat, IsFiniteSet(X)
  PROVE  HasBound(X)
<1> DEFINE S == {n \in Nat : \A Y \in SUBSET Nat : IsFiniteSet(Y) /\ Cardinality(Y) = n => HasBound(Y)}
<1>1. 0 \in S
  BY FS_EmptySet DEF HasBound
<1>2. ASSUME NEW n \in Nat, n \in S PROVE n + 1 \in S
  <2> SUFFICES \A Y \in SUBSET Nat : IsFiniteSet(Y) /\ Cardinality(Y) = n + 1 => HasBound(Y)
    OBVIOUS
  <2> SUFFICES ASSUME NEW Y \in SUBSET Nat, IsFiniteSet(Y), Cardinality(Y) = n + 1 PROVE HasBound(Y)
    OBVIOUS
  <2>6. Y # {}
    BY FS_EmptySet
  <2>1. PICK y \in Y : TRUE
    BY <2>6
  <2> DEFINE Z == Y \ {y}
  <2>7. IsFiniteSet(Z) /\ Cardinality(Z) = IF y \in Y THEN Cardinality(Y) - 1 ELSE Cardinality(Y)
    BY <2>1, FS_RemoveElement
  <2>2. Z \in SUBSET Nat /\ IsFiniteSet(Z) /\ Cardinality(Z) = n
    BY <2>1, <2>7
  <2>8. HasBound(Z)
    <3> HIDE DEF Z
    <3> QED
      BY <1>2, <2>2
  <2>3. PICK m \in Nat : \A x \in Y \ {y} : x <= m
    BY <2>8 DEF HasBound
  <2>4. CASE y <= m
    BY <2>3, <2>4 DEF HasBound
  <2>5. CASE ~(y <= m)
    <3>1. y \in Nat /\ \A x \in Y : x <= y
      BY <2>3, <2>5
    <3> QED
      BY <3>1 DEF HasBound
  <2> QED
    BY <2>4, <2>5
<1> HIDE DEF S
<1>3. Nat \subseteq S
  BY <1>1, <1>2, Induct
<1>4. Cardinality(X) \in Nat
  BY FS_CardinalityType
<1> QED
  BY <1>3, <1>4 DEF S

\* The elements of a set of numbers, in order.
LEMMA KthIsElement ==
  ASSUME NEW X \in SUBSET Nat, IsFiniteSet(X), NEW k \in 1 .. Cardinality(X)
  PROVE  Kth(X, k) \in X /\ Cardinality({j \in X : j <= Kth(X, k)}) = k
<1> DEFINE Up(i) == {j \in X : j <= i}
           c(i) == Cardinality(Up(i))
           T == {i \in Nat : c(i) >= k}
<1>1. Cardinality(X) \in Nat /\ k \in Nat /\ k >= 1 /\ k <= Cardinality(X)
  BY FS_CardinalityType
<1>2. \A i \in Nat : IsFiniteSet(Up(i)) /\ c(i) \in Nat
  <2> TAKE i \in Nat
  <2>1. Up(i) \in SUBSET X
    OBVIOUS
  <2>2. IsFiniteSet(Up(i))
    BY <2>1, FS_Subset
  <2> QED
    BY <2>2, FS_CardinalityType
<1>3. T # {} /\ T \subseteq Nat
  <2>1. PICK m \in Nat : \A x \in X : x <= m
    BY Bounded DEF HasBound
  <2>2. Up(m) = X
    BY <2>1
  <2>3. m \in T
    BY <1>1, <2>2
  <2> QED
    BY <2>3
<1>4. PICK i \in T : \A j \in T : ~(<<j, i>> \in OpToRel(<, Nat))
  <2> HIDE DEF T
  <2> QED
    BY <1>3, NatLessThanWellFounded, WFMin
<1>5. i \in Nat /\ c(i) >= k /\ \A j \in Nat : j < i => ~(c(j) >= k)
  BY <1>4 DEF OpToRel
<1>6. i \in X /\ c(i) = k
  <2>1. CASE i = 0
    <3>1. Up(0) \subseteq {0}
      <4>1. \A j \in X : j <= 0 => j = 0
        OBVIOUS
      <4> QED
        BY <4>1
    <3>2. Up(0) # {}
      BY <1>1, <1>5, <2>1, FS_EmptySet
    <3>3. Up(0) = {0}
      BY <3>1, <3>2
    <3>4. c(0) = 1
      BY <3>3, FS_Singleton
    <3> QED
      BY <1>1, <1>5, <2>1, <3>3, <3>4
  <2>2. CASE i # 0
    <3>1. i - 1 \in Nat /\ ~(c(i - 1) >= k)
      <4>1. i - 1 \in Nat /\ i - 1 < i
        BY <1>5, <2>2
      <4> HIDE DEF c
      <4> QED
        BY <1>5, <4>1
    <3>2. Up(i) \ {i} = Up(i - 1)
      <4>1. \A j \in X : j <= i /\ j # i <=> j <= i - 1
        BY <1>5
      <4> QED
        BY <4>1
    <3>3. c(i - 1) = IF i \in Up(i) THEN c(i) - 1 ELSE c(i)
      BY <1>2, <1>5, <3>2, FS_RemoveElement
    <3>4. i \in Up(i)
      BY <1>5, <3>1, <3>3
    <3>5. c(i - 1) = c(i) - 1 /\ c(i) \in Nat /\ c(i - 1) \in Nat
      BY <1>2, <1>5, <3>1, <3>3, <3>4
    <3>6. c(i) = k
      <4> HIDE DEF c
      <4> QED
        BY <1>1, <1>5, <3>1, <3>5
    <3> QED
      BY <3>4, <3>6
  <2> QED
    BY <2>1, <2>2
<1>7. Kth(X, k) \in X /\ c(Kth(X, k)) = k
  BY <1>6 DEF Kth
<1> QED
  BY <1>7

LEMMA KthIsOther ==
  ASSUME NEW X \in SUBSET Nat, IsFiniteSet(X), NEW j \in 1 .. Cardinality(X), NEW k \in 1 .. Cardinality(X),
         Kth(X, j) = Kth(X, k)
  PROVE  j = k
<1>1. Cardinality({i \in X : i <= Kth(X, j)}) = j
  BY KthIsElement
<1>2. Cardinality({i \in X : i <= Kth(X, k)}) = k
  BY KthIsElement
<1> QED
  BY <1>1, <1>2

LEMMA Selecting ==
  ASSUME NEW ts \in Lists, NEW S \in SUBSET DOMAIN ts
  PROVE  /\ Cardinality(S) \in Nat
         /\ Selection(ts, S) \in Lists /\ DOMAIN Selection(ts, S) = 1 .. Cardinality(S)
         /\ \A k \in 1 .. Cardinality(S) : Selection(ts, S)[k] \in Calls
<1>1. DOMAIN ts = 1 .. Len(ts) /\ Len(ts) \in Nat
  BY LenProperties DEF Lists
<1>2. IsFiniteSet(S) /\ S \subseteq Nat
  <2>1. IsFiniteSet(1 .. Len(ts))
    BY <1>1, FS_Interval
  <2> QED
    BY <1>1, <2>1, FS_Subset
<1>3. Cardinality(S) \in Nat
  BY <1>2, FS_CardinalityType
<1>4. \A k \in 1 .. Cardinality(S) : Kth(S, k) \in S
  BY <1>2, KthIsElement
<1>5. \A i \in 1 .. Len(ts) : ts[i] \in Calls
  BY ElementOfSeq DEF Lists
<1>6. Selection(ts, S) \in [1 .. Cardinality(S) -> Calls]
  BY <1>1, <1>4, <1>5 DEF Selection
<1> QED
  BY <1>3, <1>6 DEF Lists

LEMMA Uniq ==
  ASSUME NEW ts \in Lists
  PROVE  uniq(ts) \in Lists
BY Selecting DEF uniq

\* A function is applied to targets.
LEMMA Calling ==
  ASSUME NEW ts \in Lists
  PROVE  /\ FlattenSeq([k \in DOMAIN ts |-> ts[k].args]) \in Seq(Metrics)
         /\ Call(ts) \in Calls
<1> DEFINE seqs == [k \in DOMAIN ts |-> ts[k].args]
<1>1. DOMAIN ts = 1 .. Len(ts) /\ Len(ts) \in Nat /\ \A k \in 1 .. Len(ts) : ts[k] \in Calls
  BY LenProperties, ElementOfSeq DEF Lists
<1>2. \A k \in 1 .. Len(ts) : ts[k].args \in Seq(Metrics)
  BY <1>1 DEF Calls
<1>3. seqs \in [1 .. Len(ts) -> Seq(Metrics)]
  BY <1>1, <1>2
<1>4. seqs \in Seq(Seq(Metrics))
  BY <1>1, <1>3
<1> HIDE DEF seqs
<1>5. FlattenSeq(seqs) \in Seq(Metrics)
  BY <1>4, Flattening
<1> QED
  BY <1>5 DEF seqs, Call, Calls

LEMMA Breaking ==
  ASSUME NEW ts \in Lists
  PROVE  SetToSeq(ExprInfo(ts)) \in Lists
<1>1. DOMAIN ts = 1 .. Len(ts) /\ Len(ts) \in Nat /\ \A k \in 1 .. Len(ts) : ts[k] \in Calls
  BY LenProperties, ElementOfSeq DEF Lists
<1> DEFINE D == {k \in DOMAIN ts : \E p \in ToSet(ts[k].args) :
                   \A j \in k + 1 .. Len(ts) : ~Contains(ts[j].args, p)}
           f == [k \in D |-> ts[k]]
<1>2. ExprInfo(ts) = {ts[k] : k \in D}
  BY DEF ExprInfo
<1>3. D \subseteq 1 .. Len(ts)
  BY <1>1
<1> HIDE DEF D
<1>4. IsFiniteSet(D)
  <2>1. IsFiniteSet(1 .. Len(ts))
    BY <1>1, FS_Interval
  <2> QED
    BY <1>3, <2>1, FS_Subset
<1>5. f \in Surjection(D, ExprInfo(ts))
  BY <1>2 DEF Surjection
<1> HIDE DEF f
<1>6. IsFiniteSet(ExprInfo(ts))
  BY <1>4, <1>5, FS_Surjection
<1>7. ExprInfo(ts) \in SUBSET Calls
  BY <1>1, <1>2, <1>3
<1> QED
  BY <1>6, <1>7, Listing DEF Lists

(* The answer of a breakout goes through the expressions, one after the other. *)
Added(a, t) == Toggle(a, RawKey(t), <<t>>, FALSE, TRUE)
AddTrace(h, a, ts, N) == h[0] = a /\ h[N] = AddEach(a, ts) /\ \A n \in 1 .. N : h[n] = Added(h[n - 1], ts[n])

LEMMA AddingTrace ==
  ASSUME NEW a, NEW N \in Nat, NEW ts, DOMAIN ts = 1 .. N
  PROVE  \E h : AddTrace(h, a, ts, N)
<1> DEFINE After(g, n) == Toggle(g, RawKey(ts[n]), <<ts[n]>>, FALSE, TRUE)
           Body(g, s) == IF s = {} THEN a ELSE After(g[s \ {Max(s)}], Max(s))
           Iter(g, n) == g = [s \in SUBSET (1 .. n) |-> Body(g, s)]
           iter == CHOOSE g : Iter(g, N)
           S == {n \in Nat : \E g : Iter(g, n)}
<1>1. AddEach(a, ts) = iter[1 .. N]
  BY DEF AddEach, FoldLeft, MapThenFoldSet
<1> HIDE DEF After
<1>2. 0 \in S
  <2>1. Iter([s \in SUBSET (1 .. 0) |-> a], 0)
    OBVIOUS
  <2> QED
    BY <2>1
<1>3. ASSUME NEW n \in Nat, n \in S PROVE n + 1 \in S
  <2>1. PICK g : Iter(g, n)
    BY <1>3
  <2> DEFINE g2 == [s \in SUBSET (1 .. n + 1) |->
                      IF n + 1 \in s THEN After(g[s \ {n + 1}], n + 1) ELSE g[s]]
  <2>2. ASSUME NEW s \in SUBSET (1 .. n + 1), n + 1 \in s PROVE g2[s] = Body(g2, s)
    <3>1. Max(s) = n + 1
      BY <2>2, Greatest
    <3>2. s \ {n + 1} \in SUBSET (1 .. n + 1) /\ n + 1 \notin s \ {n + 1}
      OBVIOUS
    <3> QED
      BY <2>2, <3>1, <3>2
  <2>3. ASSUME NEW s \in SUBSET (1 .. n + 1), n + 1 \notin s PROVE g2[s] = Body(g2, s)
    <3>1. s \in SUBSET (1 .. n)
      BY <2>3
    <3>2. g2[s] = Body(g, s)
      BY <2>1, <2>3, <3>1
    <3>3. CASE s = {}
      BY <3>2, <3>3
    <3>4. CASE s # {}
      <4>1. Max(s) \in s
        BY <3>1, <3>4, GreatestIsElement
      <4>2. s \ {Max(s)} \in SUBSET (1 .. n + 1) /\ n + 1 \notin s \ {Max(s)}
        BY <2>3
      <4> QED
        BY <3>2, <3>4, <4>2
    <3> QED
      BY <3>3, <3>4
  <2>4. Iter(g2, n + 1)
    BY <2>2, <2>3
  <2> HIDE DEF g2, Iter
  <2> QED
    BY <2>4
<1> HIDE DEF S
<1>4. N \in S
  BY <1>2, <1>3, Induct
<1>5. Iter(iter, N)
  BY <1>4 DEF S
<1> HIDE DEF iter
<1> DEFINE h == [n \in 0 .. N |-> iter[1 .. n]]
<1>6. h[0] = a
  BY <1>5
<1>7. ASSUME NEW n \in 1 .. N PROVE h[n] = After(h[n - 1], n)
  <2>1. 1 .. n \in SUBSET (1 .. N) /\ n \in 1 .. n
    OBVIOUS
  <2>2. (1 .. n) \ {n} = 1 .. n - 1
    OBVIOUS
  <2>3. Max(1 .. n) = n
    BY <2>1, Greatest
  <2>4. iter[1 .. n] = After(iter[1 .. n - 1], n)
    BY <1>5, <2>1, <2>2, <2>3
  <2> QED
    BY <2>4
<1>8. h[N] = AddEach(a, ts)
  BY <1>1
<1> HIDE DEF h
<1> QED
  BY <1>6, <1>7, <1>8 DEF After, Added, AddTrace

LEMMA AddingEach ==
  ASSUME NEW a, Good(a), NEW ts \in Lists, NEW b, b = AddEach(a, ts)
  PROVE  (Good(b) /\ Extends(a, b)) \/ Full(b)
<1> DEFINE N == Len(ts)
           Fine(c) == (Good(c) /\ Extends(a, c)) \/ Full(c)
<1>1. DOMAIN ts = 1 .. N /\ N \in Nat /\ \A n \in 1 .. N : ts[n] \in Calls
  BY LenProperties, ElementOfSeq DEF Lists
<1> HIDE DEF N
<1>2. PICK h : AddTrace(h, a, ts, N)
  BY <1>1, AddingTrace
<1> DEFINE S == {n \in Nat : n \in 0 .. N => Fine(h[n])}
<1>3. 0 \in S
  <2>1. Extends(a, a)
    BY DEF Extends
  <2> QED
    BY <1>2, <2>1 DEF AddTrace
<1>4. ASSUME NEW n \in Nat, n \in S PROVE n + 1 \in S
  <2> SUFFICES ASSUME n + 1 \in 0 .. N PROVE Fine(h[n + 1])
    OBVIOUS
  <2>1. n + 1 \in 1 .. N /\ n \in 0 .. N /\ (n + 1) - 1 = n
    BY <1>1
  <2> DEFINE c == h[n]
             d == h[n + 1]
             t == ts[n + 1]
  <2>2. d = Toggle(c, RawKey(t), <<t>>, FALSE, TRUE)
    BY <1>2, <2>1 DEF AddTrace, Added
  <2>3. Fine(c)
    BY <1>4, <2>1
  <2>4. t \in Calls
    BY <1>1, <2>1
  <2>5. <<t>> \in Lists /\ RawKey(t) \in Keys /\ RawKey(t).targets = <<t>>
    BY <2>4 DEF RawKey, Keys, Lists, Calls
  <2> HIDE DEF c, d, t
  <2>6. (Good(c) /\ Good(d) /\ Extends(c, d)) \/ Full(d)
    BY <2>2, <2>3, <2>5, Toggling
  <2>8. Good(c) => ~Full(c)
    BY IdsAssumption, GraphsAreIds DEF Good, Shows, Full
  <2>7. Fine(d)
    BY <2>3, <2>6, <2>8, ExtendsTrans
  <2> QED
    BY <2>7 DEF d
<1> HIDE DEF S
<1>5. N \in S
  BY <1>1, <1>3, <1>4, Induct
<1>6. Fine(h[N])
  BY <1>1, <1>5 DEF S
<1> QED
  BY <1>2, <1>6 DEF AddTrace

--------------------------------------------------------------------------------
(* The steps *)

LEMMA AreaIsGood ==
  ASSUME AreaInv
  PROVE  /\ Good(Area) /\ Shows(Area) /\ Whole(Area) /\ Extends(Area, Area)
         /\ DOMAIN graphs = 1 .. Len(graphs) /\ Len(graphs) \in Nat /\ ToSet(graphs) \subseteq Ids
         /\ DOMAIN nodes = 1 .. Len(graphs)
         /\ \A k \in DOMAIN nodes : nodes[k].viewIndex = k /\ graphs[k] \in ToSet(graphs)
<1>1. Good(Area) /\ Shows(Area) /\ Whole(Area)
  BY DEF AreaInv, Good, Shows
<1>2. DOMAIN graphs = 1 .. Len(graphs) /\ Len(graphs) \in Nat /\ ToSet(graphs) \subseteq Ids
  BY <1>1, AreaFields, WholeParts, GraphsAreIds
<1>3. nodes = [k \in DOMAIN graphs |-> [record |-> graphs[k], shown |-> record[graphs[k]].index, viewIndex |-> k]]
  BY <1>1, AreaFields DEF Shows, View
<1>4. Extends(Area, Area)
  BY DEF Extends
<1> QED
  BY <1>1, <1>2, <1>3, <1>4 DEF ToSet

\* A handler that ends with updateGraphRecords(), or with refreshGraphs() on top of it
LEMMA Updated ==
  ASSUME NEW a, Shows(a), NEW b, b = UpdateGraphRecords(a) \/ b = RefreshGraphs(a)
  PROVE  /\ Good(b) /\ Extends(a, b) /\ b.graphs = a.graphs /\ DOMAIN b.record = DOMAIN a.record
         /\ \A r \in DOMAIN a.record :
              b.record[r].key = a.record[r].key /\ b.record[r].targets = a.record[r].targets
<1> DEFINE c == UpdateGraphRecords(a)
<1>1. /\ Shows(c) /\ Numbered(c) /\ c.graphs = a.graphs /\ DOMAIN c.record = DOMAIN a.record
      /\ \A r \in DOMAIN a.record :
           c.record[r].key = a.record[r].key /\ c.record[r].targets = a.record[r].targets
  BY Updating
<1>2. b = c \/ b = Refresh(c)
  BY DEF RefreshGraphs
<1> HIDE DEF c
<1>3. Shows(b) /\ b.graphs = c.graphs /\ b.record = c.record
  BY <1>1, <1>2, Refreshing DEF Shows
<1>4. Numbered(b)
  BY <1>1, <1>3 DEF Numbered, Index
<1>5. Extends(a, b)
  BY <1>1, <1>3 DEF Extends, InKeyOf
<1> QED
  BY <1>1, <1>3, <1>4, <1>5 DEF Good

LEMMA SameUI ==
  ASSUME AreaInv, UNCHANGED <<selected, drag, breakout>>, menu' \in {menu, AfterMouseDown, "gone", None}
  PROVE  /\ {selected', drag'} \subseteq InUse \cup {None}
         /\ menu' = "shown" => selected' # None
         /\ breakout'.results \in Lists
BY MenuAssumption DEF AreaInv, InUse, AfterMouseDown

LEMMA KeptByUI ==
  ASSUME AreaInv, UNCHANGED <<selected, drag, breakout>>, menu' \in {menu, AfterMouseDown, "gone", None},
         NEW b, (Good(b) /\ Extends(Area, b)) \/ Full(b), SetArea(b)
  PROVE  AreaInv' /\ KeysKept
BY SameUI, AreaKept

LEMMA TargetsAreLists ==
  /\ \A m \in Metrics : <<Metric(m)>> \in Lists /\ Metric(m) \in Calls
  /\ Targets \subseteq Calls
  /\ TargetLists \subseteq Lists
<1>1. \A m \in Metrics : <<m>> \in Seq(Metrics)
  OBVIOUS
<1>2. \A m \in Metrics : Metric(m) \in Calls
  BY <1>1 DEF Metric, Calls
<1>3. Targets \subseteq Calls
  <2>1. \A m \in Metrics : [call |-> TRUE, args |-> <<m>>] \in Calls
    BY <1>1 DEF Calls
  <2> QED
    BY <1>2, <2>1 DEF Targets
<1>4. \A t \in Calls : <<t>> \in Lists
  BY DEF Lists
<1> QED
  BY <1>2, <1>3, <1>4 DEF TargetLists

LEMMA KeysAreKeys ==
  /\ \A ts \in Lists : Encode(ts) \in Keys /\ Encode(ts).targets = ts
  /\ \A t \in Calls : RawKey(t) \in Keys /\ RawKey(t).targets = <<t>>
<1>1. \A ts \in Lists : Encode(ts) \in Keys /\ Encode(ts).targets = ts
  BY DEF Encode, Keys
<1>2. \A t \in Calls : <<t>> \in Lists /\ t.call \in BOOLEAN
  BY DEF Lists, Calls
<1>3. \A t \in Calls : RawKey(t) \in Keys /\ RawKey(t).targets = <<t>>
  BY <1>2 DEF RawKey, Keys
<1> QED
  BY <1>1, <1>3

LEMMA StepToggle ==
  ASSUME AreaInv, NEW m \in Metrics, ToggleMetric(m) \/ NewFromMetric(m)
  PROVE  AreaInv' /\ KeysKept
<1> DEFINE ts == <<Metric(m)>>
<1>1. /\ ts \in Lists /\ Metric(m) \in Calls /\ Encode(ts) \in Keys /\ Encode(ts).targets = ts
      /\ RawKey(Metric(m)) \in Keys /\ RawKey(Metric(m)).targets = ts
  BY TargetsAreLists, KeysAreKeys
<1>2. Good(Area) /\ ~Full(Area)
  BY AreaIsGood, AreaFields, IdsAssumption DEF Full
<1> HIDE DEF ts
<1>3. CASE ToggleMetric(m)
  <2>1. UNCHANGED UI
    BY <1>3 DEF ToggleMetric
  <2>2. PICK mayRemove \in BOOLEAN, mayAdd \in BOOLEAN :
          SetArea(Toggle(Area, RawKey(Metric(m)), ts, mayRemove, mayAdd))
    BY <1>3 DEF ToggleMetric, ts
  <2> DEFINE b == Toggle(Area, RawKey(Metric(m)), ts, mayRemove, mayAdd)
  <2>3. (Good(b) /\ Extends(Area, b)) \/ Full(b)
    BY <1>1, <1>2, Toggling
  <2> HIDE DEF b
  <2> QED
    BY <2>1, <2>2, <2>3, KeptByUI DEF UI, b
<1>4. CASE NewFromMetric(m)
  <2>1. UNCHANGED <<selected, drag, breakout>> /\ menu' = AfterMouseDown
    BY <1>4 DEF NewFromMetric
  <2> DEFINE b == AddGraph(Area, Encode(ts), ts)
  <2>2. SetArea(b)
    BY <1>4 DEF NewFromMetric, ts
  <2>3. (Good(b) /\ Extends(Area, b)) \/ Full(b)
    BY <1>1, <1>2, Adding
  <2> HIDE DEF b
  <2> QED
    BY <2>1, <2>2, <2>3, KeptByUI
<1> QED
  BY <1>3, <1>4

LEMMA StepImport ==
  ASSUME AreaInv, NEW ts \in TargetLists, ImportGraphUrl(ts)
  PROVE  AreaInv' /\ KeysKept
<1>1. ts \in Lists /\ Encode(ts) \in Keys /\ Encode(ts).targets = ts
  BY TargetsAreLists, KeysAreKeys
<1>2. Good(Area) /\ ~Full(Area)
  BY AreaIsGood, AreaFields, IdsAssumption DEF Full
<1>3. UNCHANGED <<selected, drag, breakout>> /\ menu' = AfterMouseDown
  BY DEF ImportGraphUrl
<1> DEFINE b == Toggle(Area, Encode(ts), ts, TRUE, TRUE)
<1>4. SetArea(b)
  BY DEF ImportGraphUrl
<1>5. (Good(b) /\ Extends(Area, b)) \/ Full(b)
  BY <1>1, <1>2, Toggling
<1> HIDE DEF b
<1> QED
  BY <1>3, <1>4, <1>5, KeptByUI

LEMMA Emptied ==
  ASSUME AreaInv, NEW a, a = RemoveAll(Area)
  PROVE  Shows(a) /\ a.graphs = <<>> /\ a.record = record
<1> DEFINE c == [Area EXCEPT !.graphs = <<>>]
<1>1. c = [graphs |-> <<>>, record |-> record, nodes |-> nodes]
  BY DEF Area
<1>2. c.graphs = <<>> /\ c.record = record /\ c = [graphs |-> c.graphs, record |-> c.record, nodes |-> c.nodes]
  BY <1>1
<1>3. a = Refresh(c)
  BY DEF RemoveAll
<1> HIDE DEF c
<1>4. <<>> \in Seq(Ids) /\ IsInjective(<<>>) /\ ToSet(<<>>) = {}
  BY DEF IsInjective, ToSet
<1>5. Whole(c)
  BY <1>2, <1>4, AreaIsGood, AreaFields DEF Whole
<1> QED
  BY <1>2, <1>3, <1>5, Refreshing

LEMMA StepRefresh ==
  ASSUME AreaInv, RemoveAllGraphs \/ RefreshNow
  PROVE  AreaInv' /\ KeysKept
<1>1. UNCHANGED <<selected, drag, breakout, menu>>
  BY DEF RemoveAllGraphs, RefreshNow, UI
<1>2. PICK a \in {Area, RemoveAll(Area)} : SetArea(RefreshGraphs(a))
  BY DEF RemoveAllGraphs, RefreshNow
<1>3. Shows(a) /\ a.record = record
  BY <1>2, Emptied, AreaIsGood, AreaFields
<1>4. Good(RefreshGraphs(a)) /\ Extends(a, RefreshGraphs(a))
  BY <1>3, Updated
<1>5. Extends(Area, RefreshGraphs(a))
  BY <1>3, <1>4, AreaFields DEF Extends, InKeyOf
<1> QED
  BY <1>1, <1>2, <1>4, <1>5, KeptByUI

LEMMA StepClose ==
  ASSUME AreaInv, NEW at, CloseButton(at)
  PROVE  AreaInv' /\ KeysKept
<1>1. UNCHANGED <<selected, drag, breakout>> /\ menu' = AfterMouseDown
  BY DEF CloseButton
<1> DEFINE a == StoreRemoveAt(Area, nodes[at].shown)
           b == UpdateGraphRecords(a)
<1>2. SetArea(b)
  BY Zenon DEF CloseButton
<1>3. Shows(a) /\ a.record = record
  BY AreaIsGood, AreaFields, StoreRemoves
<1> HIDE DEF a
<1>4. Good(b) /\ Extends(a, b)
  BY <1>3, Updated
<1>5. Extends(Area, b)
  BY <1>3, <1>4, AreaFields DEF Extends, InKeyOf
<1> HIDE DEF b
<1> QED
  BY <1>1, <1>2, <1>4, <1>5, KeptByUI

\* A graph that was saved may have a key that is behind its targets.
LEMMA SavedAreRecords == SavedGraphs \subseteq Records
<1>1. ASSUME NEW ts \in TargetLists, NEW k \in SavedKeys(ts)
      PROVE  [key |-> k, targets |-> ts, index |-> None] \in Records
  <2>1. PICK t \in Targets : ts = <<t>>
    BY DEF TargetLists
  <2>2. t \in Calls /\ ts \in Lists /\ ts[1] \in Calls
    BY <2>1, TargetsAreLists
  <2>3. Call(ts) \in Calls
    BY <2>2, Calling
  <2>4. <<Call(ts)>> \in Lists
    BY <2>3 DEF Lists
  <2>5. k \in Keys
    BY <2>2, <2>3, <2>4, KeysAreKeys DEF SavedKeys
  <2> QED
    BY <2>2, <2>5 DEF Records
<1>2. ASSUME NEW g \in SavedGraphs PROVE g \in Records
  <2>1. \E ts \in TargetLists :
          g \in {[key |-> k, targets |-> ts, index |-> None] : k \in SavedKeys(ts)}
    BY DEF SavedGraphs
  <2>2. \E ts \in TargetLists : \E k \in SavedKeys(ts) : g = [key |-> k, targets |-> ts, index |-> None]
    BY <2>1
  <2> QED
    BY <1>1, <2>2
<1> QED
  BY <1>2

LEMMA StepLoad ==
  ASSUME AreaInv, NEW gs \in BoundedSeq(SavedGraphs, 2), LoadGraphs(gs)
  PROVE  AreaInv' /\ KeysKept
<1> DEFINE F == Free(Area)
           n == Len(gs)
           news == [k \in DOMAIN gs |-> Kth(F, k)]
           New(r) == gs[CHOOSE k \in DOMAIN news : news[k] = r]
           rec == [r \in DOMAIN Area.record \cup ToSet(news) |->
                     IF r \in ToSet(news) THEN New(r) ELSE Area.record[r]]
           b == [graphs |-> news, record |-> rec, nodes |-> nodes]
           c == RefreshGraphs(Refresh(b))
<1>1. UNCHANGED <<selected, drag, breakout, menu>>
  BY DEF LoadGraphs, UI
<1>2. Len(gs) <= Cardinality(F)
  BY DEF LoadGraphs
<1>3. n \in Nat /\ DOMAIN gs = 1 .. n /\ \A k \in 1 .. n : gs[k] \in Records
  <2>1. PICK m \in 0 .. 2 : gs \in [1 .. m -> SavedGraphs]
    BY DEF BoundedSeq, SeqOf
  <2>2. gs \in Seq(Records)
    BY <2>1, SavedAreRecords
  <2> QED
    BY <2>2, LenProperties, ElementOfSeq
<1>4. F \subseteq Ids /\ F \in SUBSET Nat /\ IsFiniteSet(F) /\ Cardinality(F) \in Nat
  <2>1. F \subseteq Ids
    BY DEF Free
  <2> HIDE DEF F
  <2>2. IsFiniteSet(F)
    BY <2>1, IdsAssumption, FS_Subset
  <2> QED
    BY <2>1, <2>2, IdsAssumption, FS_CardinalityType
<1>5. SetArea(c)
  <2>1. PICK x : x = [Area EXCEPT !.graphs = news, !.record = rec]
    OBVIOUS
  <2>2. SetArea(RefreshGraphs(Refresh(x)))
    BY <2>1, Zenon DEF LoadGraphs
  <2> HIDE DEF rec, news
  <2>3. x = b
    BY <2>1 DEF Area
  <2> QED
    BY <2>2, <2>3
<1>6a. \A r \in F : r \notin DOMAIN record
  <2>1. F \cap (ToSet(graphs) \cup {selected, drag}) = {}
    BY AreaFields DEF Free
  <2> QED
    BY <2>1 DEF AreaInv, InUse
<1> HIDE DEF F
<1>6. \A k \in 1 .. n : Kth(F, k) \in F
  <2> TAKE k \in 1 .. n
  <2>1. k \in 1 .. Cardinality(F)
    BY <1>2, <1>3, <1>4
  <2> QED
    BY <1>4, <2>1, KthIsElement
<1>7. \A j, k \in 1 .. n : Kth(F, j) = Kth(F, k) => j = k
  <2> TAKE j, k \in 1 .. n
  <2>1. j \in 1 .. Cardinality(F) /\ k \in 1 .. Cardinality(F)
    BY <1>2, <1>3, <1>4
  <2> QED
    BY <1>4, <2>1, KthIsOther
<1>8. /\ news \in Seq(Ids) /\ IsInjective(news) /\ ToSet(news) = {news[k] : k \in 1 .. n}
      /\ DOMAIN news = 1 .. n /\ \A k \in 1 .. n : news[k] \in F
  <2>1. news \in [1 .. n -> Ids]
    BY <1>3, <1>4, <1>6
  <2>2. \A j, k \in 1 .. n : news[j] = news[k] => j = k
    BY <1>3, <1>7
  <2>3. \A k \in 1 .. n : news[k] \in F
    BY <1>3, <1>6
  <2> HIDE DEF news
  <2> QED
    BY <1>3, <2>1, <2>2, <2>3 DEF IsInjective, ToSet
<1> HIDE DEF news
<1>9. ASSUME NEW r \in ToSet(news) PROVE New(r) \in Records
  <2>1. \E k \in DOMAIN news : news[k] = r
    BY <1>8
  <2>2. (CHOOSE k \in DOMAIN news : news[k] = r) \in DOMAIN news
    BY <2>1
  <2> QED
    BY <1>3, <1>8, <2>2
<1> HIDE DEF New
<1>10. Whole(Area) /\ Area.record = record
  BY AreaIsGood, AreaFields
<1>11. \A r \in DOMAIN record : record[r] \in Records
  BY <1>10 DEF Whole
<1>12. rec \in [DOMAIN rec -> Records] /\ ToSet(news) \subseteq DOMAIN rec
  BY <1>9, <1>10, <1>11
<1>13. \A r \in DOMAIN record : r \in DOMAIN rec /\ rec[r] = record[r]
  <2>1. ToSet(news) \cap DOMAIN record = {}
    BY <1>6a, <1>8
  <2> QED
    BY <1>10, <2>1
<1> HIDE DEF rec
<1>14. b.graphs = news /\ b.record = rec /\ b = [graphs |-> b.graphs, record |-> b.record, nodes |-> b.nodes]
  OBVIOUS
<1> HIDE DEF b
<1>15. Whole(b)
  BY <1>8, <1>12, <1>14 DEF Whole
<1> DEFINE d == Refresh(b)
<1>16. Shows(d) /\ d.record = rec
  BY <1>14, <1>15, Refreshing
<1>17. c = RefreshGraphs(d)
  OBVIOUS
<1> HIDE DEF c, d
<1>18. Good(c) /\ Extends(d, c)
  BY <1>16, <1>17, Updated
<1>19. Extends(Area, d)
  BY <1>10, <1>13, <1>16 DEF Extends, InKeyOf
<1>20. Extends(Area, c)
  BY <1>18, <1>19, ExtendsTrans
<1> QED
  BY <1>1, <1>5, <1>18, <1>20, KeptByUI

LEMMA StepDrag ==
  ASSUME AreaInv, NEW at \in DOMAIN nodes, DragStart(at)
  PROVE  AreaInv' /\ KeysKept
<1>1. /\ drag = None /\ drag' = graphs[at] /\ drag' \in ToSet(graphs)
      /\ menu' = AfterMouseDown /\ UNCHANGED <<graphs, record, nodes, selected, breakout>>
  BY AreaIsGood DEF DragStart
<1>2. Area' = Area
  BY <1>1 DEF Area
<1>3. InUse' = InUse
  <2>1. ToSet(graphs) \subseteq Ids
    BY AreaIsGood
  <2> QED
    BY <1>1, <2>1, IdsAssumption DEF InUse
<1>4. drag' \in Ids
  BY <1>1, AreaIsGood
<1>5. menu' # "shown"
  BY <1>1 DEF AfterMouseDown
<1>6. AreaInv'
  BY <1>1, <1>2, <1>3, <1>4, <1>5 DEF AreaInv
<1> QED
  BY <1>1, <1>6 DEF KeysKept, InKey

LEMMA StepDragEnd ==
  ASSUME AreaInv, DragEnd
  PROVE  AreaInv' /\ KeysKept
<1>1. drag' = None /\ UNCHANGED <<selected, menu, breakout>> /\ SetArea(Area)
  BY DEF DragEnd
<1>2. {selected', drag'} \subseteq InUse \cup {None}
  BY <1>1 DEF InUse
<1> QED
  BY <1>1, <1>2, AreaIsGood, AreaKept DEF AreaInv

LEMMA StepClick ==
  ASSUME AreaInv, NEW at \in DOMAIN nodes, ClickGraph(at)
  PROVE  AreaInv' /\ KeysKept
<1> DEFINE r == graphs[nodes[at].viewIndex]
<1>1. r \in ToSet(graphs) /\ r # None
  BY AreaIsGood, IdsAssumption
<1>2. GraphClicked(r) /\ UNCHANGED <<drag, breakout>> /\ SetArea(Area)
  BY DEF ClickGraph
<1> HIDE DEF r
<1>3. /\ selected' \in {selected, None, r}
      /\ menu' = "shown" => selected' # None
  BY <1>1, <1>2, MenuAssumption DEF GraphClicked, AfterMouseDown, AreaInv
<1>4. {selected', drag'} \subseteq InUse \cup {None}
  BY <1>1, <1>2, <1>3 DEF InUse
<1>5. breakout'.results \in Lists
  BY <1>2 DEF AreaInv
<1> QED
  BY <1>2, <1>3, <1>4, <1>5, AreaIsGood, AreaKept

LEMMA StepOutside ==
  ASSUME AreaInv, ClickOutside
  PROVE  AreaInv' /\ KeysKept
<1>1. menu' = "gone" /\ UNCHANGED <<graphs, record, nodes, selected, drag, breakout>>
  BY DEF ClickOutside
<1>2. breakout'.results \in Lists
  BY <1>1 DEF AreaInv
<1> QED
  BY <1>1, <1>2, AreaUnchanged

\* The key and the targets of a record are set.
Rewrite(a, r, key, ts) == [a EXCEPT !.record[r].key = key, !.record[r].targets = ts]
Rewrites(a, r, key, ts, b) ==
  /\ b.graphs = a.graphs /\ DOMAIN b.record = DOMAIN a.record
  /\ b.record[r].key = key /\ b.record[r].targets = ts
  /\ \A i \in DOMAIN a.record : i # r => b.record[i] = a.record[i]

LEMMA Rewritten ==
  ASSUME NEW a, Shows(a), NEW r \in DOMAIN a.record, NEW key \in Keys, NEW ts \in Lists,
         NEW b, b = Rewrite(a, r, key, ts)
  PROVE  Shows(b) /\ Rewrites(a, r, key, ts, b)
<1> DEFINE new == [key |-> key, targets |-> ts, index |-> a.record[r].index]
           rec == [a.record EXCEPT ![r] = new]
<1>1. Whole(a)
  BY DEF Shows
<1>2. a.record[r] \in Records /\ a.record \in [DOMAIN a.record -> Records]
  BY <1>1 DEF Whole
<1>3. new \in Records
  BY <1>2 DEF Records
<1>4. /\ DOMAIN rec = DOMAIN a.record /\ rec[r] = new
      /\ \A i \in DOMAIN a.record : i # r => rec[i] = a.record[i]
  BY <1>2
<1>5. rec \in [DOMAIN rec -> Records]
  BY <1>2, <1>3
<1>6. b = [a EXCEPT !.record = rec]
  <2>1. a = [graphs |-> a.graphs, record |-> a.record, nodes |-> a.nodes]
    BY <1>1 DEF Whole
  <2>2. PICK x : x = [a.record[r] EXCEPT !.key = key]
    OBVIOUS
  <2>3. PICK y : y = [x EXCEPT !.targets = ts]
    OBVIOUS
  <2>4. y = new
    BY <1>2, <2>2, <2>3 DEF Records
  <2>5. PICK rec1 : rec1 = [a.record EXCEPT ![r].key = key]
    OBVIOUS
  <2>6. PICK rec2 : rec2 = [rec1 EXCEPT ![r].targets = ts]
    OBVIOUS
  <2>7. rec1 = [a.record EXCEPT ![r] = x]
    BY <2>2, <2>5
  <2>8. rec1[r] = x /\ DOMAIN rec1 = DOMAIN a.record
    BY <1>2, <2>7
  <2>9. rec2 = [rec1 EXCEPT ![r] = y]
    BY <2>3, <2>6, <2>8
  <2>10. rec2 = rec
    BY <1>2, <2>4, <2>7, <2>9
  <2>11. PICK b1 : b1 = [a EXCEPT !.record[r].key = key]
    OBVIOUS
  <2>12. b1 = [graphs |-> a.graphs, record |-> rec1, nodes |-> a.nodes]
    BY <2>1, <2>5, <2>11
  <2>13. b1.record = rec1
    BY <2>12
  <2>14. b = [b1 EXCEPT !.record[r].targets = ts]
    BY <2>11 DEF Rewrite
  <2>19. b = [b1 EXCEPT !.record = rec2]
    BY <2>6, <2>12, <2>13, <2>14
  <2>15. b = [graphs |-> a.graphs, record |-> rec2, nodes |-> a.nodes]
    BY <2>12, <2>19
  <2>16. b = [graphs |-> a.graphs, record |-> rec, nodes |-> a.nodes]
    BY <2>10, <2>15
  <2> HIDE DEF rec
  <2>17. PICK c : c = [a EXCEPT !.record = rec]
    OBVIOUS
  <2>18. c = [graphs |-> a.graphs, record |-> rec, nodes |-> a.nodes]
    BY <2>1, <2>17
  <2> QED
    BY <2>16, <2>17, <2>18
<1>7. \A i \in ToSet(a.graphs) : rec[i].index = a.record[i].index
  BY <1>1, <1>4 DEF Whole
<1>9. DOMAIN a.record \subseteq DOMAIN rec
  BY <1>4
<1> HIDE DEF rec, new
<1>8. Shows(b) /\ b.graphs = a.graphs /\ b.record = rec
  BY <1>5, <1>6, <1>7, <1>9, Changed
<1> QED
  BY <1>4, <1>8 DEF new, Rewrites

\* onUpdate() of the view renders what is already there: the index did not change.
LEMMA Rerendered ==
  ASSUME NEW a, Shows(a), NEW at \in 1 .. Len(a.graphs), NEW b, b = OnUpdate(a, at)
  PROVE  Shows(b) /\ b.graphs = a.graphs /\ b.record = a.record
<1>1. Whole(a) /\ a.nodes = View(a) /\ DOMAIN a.graphs = 1 .. Len(a.graphs)
  BY WholeParts DEF Shows
<1>2. a = [graphs |-> a.graphs, record |-> a.record, nodes |-> a.nodes]
  BY <1>1 DEF Whole
<1>3. PICK new : new = Rendered(a, at)
  OBVIOUS
<1>4. new = [record |-> a.graphs[at], shown |-> a.record[a.graphs[at]].index, viewIndex |-> at]
  BY <1>3 DEF Rendered, Render
<1>5. a.nodes[at] = new
  BY <1>1, <1>4 DEF View
<1>6. a.nodes = [k \in DOMAIN a.nodes |-> a.nodes[k]]
  BY <1>1 DEF View
<1>7. [a.nodes EXCEPT ![at] = new] = a.nodes
  BY <1>5, <1>6
<1>8. b = [a EXCEPT !.nodes[at] = new]
  BY <1>3 DEF OnUpdate
<1>9. b = [graphs |-> a.graphs, record |-> a.record, nodes |-> a.nodes]
  BY <1>2, <1>7, <1>8
<1> QED
  BY <1>2, <1>9

LEMMA Reordering ==
  ASSUME AreaInv, drag # None, NEW at \in DOMAIN nodes, NEW b, b = Reorder(Area, at)
  PROVE  Good(b) /\ Extends(Area, b)
<1> DEFINE a == StoreRemove(Area, drag)
           c == StoreInsert(a, at, drag)
<1>1. b = UpdateGraphRecords(c)
  BY DEF Reorder
<1>2. Shows(Area) /\ Area.graphs = graphs /\ Area.record = record /\ at \in 1 .. Len(graphs) /\ Len(graphs) \in Nat
  BY AreaIsGood, AreaFields
<1>3. Shows(a) /\ a.record = record /\ Len(a.graphs) \in {Len(graphs) - 1, Len(graphs)}
  BY <1>2, RecordRemoves
<1>4. drag \notin ToSet(a.graphs)
  <2>1. ToSet(a.graphs) = ToSet(Area.graphs) \ {drag}
    BY <1>2, RecordRemoves
  <2> QED
    BY <2>1
<1> HIDE DEF a
<1>5. drag \in Ids /\ drag \in DOMAIN record
  BY DEF AreaInv, InUse
<1>6. at \in 1 .. Len(a.graphs) + 1
  BY <1>2, <1>3
<1>7. Shows(c) /\ c.record = record
  BY <1>3, <1>4, <1>5, <1>6, StoreInserts
<1> HIDE DEF c
<1>8. Good(b) /\ Extends(c, b)
  BY <1>1, <1>7, Updated
<1> QED
  BY <1>2, <1>7, <1>8 DEF Extends, InKeyOf

LEMMA Merging ==
  ASSUME AreaInv, drag # None, NEW at \in DOMAIN nodes, graphs[at] # drag, NEW b, b = Merge(Area, at)
  PROVE  Good(b) /\ Extends(Area, b)
<1> DEFINE drop == graphs[at]
           merged == uniq(record[drag].targets \o record[drop].targets)
           key == Encode(merged)
<1>1. /\ Shows(Area) /\ Whole(Area) /\ Area.graphs = graphs /\ Area.record = record /\ Area.nodes = nodes
      /\ at \in 1 .. Len(graphs) /\ nodes[at].viewIndex = at
  BY AreaIsGood, AreaFields
<1>2. drop \in DOMAIN record /\ drag \in DOMAIN record /\ IndexOf(Area, drop) = at
  BY <1>1, WholeParts, Places DEF AreaInv, InUse
<1>3. record[drag].targets \in Lists /\ record[drop].targets \in Lists
  BY <1>1, <1>2 DEF Whole, Records
<1>4. merged \in Lists
  <2>1. record[drag].targets \o record[drop].targets \in Lists
    BY <1>3, ConcatProperties DEF Lists
  <2> QED
    BY <2>1, Uniq
<1>5. key \in Keys /\ key.targets = merged
  BY <1>4, KeysAreKeys
<1>6. PICK x : x = Rewrite(Area, drop, key, merged)
  OBVIOUS
<1>7. b = UpdateGraphRecords(StoreRemove(OnUpdate(x, at), drag))
  BY <1>1, <1>2, <1>6 DEF Merge, Rewrite
<1> HIDE DEF drop, merged, key
<1>8. /\ Shows(x) /\ x.graphs = graphs /\ DOMAIN x.record = DOMAIN record
      /\ x.record[drop].key = key /\ x.record[drop].targets = merged
      /\ \A i \in DOMAIN record : i # drop => x.record[i] = record[i]
  <2>1. drop \in DOMAIN Area.record
    BY <1>1, <1>2
  <2>2. Shows(x) /\ Rewrites(Area, drop, key, merged, x)
    BY <1>1, <1>4, <1>5, <1>6, <2>1, Rewritten
  <2> QED
    BY <1>1, <2>2 DEF Rewrites
<1> DEFINE y == OnUpdate(x, at)
           z == StoreRemove(y, drag)
<1>9. Shows(y) /\ y.record = x.record
  BY <1>1, <1>8, Rerendered
<1> HIDE DEF y
<1>10. Shows(z) /\ z.record = x.record
  BY <1>9, RecordRemoves
<1>11. b = UpdateGraphRecords(z)
  BY <1>7 DEF y
<1> HIDE DEF z
<1>12. Good(b) /\ Extends(z, b)
  BY <1>10, <1>11, Updated
<1>13. Extends(Area, z)
  BY <1>1, <1>5, <1>8, <1>10 DEF Extends, InKeyOf
<1> QED
  BY <1>12, <1>13, ExtendsTrans

LEMMA StepDrop ==
  ASSUME AreaInv, NEW at \in DOMAIN nodes, Drop(at)
  PROVE  AreaInv' /\ KeysKept
<1>1. drag # None /\ drag' = None /\ UNCHANGED <<selected, menu, breakout>>
  BY DEF Drop
<1>2. PICK a \in {IF graphs[at] = drag THEN Area ELSE Reorder(Area, at),
                  IF graphs[at] = drag THEN Area ELSE Merge(Area, at)} : SetArea(a)
  BY DEF Drop
<1>3. Good(a) /\ Extends(Area, a)
  <2>1. a = Area \/ a = Reorder(Area, at) \/ (graphs[at] # drag /\ a = Merge(Area, at))
    BY <1>2
  <2> QED
    BY <1>1, <2>1, AreaIsGood, Reordering, Merging
<1>4. {selected', drag'} \subseteq InUse \cup {None}
  BY <1>1 DEF InUse
<1> QED
  BY <1>1, <1>2, <1>3, <1>4, AreaKept DEF AreaInv

KeysOfOthersKept == \A r \in ToSet(graphs) \cap ToSet(graphs') : r # selected /\ InKey(r) => InKey(r)'

LEMMA Editing ==
  ASSUME AreaInv, MenuOpen, NEW key \in Keys, NEW ts \in Lists, Edit(key, ts)
  PROVE  AreaInv' /\ KeysOfOthersKept /\ (key.targets = ts => KeysKept)
<1>1. Shows(Area) /\ Area.graphs = graphs /\ Area.record = record
  BY AreaIsGood, AreaFields
<1>2. selected \in DOMAIN record
  BY DEF MenuOpen, AreaInv, InUse
<1>3. PICK x : x = Rewrite(Area, selected, key, ts)
  OBVIOUS
<1>4. UNCHANGED <<selected, drag, breakout, menu>> /\ SetArea(RefreshGraphs(x))
  BY <1>3 DEF Edit, UI, Rewrite
<1>5. Shows(x) /\ Rewrites(Area, selected, key, ts, x)
  BY <1>1, <1>2, <1>3, Rewritten
<1> DEFINE b == RefreshGraphs(x)
<1>6. /\ Good(b) /\ Extends(x, b) /\ DOMAIN b.record = DOMAIN x.record
      /\ \A r \in DOMAIN x.record :
           b.record[r].key = x.record[r].key /\ b.record[r].targets = x.record[r].targets
  BY <1>5, Updated
<1>7. SetArea(b)
  BY <1>4
<1> HIDE DEF b
<1>8. DOMAIN x.record = DOMAIN record
  BY <1>1, <1>5 DEF Rewrites
<1>9. /\ {selected', drag'} \subseteq InUse \cup {None}
      /\ menu' = "shown" => selected' # None
      /\ breakout'.results \in Lists
  BY <1>4, SameUI
<1>10. /\ AreaInv'
       /\ \A r \in DOMAIN record' :
            record'[r].key = b.record[r].key /\ record'[r].targets = b.record[r].targets
  BY <1>6, <1>7, <1>8, <1>9, AreaSet
<1>11. KeysOfOthersKept
  <2> SUFFICES ASSUME NEW r \in ToSet(graphs) \cap ToSet(graphs'), r # selected, InKey(r) PROVE InKey(r)'
    BY DEF KeysOfOthersKept
  <2>1. r \in DOMAIN record /\ r \in DOMAIN record'
    BY <1>10 DEF AreaInv, InUse
  <2>2. x.record[r] = record[r]
    BY <1>1, <1>5, <2>1 DEF Rewrites
  <2> QED
    BY <1>6, <1>8, <1>10, <2>1, <2>2 DEF InKey
<1>12. ASSUME key.targets = ts PROVE KeysKept
  <2>1. Extends(Area, x)
    BY <1>1, <1>5, <1>12 DEF Extends, InKeyOf, Rewrites
  <2>2. Extends(Area, b)
    BY <1>6, <2>1, ExtendsTrans
  <2> QED
    BY <1>4, <1>6, <1>7, <2>2, KeptByUI
<1> QED
  BY <1>10, <1>11, <1>12

LEMMA EditingTargets ==
  ASSUME AreaInv, MenuOpen, NEW ts \in Lists, EditTargets(ts)
  PROVE  AreaInv' /\ KeysKept
BY Editing, KeysAreKeys DEF EditTargets

LEMMA NowIsList ==
  ASSUME AreaInv, MenuOpen
  PROVE  /\ Now \in Lists /\ DOMAIN Now = 1 .. Len(Now) /\ Len(Now) \in Nat
         /\ selected \in DOMAIN record /\ record[selected] \in Records
         /\ \A k \in DOMAIN Now : Now[k] \in Calls
<1>1. selected \in DOMAIN record
  BY DEF MenuOpen, AreaInv, InUse
<1>2. record[selected] \in Records
  BY <1>1, AreaIsGood, AreaFields DEF Whole
<1>3. Now \in Lists
  BY <1>2 DEF Now, Records
<1> HIDE DEF Now
<1>4. DOMAIN Now = 1 .. Len(Now) /\ Len(Now) \in Nat /\ \A k \in 1 .. Len(Now) : Now[k] \in Calls
  BY <1>3, LenProperties, ElementOfSeq DEF Lists
<1> QED
  BY <1>1, <1>2, <1>3, <1>4

LEMMA StepEdit ==
  ASSUME AreaInv, EditTarget \/ ApplyFuncToEach \/ ApplyFuncToAll
  PROVE  AreaInv' /\ KeysKept
<1>1. MenuOpen
  BY DEF EditTarget, ApplyFuncToEach, ApplyFuncToAll
<1>2. Now \in Lists /\ DOMAIN Now = 1 .. Len(Now) /\ Len(Now) \in Nat
  BY <1>1, NowIsList
<1> HIDE DEF Now
<1>3. CASE EditTarget
  <2>1. PICK k \in DOMAIN Now, t \in Targets : EditTargets([Now EXCEPT ![k] = t])
    BY <1>3 DEF EditTarget
  <2>2. [Now EXCEPT ![k] = t] \in Lists
    <3>1. t \in Calls
      BY TargetsAreLists
    <3> QED
      BY <1>2, <3>1, ExceptSeq DEF Lists
  <2> QED
    BY <1>1, <2>1, <2>2, EditingTargets
<1>4. CASE ApplyFuncToEach
  <2>1. PICK S \in Selections :
          EditTargets(Others(Now, S) \o [k \in 1 .. Cardinality(S) |-> Call(<<Selection(Now, S)[k]>>)])
    BY <1>4 DEF ApplyFuncToEach
  <2> DEFINE new == [k \in 1 .. Cardinality(S) |-> Call(<<Selection(Now, S)[k]>>)]
  <2>2. S \in SUBSET DOMAIN Now
    BY DEF Selections
  <2>3. /\ Others(Now, S) \in Lists /\ Cardinality(S) \in Nat
        /\ \A k \in 1 .. Cardinality(S) : Selection(Now, S)[k] \in Calls
    BY <1>2, <2>2, Selecting DEF Others
  <2>4. \A t \in Calls : Call(<<t>>) \in Calls
    <3> TAKE t \in Calls
    <3>1. <<t>> \in Lists
      BY DEF Lists
    <3> QED
      BY <3>1, Calling
  <2>5. new \in [1 .. Cardinality(S) -> Calls]
    BY <2>3, <2>4
  <2>8. EditTargets(Others(Now, S) \o new)
    BY <2>1
  <2> HIDE DEF new
  <2>6. new \in Lists
    BY <2>3, <2>5 DEF Lists
  <2>7. Others(Now, S) \o new \in Lists
    BY <2>3, <2>6, ConcatProperties DEF Lists
  <2> QED
    BY <1>1, <2>7, <2>8, EditingTargets
<1>5. CASE ApplyFuncToAll
  <2>1. PICK S \in Selections : EditTargets(Append(Others(Now, S), Call(Selection(Now, S))))
    BY <1>5 DEF ApplyFuncToAll
  <2>2. S \in SUBSET DOMAIN Now
    BY DEF Selections
  <2>3. Others(Now, S) \in Lists /\ Selection(Now, S) \in Lists
    BY <1>2, <2>2, Selecting DEF Others
  <2>4. Call(Selection(Now, S)) \in Calls
    BY <2>3, Calling
  <2>5. Append(Others(Now, S), Call(Selection(Now, S))) \in Lists
    BY <2>3, <2>4, AppendProperties DEF Lists
  <2> QED
    BY <1>1, <2>1, <2>5, EditingTargets
<1> QED
  BY <1>3, <1>4, <1>5

LEMMA StepOuterCall ==
  ASSUME AreaInv, RemoveOuterCall
  PROVE  AreaInv' /\ KeysOfOthersKept
<1> DEFINE args(S) == FlattenSeq([k \in 1 .. Cardinality(S) |-> Selection(Now, S)[k].args])
<1>1. MenuOpen
  BY DEF RemoveOuterCall
<1>2. /\ Now \in Lists /\ record[selected].key \in Keys
  BY <1>1, NowIsList DEF Records
<1>3. PICK S \in Selections :
        Edit(record[selected].key, Others(Now, S) \o [k \in DOMAIN args(S) |-> Metric(args(S)[k])])
  BY DEF RemoveOuterCall
<1>4. S \in SUBSET DOMAIN Now
  BY DEF Selections
<1> HIDE DEF Now
<1>5. /\ Others(Now, S) \in Lists /\ Selection(Now, S) \in Lists
      /\ DOMAIN Selection(Now, S) = 1 .. Cardinality(S)
  BY <1>2, <1>4, Selecting DEF Others
<1>6. args(S) \in Seq(Metrics)
  <2>1. FlattenSeq([k \in DOMAIN Selection(Now, S) |-> Selection(Now, S)[k].args]) \in Seq(Metrics)
    BY <1>5, Calling
  <2> QED
    BY <1>5, <2>1
<1> DEFINE as == args(S)
           new == [k \in DOMAIN as |-> Metric(as[k])]
<1> HIDE DEF args
<1>7. DOMAIN as = 1 .. Len(as) /\ Len(as) \in Nat /\ \A k \in 1 .. Len(as) : as[k] \in Metrics
  BY <1>6, LenProperties, ElementOfSeq
<1> HIDE DEF as
<1>8. new \in [1 .. Len(as) -> Calls]
  BY <1>7, TargetsAreLists
<1>10. Edit(record[selected].key, Others(Now, S) \o new)
  BY <1>3 DEF as
<1> HIDE DEF new
<1> DEFINE n == Len(as)
<1>12. n \in Nat /\ new \in [1 .. n -> Calls]
  BY <1>7, <1>8
<1> HIDE DEF n
<1>9. new \in Lists
  BY <1>12 DEF Lists
<1>11. Others(Now, S) \o new \in Lists
  BY <1>5, <1>9, ConcatProperties DEF Lists
<1> QED
  BY <1>1, <1>2, <1>10, <1>11, Editing

LEMMA StepClone ==
  ASSUME AreaInv, Clone
  PROVE  AreaInv' /\ KeysKept
<1> DEFINE r == Fresh(Area)
           key == record[selected].key
           at == IndexOf(Area, selected) + 1
           c == StoreInsert(WithNew(Area, r, key, key.targets), at, r)
           b == RefreshGraphs(c)
<1>1. MenuOpen /\ menu' = "gone" /\ UNCHANGED <<selected, drag, breakout>>
  BY DEF Clone
<1>2. SetArea(b)
  BY Zenon DEF Clone
<1>3. key \in Keys /\ key.targets \in Lists
  BY <1>1, NowIsList DEF Records, Keys
<1>4. /\ Shows(Area) /\ Area = [graphs |-> Area.graphs, record |-> Area.record, nodes |-> Area.nodes]
      /\ Area.graphs \in Seq(Ids) /\ Len(Area.graphs) \in Nat
  BY AreaIsGood, AreaFields DEF Whole
<1>5. at \in 1 .. Len(Area.graphs) + 1
  <2>1. IndexOf(Area, selected) \in 0 .. Len(Area.graphs)
    BY <1>4, AreaIsGood, Places
  <2> QED
    BY <1>4, <2>1
<1>6. r = None \/ (r \in Ids /\ r \notin ToSet(Area.graphs))
  <2>1. Free(Area) \subseteq Ids \ ToSet(Area.graphs)
    BY DEF Free
  <2> QED
    BY <2>1 DEF Fresh
<1> HIDE DEF r, key, at, c, b
<1>7. r # None
  <2> SUFFICES ASSUME r = None PROVE FALSE
    OBVIOUS
  <2>1. Area.graphs \in Seq(Ids \cup {None})
    <3>1. Seq(Ids) \subseteq Seq(Ids \cup {None})
      OBVIOUS
    <3> QED
      BY <1>4, <3>1
  <2>2. Full(RefreshGraphs(c))
    BY <1>4, <1>5, <2>1, FullStays DEF c
  <2> QED
    BY <1>2, <2>2, SetFull DEF b
<1>8. Shows(c) /\ Extends(Area, c)
  BY <1>3, <1>4, <1>5, <1>6, <1>7, NewInserted DEF c
<1>9. Good(b) /\ Extends(c, b)
  BY <1>8, Updated DEF b
<1>10. Extends(Area, b)
  BY <1>8, <1>9, ExtendsTrans
<1> QED
  BY <1>1, <1>2, <1>9, <1>10, KeptByUI

LEMMA StepBreakout ==
  ASSUME AreaInv, Breakout
  PROVE  AreaInv' /\ KeysKept
<1>1. /\ MenuOpen /\ menu' = "gone" /\ UNCHANGED <<graphs, record, nodes, selected, drag>>
      /\ breakout' = [record |-> selected, results |-> SetToSeq(ExprInfo(Now))]
  BY DEF Breakout
<1>2. SetToSeq(ExprInfo(Now)) \in Lists
  BY <1>1, NowIsList, Breaking
<1>3. breakout'.results \in Lists
  BY <1>1, <1>2
<1> QED
  BY <1>1, <1>3, AreaUnchanged

LEMMA StepAnswer ==
  ASSUME AreaInv, BreakoutAnswer \/ BreakoutFails
  PROVE  AreaInv' /\ KeysKept
<1>1. UNCHANGED <<selected, menu, drag>> /\ breakout' = NoRequest
  BY DEF BreakoutAnswer, BreakoutFails
<1>2. <<>> \in Lists
  BY DEF Lists
<1>3. /\ {selected', drag'} \subseteq InUse \cup {None}
      /\ menu' = "shown" => selected' # None
      /\ breakout'.results \in Lists
  BY <1>1, <1>2 DEF AreaInv, InUse, NoRequest
<1>4. CASE BreakoutFails
  <2>1. SetArea(Area)
    BY <1>4 DEF BreakoutFails
  <2> QED
    BY <1>3, <2>1, AreaIsGood, AreaKept
<1>5. CASE BreakoutAnswer
  <2> DEFINE a == StoreRemove(Area, breakout.record)
             ts(keep) == IF keep THEN breakout.results ELSE <<>>
  <2>1. PICK keep \in BOOLEAN : SetArea(AddEach(a, ts(keep)))
    BY <1>5 DEF BreakoutAnswer
  <2>2. ts(keep) \in Lists
    BY <1>2 DEF AreaInv
  <2>3. Shows(a) /\ a.record = record /\ Numbered(a)
    BY AreaIsGood, AreaFields, RecordRemoves DEF Good
  <2>4. Good(a) /\ Extends(Area, a)
    BY <2>3, AreaFields DEF Good, Extends, InKeyOf
  <2> HIDE DEF a, ts
  <2> DEFINE b == AddEach(a, ts(keep))
  <2>5. (Good(b) /\ Extends(a, b)) \/ Full(b)
    BY <2>2, <2>4, AddingEach
  <2>6. SetArea(b)
    BY <2>1
  <2> HIDE DEF b
  <2>7. (Good(b) /\ Extends(Area, b)) \/ Full(b)
    BY <2>4, <2>5, ExtendsTrans
  <2> QED
    BY <1>3, <2>6, <2>7, AreaKept
<1> QED
  BY <1>4, <1>5

LEMMA AreaInit == Init => AreaInv
<1> SUFFICES ASSUME Init PROVE AreaInv
  OBVIOUS
<1>1. /\ graphs = <<>> /\ nodes = <<>> /\ record = <<>>
      /\ selected = None /\ menu = None /\ drag = None /\ breakout.results = <<>>
  BY DEF Init, NoRequest
<1>2. ToSet(<<>>) = {} /\ <<>> \in Seq(Ids) /\ IsInjective(<<>>) /\ DOMAIN <<>> = {}
  BY DEF ToSet, IsInjective
<1>3. Area.graphs = <<>> /\ Area.nodes = <<>> /\ Area.record = <<>>
  BY <1>1, AreaFields
<1>4. Area = [graphs |-> Area.graphs, record |-> Area.record, nodes |-> Area.nodes]
  BY DEF Area
<1>5. <<>> \in [DOMAIN <<>> -> Records]
  BY <1>2
<1>6. Whole(Area)
  BY <1>2, <1>3, <1>4, <1>5 DEF Whole
<1>7. Area.nodes = View(Area)
  BY <1>2, <1>3 DEF View
<1>8. Numbered(Area)
  BY <1>2, <1>3 DEF Numbered
<1>9. DOMAIN record = InUse
  BY <1>1, <1>2 DEF InUse
<1>10. menu # "shown"
  BY <1>1, MenuAssumption
<1>11. breakout.results \in Lists
  BY <1>1 DEF Lists
<1> QED
  BY <1>1, <1>6, <1>7, <1>8, <1>9, <1>10, <1>11 DEF AreaInv, Shows

LEMMA AreaNext ==
  ASSUME AreaInv, [Next]_vars
  PROVE  AreaInv' /\ (KeysKept \/ (RemoveOuterCall /\ KeysOfOthersKept))
<1>1. CASE UNCHANGED vars
  <2>1. UNCHANGED <<graphs, record, nodes, drag, selected, menu, breakout>>
    BY <1>1 DEF vars
  <2>2. (menu' = "shown" => selected' # None) /\ breakout'.results \in Lists
    BY <2>1 DEF AreaInv
  <2> QED
    BY <2>1, <2>2, AreaUnchanged
<1>2. ASSUME NEW m \in Metrics, ToggleMetric(m) \/ NewFromMetric(m) PROVE AreaInv' /\ KeysKept
  BY <1>2, StepToggle
<1>3. ASSUME NEW ts \in TargetLists, ImportGraphUrl(ts) PROVE AreaInv' /\ KeysKept
  BY <1>3, StepImport
<1>4. ASSUME NEW gs \in BoundedSeq(SavedGraphs, 2), LoadGraphs(gs) PROVE AreaInv' /\ KeysKept
  BY <1>4, StepLoad
<1>5. CASE RemoveAllGraphs \/ RefreshNow
  BY <1>5, StepRefresh
<1>6. ASSUME NEW at \in DOMAIN nodes, CloseButton(at) \/ DragStart(at) \/ Drop(at) \/ ClickGraph(at)
      PROVE  AreaInv' /\ KeysKept
  BY <1>6, StepClose, StepDrag, StepDrop, StepClick
<1>7. CASE DragEnd
  BY <1>7, StepDragEnd
<1>8. CASE ClickOutside
  BY <1>8, StepOutside
<1>9. CASE EditTarget \/ ApplyFuncToEach \/ ApplyFuncToAll
  BY <1>9, StepEdit
<1>10. CASE RemoveOuterCall
  BY <1>10, StepOuterCall
<1>11. CASE Clone
  BY <1>11, StepClone
<1>12. CASE Breakout
  BY <1>12, StepBreakout
<1>13. CASE BreakoutAnswer \/ BreakoutFails
  BY <1>13, StepAnswer
<1> QED
  BY <1>1, <1>2, <1>3, <1>4, <1>5, <1>6, <1>7, <1>8, <1>9, <1>10, <1>11, <1>12, <1>13, Zenon DEF Next

LEMMA AreaInvHolds == Spec => []AreaInv
<1>1. AreaInv /\ [Next]_vars => AreaInv'
  BY AreaNext
<1> QED
  BY AreaInit, <1>1, PTL DEF Spec

(* The view shows the graphs of the store, each once, in their order and with their own
   index, after any order of handlers: the elements that Ext's DataView keeps and
   dashboard.js changes in place are the ones that a refresh would make. *)
THEOREM ViewCorrect == Spec => []ViewFollowsStore
<1>1. AreaInv => ViewFollowsStore
  <2> SUFFICES ASSUME AreaInv PROVE ViewFollowsStore
    OBVIOUS
  <2>1. /\ IsInjective(graphs)
        /\ DOMAIN graphs = 1 .. Len(graphs) /\ Len(graphs) \in Nat
        /\ nodes = [k \in DOMAIN graphs |-> [record |-> graphs[k], shown |-> record[graphs[k]].index,
                                             viewIndex |-> k]]
    BY AreaIsGood, AreaFields DEF AreaInv, Shows, View, Whole
  <2>2. Len(nodes) = Len(graphs)
    <3> DEFINE n == Len(graphs)
               f == [k \in 1 .. n |-> [record |-> graphs[k], shown |-> record[graphs[k]].index,
                                       viewIndex |-> k]]
               U == {f[k] : k \in 1 .. n}
    <3>1. f \in [1 .. n -> U] /\ n \in Nat
      BY <2>1
    <3>2. nodes = f
      BY <2>1
    <3> HIDE DEF n, f, U
    <3>3. Len(f) = n
      BY <3>1
    <3> QED
      BY <3>2, <3>3 DEF n
  <2>3. \A k \in DOMAIN nodes :
          nodes[k] = [record |-> graphs[k], shown |-> record[graphs[k]].index, viewIndex |-> k]
    BY <2>1
  <2> QED
    BY <2>1, <2>2, <2>3 DEF ViewFollowsStore
<1> QED
  BY AreaInvHolds, <1>1, PTL

(* No close button removes a graph before its own, and no two buttons the same one, however
   long updateGraphRecords() did not run. *)
THEOREM CloseCorrect == Spec => []CloseNeverRemovesEarlier
<1>1. AreaInv => CloseNeverRemovesEarlier
  <2> SUFFICES ASSUME AreaInv, NEW k \in DOMAIN nodes
               PROVE  /\ nodes[k].shown >= k
                      /\ \A j \in 1 .. k - 1 : nodes[j].shown < nodes[k].shown
    BY DEF CloseNeverRemovesEarlier
  <2>1. /\ DOMAIN graphs = 1 .. Len(graphs) /\ Len(graphs) \in Nat /\ DOMAIN nodes = 1 .. Len(graphs)
        /\ nodes = [i \in DOMAIN graphs |-> [record |-> graphs[i], shown |-> record[graphs[i]].index,
                                             viewIndex |-> i]]
    BY AreaIsGood, AreaFields DEF AreaInv, Shows, View
  <2>2. \A i \in DOMAIN graphs : nodes[i].shown = record[graphs[i]].index
    BY <2>1
  <2>3. \A i \in DOMAIN graphs :
          /\ record[graphs[i]].index >= i
          /\ \A j \in 1 .. i - 1 : record[graphs[j]].index < record[graphs[i]].index
    BY AreaFields DEF AreaInv, Numbered, Index
  <2>4. \A j \in 1 .. k - 1 : j \in DOMAIN graphs
    BY <2>1
  <2> QED
    BY <2>1, <2>2, <2>3, <2>4
<1> QED
  BY AreaInvHolds, <1>1, PTL

(* Every handler that changes the targets of a graph computes its key again, but for
   removeOuterCall(), and this one leaves the keys of the other graphs alone. *)
THEOREM KeysCorrect == Spec => KeyFallsBehindOnlyByOuterCall
<1> DEFINE A == \A r \in ToSet(graphs) \cap ToSet(graphs') :
                  InKey(r) /\ ~InKey(r)' => RemoveOuterCall /\ r = selected
<1>1. ASSUME AreaInv, [Next]_vars PROVE A
  BY <1>1, AreaNext DEF KeysKept, KeysOfOthersKept
<1>2. AreaInv /\ [Next]_vars => [A]_vars
  BY <1>1
<1> QED
  BY AreaInvHolds, <1>2, PTL DEF Spec, KeyFallsBehindOnlyByOuterCall

================================================================================
