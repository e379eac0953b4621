--------------------------- MODULE CarbonRelayProofs ---------------------------
(***************************************************************************)
(* The relay for any set of destinations, any router, sizes and bounds: no  *)
(* datapoint is lost while destinations come and go, but by an exception of *)
(* the router or with the buffer of a relay with rules; one that is hashed  *)
(* and not replicated is in one place; and the service waits for its        *)
(* clients.                                                                 *)
(***************************************************************************)
EXTENDS CarbonRelay, SequenceLemmas

(* Reinject() is a fold: it goes through the flows after each of the points. *)
Trace(h, f, points, N, up) ==
  /\ h[0] = f /\ h[N] = Reinject(f, points, up)
  /\ \A n \in 1 .. N : h[n] = Send(h[n - 1], points[n], received[points[n]], up)

LEMMA ReinjectTrace ==
  ASSUME NEW f, NEW up, NEW N \in Nat, NEW points, DOMAIN points = 1 .. N
  PROVE  \E h : Trace(h, f, points, N, up)
<1> DEFINE After(g, n) == Send(g, points[n], received[points[n]], up)
           Body(g, s) == IF s = {} THEN f ELSE After(g[s \ {Max(s)}], Max(s))
           Iter(g, n) == g = [s \in SUBSET (1 .. n) |-> Body(g, s)]
           iter == CHOOSE g : Iter(g, N)
           S == {n \in Nat : \E g : Iter(g, n)}
<1>1. Reinject(f, points, up) = iter[1 .. N]
  BY DEF Reinject, FoldLeft, MapThenFoldSet
<1> HIDE DEF After
<1>2. 0 \in S
  <2>1. Iter([s \in SUBSET (1 .. 0) |-> f], 0)
    OBVIOUS
  <2> QED
    BY <2>1
<1>3. ASSUME NEW n \in Nat, n \in S PROVE n + 1 \in S
  <2>1. PICK g : Iter(g, n)
    BY <1>3
  <2> DEFINE g2 == [s \in SUBSET (1 .. n + 1) |->
                      IF n + 1 \in s THEN After(g[s \ {n + 1}], n + 1) ELSE g[s]]
  <2>2. ASSUME NEW s \in SUBSET (1 .. n + 1), n + 1 \in s PROVE g2[s] = Body(g2, s)
    <3>1. Max(s) = n + 1
      BY <2>2, Greatest
    <3>2. s \ {n + 1} \in SUBSET (1 .. n + 1) /\ n + 1 \notin s \ {n + 1}
      OBVIOUS
    <3> QED
      BY <2>2, <3>1, <3>2
  <2>3. ASSUME NEW s \in SUBSET (1 .. n + 1), n + 1 \notin s PROVE g2[s] = Body(g2, s)
    <3>1. s \in SUBSET (1 .. n)
      BY <2>3
    <3>2. g2[s] = Body(g, s)
      BY <2>1, <2>3, <3>1
    <3>3. CASE s = {}
      BY <3>2, <3>3
    <3>4. CASE s # {}
      <4>1. Max(s) \in s
        BY <3>1, <3>4, GreatestIsElement
      <4>2. s \ {Max(s)} \in SUBSET (1 .. n + 1) /\ n + 1 \notin s \ {Max(s)}
        BY <2>3
      <4> QED
        BY <3>2, <3>4, <4>2
    <3> QED
      BY <3>3, <3>4
  <2>4. Iter(g2, n + 1)
    BY <2>2, <2>3
  <2> HIDE DEF g2, Iter
  <2> QED
    BY <2>4
<1> HIDE DEF S
<1>4. N \in S
  BY <1>2, <1>3, Induct
<1>5. Iter(iter, N)
  BY <1>4 DEF S
<1> HIDE DEF iter
<1> DEFINE h == [n \in 0 .. N |-> iter[1 .. n]]
<1>6. h[0] = f
  BY <1>5
<1>7. ASSUME NEW n \in 1 .. N PROVE h[n] = After(h[n - 1], n)
  <2>1. 1 .. n \in SUBSET (1 .. N) /\ n \in 1 .. n
    OBVIOUS
  <2>4. (1 .. n) \ {n} = 1 .. n - 1
    OBVIOUS
  <2>2. Max(1 .. n) = n
    BY <2>1, Greatest
  <2>3. iter[1 .. n] = After(iter[1 .. n - 1], n)
    BY <1>5, <2>1, <2>4, <2>2
  <2> QED
    BY <2>3
<1>8. h[N] = Reinject(f, points, up)
  BY <1>1
<1> HIDE DEF h
<1> QED
  BY <1>6, <1>7, <1>8 DEF After, Trace

--------------------------------------------------------------------------------
(* Routing *)

\* The relay's queues, as a record, when the points that came are in P.
FlowType(P) == [queue : [Destinations -> Seq(P)], buffer : Seq(P), dropped : SUBSET P,
                unrouted : SUBSET P, cleared : SUBSET P]
Hashing == method # "rules"
NeverRaises == method # "fast-hashing" /\ clients = Destinations

LEMMA FlowFields ==
  ASSUME NEW P, NEW f \in FlowType(P)
  PROVE  /\ f.queue \in [Destinations -> Seq(P)] /\ f.buffer \in Seq(P) /\ f.dropped \in SUBSET P
         /\ f.unrouted \in SUBSET P /\ f.cleared \in SUBSET P
         /\ f = [queue |-> f.queue, buffer |-> f.buffer, dropped |-> f.dropped,
                 unrouted |-> f.unrouted, cleared |-> f.cleared]
         /\ \A d \in Destinations : f.queue[d] \in Seq(P)
BY DEF FlowType

(* A hashing router that has destinations finds one for any metric, and no more than one
   without replication; the loop over them reaches all of them if none is forgotten. *)
LEMMA Routed ==
  ASSUME NEW m \in Metrics, NEW up \in SUBSET Destinations
  PROVE  /\ Reached(m, up) \subseteq Route(m, up) /\ Route(m, up) \subseteq up
         /\ Hashing /\ up # {} => Route(m, up) # {}
         /\ Hashing /\ Replication = 1 => \A d, e \in Route(m, up) : d = e
         /\ ~RoutingRaises(m, up) => Reached(m, up) = Route(m, up)
         /\ NeverRaises => ~RoutingRaises(m, up)
<1> DEFINE walk == Walk(m, up)
           Y == Yielded(m, up)
<1>1. Route(m, up) = {walk[i] : i \in Y}
  BY DEF Route
<1>2. Reached(m, up) = {walk[i] : i \in {j \in Y : \A k \in Y : k <= j => walk[k] \in clients}}
  BY DEF Reached
<1>3. Y = {i \in DOMAIN walk : walk[i] \in up /\ (method = "rules" \/ i <= Replication)}
  BY DEF Yielded
<1>4. Hashing => walk \in Seq(up) /\ ToSet(walk) = up
  BY RelayAssumption DEF Walk, Hashing
<1> HIDE DEF walk, Y
<1>5. Reached(m, up) \subseteq Route(m, up) /\ Route(m, up) \subseteq up
  BY <1>1, <1>2, <1>3
<1>6. ASSUME Hashing, up # {} PROVE Route(m, up) # {}
  <2>1. DOMAIN walk = 1 .. Len(walk) /\ Len(walk) \in Nat /\ ToSet(walk) # {}
    BY <1>4, <1>6, LenProperties
  <2>2. 1 \in DOMAIN walk
    BY <2>1 DEF ToSet
  <2>3. walk[1] \in up /\ 1 <= Replication
    BY <1>4, <1>6, <2>1, <2>2, ElementOfSeq, RelayAssumption
  <2> QED
    BY <1>1, <1>3, <2>2, <2>3
<1>7. ASSUME Hashing, Replication = 1 PROVE \A d, e \in Route(m, up) : d = e
  <2>1. DOMAIN walk = 1 .. Len(walk) /\ Len(walk) \in Nat
    BY <1>4, <1>7, LenProperties
  <2>2. \A i \in Y : i = 1
    BY <1>3, <1>7, <2>1 DEF Hashing
  <2> QED
    BY <1>1, <2>2
<1>8. ASSUME ~RoutingRaises(m, up) PROVE Reached(m, up) = Route(m, up)
  <2>1. \A k \in Y : walk[k] \in clients
    BY <1>1, <1>8 DEF RoutingRaises
  <2> QED
    BY <1>1, <1>2, <2>1
<1>9. NeverRaises => ~RoutingRaises(m, up)
  BY <1>5 DEF NeverRaises, RoutingRaises
<1> QED
  BY <1>5, <1>6, <1>7, <1>8, <1>9

\* What sendDatapoint() of the manager does to the queues f.
Appended(f, g, p, up) ==
  \A e \in Destinations : \/ g.queue[e] = f.queue[e]
                          \/ e \in up /\ g.queue[e] = Append(f.queue[e], p)
Lands(g, p, up) ==
  p \in g.dropped \/ p \in g.unrouted \/ \E e \in up : p \in ToSet(g.queue[e])

LEMMA Sending ==
  ASSUME NEW P, NEW f \in FlowType(P), NEW p \in P, NEW m \in Metrics,
         NEW up \in SUBSET Destinations, NEW g, g = Send(f, p, m, up)
  PROVE  /\ g \in FlowType(P)
         /\ Appended(f, g, p, up)
         /\ f.dropped \subseteq g.dropped /\ f.unrouted \subseteq g.unrouted
         /\ g.cleared = f.cleared /\ (NeverRaises => g.unrouted = f.unrouted)
         /\ (g.buffer = f.buffer /\ Lands(g, p, up)) \/ g.buffer = Append(f.buffer, p)
         /\ Hashing /\ up # {} => g.buffer = f.buffer /\ Lands(g, p, up)
         /\ up = {} => g.queue = f.queue
         /\ Hashing /\ Replication = 1 =>
              \A d, e \in Destinations :
                g.queue[d] # f.queue[d] /\ g.queue[e] # f.queue[e] => d = e
<1> DEFINE to == Reached(m, up)
           full == {d \in to : Len(f.queue[d]) >= MaxQueue}
           raises == RoutingRaises(m, up)
           none == Route(m, up) = {}
<1>1. /\ to \subseteq Route(m, up) /\ to \subseteq up /\ (NeverRaises => ~raises)
      /\ (~raises => to = Route(m, up)) /\ (Hashing /\ up # {} => ~none)
  BY Routed
<1>2. Hashing /\ Replication = 1 => \A d, e \in to : d = e
  BY Routed
<1>3. /\ f.queue \in [Destinations -> Seq(P)] /\ f.buffer \in Seq(P) /\ f.dropped \in SUBSET P
      /\ f.unrouted \in SUBSET P /\ f.cleared \in SUBSET P
      /\ \A d \in Destinations : f.queue[d] \in Seq(P)
  BY FlowFields
<1>4. g = [queue    |-> [d \in Destinations |->
                           IF d \in to \ full THEN Append(f.queue[d], p) ELSE f.queue[d]],
           buffer   |-> IF none /\ ~raises THEN Append(f.buffer, p) ELSE f.buffer,
           dropped  |-> IF full = {} THEN f.dropped ELSE f.dropped \cup {p},
           unrouted |-> IF raises THEN f.unrouted \cup {p} ELSE f.unrouted,
           cleared  |-> f.cleared]
  BY DEF Send
<1>5. full \subseteq to /\ (full = {} => to \ full = to)
  OBVIOUS
<1> HIDE DEF to, full, raises
<1>6. /\ g.queue = [d \in Destinations |->
                      IF d \in to \ full THEN Append(f.queue[d], p) ELSE f.queue[d]]
      /\ g.buffer = IF none /\ ~raises THEN Append(f.buffer, p) ELSE f.buffer
      /\ g.dropped = IF full = {} THEN f.dropped ELSE f.dropped \cup {p}
      /\ g.unrouted = IF raises THEN f.unrouted \cup {p} ELSE f.unrouted
      /\ g.cleared = f.cleared
      /\ g = [queue |-> g.queue, buffer |-> g.buffer, dropped |-> g.dropped,
              unrouted |-> g.unrouted, cleared |-> g.cleared]
  BY <1>4
<1> HIDE DEF none
<1>7. \A d \in Destinations : g.queue[d] = IF d \in to \ full THEN Append(f.queue[d], p) ELSE f.queue[d]
  BY <1>6
<1>8. g \in FlowType(P)
  <2>1. g.queue \in [Destinations -> Seq(P)]
    BY <1>3, <1>6, AppendProperties
  <2>2. g.buffer \in Seq(P)
    BY <1>3, <1>6, AppendProperties
  <2>3. g.dropped \in SUBSET P /\ g.unrouted \in SUBSET P /\ g.cleared \in SUBSET P
    BY <1>3, <1>6
  <2> QED
    BY <1>6, <2>1, <2>2, <2>3 DEF FlowType
<1>9. Appended(f, g, p, up)
  BY <1>1, <1>7 DEF Appended
<1>10. ~(none /\ ~raises) => g.buffer = f.buffer /\ Lands(g, p, up)
  <2>1. CASE raises
    BY <1>6, <2>1 DEF Lands
  <2>2. CASE full # {}
    BY <1>6, <2>2 DEF Lands
  <2>3. CASE ~raises /\ full = {} /\ ~none
    <3>1. PICK d \in to : TRUE
      BY <1>1, <2>3 DEF none
    <3>2. d \in Destinations /\ d \in up /\ g.queue[d] = Append(f.queue[d], p)
      BY <1>1, <1>5, <1>7, <2>3, <3>1
    <3> QED
      BY <1>3, <1>6, <2>3, <3>2, Appending DEF Lands
  <2> QED
    BY <1>6, <2>1, <2>2, <2>3
<1>11. (g.buffer = f.buffer /\ Lands(g, p, up)) \/ g.buffer = Append(f.buffer, p)
  BY <1>6, <1>10
<1>12. Hashing /\ up # {} => g.buffer = f.buffer /\ Lands(g, p, up)
  BY <1>1, <1>10
<1>13. up = {} => g.queue = f.queue
  BY <1>1, <1>3, <1>6
<1>14. \A d \in Destinations : g.queue[d] # f.queue[d] => d \in to
  BY <1>7
<1>15. /\ f.dropped \subseteq g.dropped /\ f.unrouted \subseteq g.unrouted
       /\ g.cleared = f.cleared /\ (NeverRaises => g.unrouted = f.unrouted)
  BY <1>1, <1>6
<1> QED
  BY <1>2, <1>8, <1>9, <1>11, <1>12, <1>13, <1>14, <1>15
--------------------------------------------------------------------------------
(* Re-injecting a queue *)

\* What the flow g keeps of f when points are routed to the destinations in up.
Kept(f, g, up) ==
  /\ f.dropped \subseteq g.dropped /\ f.unrouted \subseteq g.unrouted
  /\ g.cleared = f.cleared /\ (NeverRaises => g.unrouted = f.unrouted)
  /\ ToSet(f.buffer) \subseteq ToSet(g.buffer)
  /\ \A e \in Destinations : /\ ToSet(f.queue[e]) \subseteq ToSet(g.queue[e])
                             /\ e \notin up => g.queue[e] = f.queue[e]

LEMMA SendingKeeps ==
  ASSUME NEW P, NEW f \in FlowType(P), NEW p \in P, NEW m \in Metrics,
         NEW up \in SUBSET Destinations, NEW g, g = Send(f, p, m, up)
  PROVE  /\ Kept(f, g, up)
         /\ Lands(g, p, up) \/ p \in ToSet(g.buffer)
<1>1. f.buffer \in Seq(P) /\ \A e \in Destinations : f.queue[e] \in Seq(P)
  BY DEF FlowType
<1>2. Appended(f, g, p, up)
  BY Sending
<1>3. /\ f.dropped \subseteq g.dropped /\ f.unrouted \subseteq g.unrouted
      /\ g.cleared = f.cleared /\ (NeverRaises => g.unrouted = f.unrouted)
  BY Sending
<1>4. (g.buffer = f.buffer /\ Lands(g, p, up)) \/ g.buffer = Append(f.buffer, p)
  BY Sending
<1>5. \A q \in Seq(P) : ToSet(Append(q, p)) = ToSet(q) \cup {p}
  BY Appending
<1>6. ASSUME NEW e \in Destinations
      PROVE  ToSet(f.queue[e]) \subseteq ToSet(g.queue[e]) /\ (e \notin up => g.queue[e] = f.queue[e])
  BY <1>1, <1>2, <1>5 DEF Appended
<1>7. ToSet(f.buffer) \subseteq ToSet(g.buffer) /\ (Lands(g, p, up) \/ p \in ToSet(g.buffer))
  BY <1>1, <1>4, <1>5
<1> QED
  BY <1>3, <1>6, <1>7 DEF Kept

LEMMA KeptOn ==
  ASSUME NEW f, NEW g, NEW h, NEW up \in SUBSET Destinations, Kept(f, g, up), Kept(g, h, up)
  PROVE  /\ Kept(f, h, up)
         /\ \A p : Lands(g, p, up) => Lands(h, p, up)
         /\ \A p : p \in ToSet(g.buffer) => p \in ToSet(h.buffer)
<1>1. Kept(f, h, up)
  BY DEF Kept
<1>2. ASSUME NEW p, Lands(g, p, up) PROVE Lands(h, p, up)
  <2>1. \A e \in up : ToSet(g.queue[e]) \subseteq ToSet(h.queue[e])
    BY DEF Kept
  <2> QED
    BY <1>2, <2>1 DEF Kept, Lands
<1> QED
  BY <1>1, <1>2 DEF Kept

(* Every point that is re-injected is somewhere afterwards, and what was there is kept. *)
LEMMA Reinjecting ==
  ASSUME NEW P, NEW f \in FlowType(P), NEW points \in Seq(P), NEW up \in SUBSET Destinations,
         \A p \in P : received[p] \in Metrics, NEW g, g = Reinject(f, points, up)
  PROVE  /\ g \in FlowType(P)
         /\ Kept(f, g, up)
         /\ \A p \in ToSet(points) : Lands(g, p, up) \/ p \in ToSet(g.buffer)
         /\ Hashing /\ up # {} =>
              g.buffer = f.buffer /\ \A p \in ToSet(points) : Lands(g, p, up)
<1> DEFINE N == Len(points)
<1>1. N \in Nat /\ DOMAIN points = 1 .. N /\ \A n \in 1 .. N : points[n] \in P
  BY LenProperties, ElementOfSeq
<1> HIDE DEF N
<1>2. PICK h : Trace(h, f, points, N, up)
  BY <1>1, ReinjectTrace
<1>8. /\ h[0] = f /\ h[N] = g
      /\ \A n \in 1 .. N : h[n] = Send(h[n - 1], points[n], received[points[n]], up)
  BY <1>2 DEF Trace
<1> DEFINE Good(n) ==
             /\ h[n] \in FlowType(P)
             /\ Kept(f, h[n], up)
             /\ \A i \in 1 .. n : Lands(h[n], points[i], up) \/ points[i] \in ToSet(h[n].buffer)
             /\ Hashing /\ up # {} =>
                  h[n].buffer = f.buffer /\ \A i \in 1 .. n : Lands(h[n], points[i], up)
           S == {n \in Nat : n <= N => Good(n)}
<1>3. 0 \in S
  <2>1. Kept(f, f, up)
    BY DEF Kept
  <2>2. \A i \in 1 .. 0 : FALSE
    OBVIOUS
  <2>3. Good(0)
    BY <1>8, <2>1, <2>2
  <2> QED
    BY <2>3
<1>4. ASSUME NEW n \in Nat, n \in S PROVE n + 1 \in S
  <2> SUFFICES ASSUME n + 1 <= N PROVE Good(n + 1)
    OBVIOUS
  <2>1. n + 1 \in 1 .. N /\ n <= N /\ (n + 1) - 1 = n
    BY <1>1
  <2> DEFINE p == points[n + 1]
             a == h[n]
             b == h[n + 1]
  <2>2. p \in P /\ received[p] \in Metrics
    BY <1>1, <2>1
  <2>3. Good(n) /\ b = Send(a, p, received[p], up)
    BY <1>8, <1>4, <2>1
  <2>4. a \in FlowType(P) /\ Kept(f, a, up)
    BY <2>3
  <2> HIDE DEF p, b
  <2>5. b \in FlowType(P) /\ (Hashing /\ up # {} => b.buffer = a.buffer /\ Lands(b, p, up))
    BY <2>2, <2>3, <2>4, Sending
  <2>6. Kept(a, b, up) /\ (Lands(b, p, up) \/ p \in ToSet(b.buffer))
    BY <2>2, <2>3, <2>4, SendingKeeps
  <2>7. /\ Kept(f, b, up)
        /\ \A x : Lands(a, x, up) => Lands(b, x, up)
        /\ \A x : x \in ToSet(a.buffer) => x \in ToSet(b.buffer)
    BY <2>4, <2>6, KeptOn
  <2>8. \A i \in 1 .. n + 1 : i \in 1 .. n \/ points[i] = p
    BY DEF p
  <2>9. \A i \in 1 .. n + 1 : Lands(b, points[i], up) \/ points[i] \in ToSet(b.buffer)
    BY <2>3, <2>6, <2>7, <2>8
  <2>10. ASSUME Hashing, up # {}
         PROVE  b.buffer = f.buffer /\ \A i \in 1 .. n + 1 : Lands(b, points[i], up)
    BY <2>3, <2>5, <2>7, <2>8, <2>10
  <2> QED
    BY <2>5, <2>7, <2>9, <2>10 DEF b
<1> HIDE DEF S
<1>5. N \in S
  BY <1>1, <1>3, <1>4, Induct
<1>6. Good(N)
  BY <1>1, <1>5 DEF S
<1>7. ToSet(points) = {points[i] : i \in 1 .. N}
  BY <1>1 DEF ToSet
<1> QED
  BY <1>8, <1>6, <1>7

--------------------------------------------------------------------------------
(* One place for a point *)

\* The points in the queues of S, and that each of them is there once.
Held(q, S) == UNION {ToSet(q[e]) : e \in S}
Apart(q, S) ==
  /\ \A e \in S : IsInjective(q[e])
  /\ \A d, e \in S : \A p \in ToSet(q[d]) : p \in ToSet(q[e]) => d = e

LEMMA OneMore ==
  ASSUME NEW P, NEW S \in SUBSET Destinations, NEW p \in P, NEW q, NEW r,
         \A e \in S : q[e] \in Seq(P),
         \A e \in Destinations : r[e] = q[e] \/ r[e] = Append(q[e], p),
         \A d, e \in Destinations : r[d] # q[d] /\ r[e] # q[e] => d = e,
         Apart(q, S), p \notin Held(q, S)
  PROVE  Apart(r, S) /\ Held(r, S) \subseteq Held(q, S) \cup {p}
<1>1. \A e \in S : p \notin ToSet(q[e])
  BY DEF Held
<1>2. \A e \in S : ToSet(Append(q[e], p)) = ToSet(q[e]) \cup {p}
  BY Appending
<1>3. \A e \in S : IsInjective(r[e])
  <2> TAKE e \in S
  <2>1. q[e] \in Seq(P) /\ IsInjective(q[e]) /\ p \notin ToSet(q[e])
    BY <1>1 DEF Apart
  <2>2. IsInjective(Append(q[e], p))
    BY <2>1, InjectiveAppend
  <2> QED
    BY <2>1, <2>2
<1>4. \A e \in S : \/ ToSet(r[e]) = ToSet(q[e])
                   \/ r[e] # q[e] /\ ToSet(r[e]) = ToSet(q[e]) \cup {p}
  BY <1>2
<1>5. ASSUME NEW d \in S, NEW e \in S, NEW x \in ToSet(r[d]), x \in ToSet(r[e]) PROVE d = e
  <2>1. CASE x = p
    <3>1. r[d] # q[d] /\ r[e] # q[e]
      BY <1>1, <1>5, <2>1
    <3> QED
      BY <3>1
  <2>2. CASE x # p
    <3>1. x \in ToSet(q[d]) /\ x \in ToSet(q[e])
      BY <1>4, <1>5, <2>2
    <3> QED
      BY <3>1 DEF Apart
  <2> QED
    BY <2>1, <2>2
<1>6. Apart(r, S)
  BY <1>3, <1>5 DEF Apart
<1>7. Held(r, S) \subseteq Held(q, S) \cup {p}
  <2> SUFFICES ASSUME NEW e \in S, NEW x \in ToSet(r[e]) PROVE x \in Held(q, S) \cup {p}
    BY DEF Held
  <2>1. x \in ToSet(q[e]) \/ x = p
    BY <1>4
  <2> QED
    BY <2>1 DEF Held
<1> QED
  BY <1>6, <1>7

(* Without replication, points that no queue of S holds and that are routed to some
   destination are in one of those queues at most. *)
LEMMA ReinjectingOnce ==
  ASSUME NEW P, NEW f \in FlowType(P), NEW points \in Seq(P), NEW up \in SUBSET Destinations,
         \A p \in P : received[p] \in Metrics, NEW g, g = Reinject(f, points, up),
         Hashing, Replication = 1, IsInjective(points), NEW S \in SUBSET Destinations,
         Apart(f.queue, S), \A p \in ToSet(points) : p \notin Held(f.queue, S)
  PROVE  /\ Apart(g.queue, S)
         /\ Held(g.queue, S) \subseteq Held(f.queue, S) \cup ToSet(points)
<1> DEFINE N == Len(points)
<1>1. N \in Nat /\ DOMAIN points = 1 .. N /\ \A n \in 1 .. N : points[n] \in P
  BY LenProperties, ElementOfSeq
<1> HIDE DEF N
<1>2. PICK h : Trace(h, f, points, N, up)
  BY <1>1, ReinjectTrace
<1>3. /\ h[0] = f /\ h[N] = g
      /\ \A n \in 1 .. N : h[n] = Send(h[n - 1], points[n], received[points[n]], up)
  BY <1>2 DEF Trace
<1>4. \A i, j \in 1 .. N : points[i] = points[j] => i = j
  BY <1>1 DEF IsInjective
<1>5. ToSet(points) = {points[i] : i \in 1 .. N}
  BY <1>1 DEF ToSet
<1> DEFINE Past(n) == {points[i] : i \in 1 .. n}
           Good(n) == /\ h[n] \in FlowType(P)
                      /\ Apart(h[n].queue, S)
                      /\ Held(h[n].queue, S) \subseteq Held(f.queue, S) \cup Past(n)
           T == {n \in Nat : n <= N => Good(n)}
<1>6. 0 \in T
  BY <1>3
<1>7. ASSUME NEW n \in Nat, n \in T PROVE n + 1 \in T
  <2> SUFFICES ASSUME n + 1 <= N PROVE Good(n + 1)
    OBVIOUS
  <2>1. n + 1 \in 1 .. N /\ n <= N /\ (n + 1) - 1 = n /\ 1 .. n \subseteq 1 .. N /\ n + 1 \notin 1 .. n
    BY <1>1
  <2> DEFINE p == points[n + 1]
             a == h[n]
             b == h[n + 1]
  <2>2. p \in P /\ received[p] \in Metrics
    BY <1>1, <2>1
  <2>3. Good(n) /\ b = Send(a, p, received[p], up)
    BY <1>3, <1>7, <2>1
  <2>4. p \notin Past(n) /\ p \notin Held(f.queue, S)
    BY <1>4, <1>5, <2>1
  <2>5. Past(n + 1) = Past(n) \cup {p}
    <3>1. \A i \in Int : i \in 1 .. n + 1 <=> i \in 1 .. n \/ i = n + 1
      OBVIOUS
    <3>2. 1 .. n \subseteq Int /\ 1 .. n + 1 \subseteq Int
      OBVIOUS
    <3> QED
      BY <3>1, <3>2
  <2> HIDE DEF p, b, a, Past
  <2>6. a \in FlowType(P) /\ Apart(a.queue, S) /\ p \notin Held(a.queue, S)
    BY <2>3, <2>4 DEF a
  <2>7. \A e \in S : a.queue[e] \in Seq(P)
    BY <2>6 DEF FlowType
  <2>8. b \in FlowType(P) /\ Appended(a, b, p, up)
    BY <2>2, <2>3, <2>6, Sending
  <2>9. \A d, e \in Destinations : b.queue[d] # a.queue[d] /\ b.queue[e] # a.queue[e] => d = e
    BY <2>2, <2>3, <2>6, Sending
  <2>10. \A e \in Destinations : b.queue[e] = a.queue[e] \/ b.queue[e] = Append(a.queue[e], p)
    BY <2>8 DEF Appended
  <2>11. Apart(b.queue, S) /\ Held(b.queue, S) \subseteq Held(a.queue, S) \cup {p}
    BY <2>2, <2>6, <2>7, <2>9, <2>10, OneMore
  <2> QED
    BY <2>3, <2>5, <2>8, <2>11 DEF a, b
<1> HIDE DEF T
<1>8. N \in T
  BY <1>1, <1>6, <1>7, Induct
<1>9. Good(N)
  BY <1>1, <1>8 DEF T
<1> QED
  BY <1>3, <1>5, <1>9

(* Without a destination the points go to the buffer, or nowhere. *)
LEMMA ReinjectingToBuffer ==
  ASSUME NEW P, NEW f \in FlowType(P), NEW points \in Seq(P),
         \A p \in P : received[p] \in Metrics, NEW g, g = Reinject(f, points, {}),
         IsInjective(points), IsInjective(f.buffer), \A p \in ToSet(points) : p \notin ToSet(f.buffer)
  PROVE  /\ g.queue = f.queue
         /\ IsInjective(g.buffer)
         /\ ToSet(g.buffer) \subseteq ToSet(f.buffer) \cup ToSet(points)
<1> DEFINE N == Len(points)
<1>1. N \in Nat /\ DOMAIN points = 1 .. N /\ \A n \in 1 .. N : points[n] \in P
  BY LenProperties, ElementOfSeq
<1> HIDE DEF N
<1>2. PICK h : Trace(h, f, points, N, {})
  BY <1>1, ReinjectTrace
<1>3. /\ h[0] = f /\ h[N] = g
      /\ \A n \in 1 .. N : h[n] = Send(h[n - 1], points[n], received[points[n]], {})
  BY <1>2 DEF Trace
<1>4. \A i, j \in 1 .. N : points[i] = points[j] => i = j
  BY <1>1 DEF IsInjective
<1>5. ToSet(points) = {points[i] : i \in 1 .. N}
  BY <1>1 DEF ToSet
<1> DEFINE Past(n) == {points[i] : i \in 1 .. n}
           Good(n) == /\ h[n] \in FlowType(P)
                      /\ h[n].queue = f.queue
                      /\ IsInjective(h[n].buffer)
                      /\ ToSet(h[n].buffer) \subseteq ToSet(f.buffer) \cup Past(n)
           T == {n \in Nat : n <= N => Good(n)}
<1>6. 0 \in T
  BY <1>3
<1>7. ASSUME NEW n \in Nat, n \in T PROVE n + 1 \in T
  <2> SUFFICES ASSUME n + 1 <= N PROVE Good(n + 1)
    OBVIOUS
  <2>1. n + 1 \in 1 .. N /\ n <= N /\ (n + 1) - 1 = n /\ 1 .. n \subseteq 1 .. N /\ n + 1 \notin 1 .. n
    BY <1>1
  <2> DEFINE p == points[n + 1]
             a == h[n]
             b == h[n + 1]
  <2>2. p \in P /\ received[p] \in Metrics
    BY <1>1, <2>1
  <2>3. Good(n) /\ b = Send(a, p, received[p], {})
    BY <1>3, <1>7, <2>1
  <2>4. p \notin Past(n) /\ p \notin ToSet(f.buffer)
    BY <1>4, <1>5, <2>1
  <2>5. Past(n + 1) = Past(n) \cup {p}
    <3>1. \A i \in Int : i \in 1 .. n + 1 <=> i \in 1 .. n \/ i = n + 1
      OBVIOUS
    <3>2. 1 .. n \subseteq Int /\ 1 .. n + 1 \subseteq Int
      OBVIOUS
    <3> QED
      BY <3>1, <3>2
  <2> HIDE DEF p, b, a, Past
  <2>6. a \in FlowType(P) /\ p \notin ToSet(a.buffer) /\ IsInjective(a.buffer)
    BY <2>3, <2>4 DEF a
  <2>7. a.buffer \in Seq(P)
    BY <2>6 DEF FlowType
  <2>8. /\ b \in FlowType(P) /\ b.queue = a.queue
        /\ b.buffer = a.buffer \/ b.buffer = Append(a.buffer, p)
    BY <2>2, <2>3, <2>6, Sending
  <2>9. IsInjective(b.buffer) /\ ToSet(b.buffer) \subseteq ToSet(a.buffer) \cup {p}
    <3>1. IsInjective(Append(a.buffer, p)) /\ ToSet(Append(a.buffer, p)) = ToSet(a.buffer) \cup {p}
      BY <2>2, <2>6, <2>7, Appending, InjectiveAppend
    <3> QED
      BY <2>6, <2>8, <3>1
  <2> QED
    BY <2>3, <2>5, <2>8, <2>9 DEF a, b
<1> HIDE DEF T
<1>8. N \in T
  BY <1>1, <1>6, <1>7, Induct
<1>9. Good(N)
  BY <1>1, <1>8 DEF T
<1> QED
  BY <1>3, <1>5, <1>9

(* A message is cut off a queue: nothing is lost, and nothing is in both parts. *)
LEMMA Splitting ==
  ASSUME NEW P, NEW q \in Seq(P)
  PROVE  /\ Rest(q) \in Seq(P)
         /\ \A x \in ToSet(Message(q)) : x \in ToSet(q)
         /\ \A x \in ToSet(Rest(q)) : x \in ToSet(q)
         /\ \A x \in ToSet(q) : x \in ToSet(Message(q)) \/ x \in ToSet(Rest(q))
         /\ IsInjective(q) =>
              IsInjective(Rest(q)) /\ \A x \in ToSet(Message(q)) : x \notin ToSet(Rest(q))
         /\ \A x \in ToSet(q) : x \in P
<1> DEFINE k == MessageLength(q)
           n == Len(q)
           a == Message(q)
           b == Rest(q)
<1>1. DOMAIN q = 1 .. n /\ n \in Nat /\ \A i \in 1 .. n : q[i] \in P
  BY LenProperties, ElementOfSeq
<1>2. k \in Nat /\ k <= n
  BY <1>1, RelayAssumption DEF MessageLength
<1>3. a = SubSeq(q, 1, k) /\ b = SubSeq(q, k + 1, n)
  BY DEF Message, Rest
<1> HIDE DEF k, n, a, b
<1>4. /\ \A i \in 1 .. k : i \in 1 .. n
      /\ \A i \in 1 .. n - k : k + i \in 1 .. n
      /\ \A i \in k + 1 .. n : i \in 1 .. n
      /\ \A i \in 1 .. n : i \in 1 .. k \/ (i - k \in 1 .. n - k /\ k + (i - k) = i)
      /\ \A i \in 1 .. k : \A j \in 1 .. n - k : i # k + j
      /\ n - k \in Nat
  BY <1>1, <1>2
<1>5. a \in Seq(P) /\ DOMAIN a = 1 .. k /\ \A i \in 1 .. k : a[i] = q[i]
  <2>1. \A i \in 1 .. k : q[i] \in P
    BY <1>1, <1>4
  <2>2. /\ a \in Seq(P) /\ Len(a) = IF 1 <= k THEN k - 1 + 1 ELSE 0
        /\ \A i \in 1 .. k - 1 + 1 : a[i] = q[1 + i - 1]
    BY <1>2, <1>3, <2>1, SubSeqProperties
  <2>3. Len(a) = k /\ k - 1 + 1 = k /\ \A i \in 1 .. k : 1 + i - 1 = i
    BY <1>2, <2>2
  <2> QED
    BY <2>2, <2>3, LenProperties
<1>6. b \in Seq(P) /\ DOMAIN b = 1 .. n - k /\ \A i \in 1 .. n - k : b[i] = q[k + i]
  <2>1. \A i \in k + 1 .. n : q[i] \in P
    BY <1>1, <1>4
  <2>2. /\ b \in Seq(P) /\ Len(b) = IF k + 1 <= n THEN n - (k + 1) + 1 ELSE 0
        /\ \A i \in 1 .. n - (k + 1) + 1 : b[i] = q[k + 1 + i - 1]
    BY <1>1, <1>2, <1>3, <2>1, SubSeqProperties
  <2>3. Len(b) = n - k /\ n - (k + 1) + 1 = n - k /\ \A i \in 1 .. n - k : k + 1 + i - 1 = k + i
    BY <1>1, <1>2, <2>2
  <2> QED
    BY <2>2, <2>3, LenProperties
<1>7. /\ ToSet(a) = {q[i] : i \in 1 .. k} /\ ToSet(b) = {q[k + i] : i \in 1 .. n - k}
      /\ ToSet(q) = {q[i] : i \in 1 .. n}
  BY <1>1, <1>5, <1>6 DEF ToSet
<1>8. (\A x \in ToSet(a) : x \in ToSet(q)) /\ \A x \in ToSet(b) : x \in ToSet(q)
  BY <1>4, <1>7
<1>9. ASSUME NEW x \in ToSet(q) PROVE x \in ToSet(a) \/ x \in ToSet(b)
  <2>1. PICK i \in 1 .. n : x = q[i]
    BY <1>7
  <2>2. i \in 1 .. k \/ (x = q[k + (i - k)] /\ i - k \in 1 .. n - k)
    BY <1>4, <2>1
  <2> QED
    BY <1>7, <2>1, <2>2
<1>10. ASSUME IsInjective(q) PROVE IsInjective(b) /\ \A x \in ToSet(a) : x \notin ToSet(b)
  <2>1. \A i, j \in 1 .. n : q[i] = q[j] => i = j
    BY <1>1, <1>10 DEF IsInjective
  <2>2. \A i, j \in 1 .. n - k : k + i = k + j => i = j
    BY <1>2
  <2>3. \A i, j \in 1 .. n - k : b[i] = b[j] => i = j
    BY <1>4, <1>6, <2>1, <2>2
  <2>4. IsInjective(b)
    BY <1>6, <2>3 DEF IsInjective
  <2>5. \A i \in 1 .. k : \A j \in 1 .. n - k : q[i] # q[k + j]
    BY <1>4, <2>1
  <2> QED
    BY <1>7, <2>4, <2>5
<1> QED
  BY <1>1, <1>6, <1>7, <1>8, <1>9, <1>10 DEF a, b

--------------------------------------------------------------------------------
(* The inductive invariant, for the queues f, the points s that were sent and the points P
   that came *)

\* Every point is somewhere.
Somewhere(f, s, p) ==
  \/ p \in f.dropped \/ p \in f.unrouted \/ p \in f.cleared \/ p \in ToSet(f.buffer)
  \/ \E d \in Destinations : p \in ToSet(f.queue[d]) \/ <<d, p>> \in s
Everywhere(f, s, P) == \A p \in P : Somewhere(f, s, p)

\* The queues, the buffer and what was sent have nothing in common, and nothing twice.
Once(f, s) ==
  /\ Apart(f.queue, Destinations)
  /\ IsInjective(f.buffer)
  /\ \A p \in ToSet(f.buffer) : p \notin Held(f.queue, Destinations)
  /\ \A x \in s : x[2] \notin Held(f.queue, Destinations) /\ x[2] \notin ToSet(f.buffer)
  /\ \A x, y \in s : x[2] = y[2] => x = y

\* Which of them are lost.
Lost(f) == (NeverRaises => f.unrouted = {}) /\ (Hashing => f.cleared = {})

FlowInv(f, s, P) ==
  /\ f \in FlowType(P)
  /\ s \subseteq Destinations \X P
  /\ Everywhere(f, s, P)
  /\ Lost(f)
  /\ Hashing /\ Replication = 1 => Once(f, s)

(* The flow that a client sends from. *)
LEMMA FlowSent ==
  ASSUME NEW P, NEW f, NEW s, FlowInv(f, s, P), NEW d \in Destinations,
         NEW g, g = [f EXCEPT !.queue[d] = Rest(@)],
         NEW t, t = s \cup ({d} \X ToSet(Message(f.queue[d])))
  PROVE  FlowInv(g, t, P)
<1> DEFINE q == f.queue[d]
<1>1. /\ f.queue \in [Destinations -> Seq(P)] /\ f.buffer \in Seq(P) /\ f.dropped \in SUBSET P
      /\ f.unrouted \in SUBSET P /\ f.cleared \in SUBSET P /\ q \in Seq(P)
      /\ f = [queue |-> f.queue, buffer |-> f.buffer, dropped |-> f.dropped,
              unrouted |-> f.unrouted, cleared |-> f.cleared]
  BY FlowFields DEF FlowInv
<1>2. g = [queue |-> [f.queue EXCEPT ![d] = Rest(@)], buffer |-> f.buffer, dropped |-> f.dropped,
           unrouted |-> f.unrouted, cleared |-> f.cleared]
  BY <1>1
<1>3. /\ g.buffer = f.buffer /\ g.dropped = f.dropped
      /\ g.unrouted = f.unrouted /\ g.cleared = f.cleared
      /\ g.queue = [f.queue EXCEPT ![d] = Rest(@)]
  BY <1>2
<1>4. g.queue[d] = Rest(q) /\ \A e \in Destinations : e # d => g.queue[e] = f.queue[e]
  BY <1>1, <1>3
<1>5. Rest(q) \in Seq(P) /\ \A x \in ToSet(Message(q)) : x \in ToSet(q)
  BY <1>1, Splitting
<1>6. /\ \A x \in ToSet(Rest(q)) : x \in ToSet(q)
      /\ \A x \in ToSet(q) : x \in ToSet(Message(q)) \/ x \in ToSet(Rest(q))
  BY <1>1, Splitting
<1>7. IsInjective(q) =>
        IsInjective(Rest(q)) /\ \A x \in ToSet(Message(q)) : x \notin ToSet(Rest(q))
  BY <1>1, Splitting
<1>8. \A x \in ToSet(q) : x \in P
  BY <1>1, Splitting
<1>9. g \in FlowType(P)
  <2>1. g.queue \in [Destinations -> Seq(P)]
    BY <1>1, <1>3, <1>5
  <2> QED
    BY <1>1, <1>2, <1>3, <2>1 DEF FlowType
<1> HIDE DEF q
<1>10. \A x \in t : x \in s \/ (x[1] = d /\ x[2] \in ToSet(Message(q)) /\ x = <<d, x[2]>>)
  BY DEF q
<1>11. t \subseteq Destinations \X P
  <2>1. s \subseteq Destinations \X P
    BY DEF FlowInv
  <2> QED
    BY <1>5, <1>8, <1>10, <2>1
<1>12. Everywhere(g, t, P)
  <2> SUFFICES ASSUME NEW p \in P PROVE Somewhere(g, t, p)
    BY DEF Everywhere
  <2>1. Somewhere(f, s, p)
    BY DEF FlowInv, Everywhere
  <2>2. CASE p \in f.dropped \/ p \in f.unrouted \/ p \in f.cleared \/ p \in ToSet(f.buffer)
    BY <1>3, <2>2 DEF Somewhere
  <2>3. ASSUME NEW e \in Destinations, p \in ToSet(f.queue[e]) \/ <<e, p>> \in s
        PROVE  Somewhere(g, t, p)
    <3>1. CASE <<e, p>> \in s
      BY <3>1 DEF Somewhere
    <3>2. CASE e # d /\ p \in ToSet(f.queue[e])
      BY <1>4, <3>2 DEF Somewhere
    <3>3. CASE e = d /\ p \in ToSet(f.queue[e])
      <4>1. p \in ToSet(Message(q)) \/ p \in ToSet(g.queue[d])
        BY <1>4, <1>6, <3>3 DEF q
      <4>2. p \in ToSet(Message(q)) => <<d, p>> \in t
        BY DEF q
      <4> QED
        BY <4>1, <4>2 DEF Somewhere
    <3> QED
      BY <2>3, <3>1, <3>2, <3>3
  <2> QED
    BY <2>1, <2>2, <2>3 DEF Somewhere
<1>13. ASSUME Hashing, Replication = 1 PROVE Once(g, t)
  <2>1. Once(f, s)
    BY <1>13 DEF FlowInv
  <2>2. /\ Apart(f.queue, Destinations) /\ IsInjective(q)
        /\ \A x \in ToSet(Message(q)) : x \notin ToSet(Rest(q))
    BY <1>7, <2>1 DEF Once, Apart, q
  <2>3. \A e \in Destinations : \A x \in ToSet(g.queue[e]) : x \in ToSet(f.queue[e])
    BY <1>4, <1>6 DEF q
  <2>4. Apart(g.queue, Destinations)
    <3>1. \A e \in Destinations : IsInjective(g.queue[e])
      BY <1>4, <1>7, <2>2 DEF Apart
    <3>2. \A e, h \in Destinations : \A x \in ToSet(g.queue[e]) : x \in ToSet(g.queue[h]) => e = h
      BY <2>2, <2>3 DEF Apart
    <3> QED
      BY <3>1, <3>2 DEF Apart
  <2>5. \A x : x \in Held(g.queue, Destinations) => x \in Held(f.queue, Destinations)
    BY <2>3 DEF Held
  <2>6. \A x \in ToSet(Message(q)) : x \notin Held(g.queue, Destinations)
    <3> SUFFICES ASSUME NEW x \in ToSet(Message(q)), NEW e \in Destinations, x \in ToSet(g.queue[e])
                 PROVE  FALSE
      BY DEF Held
    <3>1. e # d
      BY <1>4, <2>2
    <3>2. x \in ToSet(f.queue[d]) /\ x \in ToSet(f.queue[e])
      BY <1>5, <2>3 DEF q
    <3> QED
      BY <2>2, <3>1, <3>2 DEF Apart
  <2>7. \A x \in ToSet(Message(q)) : x \in Held(f.queue, Destinations)
    BY <1>5 DEF Held, q
  <2>8. \A x \in ToSet(g.buffer) : x \notin Held(g.queue, Destinations)
    BY <1>3, <2>1, <2>5 DEF Once
  <2>9. \A x \in t : x[2] \notin Held(g.queue, Destinations) /\ x[2] \notin ToSet(g.buffer)
    <3> SUFFICES ASSUME NEW x \in t
                 PROVE  x[2] \notin Held(g.queue, Destinations) /\ x[2] \notin ToSet(g.buffer)
      OBVIOUS
    <3>1. CASE x \in s
      BY <1>3, <2>1, <2>5, <3>1 DEF Once
    <3>2. CASE x[2] \in ToSet(Message(q))
      BY <1>3, <2>1, <2>6, <2>7, <3>2 DEF Once
    <3> QED
      BY <1>10, <3>1, <3>2
  <2>10. \A x, y \in t : x[2] = y[2] => x = y
    <3> SUFFICES ASSUME NEW x \in t, NEW y \in t, x[2] = y[2] PROVE x = y
      OBVIOUS
    <3>1. \A z \in s : z[2] \notin ToSet(Message(q))
      BY <2>1, <2>7 DEF Once
    <3>2. CASE x \in s /\ y \in s
      BY <2>1, <3>2 DEF Once
    <3>3. CASE x \notin s /\ y \notin s
      BY <1>10, <3>3
    <3> QED
      BY <1>10, <3>1, <3>2, <3>3
  <2> QED
    BY <1>3, <2>1, <2>4, <2>8, <2>9, <2>10 DEF Once
<1>14. Lost(g)
  BY <1>3 DEF FlowInv, Lost
<1> QED
  BY <1>9, <1>11, <1>12, <1>13, <1>14 DEF FlowInv

LEMMA KeptIsSomewhere ==
  ASSUME NEW f, NEW g, NEW s, NEW up \in SUBSET Destinations, Kept(f, g, up)
  PROVE  /\ \A p : Somewhere(f, s, p) => Somewhere(g, s, p)
         /\ \A p : Lands(g, p, up) \/ p \in ToSet(g.buffer) => Somewhere(g, s, p)
<1>1. ASSUME NEW p, Somewhere(f, s, p) PROVE Somewhere(g, s, p)
  BY <1>1 DEF Kept, Somewhere
<1>2. ASSUME NEW p, Lands(g, p, up) \/ p \in ToSet(g.buffer) PROVE Somewhere(g, s, p)
  BY <1>2 DEF Lands, Somewhere
<1> QED
  BY <1>1, <1>2

LEMMA Empty ==
  /\ ToSet(<<>>) = {} /\ IsInjective(<<>>) /\ \A P : <<>> \in Seq(P)
BY DEF ToSet, IsInjective

(* The flow once a destination is up. *)
LEMMA FlowUp ==
  ASSUME NEW P, FlowInv(Flow, sent, P), \A p \in P : received[p] \in Metrics,
         inRouter \subseteq Destinations, NEW d \in Destinations
  PROVE  /\ FlowInv(AfterUp(d), sent, P)
         /\ \A e \in Destinations : e \notin inRouter \cup {d} => AfterUp(d).queue[e] = queue[e]
<1> DEFINE f == [Flow EXCEPT !.buffer = <<>>]
           up == inRouter \cup {d}
           a == Reinject(f, buffer, up)
           g == AfterUp(d)
<1>1. Flow \in FlowType(P) /\ Everywhere(Flow, sent, P) /\ Lost(Flow)
  BY DEF FlowInv
<1>2. f = [queue |-> queue, buffer |-> <<>>, dropped |-> dropped, unrouted |-> unrouted,
           cleared |-> cleared]
  BY DEF Flow
<1>3. /\ queue \in [Destinations -> Seq(P)] /\ buffer \in Seq(P) /\ dropped \in SUBSET P
      /\ unrouted \in SUBSET P /\ cleared \in SUBSET P
  BY <1>1, FlowFields DEF Flow
<1>4. g = [a EXCEPT !.buffer = <<>>, !.cleared = @ \cup ToSet(a.buffer)]
  BY DEF AfterUp
<1> HIDE DEF f, up, a, g
<1>5. f \in FlowType(P)
  BY <1>2, <1>3, Empty DEF FlowType
<1>6. /\ f.queue = queue /\ f.buffer = <<>> /\ f.dropped = dropped /\ f.unrouted = unrouted
      /\ f.cleared = cleared
  BY <1>2
<1>7. up \in SUBSET Destinations /\ up # {} /\ d \in up
  BY DEF up
<1>8. a \in FlowType(P) /\ Kept(f, a, up) /\ \A p \in ToSet(buffer) : Lands(a, p, up) \/ p \in ToSet(a.buffer)
  BY <1>3, <1>5, <1>7, Reinjecting DEF a
<1>9. Hashing => a.buffer = <<>>
  BY <1>3, <1>5, <1>6, <1>7, Reinjecting DEF a
<1>10. /\ a.queue \in [Destinations -> Seq(P)] /\ a.buffer \in Seq(P) /\ a.dropped \in SUBSET P
       /\ a.unrouted \in SUBSET P /\ a.cleared \in SUBSET P
       /\ a = [queue |-> a.queue, buffer |-> a.buffer, dropped |-> a.dropped,
               unrouted |-> a.unrouted, cleared |-> a.cleared]
  BY <1>8, FlowFields
<1>11. g = [queue |-> a.queue, buffer |-> <<>>, dropped |-> a.dropped,
            unrouted |-> a.unrouted, cleared |-> a.cleared \cup ToSet(a.buffer)]
  BY <1>4, <1>10
<1>12. /\ g.queue = a.queue /\ g.buffer = <<>> /\ g.dropped = a.dropped
       /\ g.unrouted = a.unrouted /\ g.cleared = a.cleared \cup ToSet(a.buffer)
  BY <1>11
<1>13. g \in FlowType(P)
  <2>1. ToSet(a.buffer) \in SUBSET P
    BY <1>10, Splitting
  <2> QED
    BY <1>10, <1>11, <2>1, Empty DEF FlowType
<1>14. \A e \in Destinations : e \notin up => g.queue[e] = queue[e]
  BY <1>6, <1>8, <1>12 DEF Kept
<1>15. Everywhere(g, sent, P)
  <2> SUFFICES ASSUME NEW p \in P PROVE Somewhere(g, sent, p)
    BY DEF Everywhere
  <2>1. Somewhere(Flow, sent, p)
    BY <1>1 DEF Everywhere
  <2>2. CASE p \in ToSet(buffer)
    <3>1. Lands(a, p, up) \/ p \in ToSet(a.buffer)
      BY <1>8, <2>2
    <3> QED
      BY <1>7, <1>12, <3>1 DEF Lands, Somewhere
  <2>3. CASE p \notin ToSet(buffer)
    BY <1>6, <1>8, <1>12, <2>1, <2>3 DEF Kept, Somewhere, Flow
  <2> QED
    BY <2>2, <2>3
<1>16. Lost(g)
  <2>1. (NeverRaises => unrouted = {}) /\ (Hashing => cleared = {})
    BY <1>1 DEF Lost, Flow
  <2>2. NeverRaises => g.unrouted = {}
    BY <1>6, <1>8, <1>12, <2>1 DEF Kept
  <2>3. Hashing => g.cleared = {}
    BY <1>6, <1>8, <1>9, <1>12, <2>1, Empty DEF Kept
  <2> QED
    BY <2>2, <2>3 DEF Lost
<1>17. ASSUME Hashing, Replication = 1 PROVE Once(g, sent)
  <2>1. Once(Flow, sent) /\ Flow.queue = queue /\ Flow.buffer = buffer
    BY <1>17 DEF FlowInv, Flow
  <2>2. /\ IsInjective(buffer) /\ Apart(f.queue, Destinations)
        /\ \A p \in ToSet(buffer) : p \notin Held(f.queue, Destinations)
    BY <1>6, <2>1 DEF Once
  <2>3. /\ Apart(a.queue, Destinations)
        /\ Held(a.queue, Destinations) \subseteq Held(f.queue, Destinations) \cup ToSet(buffer)
    BY <1>3, <1>5, <1>7, <1>17, <2>2, ReinjectingOnce DEF a
  <2>4. \A x \in sent : x[2] \notin Held(g.queue, Destinations)
    BY <1>6, <1>12, <2>1, <2>3 DEF Once
  <2>5. \A x, y \in sent : x[2] = y[2] => x = y
    BY <2>1 DEF Once
  <2>6. \A x : x \notin ToSet(g.buffer)
    BY <1>12, Empty
  <2> QED
    BY <1>12, <2>3, <2>4, <2>5, <2>6, Empty DEF Once
<1> QED
  BY <1>13, <1>14, <1>15, <1>16, <1>17 DEF FlowInv, g, up

(* The flow once a destination left the router. *)
LEMMA FlowDown ==
  ASSUME NEW P, FlowInv(Flow, sent, P), \A p \in P : received[p] \in Metrics,
         inRouter \subseteq Destinations, NEW d \in Destinations
  PROVE  FlowInv(AfterDown(d), sent, P)
<1> DEFINE f == Flow
           up == inRouter \ {d}
           q == queue[d]
           a == Reinject(f, q, up)
           g == AfterDown(d)
           S == Destinations \ {d}
<1>1. /\ f \in FlowType(P) /\ f.queue = queue /\ f.buffer = buffer
      /\ Everywhere(f, sent, P) /\ Lost(f)
  BY DEF FlowInv, Flow
<1>2. q \in Seq(P) /\ up \in SUBSET Destinations /\ d \notin up
  BY <1>1, FlowFields
<1>3. g = [a EXCEPT !.queue[d] = <<>>]
  BY DEF AfterDown
<1> HIDE DEF f, up, q, a, g
<1>4. a \in FlowType(P) /\ Kept(f, a, up) /\ \A p \in ToSet(q) : Lands(a, p, up) \/ p \in ToSet(a.buffer)
  BY <1>1, <1>2, Reinjecting DEF a
<1>5. Hashing /\ up # {} => a.buffer = f.buffer
  BY <1>1, <1>2, Reinjecting DEF a
<1>6. /\ a.queue \in [Destinations -> Seq(P)] /\ a.buffer \in Seq(P) /\ a.dropped \in SUBSET P
      /\ a.unrouted \in SUBSET P /\ a.cleared \in SUBSET P
      /\ a = [queue |-> a.queue, buffer |-> a.buffer, dropped |-> a.dropped,
              unrouted |-> a.unrouted, cleared |-> a.cleared]
  BY <1>4, FlowFields
<1>7. g = [queue |-> [a.queue EXCEPT ![d] = <<>>], buffer |-> a.buffer, dropped |-> a.dropped,
           unrouted |-> a.unrouted, cleared |-> a.cleared]
  BY <1>3, <1>6
<1>8. /\ g.queue = [a.queue EXCEPT ![d] = <<>>] /\ g.buffer = a.buffer /\ g.dropped = a.dropped
      /\ g.unrouted = a.unrouted /\ g.cleared = a.cleared
  BY <1>7
<1>9. /\ g.queue[d] = <<>> /\ \A e \in Destinations : e # d => g.queue[e] = a.queue[e]
      /\ g.queue \in [Destinations -> Seq(P)]
  BY <1>6, <1>8, Empty
<1>10. g \in FlowType(P)
  BY <1>6, <1>7, <1>8, <1>9 DEF FlowType
<1>11. Everywhere(g, sent, P)
  <2> SUFFICES ASSUME NEW p \in P PROVE Somewhere(g, sent, p)
    BY DEF Everywhere
  <2>1. Somewhere(f, sent, p)
    BY <1>1 DEF Everywhere
  <2>2. CASE p \in ToSet(q)
    <3>1. Lands(a, p, up) \/ p \in ToSet(a.buffer)
      BY <1>4, <2>2
    <3>2. \A e \in up : g.queue[e] = a.queue[e] /\ e \in Destinations
      BY <1>2, <1>9
    <3> QED
      BY <1>8, <3>1, <3>2 DEF Lands, Somewhere
  <2>3. CASE p \notin ToSet(q)
    BY <1>1, <1>4, <1>8, <1>9, <2>1, <2>3 DEF Kept, Somewhere, q
  <2> QED
    BY <2>2, <2>3
<1>12. ASSUME Hashing, Replication = 1 PROVE Once(g, sent)
  <2>1. Once(f, sent)
    BY <1>12 DEF FlowInv, f
  <2>2. Apart(f.queue, Destinations) /\ IsInjective(f.buffer) /\ IsInjective(q)
    BY <1>1, <2>1 DEF Once, Apart, q
  <2>3. \A p \in ToSet(q) : p \in Held(f.queue, Destinations) /\ p \notin ToSet(f.buffer)
    BY <1>1, <2>1 DEF Once, Held, q
  <2>4. \A p \in ToSet(q) : p \notin Held(f.queue, S)
    BY <1>1, <2>2 DEF Held, Apart, q
  <2>5. Apart(f.queue, S)
    BY <2>2 DEF Apart
  <2>6. \A p \in Held(f.queue, S) : p \in Held(f.queue, Destinations)
    BY DEF Held
  <2>7. \A p : p \in Held(g.queue, Destinations) => p \in Held(a.queue, S)
    BY <1>9, Empty DEF Held
  <2>8. /\ Apart(a.queue, S)
        /\ Held(a.queue, S) \subseteq Held(f.queue, S) \cup ToSet(q)
    BY <1>1, <1>2, <1>12, <2>2, <2>4, <2>5, ReinjectingOnce DEF a
  <2>9. Apart(g.queue, Destinations)
    <3>1. \A e \in Destinations : IsInjective(g.queue[e])
      BY <1>9, <2>8, Empty DEF Apart
    <3>2. \A e \in Destinations : \A x \in ToSet(g.queue[e]) : e \in S /\ x \in ToSet(a.queue[e])
      BY <1>9, Empty
    <3> QED
      BY <2>8, <3>1, <3>2 DEF Apart
  <2>10. \A x : x \in Held(g.queue, Destinations) => x \in Held(f.queue, Destinations)
    BY <2>3, <2>6, <2>7, <2>8
  <2>11. /\ IsInjective(g.buffer)
         /\ \A x \in ToSet(g.buffer) : x \notin Held(g.queue, Destinations)
         /\ \A x \in sent : x[2] \notin ToSet(g.buffer)
    <3>1. CASE up # {}
      <4>1. g.buffer = f.buffer
        BY <1>5, <1>8, <1>12, <3>1
      <4> QED
        BY <2>1, <2>10, <4>1 DEF Once
    <3>2. CASE up = {}
      <4>1. a = Reinject(f, q, {})
        BY <3>2 DEF a
      <4>2. /\ a.queue = f.queue /\ IsInjective(a.buffer)
            /\ ToSet(a.buffer) \subseteq ToSet(f.buffer) \cup ToSet(q)
        BY <1>1, <1>2, <2>2, <2>3, <4>1, ReinjectingToBuffer
      <4>3. \A x \in ToSet(a.buffer) : x \notin Held(a.queue, S)
        BY <2>1, <2>4, <2>6, <4>2 DEF Once
      <4>4. \A x \in sent : x[2] \notin ToSet(a.buffer)
        BY <2>1, <2>3, <4>2 DEF Once
      <4> QED
        BY <1>8, <2>7, <4>2, <4>3, <4>4
    <3> QED
      BY <3>1, <3>2
  <2>12. \A x \in sent : x[2] \notin Held(g.queue, Destinations)
    BY <2>1, <2>10 DEF Once
  <2>13. \A x, y \in sent : x[2] = y[2] => x = y
    BY <2>1 DEF Once
  <2> QED
    BY <2>9, <2>11, <2>12, <2>13 DEF Once
<1>13. Lost(g)
  BY <1>1, <1>4, <1>8 DEF Kept, Lost
<1> QED
  BY <1>10, <1>11, <1>12, <1>13 DEF FlowInv, g

(* The flow with the point that comes next. *)
LEMMA FlowReceived ==
  ASSUME NEW n \in Nat, FlowInv(Flow, sent, 1 .. n), NEW m \in Metrics, inRouter \subseteq Destinations,
         NEW g, g = Send(Flow, n + 1, m, inRouter)
  PROVE  /\ FlowInv(g, sent, 1 .. n + 1)
         /\ \A e \in Destinations : e \notin inRouter => g.queue[e] = queue[e]
<1> DEFINE f == Flow
           P == 1 .. n
           Q == 1 .. n + 1
           p == n + 1
<1>1. p \in Q /\ P \subseteq Q /\ p \notin P /\ \A x \in Q : x \in P \/ x = p
  OBVIOUS
<1>2. f \in FlowType(P) /\ f.queue = queue /\ Everywhere(f, sent, P) /\ Lost(f)
  BY DEF FlowInv, Flow
<1>3. g = Send(f, p, m, inRouter) /\ inRouter \in SUBSET Destinations
  OBVIOUS
<1>4. sent \subseteq Destinations \X P /\ FlowInv(f, sent, P)
  BY DEF FlowInv
<1> HIDE DEF f, P, Q, p
<1>5. \A x \in Seq(P) : x \in Seq(Q) /\ \A y \in ToSet(x) : y \in P
  <2> TAKE x \in Seq(P)
  <2>1. Len(x) \in Nat /\ DOMAIN x = 1 .. Len(x) /\ \A i \in 1 .. Len(x) : x[i] \in P
    BY LenProperties, ElementOfSeq
  <2>2. x \in [1 .. Len(x) -> Q]
    BY <1>1, <2>1, LenProperties
  <2>3. x \in Seq(Q)
    BY <2>1, <2>2
  <2> QED
    BY <2>1, <2>3 DEF ToSet
<1>6. /\ f.queue \in [Destinations -> Seq(P)] /\ f.buffer \in Seq(P) /\ f.dropped \in SUBSET P
      /\ f.unrouted \in SUBSET P /\ f.cleared \in SUBSET P
  BY <1>2, FlowFields
<1>7. f \in FlowType(Q)
  <2>1. /\ f.queue \in [Destinations -> Seq(Q)] /\ f.buffer \in Seq(Q) /\ f.dropped \in SUBSET Q
        /\ f.unrouted \in SUBSET Q /\ f.cleared \in SUBSET Q
    BY <1>1, <1>5, <1>6
  <2>2. f = [queue |-> f.queue, buffer |-> f.buffer, dropped |-> f.dropped,
             unrouted |-> f.unrouted, cleared |-> f.cleared]
    BY <1>2, FlowFields
  <2> QED
    BY <2>1, <2>2 DEF FlowType
<1>8. Kept(f, g, inRouter) /\ (Lands(g, p, inRouter) \/ p \in ToSet(g.buffer))
  BY <1>1, <1>3, <1>7, SendingKeeps
<1>9. g \in FlowType(Q) /\ Appended(f, g, p, inRouter)
  BY <1>1, <1>3, <1>7, Sending
<1>10. sent \subseteq Destinations \X Q
  BY <1>1, <1>4
<1>11. Everywhere(g, sent, Q)
  <2>1. \A x \in P : Somewhere(f, sent, x)
    BY <1>2 DEF Everywhere
  <2>2. \A x \in P : Somewhere(g, sent, x)
    BY <1>3, <1>8, <2>1, KeptIsSomewhere
  <2>3. Somewhere(g, sent, p)
    BY <1>3, <1>8, KeptIsSomewhere
  <2> QED
    BY <1>1, <2>2, <2>3 DEF Everywhere
<1>12. ASSUME Hashing, Replication = 1 PROVE Once(g, sent)
  <2>1. Once(f, sent)
    BY <1>4, <1>12 DEF FlowInv
  <2>2. Apart(f.queue, Destinations) /\ IsInjective(f.buffer)
    BY <2>1 DEF Once
  <2>3. p \notin Held(f.queue, Destinations) /\ p \notin ToSet(f.buffer)
    BY <1>1, <1>5, <1>6 DEF Held
  <2>4. \A x \in sent : x[2] # p
    BY <1>1, <1>4
  <2>5. \A x, y \in sent : x[2] = y[2] => x = y
    BY <2>1 DEF Once
  <2>6. CASE inRouter # {}
    <3>1. g.buffer = f.buffer
      BY <1>1, <1>3, <1>7, <1>12, <2>6, Sending
    <3>2. \A d, e \in Destinations : g.queue[d] # f.queue[d] /\ g.queue[e] # f.queue[e] => d = e
      BY <1>1, <1>3, <1>7, <1>12, Sending
    <3>3. \A e \in Destinations : g.queue[e] = f.queue[e] \/ g.queue[e] = Append(f.queue[e], p)
      BY <1>9 DEF Appended
    <3>4. \A e \in Destinations : f.queue[e] \in Seq(Q)
      BY <1>7, FlowFields
    <3>5. /\ Apart(g.queue, Destinations)
          /\ Held(g.queue, Destinations) \subseteq Held(f.queue, Destinations) \cup {p}
      BY <1>1, <2>2, <2>3, <3>2, <3>3, <3>4, OneMore
    <3>6. \A x \in ToSet(g.buffer) : x \notin Held(g.queue, Destinations)
      BY <2>1, <2>3, <3>1, <3>5 DEF Once
    <3>7. \A x \in sent : x[2] \notin Held(g.queue, Destinations) /\ x[2] \notin ToSet(g.buffer)
      BY <2>1, <2>4, <3>1, <3>5 DEF Once
    <3> QED
      BY <2>2, <2>5, <3>1, <3>5, <3>6, <3>7 DEF Once
  <2>7. CASE inRouter = {}
    <3>1. g.queue = f.queue /\ (g.buffer = f.buffer \/ g.buffer = Append(f.buffer, p))
      BY <1>1, <1>3, <1>7, <2>7, Sending
    <3>2. f.buffer \in Seq(Q)
      BY <1>7, FlowFields
    <3>3. IsInjective(g.buffer) /\ ToSet(g.buffer) \subseteq ToSet(f.buffer) \cup {p}
      <4>1. IsInjective(Append(f.buffer, p))
        BY <1>1, <2>2, <2>3, <3>2, InjectiveAppend
      <4>2. ToSet(Append(f.buffer, p)) = ToSet(f.buffer) \cup {p}
        BY <1>1, <3>2, Appending
      <4> QED
        BY <2>2, <3>1, <4>1, <4>2
    <3>4. \A x \in ToSet(g.buffer) : x \notin Held(g.queue, Destinations)
      BY <2>1, <2>3, <3>1, <3>3 DEF Once
    <3>5. \A x \in sent : x[2] \notin Held(g.queue, Destinations) /\ x[2] \notin ToSet(g.buffer)
      BY <2>1, <2>4, <3>1, <3>3 DEF Once
    <3> QED
      BY <2>2, <2>5, <3>1, <3>3, <3>4, <3>5 DEF Once
  <2> QED
    BY <2>6, <2>7
<1>13. \A e \in Destinations : e \notin inRouter => g.queue[e] = queue[e]
  BY <1>2, <1>8 DEF Kept
<1>14. Lost(g)
  BY <1>2, <1>8 DEF Kept, Lost
<1> QED
  BY <1>9, <1>10, <1>11, <1>12, <1>13, <1>14 DEF FlowInv, Q

--------------------------------------------------------------------------------
(* The invariant of the relay *)

RelayTypeOK ==
  /\ method \in Methods /\ clients \subseteq Destinations
  /\ link \in [Destinations -> {"connecting", "waiting", "connected", "closing", "stopped"}]
  /\ retries \in [Destinations -> 0 .. MaxRetries]
  /\ inRouter \subseteq Destinations
  /\ queue \in [Destinations -> Seq(1 .. Len(received))]
  /\ buffer \in Seq(1 .. Len(received))
  /\ metricReceiversPaused \in BOOLEAN
  /\ received \in Seq(Metrics)
  /\ dropped \subseteq 1 .. Len(received) /\ unrouted \subseteq 1 .. Len(received)
  /\ cleared \subseteq 1 .. Len(received)
  /\ sent \subseteq Destinations \X (1 .. Len(received))
  /\ losses \in Nat
  /\ phase \in {"running", "stopping", "exited"} /\ raised \in BOOLEAN
  /\ flushing \subseteq Destinations /\ leaving \subseteq Destinations

Points == 1 .. Len(received)

\* The manager forgets a client only when it stops.
Running == phase = "running" => clients = Destinations /\ leaving = {}

\* As long as no connection was lost, the clients of the router are connected and the others
\* have nothing to send; and when all of them were asked to stop, those that have something
\* to send are connected, and waited for.
StopInv ==
  /\ phase = "running" => ~raised
  /\ phase = "exited" /\ ~raised => leaving = {}
  /\ losses = 0 /\ ~raised =>
       IF phase = "running"
       THEN /\ flushing = {}
            /\ \A d \in Destinations :
                 IF d \in inRouter THEN link[d] = "connected" ELSE queue[d] = <<>>
       ELSE /\ inRouter = {} /\ flushing \subseteq leaving
            /\ \A d \in Destinations :
                 IF d \in flushing THEN link[d] = "connected"
                 ELSE link[d] \in {"closing", "stopped"} /\ queue[d] = <<>>

RelayInv == RelayTypeOK /\ FlowInv(Flow, sent, Points) /\ Running /\ StopInv

LEMMA Starting == Init => RelayInv
<1> SUFFICES ASSUME Init PROVE RelayInv
  OBVIOUS
<1>1. received = <<>> /\ Len(received) = 0 /\ Points = {}
  BY DEF Init, Points
<1>2. RelayTypeOK
  <2>1. /\ queue \in [Destinations -> Seq(1 .. Len(received))] /\ buffer \in Seq(1 .. Len(received))
        /\ received \in Seq(Metrics)
    BY Empty DEF Init
  <2>2. retries \in [Destinations -> 0 .. MaxRetries] /\ losses \in Nat
    BY RelayAssumption DEF Init
  <2>3. metricReceiversPaused \in BOOLEAN /\ raised \in BOOLEAN
    BY DEF Init
  <2> QED
    BY <2>1, <2>2, <2>3 DEF Init, RelayTypeOK
<1>3. FlowInv(Flow, sent, Points)
  <2>1. /\ Flow = [queue |-> [d \in Destinations |-> <<>>], buffer |-> <<>>, dropped |-> {},
                   unrouted |-> {}, cleared |-> {}]
        /\ sent = {}
    BY DEF Init, Flow
  <2>2. Flow \in FlowType(Points)
    BY <2>1, Empty DEF FlowType
  <2>3. Held(Flow.queue, Destinations) = {} /\ Apart(Flow.queue, Destinations)
    BY <2>1, Empty DEF Held, Apart
  <2>4. Once(Flow, sent)
    BY <2>1, <2>3, Empty DEF Once
  <2> QED
    BY <1>1, <2>1, <2>2, <2>4 DEF FlowInv, Everywhere, Lost
<1>4. StopInv /\ Running
  BY DEF Init, StopInv, Running
<1> QED
  BY <1>2, <1>3, <1>4 DEF RelayInv

LEMMA FlowSet ==
  ASSUME NEW P, NEW g \in FlowType(P), SetFlow(g)
  PROVE  Flow' = g
BY FlowFields DEF SetFlow, Flow

LEMMA FlowSentFrom ==
  ASSUME NEW P, NEW f, FlowInv(f, sent, P), NEW d \in Destinations, NEW up,
         SendFrom(f, d, up)
  PROVE  FlowInv(Flow', sent', P)
<1> DEFINE g == [f EXCEPT !.queue[d] = Rest(@)]
           t == sent \cup ({d} \X ToSet(Message(f.queue[d])))
<1>1. FlowInv(g, t, P)
  BY FlowSent
<1>2. SetFlow(g) /\ sent' = t
  BY DEF SendFrom
<1> HIDE DEF g, t
<1>3. Flow' = g
  BY <1>1, <1>2, FlowSet DEF FlowInv
<1> QED
  BY <1>1, <1>2, <1>3

LEMMA FlowMoves ==
  ASSUME RelayInv, Next
  PROVE  FlowInv(Flow', sent', Points')
<1> USE DEF RelayInv, RelayTypeOK
<1>1. \A p \in Points : received[p] \in Metrics
  BY ElementOfSeq DEF Points
<1>2. Len(received) \in Nat
  BY LenProperties
<1>3. ASSUME NEW m \in Metrics, Receive(m) PROVE FlowInv(Flow', sent', Points')
  <2> DEFINE n == Len(received)
             g == Send(Flow, n + 1, m, inRouter)
  <2>1. received' = Append(received, m) /\ sent' = sent
    BY <1>3 DEF Receive
  <2>2. Len(received') = n + 1
    BY <2>1, AppendProperties
  <2>3. SetFlow(g)
    BY <1>3, <2>2 DEF Receive
  <2> HIDE DEF g
  <2>4. FlowInv(g, sent, 1 .. n + 1)
    BY <1>2, FlowReceived DEF g, Points
  <2>5. Flow' = g
    BY <2>3, <2>4, FlowSet DEF FlowInv
  <2> QED
    BY <2>1, <2>2, <2>4, <2>5 DEF Points
<1>4. ASSUME NEW d \in Destinations, SendQueued(d) PROVE FlowInv(Flow', sent', Points')
  <2>1. SendFrom(Flow, d, link[d]) /\ Points' = Points
    BY <1>4 DEF SendQueued, Points
  <2> QED
    BY <2>1, FlowSentFrom
<1>5. ASSUME NEW d \in Destinations, ConnectionMade(d) PROVE FlowInv(Flow', sent', Points')
  <2> DEFINE f == IF d \in inRouter THEN Flow ELSE AfterUp(d)
  <2>1. SendFrom(f, d, "connected") /\ Points' = Points
    BY <1>5 DEF ConnectionMade, Points
  <2>2. FlowInv(f, sent, Points)
    BY <1>1, FlowUp
  <2> HIDE DEF f
  <2> QED
    BY <2>1, <2>2, FlowSentFrom
<1>6. ASSUME NEW d \in Destinations, ConnectionFailed(d) \/ ConnectionLost(d) \/ Closed(d)
      PROVE  FlowInv(Flow', sent', Points')
  <2>1. DestinationDown(d) /\ sent' = sent /\ Points' = Points
    BY <1>6 DEF ConnectionFailed, ConnectionLost, Closed, DestinationDown, Points
  <2>2. CASE UNCHANGED flow
    BY <2>1, <2>2 DEF flow, Flow
  <2>3. CASE SetFlow(AfterDown(d))
    <3>1. FlowInv(AfterDown(d), sent, Points)
      BY <1>1, FlowDown
    <3>2. Flow' = AfterDown(d)
      BY <2>3, <3>1, FlowSet DEF FlowInv
    <3> QED
      BY <2>1, <3>1, <3>2
  <2> QED
    BY <2>1, <2>2, <2>3 DEF DestinationDown
<1>7. CASE StopService \/ Exit \/ Exited \/ \E d \in Destinations : Retry(d)
  <2>1. Flow' = Flow /\ sent' = sent /\ Points' = Points
    BY <1>7 DEF StopService, Exit, Exited, Retry, vars, flow, Flow, Points
  <2> QED
    BY <2>1
<1> QED
  BY <1>3, <1>4, <1>5, <1>6, <1>7 DEF Next


\* The router is the same, and the manager gets no clients.
LEMMA Managing ==
  ASSUME RelayInv, Next
  PROVE  method' = method /\ clients' \subseteq clients
<1>1. method' = method
  BY DEF Next, Receive, SendQueued, SendFrom, ConnectionMade, ConnectionFailed,
         ConnectionLost, Closed, CountRetry, DestinationDown, Retry, StopService, Exit, Exited, vars, end
<1> QED
  BY <1>1 DEF Next, Receive, SendQueued, SendFrom, ConnectionMade, ConnectionFailed,
         ConnectionLost, Closed, CountRetry, DestinationDown, Retry, StopService, Exit, Exited, vars, end

LEMMA FlowStep ==
  ASSUME RelayInv, Next
  PROVE  FlowInv(Flow, sent, Points)'
<1>1. FlowInv(Flow', sent', Points')
  BY FlowMoves
<1>2. method' = method /\ (clients' = Destinations => clients = Destinations)
  BY Managing DEF RelayInv, RelayTypeOK
<1>3. Hashing' = Hashing /\ (NeverRaises' => NeverRaises)
  BY <1>2 DEF Hashing, NeverRaises
<1> QED
  BY <1>1, <1>3 DEF FlowInv, Lost

LEMMA TypeStep ==
  ASSUME RelayInv, Next
  PROVE  RelayTypeOK'
<1> USE DEF RelayInv
<1>1. Flow' \in FlowType(Points') /\ sent' \subseteq Destinations \X Points'
  BY FlowMoves DEF FlowInv
<1>2. /\ queue' \in [Destinations -> Seq(Points')] /\ buffer' \in Seq(Points')
      /\ dropped' \subseteq Points' /\ unrouted' \subseteq Points' /\ cleared' \subseteq Points'
  BY <1>1, FlowFields DEF Flow
<1>3. received' \in Seq(Metrics)
  <2>1. received' = received \/ \E m \in Metrics : received' = Append(received, m)
    BY DEF Next, Receive, SendQueued, SendFrom, ConnectionMade, ConnectionFailed,
         ConnectionLost, Closed, CountRetry, DestinationDown, Retry, StopService, Exit, Exited, vars, end
  <2>2. received \in Seq(Metrics) /\ \A m \in Metrics : Append(received, m) \in Seq(Metrics)
    BY AppendProperties DEF RelayTypeOK
  <2> QED
    BY <2>1, <2>2
<1>4. inRouter' \subseteq Destinations /\ flushing' \subseteq Destinations /\ leaving' \subseteq Destinations
  BY DEF RelayTypeOK, Next, Receive, SendQueued, SendFrom, ConnectionMade, ConnectionFailed,
         ConnectionLost, Closed, CountRetry, DestinationDown, Retry, StopService, Exit, Exited, vars, end
<1>5. link' \in [Destinations -> {"connecting", "waiting", "connected", "closing", "stopped"}]
  <2> DEFINE L == {"connecting", "waiting", "connected", "closing", "stopped"}
  <2>1. ASSUME NEW d \in Destinations, SendQueued(d) \/ ConnectionMade(d) PROVE link' \in [Destinations -> L]
    BY <2>1 DEF RelayTypeOK, SendQueued, SendFrom, ConnectionMade
  <2>2. ASSUME NEW d \in Destinations, ConnectionFailed(d) \/ ConnectionLost(d) \/ Closed(d) \/ Retry(d)
        PROVE  link' \in [Destinations -> L]
    BY <2>2 DEF RelayTypeOK, ConnectionFailed, ConnectionLost, Closed, CountRetry, Retry
  <2>3. CASE StopService
    BY <2>3 DEF RelayTypeOK, StopService, Disconnected
  <2> QED
    BY <2>1, <2>2, <2>3 DEF RelayTypeOK, Next, Receive, Exit, Exited, vars
<1>6. retries' \in [Destinations -> 0 .. MaxRetries]
  <2>1. \A n \in 0 .. MaxRetries : (IF n < MaxRetries THEN n + 1 ELSE n) \in 0 .. MaxRetries
    BY RelayAssumption
  <2>2. 0 \in 0 .. MaxRetries
    BY RelayAssumption
  <2>3. ASSUME NEW d \in Destinations, CountRetry(d) PROVE retries' \in [Destinations -> 0 .. MaxRetries]
    BY <2>1, <2>3 DEF CountRetry, RelayTypeOK
  <2>4. ASSUME NEW d \in Destinations, ConnectionMade(d) PROVE retries' \in [Destinations -> 0 .. MaxRetries]
    BY <2>2, <2>4 DEF ConnectionMade, RelayTypeOK
  <2> QED
    BY <2>3, <2>4 DEF RelayTypeOK, Next, Receive, SendQueued, ConnectionFailed,
         ConnectionLost, Closed, Retry, StopService, Exit, Exited, vars, end
<1>7. metricReceiversPaused' \in BOOLEAN
  <2>1. ASSUME NEW d \in Destinations, DestinationDown(d) PROVE metricReceiversPaused' \in BOOLEAN
    <3>1. \/ metricReceiversPaused' = metricReceiversPaused
          \/ metricReceiversPaused' = (metricReceiversPaused \/ Unusable(inRouter'))
      BY <2>1, Zenon DEF DestinationDown
    <3> QED
      BY <3>1, Zenon DEF RelayTypeOK
  <2>2. ASSUME NEW d \in Destinations, ConnectionMade(d) PROVE metricReceiversPaused' \in BOOLEAN
    BY <2>2, Zenon DEF ConnectionMade
  <2>3. ASSUME NEW d \in Destinations, ConnectionFailed(d) \/ ConnectionLost(d) \/ Closed(d)
        PROVE  metricReceiversPaused' \in BOOLEAN
    BY <2>1, <2>3 DEF ConnectionFailed, ConnectionLost, Closed
  <2>4. ASSUME NEW d \in Destinations, SendQueued(d) \/ Retry(d) PROVE metricReceiversPaused' \in BOOLEAN
    <3>1. metricReceiversPaused' = metricReceiversPaused
      BY <2>4 DEF SendQueued, Retry
    <3> QED
      BY <3>1, Zenon DEF RelayTypeOK
  <2>5. ASSUME (\E m \in Metrics : Receive(m)) \/ StopService \/ Exit \/ Exited
        PROVE  metricReceiversPaused' \in BOOLEAN
    <3>1. metricReceiversPaused' = metricReceiversPaused
      BY <2>5 DEF Receive, StopService, Exit, Exited, vars
    <3> QED
      BY <3>1, Zenon DEF RelayTypeOK
  <2>6. \/ (\E m \in Metrics : Receive(m)) \/ StopService \/ Exit \/ Exited
        \/ \E d \in Destinations :
             \/ SendQueued(d) \/ Retry(d) \/ ConnectionMade(d)
             \/ ConnectionFailed(d) \/ ConnectionLost(d) \/ Closed(d)
    BY DEF Next
  <2> QED
    BY <2>2, <2>3, <2>4, <2>5, <2>6, Zenon
<1>8. losses' \in Nat
  <2>1. losses' = losses \/ losses' = losses + 1
    BY DEF Next, Receive, SendQueued, ConnectionMade, ConnectionFailed, ConnectionLost, Closed,
       Retry, StopService, Exit, Exited, vars
  <2> QED
    BY <2>1 DEF RelayTypeOK
<1>9. phase' \in {"running", "stopping", "exited"}
  BY DEF RelayTypeOK, Next, Receive, SendQueued, SendFrom, ConnectionMade, ConnectionFailed,
         ConnectionLost, Closed, CountRetry, DestinationDown, Retry, StopService, Exit, Exited, vars, end
<1>10. raised' \in BOOLEAN
  <2>1. ASSUME NEW d \in Destinations,
               ConnectionFailed(d) \/ ConnectionLost(d) \/ Closed(d)
        PROVE  raised' = raised
    BY <2>1 DEF ConnectionFailed, ConnectionLost, Closed, DestinationDown
  <2> QED
    BY <2>1, Zenon DEF RelayTypeOK, Next, Receive, SendQueued, ConnectionMade,
         Retry, StopService, Exit, Exited, vars, end
<1>11. method' \in Methods /\ clients' \subseteq Destinations
  BY Managing DEF RelayTypeOK
<1> QED
  BY <1>1, <1>2, <1>3, <1>4, <1>5, <1>6, <1>7, <1>8, <1>9, <1>10, <1>11 DEF RelayTypeOK, Points

LEMMA RunningStep ==
  ASSUME RelayInv, Next
  PROVE  Running'
<1> USE DEF RelayInv
<1>1. ASSUME NEW d \in Destinations, DestinationDown(d) PROVE Running'
  BY <1>1 DEF Running, DestinationDown
<1>2. CASE StopService \/ Exit
  BY <1>2 DEF Running, StopService, Exit
<1> QED
  BY <1>1, <1>2 DEF Running, Next, Receive, SendQueued, ConnectionMade, ConnectionFailed,
     ConnectionLost, Closed, Retry, Exited, vars, end

LEMMA StopStep ==
  ASSUME RelayInv, Next
  PROVE  StopInv'
<1> USE DEF RelayInv
<1>1. /\ link \in [Destinations -> {"connecting", "waiting", "connected", "closing", "stopped"}]
      /\ inRouter \subseteq Destinations /\ flushing \subseteq Destinations
      /\ queue \in [Destinations -> Seq(Points)] /\ losses \in Nat
      /\ phase \in {"running", "stopping", "exited"}
  BY DEF RelayTypeOK, Points
<1>2. \A p \in Points : received[p] \in Metrics
  BY ElementOfSeq DEF Points, RelayTypeOK
<1>3. ASSUME NEW m \in Metrics, Receive(m) PROVE StopInv'
  <2> DEFINE g == Send(Flow, Len(received) + 1, m, inRouter)
  <2>1. queue' = g.queue
    <3>1. Len(received') = Len(received) + 1
      BY <1>3, AppendProperties DEF Receive, RelayTypeOK
    <3> QED
      BY <1>3, <3>1 DEF Receive, SetFlow
  <2>2. \A e \in Destinations : e \notin inRouter => g.queue[e] = queue[e]
    BY <1>1, LenProperties, FlowReceived DEF Points, RelayTypeOK
  <2>3. UNCHANGED <<link, inRouter, losses, phase, raised, flushing, leaving>>
    BY <1>3 DEF Receive, end
  <2> HIDE DEF g
  <2> QED
    BY <2>1, <2>2, <2>3 DEF StopInv
<1>4. ASSUME NEW d \in Destinations, SendQueued(d) PROVE StopInv'
  <2>1. /\ queue' = [queue EXCEPT ![d] = Rest(@)]
        /\ flushing' = IF Rest(queue[d]) = <<>> THEN flushing \ {d} ELSE flushing
        /\ link' = [link EXCEPT ![d] = IF d \in flushing \ flushing' THEN "closing" ELSE link[d]]
    BY <1>4 DEF SendQueued, SendFrom, SetFlow, Flow
  <2>2. UNCHANGED <<inRouter, losses, phase, raised, leaving>> /\ phase # "exited" /\ queue[d] # <<>>
    BY <1>4 DEF SendQueued
  <2>3. CASE losses = 0 /\ ~raised /\ phase = "running"
    <3>1. flushing = {} /\ flushing' = {} /\ link' = link /\ d \in inRouter
      BY <1>1, <2>1, <2>2, <2>3 DEF StopInv
    <3>2. \A e \in Destinations : e # d => queue'[e] = queue[e]
      BY <1>1, <2>1
    <3> QED
      BY <2>2, <2>3, <3>1, <3>2 DEF StopInv
  <2>4. CASE losses = 0 /\ ~raised /\ phase # "running"
    <3>1. d \in flushing /\ link[d] = "connected" /\ inRouter = {} /\ flushing \subseteq leaving
      BY <2>2, <2>4 DEF StopInv
    <3>2. ASSUME NEW e \in Destinations
          PROVE  IF e \in flushing' THEN link'[e] = "connected"
                 ELSE link'[e] \in {"closing", "stopped"} /\ queue'[e] = <<>>
      <4>1. CASE e = d
        BY <1>1, <2>1, <3>1, <4>1
      <4>2. CASE e # d
        <5>1. link'[e] = link[e] /\ queue'[e] = queue[e] /\ (e \in flushing' <=> e \in flushing)
          BY <1>1, <2>1, <4>2
        <5> QED
          BY <2>4, <5>1 DEF StopInv
      <4> QED
        BY <4>1, <4>2
    <3>3. flushing' \subseteq leaving
      BY <2>1, <3>1
    <3> QED
      BY <2>2, <2>4, <3>1, <3>2, <3>3 DEF StopInv
  <2>5. CASE ~(losses = 0 /\ ~raised)
    BY <2>2, <2>5 DEF StopInv
  <2> QED
    BY <2>3, <2>4, <2>5
<1>5. ASSUME NEW d \in Destinations, ConnectionMade(d) PROVE StopInv'
  <2> DEFINE f == IF d \in inRouter THEN Flow ELSE AfterUp(d)
  <2>1. SendFrom(f, d, "connected")
    BY <1>5 DEF ConnectionMade
  <2>2. FlowInv(f, sent, Points)
    BY <1>1, <1>2, FlowUp
  <2>3. \A e \in Destinations : e \notin inRouter \cup {d} => f.queue[e] = queue[e]
    BY <1>1, <1>2, FlowUp DEF Flow
  <2>4. UNCHANGED <<losses, phase, raised, leaving>> /\ phase # "exited" /\ inRouter' = inRouter \cup {d}
    BY <1>5 DEF ConnectionMade
  <2>5. link[d] = "connecting"
    BY <1>5 DEF ConnectionMade
  <2>6. CASE losses = 0 /\ ~raised /\ phase = "running"
    <3> HIDE DEF f
    <3>1. flushing' = {} /\ link' = [link EXCEPT ![d] = "connected"]
      BY <2>1, <2>6 DEF SendFrom, StopInv
    <3>2. \A e \in Destinations : e # d => queue'[e] = f.queue[e]
      <4>1. f.queue \in [Destinations -> Seq(Points)]
        BY <2>2, FlowFields DEF FlowInv
      <4>2. queue' = [f EXCEPT !.queue[d] = Rest(@)].queue
        BY <2>1 DEF SendFrom, SetFlow
      <4>3. f = [queue |-> f.queue, buffer |-> f.buffer, dropped |-> f.dropped,
                 unrouted |-> f.unrouted, cleared |-> f.cleared]
        BY <2>2, FlowFields DEF FlowInv
      <4>4. queue' = [f.queue EXCEPT ![d] = Rest(@)]
        BY <4>2, <4>3
      <4> QED
        BY <4>1, <4>4
    <3> QED
      BY <1>1, <2>3, <2>4, <2>6, <3>1, <3>2 DEF StopInv
  <2>7. CASE losses = 0 /\ ~raised /\ phase # "running"
    BY <2>5, <2>7 DEF StopInv
  <2>8. CASE ~(losses = 0 /\ ~raised)
    BY <2>4, <2>8 DEF StopInv
  <2> QED
    BY <2>6, <2>7, <2>8
<1>6. ASSUME NEW d \in Destinations, ConnectionFailed(d) PROVE StopInv'
  <2>1. /\ CountRetry(d) /\ DestinationDown(d) /\ link[d] = "connecting" /\ phase # "exited"
        /\ UNCHANGED <<losses, phase, raised, flushing>>
    BY <1>6 DEF ConnectionFailed, DestinationDown
  <2>2. CASE losses = 0 /\ ~raised
    <3>1. phase = "running" /\ d \notin inRouter
      BY <2>1, <2>2 DEF StopInv
    <3>2. UNCHANGED <<inRouter, queue>> /\ link' = [link EXCEPT ![d] = "waiting"]
      BY <2>1, <3>1 DEF DestinationDown, CountRetry, flow
    <3> QED
      BY <1>1, <2>1, <2>2, <3>1, <3>2 DEF StopInv
  <2>3. CASE ~(losses = 0 /\ ~raised)
    BY <2>1, <2>3 DEF StopInv
  <2> QED
    BY <2>2, <2>3
<1>7. ASSUME NEW d \in Destinations, ConnectionLost(d) PROVE StopInv'
  <2>1. losses' = losses + 1 /\ phase # "exited" /\ UNCHANGED <<phase, raised>>
    BY <1>7 DEF ConnectionLost, DestinationDown
  <2>2. losses' # 0
    BY <1>1, <2>1
  <2> QED
    BY <2>1, <2>2 DEF StopInv
<1>12. ASSUME NEW d \in Destinations, Closed(d) PROVE StopInv'
  <2>1. /\ DestinationDown(d) /\ link[d] = "closing" /\ phase # "exited"
        /\ UNCHANGED <<losses, phase, raised, flushing>>
        /\ link' = [link EXCEPT ![d] = "stopped"] /\ leaving' = leaving \ {d}
    BY <1>12 DEF Closed, DestinationDown
  <2>2. CASE losses = 0 /\ ~raised
    <3>1. d \notin inRouter /\ (phase # "running" => d \notin flushing)
      BY <2>1, <2>2 DEF StopInv
    <3>2. UNCHANGED <<inRouter, queue>>
      BY <2>1, <3>1 DEF DestinationDown, flow
    <3>3. \A e \in Destinations : e # d => link'[e] = link[e]
      BY <1>1, <2>1
    <3>4. link'[d] = "stopped"
      BY <1>1, <2>1
    <3> QED
      BY <2>1, <2>2, <3>1, <3>2, <3>3, <3>4 DEF StopInv
  <2>3. CASE ~(losses = 0 /\ ~raised)
    BY <2>1, <2>3 DEF StopInv
  <2> QED
    BY <2>2, <2>3
<1>8. ASSUME NEW d \in Destinations, Retry(d) PROVE StopInv'
  BY <1>1, <1>8 DEF Retry, StopInv, flow, end
<1>9. CASE StopService
  <2>1. /\ phase' = "stopping" /\ losses' = losses /\ queue' = queue /\ phase = "running"
    BY <1>9 DEF StopService, flow
  <2>2. PICK S \in SUBSET Destinations :
          /\ IF raised' THEN S \subseteq inRouter ELSE S = Destinations
          /\ inRouter' = inRouter \ S
          /\ flushing' = {d \in S : queue[d] # <<>>} /\ leaving' = flushing'
          /\ link' = [d \in Destinations |-> IF d \in S \ flushing' THEN Disconnected(d) ELSE link[d]]
    BY <1>9 DEF StopService
  <2>3. CASE losses = 0 /\ ~raised'
    <3>1. S = Destinations /\ inRouter' = {} /\ flushing' \subseteq leaving'
      BY <1>1, <2>2, <2>3
    <3>2. \A d \in Destinations : d \in flushing' => link[d] = "connected"
      BY <2>1, <2>2, <2>3 DEF StopInv
    <3>3. \A d \in Destinations : IF d \in flushing' THEN link'[d] = "connected"
                                 ELSE link'[d] \in {"closing", "stopped"} /\ queue'[d] = <<>>
      BY <2>1, <2>2, <3>1, <3>2 DEF Disconnected
    <3> QED
      BY <2>1, <3>1, <3>3 DEF StopInv
  <2>4. CASE ~(losses = 0 /\ ~raised')
    BY <2>1, <2>4 DEF StopInv
  <2> QED
    BY <2>3, <2>4
<1>10. CASE Exit
  <2>1. /\ phase = "stopping" /\ phase' = "exited" /\ (~raised => leaving = {})
        /\ UNCHANGED <<link, inRouter, queue, losses, raised, flushing, leaving>>
    BY <1>10 DEF Exit, flow
  <2> QED
    BY <2>1 DEF StopInv
<1>11. CASE Exited
  BY <1>11 DEF Exited, StopInv, vars, flow, end
<1> QED
  BY <1>3, <1>4, <1>5, <1>6, <1>7, <1>8, <1>9, <1>10, <1>11, <1>12 DEF Next

LEMMA RelayInvHolds == Spec => []RelayInv
<1>1. ASSUME RelayInv, UNCHANGED vars PROVE RelayInv'
  <2>1. Flow' = Flow /\ Points' = Points /\ sent' = sent /\ Hashing' = Hashing /\ NeverRaises' = NeverRaises
    BY <1>1 DEF vars, flow, end, Flow, Points, Hashing, NeverRaises
  <2>2. FlowInv(Flow, sent, Points)'
    BY <1>1, <2>1 DEF RelayInv, FlowInv, Lost
  <2>3. RelayTypeOK'
    BY <1>1 DEF RelayInv, RelayTypeOK, vars, flow, end
  <2>4. StopInv' /\ Running'
    BY <1>1 DEF RelayInv, StopInv, Running, vars, flow, end
  <2> QED
    BY <2>2, <2>3, <2>4 DEF RelayInv
<1>2. ASSUME RelayInv, Next PROVE RelayInv'
  BY <1>2, FlowStep, TypeStep, RunningStep, StopStep DEF RelayInv
<1>3. RelayInv /\ [Next]_vars => RelayInv'
  BY <1>1, <1>2
<1> QED
  BY <1>3, Starting, PTL DEF Spec

--------------------------------------------------------------------------------
(* The variables have their types, and the queues hold datapoints that were received. *)
THEOREM RelayTypeCorrect == Spec => []RelayTypeOK
BY RelayInvHolds, PTL DEF RelayInv

(* No datapoint is lost, whatever destinations come, go and re-inject (destinationUp(),
   destinationDown(), sendDatapoint()), but for the exceptions of a relay that is stopping
   or of a fast ring without a node, and the buffer that is cleared with relay rules. *)
THEOREM NoPointLost == Spec => []PointsKept
<1>1. RelayInv => PointsKept
  <2> SUFFICES ASSUME RelayInv, NEW p \in 1 .. Len(received)
               PROVE  \/ Places(p) # {} \/ p \in ToSet(buffer) \/ p \in dropped
                      \/ p \in unrouted /\ (phase # "running" \/ method = "fast-hashing")
                      \/ p \in cleared /\ method = "rules"
    BY DEF PointsKept
  <2>1. Somewhere(Flow, sent, p) /\ Lost(Flow)
    BY DEF RelayInv, FlowInv, Everywhere, Points
  <2>2. p \in unrouted => phase # "running" \/ method = "fast-hashing"
    BY <2>1 DEF Lost, Flow, NeverRaises, RelayInv, Running
  <2>3. p \in cleared => method = "rules"
    BY <2>1 DEF Lost, Flow, Hashing
  <2> QED
    BY <2>1, <2>2, <2>3 DEF Somewhere, Places, Flow
<1> QED
  BY <1>1, RelayInvHolds, PTL

(* With a hashing router and no replication, a datapoint has one destination through any
   number of re-injections. *)
THEOREM OneDestination == Spec => []PointsOnce
<1>1. RelayInv => PointsOnce
  <2> SUFFICES ASSUME RelayInv, Replication = 1, method # "rules"
               PROVE  /\ \A p \in 1 .. Len(received) : \A d, e \in Places(p) : d = e
                      /\ \A d \in Destinations :
                           IsInjective(queue[d]) /\ \A p \in ToSet(queue[d]) : <<d, p>> \notin sent
    BY DEF PointsOnce
  <2>1. Once(Flow, sent) /\ Flow.queue = queue
    BY DEF RelayInv, FlowInv, Flow, Hashing
  <2>2. Apart(queue, Destinations)
    BY <2>1 DEF Once
  <2>3. \A d, e \in Destinations : \A p \in ToSet(queue[d]) : <<e, p>> \notin sent
    BY <2>1 DEF Once, Held
  <2>4. ASSUME NEW p, NEW d \in Places(p), NEW e \in Places(p) PROVE d = e
    <3>1. d \in Destinations /\ e \in Destinations
      BY DEF Places
    <3>2. CASE p \in ToSet(queue[d])
      BY <2>2, <2>3, <3>1, <3>2 DEF Places, Apart
    <3>3. CASE <<d, p>> \in sent
      <4>1. <<e, p>> \in sent
        BY <2>3, <3>1, <3>3 DEF Places
      <4>2. \A x, y \in sent : x[2] = y[2] => x = y
        BY <2>1 DEF Once
      <4>3. <<d, p>> = <<e, p>>
        BY <3>3, <4>1, <4>2
      <4> QED
        BY <4>3
    <3> QED
      BY <3>2, <3>3 DEF Places
  <2> QED
    BY <2>2, <2>3, <2>4 DEF Apart
<1> QED
  BY <1>1, RelayInvHolds, PTL

(* The service stops after its clients have sent all their queues, unless stopAllClients()
   raised or a connection went down (test_stop_service_waits_for_clients_to_disconnect). *)
THEOREM StopsAfterClients == Spec => []StopWaitsForClients
<1>1. RelayInv => StopWaitsForClients
  <2> SUFFICES ASSUME RelayInv, phase = "exited", ~raised, losses = 0, NEW d \in Destinations
               PROVE  queue[d] = <<>>
    BY DEF StopWaitsForClients
  <2> QED
    BY DEF RelayInv, StopInv
<1> QED
  BY <1>1, RelayInvHolds, PTL

================================================================================
