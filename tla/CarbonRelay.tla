------------------------------ MODULE CarbonRelay ------------------------------
(***************************************************************************)
(* carbon-relay with a dynamic router (carbon/lib/carbon/client.py): the    *)
(* destinations that are up, the queues of their clients, the buffer of     *)
(* FakeClientFactory for the time when none is up, and the end of the       *)
(* service, which forgets its clients one by one.  CarbonClient has the     *)
(* details of one client.  The routers are the consistent-hashing, the      *)
(* fast-hashing and the rules one (routers.py); the two aggregated-hashing  *)
(* ones and DIVERSE_REPLICAS are left out.                                  *)
(***************************************************************************)
EXTENDS Naturals, Sequences, FiniteSets, SequencesExt

CONSTANTS Destinations, Metrics,
          Methods,        \* what RELAY_METHOD may be
          Ring,           \* hashing: for a metric, and the destinations of the router, those
                          \* in the order of the ring
          Rules,          \* the destinations of the rules that match a metric
          Replication,    \* REPLICATION_FACTOR
          MaxQueue,       \* MAX_QUEUE_SIZE
          Batch,          \* MAX_DATAPOINTS_PER_MESSAGE
          MaxRetries,     \* DYNAMIC_ROUTER_MAX_RETRIES
          UseFlowControl, \* USE_FLOW_CONTROL
          MaxPoints,      \* bound: datapoints received
          MaxLosses       \* bound: connections lost

ASSUME RelayAssumption ==
  /\ {Replication, MaxQueue, Batch} \subseteq Nat \ {0}
  /\ {MaxRetries, MaxPoints, MaxLosses} \subseteq Nat
  /\ UseFlowControl \in BOOLEAN
  /\ Methods \subseteq {"consistent-hashing", "fast-hashing", "rules"}
  /\ \A m \in Metrics :
       /\ Rules[m] \in Seq(Destinations) /\ IsInjective(Rules[m])
       /\ \A up \in SUBSET Destinations :
            Ring[m][up] \in Seq(up) /\ IsInjective(Ring[m][up]) /\ ToSet(Ring[m][up]) = up

VARIABLES
  method,          \* RELAY_METHOD
  clients,         \* the destinations client_factories has
  link, retries,   \* the connector of a destination, and how often it tried in vain
  inRouter,        \* the destinations of the router
  queue,           \* the send queues
  buffer,          \* the queue of the fake factory
  metricReceiversPaused,
  received,        \* the metrics of the datapoints, in the order they came
  dropped, sent,   \* the datapoints that met a full queue, and those given to a transport
  unrouted,        \* those whose routing raised, which the event logs (events.py:19-22)
  cleared,         \* those that came back to the buffer, and went when it was cleared
  losses,
  phase, raised,   \* of the service, and whether stopAllClients() raised
  flushing,        \* the clients that disconnect when their queue is empty
  leaving          \* those the end of the service waits for

flow == <<queue, buffer, dropped, unrouted, cleared>>
end == <<phase, raised, flushing, leaving, clients>>
vars == <<method, link, retries, inRouter, flow, metricReceiversPaused, received, sent, losses, end>>

Init ==
  /\ method \in Methods /\ clients = Destinations
  /\ link = [d \in Destinations |-> "connecting"] /\ retries = [d \in Destinations |-> 0]
  /\ inRouter = {} /\ queue = [d \in Destinations |-> <<>>] /\ buffer = <<>>
  /\ metricReceiversPaused = FALSE
  /\ received = <<>> /\ dropped = {} /\ sent = {} /\ unrouted = {} /\ cleared = {} /\ losses = 0
  /\ phase = "running" /\ raised = FALSE /\ flushing = {} /\ leaving = {}

--------------------------------------------------------------------------------
(* Routing: the relay's queues as one record, so that a handler can route many *)

Flow == [queue |-> queue, buffer |-> buffer, dropped |-> dropped, unrouted |-> unrouted,
         cleared |-> cleared]
SetFlow(f) ==
  /\ queue' = f.queue /\ buffer' = f.buffer /\ dropped' = f.dropped
  /\ unrouted' = f.unrouted /\ cleared' = f.cleared

\* getDestinations() of the router that holds `up`: the indices, in what it walks
\* through, of the destinations it yields.
Walk(m, up) == IF method = "rules" THEN Rules[m] ELSE Ring[m][up]
Yielded(m, up) ==
  {i \in DOMAIN Walk(m, up) : Walk(m, up)[i] \in up /\ (method = "rules" \/ i <= Replication)}
Route(m, up) == {Walk(m, up)[i] : i \in Yielded(m, up)}

\* The loop of sendDatapoint() ends with a KeyError at a client that is forgotten.
Reached(m, up) ==
  {Walk(m, up)[i] : i \in {j \in Yielded(m, up) :
                            \A k \in Yielded(m, up) : k <= j => Walk(m, up)[k] \in clients}}

\* The fast ring divides by the number of its nodes.
RoutingRaises(m, up) ==
  (method = "fast-hashing" /\ up = {}) \/ ~(Route(m, up) \subseteq clients)

\* sendDatapoint() of the manager: to the fake factory, or to the clients, each of which
\* queues the point or drops it.
Send(f, p, m, up) ==
  LET to == Reached(m, up)
      full == {d \in to : Len(f.queue[d]) >= MaxQueue} IN
  [queue    |-> [d \in Destinations |->
                   IF d \in to \ full THEN Append(f.queue[d], p) ELSE f.queue[d]],
   buffer   |-> IF Route(m, up) = {} /\ ~RoutingRaises(m, up) THEN Append(f.buffer, p) ELSE f.buffer,
   dropped  |-> IF full = {} THEN f.dropped ELSE f.dropped \cup {p},
   unrouted |-> IF RoutingRaises(m, up) THEN f.unrouted \cup {p} ELSE f.unrouted,
   cleared  |-> f.cleared]

\* metricGenerated for each of the points, which a generated pipeline relays.
Reinject(f, points, up) == FoldLeft(LAMBDA g, p : Send(g, p, received[p], up), f, points)

\* takeSomeFromQueue(): the message, and what is left.
MessageLength(q) == IF Batch < Len(q) THEN Batch ELSE Len(q)
Message(q) == SubSeq(q, 1, MessageLength(q))
Rest(q) == SubSeq(q, MessageLength(q) + 1, Len(q))

\* sendQueued() of a client whose link is up, from the queues f; with the last message a
\* client that stops closes its connection.
SendFrom(f, d, up) ==
  /\ SetFlow([f EXCEPT !.queue[d] = Rest(@)])
  /\ sent' = sent \cup ({d} \X ToSet(Message(f.queue[d])))
  /\ flushing' = IF Rest(f.queue[d]) = <<>> THEN flushing \ {d} ELSE flushing
  /\ link' = [link EXCEPT ![d] = IF d \in flushing \ flushing' THEN "closing" ELSE up]

--------------------------------------------------------------------------------
(* Datapoints *)

Receive(m) ==
  /\ phase # "exited" /\ Len(received) < MaxPoints
  /\ ~(UseFlowControl /\ metricReceiversPaused)
  /\ received' = Append(received, m)
  /\ SetFlow(Send(Flow, Len(received'), m, inRouter))
  /\ UNCHANGED <<method, link, retries, inRouter, metricReceiversPaused, sent, losses, end>>

SendQueued(d) ==
  /\ phase # "exited" /\ link[d] \in {"connected", "closing"} /\ queue[d] # <<>>
  /\ SendFrom(Flow, d, link[d])
  /\ UNCHANGED <<method, retries, inRouter, metricReceiversPaused, received, losses, phase,
                 raised, leaving, clients>>

--------------------------------------------------------------------------------
(* Connections *)

\* Mutants: the buffer is not re-injected; the queue is cleared without re-injecting it; it
\* is re-injected and not cleared.
AfterUp_NoResume(d) == Flow
AfterDown_ClearsOnly(d) == [Flow EXCEPT !.queue[d] = <<>>]
AfterDown_NoClear(d) == Reinject(Flow, queue[d], inRouter \ {d})
\* resumeReceivingMetrics re-injects the buffer once the router has the destination, and
\* clears it, with the points that are in it again.
AfterUp(d) ==
  LET f == Reinject([Flow EXCEPT !.buffer = <<>>], buffer, inRouter \cup {d}) IN
  [f EXCEPT !.buffer = <<>>, !.cleared = @ \cup ToSet(f.buffer)]

\* A destination that left the router leaves its queue to the others, or to the buffer.
AfterDown(d) == [Reinject(Flow, queue[d], inRouter \ {d}) EXCEPT !.queue[d] = <<>>]

\* The receivers pause when the router has no destination.
Unusable(up) == up = {}

\* connectionMade() and destinationUp(): a new destination resumes the receivers.  So does
\* one that is leaving, or that the manager has forgotten.
ConnectionMade(d) ==
  /\ phase # "exited" /\ link[d] = "connecting"
  /\ retries' = [retries EXCEPT ![d] = 0]
  /\ inRouter' = inRouter \cup {d}
  /\ metricReceiversPaused' = (metricReceiversPaused /\ d \in inRouter)
  /\ SendFrom(IF d \in inRouter THEN Flow ELSE AfterUp(d), d, "connected")
  /\ UNCHANGED <<method, received, losses, phase, raised, leaving, clients>>

\* destinationDown() takes a destination that was tried a lot off the router.  For a
\* client that is leaving, the manager is done, and forgets it: disconnectClient().
DestinationDown(d) ==
  /\ IF retries'[d] < MaxRetries \/ d \notin inRouter
     THEN UNCHANGED <<inRouter, metricReceiversPaused, flow>>
     ELSE /\ inRouter' = inRouter \ {d}
          /\ metricReceiversPaused' = (metricReceiversPaused \/ Unusable(inRouter'))
          /\ SetFlow(AfterDown(d))
  /\ leaving' = leaving \ {d}
  /\ clients' = IF d \in leaving THEN clients \ {d} ELSE clients
  /\ UNCHANGED <<method, received, sent, phase, raised, flushing>>

\* retry() of the reconnecting factory counts, up to what the code tells apart.
CountRetry(d) ==
  /\ retries' = [retries EXCEPT ![d] = IF @ < MaxRetries THEN @ + 1 ELSE @]
  /\ link' = [link EXCEPT ![d] = "waiting"]

ConnectionFailed(d) ==
  /\ phase # "exited" /\ link[d] = "connecting"
  /\ CountRetry(d)
  /\ DestinationDown(d)
  /\ UNCHANGED losses

ConnectionLost(d) ==
  /\ phase # "exited" /\ link[d] = "connected" /\ losses < MaxLosses
  /\ losses' = losses + 1
  /\ CountRetry(d)
  /\ DestinationDown(d)

\* The end of a connection that the client closed: it does not try again.
Closed(d) ==
  /\ phase # "exited" /\ link[d] = "closing"
  /\ link' = [link EXCEPT ![d] = "stopped"]
  /\ UNCHANGED <<retries, losses>>
  /\ DestinationDown(d)

Retry(d) ==
  /\ phase # "exited" /\ link[d] = "waiting"
  /\ link' = [link EXCEPT ![d] = "connecting"]
  /\ UNCHANGED <<method, retries, inRouter, flow, metricReceiversPaused, received, sent, losses, end>>

--------------------------------------------------------------------------------
(* The end of the service *)

\* disconnect() of a client with an empty queue: it closes its connection or stops trying,
\* and is forgotten at once.
Disconnected(d) == IF link[d] = "connected" THEN "closing" ELSE "stopped"

\* stopAllClients(): destination after destination leaves the router and disconnects,
\* at once or when its queue is empty.  A hashing router raises for one it does not
\* have, and the rest of the clients is not asked to disconnect.
StopService ==
  /\ phase = "running"
  /\ phase' = "stopping"
  /\ raised' = (method # "rules" /\ ~(Destinations \subseteq inRouter))
  /\ \E S \in SUBSET Destinations :
       /\ IF raised' THEN S \subseteq inRouter ELSE S = Destinations
       /\ inRouter' = inRouter \ S
       /\ flushing' = {d \in S : queue[d] # <<>>}
       /\ leaving' = flushing'
       /\ clients' = clients \ (S \ flushing')
       /\ link' = [d \in Destinations |-> IF d \in S \ flushing' THEN Disconnected(d) ELSE link[d]]
  /\ UNCHANGED <<method, retries, flow, metricReceiversPaused, received, sent, losses>>

\* Mutant: the service does not return the deferred of its clients.
Exit_AtOnce ==
  /\ phase = "stopping"
  /\ phase' = "exited"
  /\ UNCHANGED <<method, link, retries, inRouter, flow, metricReceiversPaused, received, sent,
                 losses, raised, flushing, leaving, clients>>

\* The process ends when the service has stopped.
Exit ==
  /\ phase = "stopping" /\ (raised \/ leaving = {})
  /\ phase' = "exited"
  /\ UNCHANGED <<method, link, retries, inRouter, flow, metricReceiversPaused, received, sent,
                 losses, raised, flushing, leaving, clients>>

Exited == phase = "exited" /\ UNCHANGED vars

Next ==
  \/ \E m \in Metrics : Receive(m)
  \/ \E d \in Destinations :
       \/ SendQueued(d) \/ ConnectionMade(d) \/ Retry(d)
       \/ ConnectionFailed(d) \/ ConnectionLost(d) \/ Closed(d)
  \/ StopService \/ Exit \/ Exited

Spec == Init /\ [][Next]_vars

(* Delayed calls are called, and attempts to connect succeed in the end. *)
FairSpec ==
  Spec /\ \A d \in Destinations :
    WF_vars(Retry(d)) /\ SF_vars(ConnectionMade(d))

--------------------------------------------------------------------------------
(* Properties *)

Ids == 1 .. MaxPoints
Places(p) == {d \in Destinations : p \in ToSet(queue[d]) \/ <<d, p>> \in sent}

(* No datapoint is lost while destinations come and go and queues are re-injected: it is
   queued, buffered or sent somewhere, or it met a full queue.  Else its routing raised,
   which happens only to a relay that is stopping (client.py:554) or to a fast ring
   without a node (routers.py:223), or it went with the buffer although that is there "to
   avoid loosing points" (client.py:433), which happens only with relay rules. *)
PointsKept ==
  \A p \in 1 .. Len(received) :
    \/ Places(p) # {} \/ p \in ToSet(buffer) \/ p \in dropped
    \/ p \in unrouted /\ (phase # "running" \/ method = "fast-hashing")
    \/ p \in cleared /\ method = "rules"

(* With a hashing router and no replication a datapoint goes to one destination, through
   any number of re-injections. *)
PointsOnce ==
  Replication = 1 /\ method # "rules" =>
    /\ \A p \in 1 .. Len(received) : \A d, e \in Places(p) : d = e
    /\ \A d \in Destinations : IsInjective(queue[d]) /\ \A p \in ToSet(queue[d]) : <<d, p>> \notin sent

(* Buffered datapoints get to a destination when one comes up. *)
BufferDrains == buffer # <<>> ~> buffer = <<>> \/ phase # "running"

(* The service stops when its clients have disconnected
   (test_stop_service_waits_for_clients_to_disconnect), and they disconnect when their
   queues are empty: unless stopAllClients() raised or a connection went down, no
   queue has a datapoint at the end. *)
StopWaitsForClients ==
  phase = "exited" /\ ~raised /\ losses = 0 => \A d \in Destinations : queue[d] = <<>>
================================================================================
