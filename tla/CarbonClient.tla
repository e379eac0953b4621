------------------------------ MODULE CarbonClient ------------------------------
(***************************************************************************)
(* One destination of carbon-relay: CarbonClientFactory with its queue and  *)
(* the CarbonClientProtocol of its current connection (carbon/lib/carbon/   *)
(* client.py), over the connector and the reconnecting factory of Twisted.  *)
(* The router is static: a destination is in it from the start.             *)
(***************************************************************************)
EXTENDS Naturals, Sequences, FiniteSets, SequencesExt

CONSTANTS MaxQueue,      \* MAX_QUEUE_SIZE
          Watermarks,    \* what the least size not below SEND_QUEUE_LOW_WATERMARK may be
          Batch,         \* MAX_DATAPOINTS_PER_MESSAGE
          RatioReset,    \* USE_RATIO_RESET
          MaxPoints,     \* bound: datapoints received
          MaxOwn         \* bound: high-priority datapoints in the queue

ASSUME ClientAssumption ==
  /\ {MaxQueue, Batch} \subseteq Nat \ {0} /\ {MaxPoints, MaxOwn} \subseteq Nat
  /\ Watermarks \subseteq Nat \ {0}
  /\ RatioReset \in BOOLEAN

VARIABLES
  lowWatermark, \* the one of this configuration
  queue,        \* datapoints are numbered as they come, 0 is one of carbon's own
  received,     \* how many came
  queueFull,    \* queueFull.called
  sendPending,  \* deferSendPending is active
  link,         \* the connector, and whether its protocol is `connected`
  paused,       \* the protocol's producer is paused
  trying,       \* continueTrying of the reconnecting factory
  inRouter,     \* router.hasDestination()
  stopping,     \* stopClient() was called
  readyToStop,  \* readyToStop.called
  accepted, sent,  \* the numbers that were queued, and given to a transport
  message       \* the last message

history == <<accepted, sent, message>>
shutdown == <<trying, stopping, readyToStop>>
vars == <<lowWatermark, queue, received, queueFull, sendPending, link, paused, inRouter, shutdown, history>>

Own == 0
Datapoints(q) == ToSet(q) \ {Own}
OwnIn(q) == {i \in DOMAIN q : q[i] = Own}
HasProtocol == link \in {"connected", "closing"}

Init ==
  /\ lowWatermark \in Watermarks
  /\ queue = <<>> /\ received = 0 /\ queueFull = FALSE /\ sendPending = FALSE
  /\ link = "connecting" /\ paused = FALSE /\ trying = TRUE /\ inRouter = TRUE
  /\ stopping = FALSE /\ readyToStop = FALSE
  /\ accepted = {} /\ sent = {} /\ message = <<>>

--------------------------------------------------------------------------------
(* Sending *)

\* Mutant: the event waits for the queue to be empty.
BelowWatermark_Empty(size) == size = 0
\* sendQueued() looks at the size from before the message was taken.
BelowWatermark(size) == size < lowWatermark

\* CarbonClientProtocol.sendQueued() of a link that is up: one message.  The transport
\* may pause its producer in the write; a connection that is too slow is closed before
\* it; an empty queue lets a client that stops close its connection.
SendQueued(isPaused, isPending, up) ==
  IF isPaused \/ queue = <<>>
  THEN /\ paused' = isPaused /\ sendPending' = isPending /\ link' = up
       /\ UNCHANGED <<queue, queueFull, trying, history>>
  ELSE LET n == IF Batch < Len(queue) THEN Batch ELSE Len(queue)
           rest == SubSeq(queue, n + 1, Len(queue))
           stopConnecting == stopping /\ rest = <<>> IN
       /\ message' = SubSeq(queue, 1, n)
       /\ queue' = rest
       /\ sent' = sent \cup Datapoints(message')
       /\ link' \in IF stopConnecting THEN {"closing"}
                    ELSE {up} \cup (IF RatioReset THEN {"closing"} ELSE {})
       /\ trying' = (trying /\ ~stopConnecting)
       /\ paused' \in IF up = "connected" /\ (link' = up \/ stopConnecting) THEN BOOLEAN ELSE {FALSE}
       /\ queueFull' = (queueFull /\ ~BelowWatermark(Len(queue)))
       /\ sendPending' = (isPending \/ rest # <<>>)
       /\ UNCHANGED accepted

\* The delayed call of scheduleSend().
SendDeferred ==
  /\ sendPending
  /\ IF HasProtocol
     THEN SendQueued(paused, FALSE, link)
     ELSE /\ sendPending' = FALSE
          /\ UNCHANGED <<queue, queueFull, link, paused, trying, history>>
  /\ UNCHANGED <<lowWatermark, received, inRouter, stopping, readyToStop>>

PauseProducing ==
  /\ link = "connected" /\ ~paused
  /\ paused' = TRUE
  /\ UNCHANGED <<lowWatermark, queue, received, queueFull, sendPending, link, inRouter,
                 shutdown, history>>

\* Mutant: the queue waits for the next datapoint.
ResumeProducing_OnlyFlag ==
  /\ link = "connected" /\ paused
  /\ paused' = FALSE
  /\ UNCHANGED <<lowWatermark, queue, received, queueFull, sendPending, link, inRouter,
                 shutdown, history>>

ResumeProducing ==
  /\ link = "connected" /\ paused
  /\ SendQueued(FALSE, sendPending, link)
  /\ UNCHANGED <<lowWatermark, received, inRouter, stopping, readyToStop>>

--------------------------------------------------------------------------------
(* Queueing *)

Enqueue(q) == queue' = q /\ sendPending' = (sendPending \/ HasProtocol)

\* Mutant: a datapoint jumps the queue.
SendDatapoint_Left ==
  /\ inRouter /\ ~readyToStop /\ received < MaxPoints
  /\ received' = received + 1
  /\ IF Len(queue) >= MaxQueue
     THEN queueFull' = TRUE /\ Enqueue(queue) /\ UNCHANGED accepted
     ELSE /\ accepted' = accepted \cup {received'}
          /\ Enqueue(<<received'>> \o queue)
          /\ UNCHANGED queueFull
  /\ UNCHANGED <<lowWatermark, link, paused, inRouter, shutdown, sent, message>>

\* sendDatapoint(): a full queue drops the datapoint.  The relay forgets the factory of a
\* client that is ready to stop (disconnectClient()), so none comes any more.
SendDatapoint ==
  /\ inRouter /\ ~readyToStop /\ received < MaxPoints
  /\ received' = received + 1
  /\ IF Len(queue) >= MaxQueue
     THEN queueFull' = TRUE /\ Enqueue(queue) /\ UNCHANGED accepted
     ELSE /\ accepted' = accepted \cup {received'}
          /\ Enqueue(Append(queue, received'))
          /\ UNCHANGED queueFull
  /\ UNCHANGED <<lowWatermark, link, paused, inRouter, shutdown, sent, message>>

\* sendHighPriorityDatapoint(): in front of the others, however long the queue is.  The
\* instrumentation service stops together with the clients.  It is part of what a client
\* offers to the relay; carbon's own datapoints take the way of the others in this version.
SendHighPriorityDatapoint ==
  /\ inRouter /\ ~stopping /\ Cardinality(OwnIn(queue)) < MaxOwn
  /\ Enqueue(<<Own>> \o queue)
  /\ UNCHANGED <<lowWatermark, received, queueFull, link, paused, inRouter, shutdown,
                 history>>

--------------------------------------------------------------------------------
(* The connection *)

\* connectionMade(): the destination is up, and what was queued is sent.
ConnectionMade ==
  /\ link = "connecting"
  /\ inRouter' = TRUE
  /\ SendQueued(FALSE, sendPending, "connected")
  /\ UNCHANGED <<lowWatermark, received, stopping, readyToStop>>

\* Mutant: the queue goes with the connection.
ClientConnectionLost_Clears ==
  /\ HasProtocol
  /\ link' = (IF trying THEN "waiting" ELSE "stopped")
  /\ readyToStop' = (readyToStop \/ stopping)
  /\ paused' = FALSE /\ queue' = <<>>
  /\ UNCHANGED <<lowWatermark, received, queueFull, sendPending, inRouter, trying, stopping,
                 history>>

\* clientConnectionLost(): the factory forgets the protocol and keeps the queue.
ClientConnectionLost ==
  /\ HasProtocol
  /\ link' = (IF trying THEN "waiting" ELSE "stopped")
  /\ readyToStop' = (readyToStop \/ stopping)
  /\ paused' = FALSE
  /\ UNCHANGED <<lowWatermark, queue, received, queueFull, sendPending, inRouter, trying,
                 stopping, history>>

ClientConnectionFailed ==
  /\ link = "connecting"
  /\ link' = (IF trying THEN "waiting" ELSE "stopped")
  /\ readyToStop' = (readyToStop \/ stopping)
  /\ UNCHANGED <<lowWatermark, queue, received, queueFull, sendPending, paused, inRouter,
                 trying, stopping, history>>

\* The reconnecting factory tries again.
Retry ==
  /\ link = "waiting"
  /\ link' = "connecting"
  /\ UNCHANGED <<lowWatermark, queue, received, queueFull, sendPending, paused, inRouter,
                 shutdown, history>>

\* Mutant: disconnect() waits for the queue to become empty, even if it is.
StopClient_NoCheck ==
  /\ ~stopping
  /\ stopping' = TRUE /\ inRouter' = FALSE
  /\ UNCHANGED <<lowWatermark, queue, received, queueFull, sendPending, paused, link,
                 trying, readyToStop, history>>

\* stopClient(): off the router, and disconnect() once the queue is empty.
StopClient ==
  /\ ~stopping
  /\ stopping' = TRUE /\ inRouter' = FALSE
  /\ IF queue = <<>>
     THEN /\ readyToStop' = TRUE /\ trying' = FALSE
          /\ link' = IF HasProtocol THEN "closing" ELSE "stopped"
     ELSE UNCHANGED <<readyToStop, trying, link>>
  /\ UNCHANGED <<lowWatermark, queue, received, queueFull, sendPending, paused, history>>

\* Nothing is left to do for a client that is stopped.
Stopped == readyToStop /\ UNCHANGED vars

Network == ConnectionMade \/ ClientConnectionFailed \/ Retry

Next ==
  \/ SendDeferred \/ PauseProducing \/ ResumeProducing
  \/ SendDatapoint \/ SendHighPriorityDatapoint
  \/ Network \/ ClientConnectionLost \/ StopClient \/ Stopped

Spec == Init /\ [][Next]_vars

(* Delayed calls are called, an attempt to connect ends, a connection is not paused for
   ever, and one that is closed is lost in the end. *)
FairSpec ==
  /\ Spec
  /\ WF_vars(SendDeferred) /\ WF_vars(Retry) /\ WF_vars(ConnectionMade \/ ClientConnectionFailed)
  /\ WF_vars(ResumeProducing) /\ WF_vars(link = "closing" /\ ClientConnectionLost)

(* Attempts to connect succeed in the end, and connections last. *)
Reachable == FairSpec /\ SF_vars(ConnectionMade) /\ SF_vars(SendDeferred) /\ SF_vars(ResumeProducing)

--------------------------------------------------------------------------------
(* Properties *)

(* Nothing waits in a queue that could be sent: when the connection takes data a send
   is scheduled, whatever order of pauses, reconnects and datapoints led here. *)
SendScheduled == queue # <<>> /\ HasProtocol /\ ~paused => sendPending

(* A datapoint that was queued stays there, through reconnects, until it is sent once. *)
QueuedUntilSent == Datapoints(queue) = accepted \ sent

(* Datapoints are sent in the order they came, carbon's own apart. *)
SentInOrder ==
  [][ sent' # sent =>
      \A j \in DOMAIN message' : message'[j] # Own =>
        /\ \A i \in 1 .. j - 1 : message'[i] < message'[j]
        /\ \A p \in sent : p < message'[j] ]_vars

(* That a full queue has space again is noticed (carbon.conf.example:420-421) while its
   destination can be reached, whatever the watermark and the size of a message: but for
   a queue that one message emptied from a size not below the watermark, since the
   size is the one before the message (client.py:118-120) and nothing is sent after it. *)
SpaceIsNoticed ==
  queueFull ~> ~queueFull \/ stopping \/ (lowWatermark <= Batch /\ queue = <<>>)

(* Stopping the relay does not wait for ever for a client, whatever its connection does,
   once no more datapoints come. *)
StopCompletes == stopping ~> readyToStop
================================================================================
