--------------------------- MODULE CarbonClientProofs ---------------------------
(***************************************************************************)
(* One destination of the relay, for every size of queue, watermark and     *)
(* message: what waits in the queue is scheduled, what was queued stays     *)
(* until it is sent, and datapoints are sent in the order they came.        *)
(***************************************************************************)
EXTENDS CarbonClient, SequenceTheorems, TLAPS

ClientTypeOK ==
  /\ queue \in Seq(Nat) /\ received \in Nat
  /\ queueFull \in BOOLEAN /\ sendPending \in BOOLEAN /\ paused \in BOOLEAN
  /\ link \in {"connecting", "waiting", "connected", "closing", "stopped"}
  /\ trying \in BOOLEAN /\ inRouter \in BOOLEAN /\ stopping \in BOOLEAN /\ readyToStop \in BOOLEAN
  /\ accepted \subseteq 1 .. received /\ sent \subseteq accepted

\* Carbon's own datapoints are 0, so that they may be anywhere in front of the others.
Ordered(q) == \A j \in 1 .. Len(q) : q[j] # Own => \A i \in 1 .. j - 1 : q[i] < q[j]
Beyond(q, S) == \A j \in 1 .. Len(q) : q[j] # Own => \A p \in S : p < q[j]

\* Two parts of a queue have what it has.
Together(s, t, q) == Datapoints(s) \cup Datapoints(t) = Datapoints(q)

\* What the queue holds, relative to what was accepted and sent.
QueueInv ==
  /\ queue \in Seq(Nat) /\ received \in Nat
  /\ accepted \subseteq 1 .. received /\ sent \subseteq accepted
  /\ Ordered(queue) /\ Beyond(queue, sent)
  /\ QueuedUntilSent

ClientInv == ClientTypeOK /\ QueueInv /\ SendScheduled

--------------------------------------------------------------------------------
(* The queue *)

(* takeSomeFromQueue() splits the queue: both parts are in order, and what is left is
   beyond what was taken. *)
LEMMA Taking ==
  ASSUME NEW q \in Seq(Nat), Ordered(q), NEW n \in 0 .. Len(q),
         NEW taken, taken = SubSeq(q, 1, n), NEW rest, rest = SubSeq(q, n + 1, Len(q))
  PROVE  /\ taken \in Seq(Nat) /\ rest \in Seq(Nat)
         /\ Ordered(taken) /\ Ordered(rest)
         /\ Beyond(rest, Datapoints(taken))
         /\ Together(taken, rest, q)
         /\ \A j \in 1 .. Len(taken) : taken[j] = q[j]
         /\ \A j \in 1 .. Len(rest) : \E k \in 1 .. Len(q) : rest[j] = q[k]
<1>1. Len(q) \in Nat /\ DOMAIN q = 1 .. Len(q) /\ \A i \in 1 .. Len(q) : q[i] \in Nat
  BY LenProperties, ElementOfSeq
<1>2. n \in Int /\ 0 <= n /\ n <= Len(q) /\ Len(q) \in Int
  BY <1>1
<1>3. taken \in Seq(Nat) /\ Len(taken) = n /\ \A i \in 1 .. n : taken[i] = q[i]
  BY <1>1, SubSeqProperties
<1>4. /\ rest \in Seq(Nat) /\ Len(rest) = Len(q) - n
      /\ \A i \in 1 .. Len(q) - n : rest[i] = q[n + i]
  <2>1. Len(rest) = IF n + 1 <= Len(q) THEN Len(q) - (n + 1) + 1 ELSE 0
    BY <1>1, SubSeqProperties
  <2>2. rest \in Seq(Nat) /\ \A i \in 1 .. Len(q) - (n + 1) + 1 : rest[i] = q[n + 1 + i - 1]
    BY <1>1, SubSeqProperties
  <2>3. Len(rest) = Len(q) - n
    BY <1>2, <2>1
  <2>4. ASSUME NEW i \in 1 .. Len(q) - n PROVE rest[i] = q[n + i]
    <3>1. i \in 1 .. Len(q) - (n + 1) + 1 /\ n + 1 + i - 1 = n + i
      BY <1>1
    <3> QED
      BY <2>2, <3>1
  <2> QED
    BY <2>2, <2>3, <2>4
<1>5. Len(rest) = Len(q) - n
  BY <1>4
<1>6. DOMAIN taken = 1 .. n /\ DOMAIN rest = 1 .. Len(q) - n
  BY <1>3, <1>4, LenProperties
<1>7. Ordered(taken) /\ Ordered(rest)
  <2>1. Ordered(taken)
    BY <1>1, <1>3 DEF Ordered
  <2>2. ASSUME NEW j \in 1 .. Len(rest), rest[j] # Own, NEW i \in 1 .. j - 1
        PROVE  rest[i] < rest[j]
    <3>1. /\ n + j \in 1 .. Len(q) /\ n + i \in 1 .. (n + j) - 1
          /\ i \in 1 .. Len(q) - n /\ j \in 1 .. Len(q) - n
      BY <1>2, <1>5
    <3>2. rest[j] = q[n + j] /\ rest[i] = q[n + i]
      BY <1>4, <3>1
    <3> QED
      BY <2>2, <3>1, <3>2 DEF Ordered
  <2> QED
    BY <2>1, <2>2 DEF Ordered
<1>8. ASSUME NEW j \in 1 .. Len(rest), rest[j] # Own, NEW p \in Datapoints(taken)
      PROVE  p < rest[j]
  <2>1. PICK i \in 1 .. n : p = q[i]
    BY <1>3, <1>6 DEF Datapoints, ToSet
  <2>2. n + j \in 1 .. Len(q) /\ i \in 1 .. (n + j) - 1 /\ j \in 1 .. Len(q) - n
    BY <1>2, <1>5
  <2>3. rest[j] = q[n + j]
    BY <1>4, <2>2
  <2> QED
    BY <1>8, <2>1, <2>2, <2>3 DEF Ordered
<1>9. ToSet(taken) \cup ToSet(rest) = ToSet(q)
  <2>1. ToSet(taken) \cup ToSet(rest) \subseteq ToSet(q)
    <3>1. \A i \in 1 .. n : i \in 1 .. Len(q)
      BY <1>1
    <3>2. ToSet(taken) \subseteq ToSet(q)
      BY <1>1, <1>3, <1>6, <3>1 DEF ToSet
    <3>3. \A i \in 1 .. Len(q) - n : n + i \in 1 .. Len(q)
      BY <1>2
    <3>4. ToSet(rest) \subseteq ToSet(q)
      BY <1>1, <1>4, <1>6, <3>3 DEF ToSet
    <3> QED
      BY <3>2, <3>4
  <2>2. ASSUME NEW i \in 1 .. Len(q) PROVE q[i] \in ToSet(taken) \cup ToSet(rest)
    <3>1. CASE i <= n
      <4>1. i \in 1 .. n
        BY <3>1
      <4> QED
        BY <1>3, <1>6, <4>1 DEF ToSet
    <3>2. CASE i > n
      <4>1. i - n \in 1 .. Len(q) - n /\ n + (i - n) = i
        BY <1>1, <3>2
      <4>2. rest[i - n] = q[i]
        BY <1>4, <4>1
      <4> QED
        BY <1>6, <4>1, <4>2 DEF ToSet
    <3> QED
      BY <1>1, <3>1, <3>2
  <2> QED
    BY <1>1, <2>1, <2>2 DEF ToSet
<1>10. \A j \in 1 .. Len(rest) : n + j \in 1 .. Len(q) /\ rest[j] = q[n + j]
  <2>1. \A j \in 1 .. Len(q) - n : n + j \in 1 .. Len(q)
    BY <1>2
  <2> QED
    BY <1>4, <2>1
<1>11. Together(taken, rest, q)
  BY <1>9 DEF Datapoints, Together
<1> QED
  BY <1>3, <1>4, <1>7, <1>8, <1>10, <1>11 DEF Beyond

(* A message is such a part, and leaves nothing of itself in the queue. *)
LEMMA SendKeepsQueue ==
  ASSUME QueueInv, NEW isPaused, NEW isPending, NEW up,
         SendQueued(isPaused, isPending, up), UNCHANGED received
  PROVE  QueueInv'
<1>1. CASE isPaused \/ queue = <<>>
  BY <1>1 DEF SendQueued, QueueInv, QueuedUntilSent, history
<1>2. CASE ~(isPaused \/ queue = <<>>)
  <2> DEFINE n == IF Batch < Len(queue) THEN Batch ELSE Len(queue)
  <2>1. n \in 0 .. Len(queue)
    BY ClientAssumption, LenProperties DEF QueueInv
  <2>2. /\ message' = SubSeq(queue, 1, n) /\ queue' = SubSeq(queue, n + 1, Len(queue))
        /\ sent' = sent \cup Datapoints(message') /\ accepted' = accepted
    BY <1>2 DEF SendQueued
  <2> HIDE DEF n
  <2>3. /\ queue' \in Seq(Nat) /\ Ordered(queue') /\ Beyond(queue', Datapoints(message'))
        /\ Datapoints(message') \cup Datapoints(queue') = Datapoints(queue)
        /\ \A j \in 1 .. Len(queue') : \E k \in 1 .. Len(queue) : queue'[j] = queue[k]
    <3>1. queue \in Seq(Nat) /\ Ordered(queue)
      BY DEF QueueInv
    <3>2. message' = SubSeq(queue, 1, n) /\ queue' = SubSeq(queue, n + 1, Len(queue))
      BY <2>2
    <3>3. Together(message', queue', queue)
      BY <2>1, <3>1, <3>2, Taking
    <3>4. Datapoints(message') \cup Datapoints(queue') = Datapoints(queue)
      BY <3>3 DEF Together
    <3>5. queue' \in Seq(Nat) /\ Ordered(queue') /\ Beyond(queue', Datapoints(message'))
      BY <2>1, <3>1, <3>2, Taking
    <3>6. \A j \in 1 .. Len(queue') : \E k \in 1 .. Len(queue) : queue'[j] = queue[k]
      BY <2>1, <3>1, <3>2, Taking
    <3> QED
      BY <3>4, <3>5, <3>6
  <2>4. Datapoints(queue) = accepted \ sent
    BY DEF QueueInv, QueuedUntilSent
  <2>5. Beyond(queue', sent')
    <3>1. Beyond(queue', sent)
      BY <2>3 DEF QueueInv, Beyond
    <3> QED
      BY <2>2, <2>3, <3>1 DEF Beyond
  <2>6. sent' \subseteq accepted'
    BY <2>2, <2>3, <2>4 DEF QueueInv
  <2>7. Datapoints(message') \cap Datapoints(queue') = {}
    <3> SUFFICES ASSUME NEW p \in Datapoints(message'), p \in Datapoints(queue') PROVE FALSE
      OBVIOUS
    <3>1. PICK j \in 1 .. Len(queue') : queue'[j] = p
      BY <2>3, LenProperties DEF Datapoints, ToSet
    <3>2. p \in Nat /\ p # Own
      BY <2>3, <3>1, ElementOfSeq DEF Datapoints
    <3>3. p < p
      BY <2>3, <3>1, <3>2 DEF Beyond
    <3> QED
      BY <3>2, <3>3
  <2>8. Datapoints(queue') = accepted' \ sent'
    BY <2>2, <2>3, <2>4, <2>7
  <2> QED
    BY <2>2, <2>3, <2>5, <2>6, <2>8 DEF QueueInv, QueuedUntilSent
<1> QED
  BY <1>1, <1>2

(* A datapoint that is queued is the last, and has the highest number. *)
LEMMA QueueingKeepsQueue ==
  ASSUME QueueInv, SendDatapoint
  PROVE  QueueInv'
<1>1. CASE Len(queue) >= MaxQueue
  <2>1. UNCHANGED <<queue, accepted, sent>> /\ received' = received + 1
    BY <1>1 DEF SendDatapoint, Enqueue
  <2>2. accepted \subseteq 1 .. received'
    BY <2>1 DEF QueueInv
  <2> QED
    BY <2>1, <2>2 DEF QueueInv, QueuedUntilSent
<1>2. CASE ~(Len(queue) >= MaxQueue)
  <2>1. /\ received' = received + 1 /\ accepted' = accepted \cup {received'}
        /\ queue' = Append(queue, received') /\ UNCHANGED sent
    BY <1>2 DEF SendDatapoint, Enqueue
  <2>2. /\ received' \in Nat /\ received' # Own /\ \A p \in accepted : p \in Nat /\ p < received'
        /\ accepted' \subseteq 1 .. received'
    BY <2>1 DEF QueueInv, Own
  <2>3. Len(queue) \in Nat /\ DOMAIN queue = 1 .. Len(queue) /\ \A i \in 1 .. Len(queue) : queue[i] \in Nat
    BY LenProperties, ElementOfSeq DEF QueueInv
  <2>4. /\ queue' \in Seq(Nat) /\ Len(queue') = Len(queue) + 1
        /\ \A i \in 1 .. Len(queue) : queue'[i] = queue[i]
        /\ queue'[Len(queue) + 1] = received'
    BY <2>1, <2>2, AppendProperties DEF QueueInv
  <2>5. DOMAIN queue' = 1 .. Len(queue) + 1
    BY <2>4, LenProperties
  <2>6. Datapoints(queue') = Datapoints(queue) \cup {received'}
    <3>1. ToSet(queue') = ToSet(queue) \cup {received'}
      BY <2>3, <2>4, <2>5 DEF ToSet
    <3> QED
      BY <2>2, <3>1 DEF Datapoints
  <2>7. \A i \in 1 .. Len(queue) : queue[i] < received'
    <3> SUFFICES ASSUME NEW i \in 1 .. Len(queue) PROVE queue[i] < received'
      OBVIOUS
    <3>1. CASE queue[i] = Own
      BY <2>2, <3>1 DEF Own
    <3>2. CASE queue[i] # Own
      BY <2>2, <2>3, <3>2 DEF QueueInv, QueuedUntilSent, Datapoints, ToSet
    <3> QED
      BY <3>1, <3>2
  <2>8. Ordered(queue')
    <3> SUFFICES ASSUME NEW j \in 1 .. Len(queue) + 1, queue'[j] # Own, NEW i \in 1 .. j - 1
                 PROVE  queue'[i] < queue'[j]
      BY <2>4 DEF Ordered
    <3>1. i \in 1 .. Len(queue) /\ queue'[i] = queue[i]
      BY <2>3, <2>4
    <3>2. CASE j = Len(queue) + 1
      BY <2>4, <2>7, <3>1, <3>2
    <3>3. CASE j # Len(queue) + 1
      <4>1. j \in 1 .. Len(queue) /\ queue'[j] = queue[j]
        BY <2>3, <2>4, <3>3
      <4> QED
        BY <3>1, <4>1 DEF QueueInv, Ordered
    <3> QED
      BY <3>2, <3>3
  <2>9. Beyond(queue', sent')
    BY <2>1, <2>2, <2>3, <2>4 DEF QueueInv, Beyond
  <2>10. Datapoints(queue') = accepted' \ sent'
    <3>1. received' \notin sent
      BY <2>2 DEF QueueInv
    <3> QED
      BY <2>1, <2>6, <3>1 DEF QueueInv, QueuedUntilSent
  <2> QED
    BY <2>1, <2>2, <2>4, <2>8, <2>9, <2>10 DEF QueueInv, QueuedUntilSent
<1> QED
  BY <1>1, <1>2

(* One of carbon's own goes in front, and disturbs nothing. *)
LEMMA OwnKeepsQueue ==
  ASSUME QueueInv, SendHighPriorityDatapoint
  PROVE  QueueInv'
<1>1. queue' = <<Own>> \o queue /\ UNCHANGED <<received, accepted, sent>>
  BY DEF SendHighPriorityDatapoint, Enqueue, history
<1>2. Len(queue) \in Nat /\ DOMAIN queue = 1 .. Len(queue) /\ \A i \in 1 .. Len(queue) : queue[i] \in Nat
  BY LenProperties, ElementOfSeq DEF QueueInv
<1>3. /\ queue' \in Seq(Nat) /\ Len(queue') = Len(queue) + 1 /\ queue'[1] = Own
      /\ \A i \in 2 .. Len(queue) + 1 : queue'[i] = queue[i - 1]
  <2>1. <<Own>> \in Seq(Nat) /\ Len(<<Own>>) = 1 /\ <<Own>>[1] = Own
    BY DEF Own
  <2>2. /\ queue' \in Seq(Nat) /\ Len(queue') = 1 + Len(queue)
        /\ \A i \in 1 .. 1 + Len(queue) : queue'[i] = IF i <= 1 THEN <<Own>>[i] ELSE queue[i - 1]
    BY <1>1, <2>1, ConcatProperties DEF QueueInv
  <2> QED
    BY <1>2, <2>1, <2>2
<1>4. DOMAIN queue' = 1 .. Len(queue) + 1
  BY <1>3, LenProperties
<1>5. ASSUME NEW i \in 1 .. Len(queue) + 1
      PROVE  \/ i = 1 /\ queue'[i] = Own
             \/ i - 1 \in 1 .. Len(queue) /\ queue'[i] = queue[i - 1]
  <2>1. i = 1 \/ (i \in 2 .. Len(queue) + 1 /\ i - 1 \in 1 .. Len(queue))
    BY <1>2
  <2> QED
    BY <1>3, <2>1
<1>6. Datapoints(queue') = Datapoints(queue)
  <2>1. ASSUME NEW i \in 1 .. Len(queue) PROVE queue[i] = queue'[i + 1] /\ i + 1 \in DOMAIN queue'
    <3>1. i + 1 \in 2 .. Len(queue) + 1 /\ (i + 1) - 1 = i /\ i + 1 \in 1 .. Len(queue) + 1
      BY <1>2
    <3> QED
      BY <1>3, <1>4, <3>1
  <2>2. ToSet(queue) \subseteq ToSet(queue')
    BY <1>2, <2>1 DEF ToSet
  <2>3. ToSet(queue') \subseteq ToSet(queue) \cup {Own}
    BY <1>2, <1>4, <1>5 DEF ToSet
  <2> QED
    BY <2>2, <2>3 DEF Datapoints
<1>7. Ordered(queue')
  <2> SUFFICES ASSUME NEW j \in 1 .. Len(queue) + 1, queue'[j] # Own, NEW i \in 1 .. j - 1
               PROVE  queue'[i] < queue'[j]
    BY <1>3 DEF Ordered
  <2>1. j - 1 \in 1 .. Len(queue) /\ queue'[j] = queue[j - 1]
    BY <1>5
  <2>2. CASE i = 1
    BY <1>2, <1>3, <2>1, <2>2 DEF Own
  <2>3. CASE i # 1
    <3>1. i \in 1 .. Len(queue) + 1 /\ i - 1 \in 1 .. (j - 1) - 1
      BY <1>2, <2>3
    <3>2. queue'[i] = queue[i - 1]
      BY <1>5, <2>3, <3>1
    <3> QED
      BY <2>1, <3>1, <3>2 DEF QueueInv, Ordered
  <2> QED
    BY <2>2, <2>3
<1>8. Beyond(queue', sent')
  BY <1>1, <1>3, <1>5 DEF QueueInv, Beyond
<1> QED
  BY <1>1, <1>3, <1>6, <1>7, <1>8 DEF QueueInv, QueuedUntilSent

--------------------------------------------------------------------------------
(* The invariant *)

(* The queue is what no other handler touches. *)
LEMMA QueueStep == QueueInv /\ [Next]_vars => QueueInv'
<1> SUFFICES ASSUME QueueInv, [Next]_vars PROVE QueueInv'
  OBVIOUS
<1>1. CASE UNCHANGED <<queue, received, accepted, sent>>
  BY <1>1 DEF QueueInv, QueuedUntilSent
<1>2. CASE SendDatapoint
  BY <1>2, QueueingKeepsQueue
<1>3. CASE SendHighPriorityDatapoint
  BY <1>3, OwnKeepsQueue
<1>4. CASE SendDeferred
  <2>1. CASE HasProtocol
    BY <1>4, <2>1, SendKeepsQueue DEF SendDeferred
  <2>2. CASE ~HasProtocol
    BY <1>1, <1>4, <2>2 DEF SendDeferred, history
  <2> QED
    BY <2>1, <2>2
<1>5. CASE ResumeProducing
  BY <1>5, SendKeepsQueue DEF ResumeProducing
<1>6. CASE ConnectionMade
  BY <1>6, SendKeepsQueue DEF ConnectionMade
<1>7. CASE PauseProducing \/ ClientConnectionLost \/ ClientConnectionFailed \/ Retry
           \/ StopClient \/ UNCHANGED vars
  BY <1>1, <1>7 DEF PauseProducing, ClientConnectionLost, ClientConnectionFailed, Retry,
                    StopClient, vars, history
<1> QED
  BY <1>2, <1>3, <1>4, <1>5, <1>6, <1>7 DEF Next, Network, Stopped

(* A send leaves a paused link, an empty queue, or a scheduled call. *)
LEMMA SendSchedules ==
  ASSUME NEW isPaused, NEW isPending, NEW up, SendQueued(isPaused, isPending, up)
  PROVE  queue' = <<>> \/ paused' \/ sendPending'
<1>1. CASE isPaused \/ queue = <<>>
  BY <1>1 DEF SendQueued
<1>2. CASE ~(isPaused \/ queue = <<>>)
  BY <1>2 DEF SendQueued
<1> QED
  BY <1>1, <1>2

LEMMA ScheduledStep == SendScheduled /\ [Next]_vars => SendScheduled'
<1> SUFFICES ASSUME SendScheduled, [Next]_vars,
                    queue' # <<>>, HasProtocol', ~paused'
             PROVE  sendPending'
  BY DEF SendScheduled
<1>1. CASE UNCHANGED <<queue, link, paused, sendPending>>
  BY <1>1 DEF SendScheduled, HasProtocol
<1>2. CASE SendDatapoint \/ SendHighPriorityDatapoint
  BY <1>2 DEF SendDatapoint, SendHighPriorityDatapoint, Enqueue, HasProtocol
<1>3. CASE SendDeferred \/ ResumeProducing \/ ConnectionMade
  BY <1>3, SendSchedules DEF SendDeferred, ResumeProducing, ConnectionMade, HasProtocol
<1>4. CASE PauseProducing
  BY <1>4 DEF PauseProducing
<1>5. CASE ClientConnectionLost \/ ClientConnectionFailed \/ Retry
  BY <1>5 DEF ClientConnectionLost, ClientConnectionFailed, Retry, HasProtocol
<1>6. CASE StopClient
  BY <1>1, <1>6 DEF StopClient, HasProtocol
<1>7. CASE UNCHANGED vars
  BY <1>1, <1>7 DEF vars
<1> QED
  BY <1>2, <1>3, <1>4, <1>5, <1>6, <1>7 DEF Next, Network, Stopped

(* The flags and the connector, after a message and after any step. *)
LEMMA SendFlags ==
  ASSUME ClientTypeOK, NEW isPaused \in BOOLEAN, NEW isPending \in BOOLEAN, NEW up,
         SendQueued(isPaused, isPending, up)
  PROVE  /\ queueFull' \in BOOLEAN /\ sendPending' \in BOOLEAN /\ paused' \in BOOLEAN
         /\ trying' \in BOOLEAN /\ link' \in {up, "closing"}
<1>1. queueFull \in BOOLEAN /\ trying \in BOOLEAN
  BY DEF ClientTypeOK
<1>2. CASE isPaused \/ queue = <<>>
  <2>1. paused' = isPaused /\ sendPending' = isPending /\ link' = up /\ UNCHANGED <<queueFull, trying>>
    BY <1>2 DEF SendQueued
  <2>2. paused' \in BOOLEAN /\ sendPending' \in BOOLEAN /\ link' = up
    BY <2>1, Zenon
  <2>3. queueFull' \in BOOLEAN /\ trying' \in BOOLEAN
    BY <1>1, <2>1, Zenon
  <2> QED
    BY <2>2, <2>3
<1>3. CASE ~(isPaused \/ queue = <<>>)
  <2> DEFINE left == SubSeq(queue, (IF Batch < Len(queue) THEN Batch ELSE Len(queue)) + 1, Len(queue))
  <2>1. /\ trying' = (trying /\ ~(stopping /\ left = <<>>))
        /\ queueFull' = (queueFull /\ ~BelowWatermark(Len(queue)))
        /\ sendPending' = (isPending \/ left # <<>>)
    BY <1>3, Zenon DEF SendQueued
  <2>2. paused' \in BOOLEAN /\ link' \in {up, "closing"}
    BY <1>3 DEF SendQueued
  <2> HIDE DEF left
  <2>3. trying' \in BOOLEAN /\ queueFull' \in BOOLEAN
    BY <1>1, <2>1, Zenon
  <2>4. sendPending' \in BOOLEAN
    BY <2>1, Zenon
  <2> QED
    BY <2>2, <2>3, <2>4
<1> QED
  BY <1>2, <1>3

LEMMA TypesStep == ClientTypeOK /\ QueueInv' /\ [Next]_vars => ClientTypeOK'
<1> SUFFICES ASSUME ClientTypeOK, QueueInv', [Next]_vars PROVE ClientTypeOK'
  OBVIOUS
<1> DEFINE Links == {"connecting", "waiting", "connected", "closing", "stopped"}
           Flags == /\ queueFull \in BOOLEAN /\ sendPending \in BOOLEAN /\ paused \in BOOLEAN
                    /\ trying \in BOOLEAN /\ inRouter \in BOOLEAN /\ stopping \in BOOLEAN
                    /\ readyToStop \in BOOLEAN
<1>1. Flags /\ link \in Links
  BY DEF ClientTypeOK
<1>2. "closing" \in Links /\ "connected" \in Links /\ {"waiting", "stopped", "connecting"} \subseteq Links
  OBVIOUS
<1> SUFFICES Flags' /\ link' \in Links
  BY Zenon DEF QueueInv, ClientTypeOK
<1> HIDE DEF Links
<1>3. ASSUME NEW isPaused \in BOOLEAN, NEW isPending \in BOOLEAN,
             NEW up \in Links, SendQueued(isPaused, isPending, up),
             inRouter' \in {TRUE, inRouter}, UNCHANGED <<stopping, readyToStop>>
      PROVE  Flags' /\ link' \in Links
  <2>1. /\ queueFull' \in BOOLEAN /\ sendPending' \in BOOLEAN /\ paused' \in BOOLEAN
        /\ trying' \in BOOLEAN /\ link' \in {up, "closing"}
    BY <1>3, SendFlags
  <2>2. inRouter' \in BOOLEAN /\ stopping' \in BOOLEAN /\ readyToStop' \in BOOLEAN
    BY <1>1, <1>3, Zenon
  <2>3. link' \in Links
    BY <1>2, <1>3, <2>1, Zenon
  <2> QED
    BY <2>1, <2>2, <2>3, Zenon
<1>4. CASE SendDeferred
  <2>1. inRouter' = inRouter /\ UNCHANGED <<stopping, readyToStop>>
    BY <1>4 DEF SendDeferred
  <2>2. CASE HasProtocol
    <3>1. SendQueued(paused, FALSE, link)
      BY <1>4, <2>2 DEF SendDeferred
    <3> QED
      BY <1>1, <1>3, <2>1, <3>1, Zenon
  <2>3. CASE ~HasProtocol
    <3>1. sendPending' = FALSE /\ UNCHANGED <<queueFull, link, paused, trying>>
      BY <1>4, <2>3 DEF SendDeferred
    <3> QED
      BY <1>1, <2>1, <3>1, Zenon
  <2> QED
    BY <2>2, <2>3
<1>5. CASE ResumeProducing
  <2>1. SendQueued(FALSE, sendPending, link) /\ UNCHANGED <<inRouter, stopping, readyToStop>>
    BY <1>5 DEF ResumeProducing
  <2> QED
    BY <1>1, <1>3, <2>1, Zenon
<1>6. CASE ConnectionMade
  <2>1. /\ SendQueued(FALSE, sendPending, "connected") /\ inRouter' = TRUE
        /\ UNCHANGED <<stopping, readyToStop>>
    BY <1>6 DEF ConnectionMade
  <2> QED
    BY <1>1, <1>2, <1>3, <2>1, Zenon
<1>7. CASE SendDatapoint \/ SendHighPriorityDatapoint
  <2>1. /\ queueFull' = TRUE \/ UNCHANGED queueFull
        /\ sendPending' = (sendPending \/ HasProtocol)
        /\ UNCHANGED <<link, paused, trying, inRouter, stopping, readyToStop>>
    BY <1>7, Zenon DEF SendDatapoint, SendHighPriorityDatapoint, Enqueue, shutdown
  <2>2. sendPending' \in BOOLEAN
    BY <2>1, Zenon
  <2>3. queueFull' \in BOOLEAN
    BY <1>1, <2>1, Zenon
  <2> QED
    BY <1>1, <2>1, <2>2, <2>3, Zenon
<1>8. CASE PauseProducing \/ Retry
  <2>1. /\ paused' = TRUE \/ UNCHANGED paused
        /\ link' = "connecting" \/ UNCHANGED link
        /\ UNCHANGED <<queueFull, sendPending, trying, inRouter, stopping, readyToStop>>
    BY <1>8 DEF PauseProducing, Retry, shutdown
  <2> QED
    BY <1>1, <1>2, <2>1, Zenon
<1>9. CASE ClientConnectionLost \/ ClientConnectionFailed
  <2>1. /\ link' \in {"waiting", "stopped"} /\ readyToStop' = (readyToStop \/ stopping)
        /\ paused' = FALSE \/ UNCHANGED paused
        /\ UNCHANGED <<queueFull, sendPending, trying, inRouter, stopping>>
    BY <1>9 DEF ClientConnectionLost, ClientConnectionFailed
  <2>2. readyToStop' \in BOOLEAN
    BY <2>1, Zenon
  <2> QED
    BY <1>1, <1>2, <2>1, <2>2, Zenon
<1>10. CASE StopClient
  <2>1. /\ stopping' = TRUE /\ inRouter' = FALSE
        /\ readyToStop' = TRUE \/ UNCHANGED readyToStop
        /\ trying' = FALSE \/ UNCHANGED trying
        /\ link' \in {"closing", "stopped"} \/ UNCHANGED link
        /\ UNCHANGED <<queueFull, sendPending, paused>>
    BY <1>10 DEF StopClient
  <2> QED
    BY <1>1, <1>2, <2>1, Zenon
<1>11. CASE UNCHANGED vars
  <2>1. UNCHANGED <<queueFull, sendPending, link, paused, trying, inRouter, stopping, readyToStop>>
    BY <1>11 DEF vars, shutdown
  <2> QED
    BY <1>1, <2>1, Zenon
<1> QED
  BY <1>4, <1>5, <1>6, <1>7, <1>8, <1>9, <1>10, <1>11, Zenon DEF Next, Network, Stopped

(* The factory starts with an empty queue. *)
LEMMA ClientInit == Init => ClientInv
<1> SUFFICES ASSUME Init PROVE ClientInv
  OBVIOUS
<1>1. queue = <<>> /\ accepted = {} /\ sent = {} /\ received = 0
  BY DEF Init
<1>2. <<>> \in Seq(Nat) /\ Len(<<>>) = 0 /\ DOMAIN <<>> = {}
  BY EmptySeq
<1>3. QueueInv
  <2>1. Datapoints(queue) = {}
    BY <1>1, <1>2 DEF Datapoints, ToSet
  <2>2. Ordered(queue) /\ Beyond(queue, sent)
    BY <1>1, <1>2 DEF Ordered, Beyond
  <2> QED
    BY <1>1, <1>2, <2>1, <2>2 DEF QueueInv, QueuedUntilSent
<1>4. ClientTypeOK
  <2>1. /\ queueFull \in BOOLEAN /\ sendPending \in BOOLEAN /\ paused \in BOOLEAN
        /\ trying \in BOOLEAN /\ inRouter \in BOOLEAN /\ stopping \in BOOLEAN
        /\ readyToStop \in BOOLEAN
    BY Zenon DEF Init
  <2>2. link \in {"connecting", "waiting", "connected", "closing", "stopped"}
    BY DEF Init
  <2> QED
    BY <1>3, <2>1, <2>2, Zenon DEF ClientTypeOK, QueueInv
<1>5. SendScheduled
  BY <1>1 DEF SendScheduled
<1> QED
  BY <1>3, <1>4, <1>5 DEF ClientInv

LEMMA ClientInvHolds == Spec => []ClientInv
<1>1. ClientInv /\ [Next]_vars => ClientInv'
  BY QueueStep, ScheduledStep, TypesStep DEF ClientInv
<1> QED
  BY <1>1, ClientInit, PTL DEF Spec

--------------------------------------------------------------------------------
(* Theorems *)

(* The types of the factory's and the protocol's state. *)
THEOREM ClientTypeCorrect == Spec => []ClientTypeOK
<1>1. ClientInv => ClientTypeOK
  BY DEF ClientInv
<1> QED
  BY <1>1, ClientInvHolds, PTL

(* Whatever the order of pauses, reconnects and datapoints, nothing waits in the queue
   of a connection that takes data without a call of sendQueued() to come. *)
THEOREM WaitingIsScheduled == Spec => []SendScheduled
<1>1. ClientInv => SendScheduled
  BY DEF ClientInv
<1> QED
  BY <1>1, ClientInvHolds, PTL

(* The queue is what was accepted and not yet sent, across any number of connections. *)
THEOREM KeptUntilSent == Spec => []QueuedUntilSent
<1>1. ClientInv => QueuedUntilSent
  BY DEF ClientInv, QueueInv
<1> QED
  BY <1>1, ClientInvHolds, PTL

(* Every message continues the ones before it in the order the datapoints came. *)
THEOREM MessagesInOrder == Spec => SentInOrder
<1> DEFINE Continues == \A j \in DOMAIN message' : message'[j] # Own =>
                          /\ \A i \in 1 .. j - 1 : message'[i] < message'[j]
                          /\ \A p \in sent : p < message'[j]
<1>1. ASSUME QueueInv, NEW isPaused, NEW isPending, NEW up,
             SendQueued(isPaused, isPending, up), sent' # sent
      PROVE  Continues
  <2>1. ~(isPaused \/ queue = <<>>)
    BY <1>1 DEF SendQueued, history
  <2> DEFINE n == IF Batch < Len(queue) THEN Batch ELSE Len(queue)
  <2>2. message' = SubSeq(queue, 1, n)
    BY <1>1, <2>1 DEF SendQueued
  <2>3. n \in 0 .. Len(queue) /\ queue \in Seq(Nat) /\ Ordered(queue) /\ Beyond(queue, sent)
    BY <1>1, ClientAssumption, LenProperties DEF QueueInv
  <2> HIDE DEF n
  <2>4. message' \in Seq(Nat) /\ Ordered(message')
    BY <2>2, <2>3, Taking
  <2>5. \A j \in 1 .. Len(message') : message'[j] = queue[j]
    BY <2>2, <2>3, Taking
  <2>6. DOMAIN message' = 1 .. Len(message') /\ Len(message') = n
    BY <2>2, <2>3, <2>4, LenProperties, SubSeqProperties
  <2>7. \A j \in 1 .. Len(message') : j \in 1 .. Len(queue)
    BY <2>3, <2>6, LenProperties
  <2> QED
    BY <2>3, <2>4, <2>5, <2>6, <2>7 DEF Ordered, Beyond
<1>2. ClientInv /\ [Next]_vars => [sent' # sent => Continues]_vars
  <2> SUFFICES ASSUME ClientInv, Next, sent' # sent PROVE Continues
    BY DEF vars, history
  <2>1. CASE SendDeferred \/ ResumeProducing \/ ConnectionMade
    <3>1. CASE SendDeferred /\ ~HasProtocol
      BY <3>1 DEF SendDeferred, history
    <3>2. CASE SendDeferred /\ HasProtocol
      BY <1>1, <3>2 DEF SendDeferred, ClientInv
    <3>3. CASE ResumeProducing \/ ConnectionMade
      BY <1>1, <3>3 DEF ResumeProducing, ConnectionMade, ClientInv
    <3> QED
      BY <2>1, <3>1, <3>2, <3>3
  <2>2. CASE ~(SendDeferred \/ ResumeProducing \/ ConnectionMade)
    BY <2>2 DEF Next, Network, Stopped, PauseProducing, SendDatapoint, SendHighPriorityDatapoint,
                ClientConnectionFailed, Retry, ClientConnectionLost, StopClient, vars, history
  <2> QED
    BY <2>1, <2>2
<1> QED
  BY <1>2, ClientInvHolds, PTL DEF Spec, SentInOrder
================================================================================
