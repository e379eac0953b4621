------------------------------ MODULE WriterProofs ------------------------------
(***************************************************************************)
(* The writer thread and the rate limiter it drains, for every value of the *)
(* constants: what the writer leaves behind, what a fetch beside it may     *)
(* miss, how fast the limiter grants, and what its bucket holds.            *)
(***************************************************************************)
EXTENDS ReadPath, TokenBucket, TLAPS

--------------------------------------------------------------------------------
(* The writer and the reader beside it *)

(* Where the points are. *)
EntryOfPending == \A p \in pending : p[1] \in keys
InPop == pcW # "pop" => taking = None /\ handed = {}
InHands == pcW \notin {"exists", "create", "write"} => datapoints = {}
AfterPass == pcW \in {"sleep", "backoff", "forever", "exited"} => pending \subseteq late
ExitedStopped == pcW = "exited" => ~running
Unwritten == unwritten \subseteq pending \cup handed \cup datapoints \cup dropped

WriterInv == EntryOfPending /\ InPop /\ InHands /\ AfterPass /\ ExitedStopped /\ Unwritten

(* The daemon starts with an empty cache. *)
LEMMA WriterInit == Init => WriterInv
BY DEF Init, Cache!Init, WriterInv, EntryOfPending, InPop, InHands, AfterPass, ExitedStopped,
       Unwritten

(* A store() adds a point to the cache, or to the dictionary that pop() took. *)
LEMMA StoreKeeps ==
  ASSUME WriterInv, NEW p \in Points, Store(p)
  PROVE  WriterInv'
<1> USE DEF WriterInv
<1>1. p[1] \in Metrics /\ p[1] # None
  BY WriterAssumption DEF Points
<1>2. UNCHANGED <<running, pcW, datapoints>> /\ running
  BY DEF Store
<1>3. CASE Cache!Touch(p[1]) /\ UNCHANGED history
  BY <1>2, <1>3 DEF Cache!Touch, history, EntryOfPending, InPop, InHands, AfterPass,
                    ExitedStopped, Unwritten
<1>4. CASE /\ Cache!Accept(p) \/ Cache!AcceptLate(p)
           /\ unwritten' = unwritten \cup {p}
           /\ dropped' = dropped \ {p}
           /\ late' = IF pcW \in {"sleep", "backoff", "forever"} THEN late \cup {p} ELSE {}
  <2>1. EntryOfPending'
    BY <1>4 DEF Cache!Accept, Cache!AcceptLate, EntryOfPending
  <2>2. InPop'
    BY <1>1, <1>2, <1>4 DEF Cache!Accept, Cache!AcceptLate, InPop
  <2>3. InHands' /\ ExitedStopped'
    BY <1>2 DEF InHands, ExitedStopped
  <2>4. AfterPass'
    BY <1>2, <1>4 DEF Cache!Accept, Cache!AcceptLate, AfterPass, ExitedStopped
  <2>5. Unwritten'
    BY <1>2, <1>4 DEF Cache!Accept, Cache!AcceptLate, Unwritten
  <2> QED
    BY <2>1, <2>2, <2>3, <2>4, <2>5
<1> QED
  BY <1>3, <1>4 DEF Store

(* pop() moves the points of a metric from the cache to the writer. *)
LEMMA DrainKeeps ==
  ASSUME WriterInv
  PROVE  /\ \A m \in Metrics : DrainTake(m) => WriterInv'
         /\ DrainReturn => WriterInv'
<1> USE DEF WriterInv
<1>1. ASSUME NEW m \in Metrics, DrainTake(m) PROVE WriterInv'
  <2>1. /\ pcW = "order" /\ pcW' = "pop" /\ UNCHANGED <<running, datapoints, history>>
        /\ keys' = keys \ {m} /\ handed' = Cache!PointsOf(m) /\ pending' = pending \ Cache!PointsOf(m)
    BY <1>1 DEF DrainTake, GoTo, Cache!Take
  <2>2. EntryOfPending'
    BY <2>1 DEF EntryOfPending, Cache!PointsOf
  <2>3. Unwritten'
    BY <2>1 DEF Unwritten, InPop, history
  <2> QED
    BY <2>1, <2>2, <2>3 DEF InPop, InHands, AfterPass, ExitedStopped
<1>2. ASSUME DrainReturn PROVE WriterInv'
  <2>1. /\ pcW = "pop" /\ pcW' = "exists" /\ UNCHANGED <<running, keys, pending, history>>
        /\ datapoints' = handed /\ taking' = None /\ handed' = {}
    BY <1>2 DEF DrainReturn, GoTo, Cache!Return
  <2>2. Unwritten'
    BY <2>1 DEF Unwritten, InHands, history
  <2> QED
    BY <2>1, <2>2 DEF EntryOfPending, InPop, InHands, AfterPass, ExitedStopped, history
<1> QED
  BY <1>1, <1>2

(* The points in the writer's hands are written or given up, and then it has none. *)
LEMMA HandsKeep ==
  ASSUME WriterInv, OrderYield \/ ExistsRaises \/ Create \/ CreateFails \/ Write \/ WriteFails
  PROVE  WriterInv'
<1> USE DEF WriterInv
<1>1. /\ UNCHANGED ledgerVars /\ UNCHANGED running /\ pcW # "pop" /\ pcW' \notin {"pop", "exited"}
  BY DEF OrderYield, ExistsRaises, Create, CreateFails, Write, WriteFails, GoTo
<1>2. EntryOfPending' /\ InPop' /\ ExitedStopped'
  BY <1>1 DEF EntryOfPending, InPop, ExitedStopped, ledgerVars
<1>3. AfterPass'
  <2>1. CASE ExistsRaises
    BY <1>1, <2>1 DEF ExistsRaises, AfterPass, ledgerVars
  <2>2. CASE ~ExistsRaises
    BY <2>2 DEF OrderYield, Create, CreateFails, Write, WriteFails, GoTo, AfterPass
  <2> QED
    BY <2>1, <2>2
<1>4. InHands' /\ Unwritten'
  <2>1. CASE GiveUp
    BY <1>1, <2>1 DEF GiveUp, InHands, Unwritten, ledgerVars
  <2>2. CASE Write
    BY <1>1, <2>2 DEF Write, InHands, Unwritten, ledgerVars
  <2>3. CASE pcW' \in {"create", "write"} /\ UNCHANGED <<datapoints, history>>
    BY <1>1, <2>3 DEF InHands, Unwritten, ledgerVars, history
  <2> QED
    BY <2>1, <2>2, <2>3 DEF OrderYield, ExistsRaises, Create, CreateFails, WriteFails, GoTo
<1> QED
  BY <1>2, <1>3, <1>4

(* The loops of the writer end a pass only over an empty cache. *)
LEMMA LoopsKeep ==
  ASSUME WriterInv, WriteForever \/ WriteCached \/ OrderEnds \/ Wake
  PROVE  WriterInv'
<1> USE DEF WriterInv, ledgerVars, history
<1>1. CASE WriteForever
  BY <1>1 DEF WriteForever, GoTo, EntryOfPending, InPop, InHands, AfterPass, ExitedStopped, Unwritten
<1>2. CASE WriteCached
  <2>1. keys = {} => pending = {}
    BY DEF EntryOfPending
  <2> QED
    BY <1>2, <2>1 DEF WriteCached, GoTo, EntryOfPending, InPop, InHands, AfterPass,
                      ExitedStopped, Unwritten
<1>3. CASE OrderEnds
  BY <1>3 DEF OrderEnds, GoTo, EntryOfPending, InPop, InHands, AfterPass, ExitedStopped, Unwritten
<1>4. CASE Wake
  BY <1>4 DEF Wake, GoTo, EntryOfPending, InPop, InHands, AfterPass, ExitedStopped, Unwritten
<1> QED
  BY <1>1, <1>2, <1>3, <1>4

(* Every step of carbon-cache keeps the invariant. *)
LEMMA WriterNext == WriterInv /\ [Next]_vars => WriterInv'
<1> SUFFICES ASSUME WriterInv, [Next]_vars PROVE WriterInv'
  OBVIOUS
<1>1. ASSUME NEW p \in Points, Store(p) PROVE WriterInv'
  BY <1>1, StoreKeeps
<1>2. CASE Stop \/ Refill
  BY <1>2 DEF Stop, Refill, ledgerVars, history, WriterInv, EntryOfPending, InPop, InHands,
              AfterPass, ExitedStopped, Unwritten
<1>3. CASE Writer
  BY <1>3, DrainKeeps, HandsKeep, LoopsKeep DEF Writer
<1>4. CASE UNCHANGED vars
  BY <1>4 DEF vars, ledgerVars, history, WriterInv, EntryOfPending, InPop, InHands, AfterPass,
              ExitedStopped, Unwritten
<1> QED
  BY <1>1, <1>2, <1>3, <1>4 DEF Next, Exited

--------------------------------------------------------------------------------
(* With the fetches of graphite-web *)

(* What was there when the fetch began is in what it read, in the cache, or was in the
   writer's hands since. *)
FetchInv == reading # None => due \subseteq values \cup Cache!PointsOf(reading) \cup passed

ReadInv == WriterInv /\ FetchInv

(* A fetch is no step of carbon-cache. *)
LEMMA BesideTheWriter == [ReadNext]_allVars => [Next]_vars
BY DEF ReadNext, CacheStep, Beside, Fetch, MergeWithCarbonlink, MergeFails, FetchEnds, Exited,
       allVars, Next, Writer

(* Points leave the cache into the writer's hands only. *)
LEMMA FromCacheToHands ==
  ASSUME [Next]_vars
  PROVE  pending \subseteq pending' \cup handed'
<1>1. ASSUME NEW p \in Points, Store(p) PROVE pending \subseteq pending'
  BY <1>1 DEF Store, Cache!Touch, Cache!Accept, Cache!AcceptLate
<1>2. ASSUME NEW m \in Metrics, DrainTake(m) PROVE pending \subseteq pending' \cup handed'
  BY <1>2 DEF DrainTake, Cache!Take
<1>3. CASE DrainReturn
  BY <1>3 DEF DrainReturn, Cache!Return
<1>4. CASE UNCHANGED ledgerVars
  BY <1>4 DEF ledgerVars
<1> QED
  BY <1>1, <1>2, <1>3, <1>4 DEF Next, Writer, WriteForever, WriteCached, OrderEnds, OrderYield,
     ExistsRaises, Create, CreateFails, Write, WriteFails, Wake, Stop, Refill, Exited, vars

LEMMA ReadStep == ReadInv /\ [ReadNext]_allVars => ReadInv'
<1> SUFFICES ASSUME ReadInv, [ReadNext]_allVars PROVE ReadInv'
  OBVIOUS
<1>1. WriterInv'
  BY WriterNext, BesideTheWriter DEF ReadInv
<1>2. CASE CacheStep
  <2> SUFFICES ASSUME reading' # None, NEW p \in due'
               PROVE  p \in values' \cup Cache!PointsOf(reading)' \cup passed'
    BY <1>1 DEF ReadInv, FetchInv
  <2>1. /\ reading' = reading /\ values' = values /\ p \in due
        /\ passed' = passed \cup OfMetric(handed' \cup datapoints', reading)
    BY <1>2 DEF CacheStep, Beside
  <2>2. p \in values \cup Cache!PointsOf(reading) \cup passed
    BY <2>1 DEF ReadInv, FetchInv
  <2>3. pending \subseteq pending' \cup handed'
    BY BesideTheWriter, FromCacheToHands
  <2> QED
    BY <2>1, <2>2, <2>3 DEF Cache!PointsOf, OfMetric
<1>3. ASSUME NEW m \in Watched, Fetch(m) PROVE ReadInv'
  <2>1. /\ reading' = m /\ values' = OfMetric(disk, m) /\ UNCHANGED vars
        /\ due' = OfMetric(disk \cup (unwritten \ dropped), m)
        /\ passed' = OfMetric(handed \cup datapoints, m)
    BY <1>3 DEF Fetch, InHand
  <2>2. unwritten \subseteq pending \cup handed \cup datapoints \cup dropped /\ pending' = pending
    BY <2>1 DEF ReadInv, WriterInv, Unwritten, vars, ledgerVars
  <2> QED
    BY <1>1, <2>1, <2>2 DEF ReadInv, FetchInv, OfMetric, Cache!PointsOf
<1>4. CASE MergeWithCarbonlink \/ MergeFails
  BY <1>1, <1>4 DEF MergeWithCarbonlink, MergeFails, FetchEnds, ReadInv, FetchInv
<1>5. CASE reading = None /\ UNCHANGED readVars
  BY <1>1, <1>5 DEF readVars, ReadInv, FetchInv
<1>6. CASE UNCHANGED allVars
  BY <1>1, <1>6 DEF allVars, vars, ledgerVars, readVars, ReadInv, FetchInv, Cache!PointsOf
<1> QED
  BY <1>2, <1>3, <1>4, <1>5, <1>6 DEF ReadNext

LEMMA ReadInvHolds == ReadSpec => []ReadInv
<1>1. ReadInit => ReadInv
  BY WriterInit DEF ReadInit, ReadInv, FetchInv
<1> QED
  BY <1>1, ReadStep, PTL DEF ReadSpec

(* When the writer has ended, all that is left in memory came after its last pass, or was
   there when the database ended that pass (carbon.conf.example:163). *)
THEOREM OnlyLateIsLeft == ReadSpec => []LeavesOnlyLate
<1>1. ReadInv => LeavesOnlyLate
  BY DEF ReadInv, WriterInv, InHands, AfterPass, LeavesOnlyLate
<1> QED
  BY <1>1, ReadInvHolds, PTL

(* WhisperReader.fetch misses no accepted point but those the writer held during it. *)
THEOREM OnlyInHandIsMissed == ReadSpec => MissesOnlyInHand
<1>1. ReadInv /\ [ReadNext]_allVars =>
        [reading # None /\ reading' = None => failed' \/ due \subseteq result' \cup passed]_allVars
  <2> SUFFICES ASSUME ReadInv, ReadNext, reading # None, reading' = None
               PROVE  failed' \/ due \subseteq result' \cup passed
    OBVIOUS
  <2>1. CASE CacheStep
    BY <2>1 DEF CacheStep, Beside
  <2>2. CASE MergeWithCarbonlink
    BY <2>2 DEF MergeWithCarbonlink, ReadInv, FetchInv
  <2>3. CASE MergeFails
    BY <2>3 DEF MergeFails
  <2> QED
    BY <2>1, <2>2, <2>3 DEF ReadNext, Fetch
<1> QED
  BY <1>1, ReadInvHolds, PTL DEF ReadSpec, MissesOnlyInHand

--------------------------------------------------------------------------------
(* The limiter: how far the ideal bucket may be behind the real one, and what a call in
   progress has read *)

(* The wait of a blocking call is long enough for the units it needs. *)
LEMMA WaitSuffices ==
  ASSUME NEW n \in Int, NEW r \in Nat \ {0}
  PROVE  (n + r - 1) \div r \in Int /\ r * ((n + r - 1) \div r) >= n
  OBVIOUS

(* What a bucket gains in a tick, and that it gains more in a longer time. *)
LEMMA Gains ==
  ASSUME NEW r \in Nat \ {0}, NEW a \in Nat, NEW b \in Nat, a <= b
  PROVE  r * (b - a) \in Nat /\ r * (b + 1 - a) = r * (b - a) + r /\ r * (a - a) = 0
  OBVIOUS

LEMMA GainsMonotonic ==
  ASSUME NEW r \in Nat \ {0}, NEW a \in Nat, NEW b \in Nat, NEW c \in Int, a <= b, c <= b
  PROVE  r * (c - a) \in Int /\ r * (c - a) <= r * (b - a)
  OBVIOUS

(* What came in since the timestamp came in before the refill began, or since. *)
LEMMA GainsAdd ==
  ASSUME NEW r \in Nat \ {0}, NEW a \in Nat, NEW b \in Nat, NEW c \in Nat, a <= b, b <= c
  PROVE  r * (b - a) + r * (c - b) = r * (c - a)
<1>1. c - a = (b - a) + (c - b) /\ b - a \in Int /\ c - b \in Int
  OBVIOUS
<1>2. \A x, y \in Int : r * (x + y) = r * x + r * y
  OBVIOUS
<1> QED
  BY <1>1, <1>2

(* The initial bucket is full, and so is the ideal one. *)
LEMMA BucketFull == BucketInit => BucketInv
<1> SUFFICES ASSUME BucketInit PROVE BucketInv
  OBVIOUS
<1> USE BucketAssumption DEF BucketInit
<1>1. Gain = 0
  BY DEF Gain
<1>2. BucketTypeOK
  <2>1. raced \in BOOLEAN /\ block \in BOOLEAN
    OBVIOUS
  <2>2. 0 \in 0 .. MaxCost
    OBVIOUS
  <2> QED
    BY <2>1, <2>2 DEF BucketTypeOK
<1>3. Behind /\ CallInv
  BY <1>1 DEF Behind, CallInv, Effective, Least
<1>4. Configured /\ LevelInv
  BY DEF Configured, LevelInv, Ceiling, Reconfiguring
<1> QED
  BY <1>2, <1>3, <1>4 DEF BucketInv

(* Every step keeps the types. *)
LEMMA TypeStep == BucketTypeOK /\ [BucketNext]_bucketVars => BucketTypeOK'
<1> SUFFICES ASSUME BucketTypeOK, [BucketNext]_bucketVars PROVE BucketTypeOK'
  OBVIOUS
<1> USE BucketAssumption DEF BucketTypeOK, bucket, call, reactor, bucketVars, Least
<1>1. CASE Tick
  BY <1>1 DEF Tick
<1>2. ASSUME NEW c \in 1 .. MaxCost, NEW blocking \in BOOLEAN, Drain(c, blocking) PROVE BucketTypeOK'
  BY <1>2 DEF Drain
<1>3. CASE ReadClock
  BY <1>3 DEF ReadClock
<1>4. CASE RefillRead
  <2>1. pc = "refill" /\ timestamp <= at /\ rate * (at - timestamp) \in Nat
    BY <1>4, Gains DEF RefillRead
  <2> QED
    BY <1>4, <2>1 DEF RefillRead
<1>5. CASE RefillAdd
  BY <1>5 DEF RefillAdd
<1>6. CASE RefillWrite
  BY <1>6 DEF RefillWrite, Stamp
<1>7. CASE Test
  BY <1>7 DEF Test
<1>8. CASE Wait
  <2>1. TicksFor(cost - tokens) \in Int
    BY WaitSuffices DEF TicksFor
  <2> QED
    BY <1>8, <2>1 DEF Wait
<1>9. CASE Resume
  BY <1>9 DEF Resume
<1>10. CASE TakeRead
  BY <1>10 DEF TakeRead
<1>11. CASE TakeWrite
  BY <1>11 DEF TakeWrite
<1>12. CASE SetCapacity
  <2>1. raced' \in BOOLEAN
    BY <1>12 DEF SetCapacity
  <2> QED
    BY <1>12, <2>1 DEF SetCapacity
<1>13. CASE SetRate
  BY <1>13 DEF SetRate
<1>14. CASE SetRead
  BY <1>14 DEF SetRead
<1>15. CASE SetWrite
  BY <1>15 DEF SetWrite
<1>16. CASE UNCHANGED bucketVars
  BY <1>16
<1> QED
  BY <1>1, <1>2, <1>3, <1>4, <1>5, <1>6, <1>7, <1>8, <1>9, <1>10, <1>11, <1>12, <1>13, <1>14,
     <1>15, <1>16 DEF BucketNext

(* The steps of the writer and of the clock leave the capacity, the rate and the reactor. *)
WriterStep ==
  /\ UNCHANGED <<capacity, rate, reactor>>
  /\ raced => raced'
  /\ pcR = "idle" => raced' = raced

(* What a step of BucketNext is: one of the writer or of the clock, or of the reactor. *)
LEMMA BucketSteps ==
  ASSUME BucketTypeOK, [BucketNext]_bucketVars
  PROVE  SetCapacity \/ SetRate \/ SetRead \/ SetWrite \/ WriterStep
BY DEF BucketNext, Tick, Drain, ReadClock, RefillRead, RefillAdd, RefillWrite, Test, Wait, Resume,
       TakeRead, TakeWrite, bucketVars, bucket, call, reactor, WriterStep, Reconfiguring, BucketTypeOK

(* The capacity and the rate are those the reactor has assigned. *)
LEMMA ConfiguredStep == BucketTypeOK /\ Configured /\ [BucketNext]_bucketVars => Configured'
<1> SUFFICES ASSUME BucketTypeOK, Configured, [BucketNext]_bucketVars PROVE Configured'
  OBVIOUS
<1>1. CASE WriterStep
  BY <1>1 DEF WriterStep, reactor, Configured, BucketTypeOK
<1>2. CASE SetCapacity \/ SetRate \/ SetRead \/ SetWrite
  BY <1>2 DEF SetCapacity, SetRate, SetRead, SetWrite, Configured, bucket
<1> QED
  BY <1>1, <1>2, BucketSteps

(* The levels stay below their ceiling. *)
LEMMA LevelStep ==
  ASSUME BucketTypeOK, Configured, LevelInv, [BucketNext]_bucketVars
  PROVE  LevelInv'
<1> USE BucketAssumption DEF BucketTypeOK, LevelInv, bucket, call, reactor, bucketVars, Reconfiguring
<1>1. CASE Tick \/ ReadClock \/ Test \/ Wait \/ Resume
             \/ (\E c \in 1 .. MaxCost, blocking \in BOOLEAN : Drain(c, blocking))
  BY <1>1 DEF Tick, ReadClock, Test, Wait, Resume, Drain, Ceiling
<1>2. CASE RefillRead
  <2>1. pc' = "add" /\ limit' = capacity /\ UNCHANGED <<tokens, level, pcR, sum>>
    BY <1>2 DEF RefillRead
  <2>2. (raced => raced') /\ (Reconfiguring => raced') /\ (~Reconfiguring /\ raced' => raced)
    BY <1>2 DEF RefillRead
  <2>3. Ceiling <= Ceiling' /\ limit' <= Ceiling'
    BY <2>1, <2>2 DEF Ceiling, Configured, Abs, Least
  <2> QED
    BY <2>1, <2>2, <2>3 DEF Ceiling, Abs, Least
<1>3. CASE RefillAdd
  <2>1. pc = "add" /\ pc' = "fill" /\ level' = Least(limit, tokens + delta)
        /\ UNCHANGED <<tokens, pcR, sum, raced>>
    BY <1>3 DEF RefillAdd
  <2>2. Ceiling' = Ceiling /\ Ceiling \in Int
    BY <2>1 DEF Ceiling, Abs, Least
  <2>3. level' <= limit /\ level' \in Int
    BY <2>1 DEF Least
  <2>4. Reconfiguring' => raced'
    BY <2>1
  <2>5. (pcR = "write" =>
           sum <= NewCapacity + (IF raced THEN Abs(NewCapacity - Capacity) ELSE 0))'
    BY <2>1, Zenon
  <2>6. level' <= Ceiling'
    BY <2>1, <2>2, <2>3
  <2> QED
    BY <2>1, <2>2, <2>4, <2>5, <2>6
<1>4. CASE RefillWrite
  BY <1>4 DEF RefillWrite, Ceiling
<1>5. CASE TakeRead
  <2>1. pc' = "store" /\ level' = tokens /\ UNCHANGED <<tokens, pcR, sum>>
    BY <1>5 DEF TakeRead
  <2>2. (raced => raced') /\ (Reconfiguring => raced') /\ (~Reconfiguring /\ raced' => raced)
    BY <1>5 DEF TakeRead
  <2>3. Ceiling <= Ceiling'
    BY <2>1, <2>2 DEF Ceiling, Abs, Least
  <2> QED
    BY <2>1, <2>2, <2>3 DEF Ceiling, Abs, Least
<1>6. CASE TakeWrite
  <2>1. pc = "store" /\ pc' = "idle" /\ tokens' = level - cost /\ UNCHANGED <<pcR, sum, raced>>
    BY <1>6 DEF TakeWrite
  <2>2. Ceiling' = Ceiling /\ Ceiling \in Int
    BY <2>1 DEF Ceiling, Abs, Least
  <2> QED
    BY <2>1, <2>2
<1>7. CASE SetCapacity
  <2>1. pcR = "idle" /\ pcR' = "rate" /\ UNCHANGED <<tokens, pc, limit, level, sum>>
    BY <1>7 DEF SetCapacity
  <2>2. pc \in {"add", "fill", "store"} => raced'
    BY <1>7 DEF SetCapacity
  <2>3. Ceiling = Capacity /\ Ceiling' >= Capacity
    BY <2>1 DEF Ceiling, Abs, Least
  <2>4. Ceiling' \in Int
    BY <2>1 DEF Ceiling, Abs, Least
  <2> QED
    BY <2>1, <2>2, <2>3, <2>4
<1>8. CASE SetRate
  BY <1>8 DEF SetRate, Ceiling
<1>9. CASE SetRead
  <2>1. pcR' = "write" /\ sum' = (NewCapacity - Capacity) + tokens
        /\ UNCHANGED <<tokens, pc, limit, level, raced>>
    BY <1>9 DEF SetRead
  <2>2. Ceiling' = Ceiling
    BY <1>9, <2>1 DEF SetRead, Ceiling
  <2>3. raced => sum' <= NewCapacity + Abs(NewCapacity - Capacity)
    BY <1>9, <2>1 DEF SetRead, Ceiling, Abs, Least
  <2>4. ~raced => sum' <= NewCapacity
    BY <1>9, <2>1 DEF SetRead, Ceiling
  <2> QED
    BY <1>9, <2>1, <2>2, <2>3, <2>4 DEF SetRead
<1>10. CASE SetWrite
  BY <1>10 DEF SetWrite, Ceiling, Abs, Least
<1>11. CASE UNCHANGED bucketVars
  BY <1>11 DEF Ceiling
<1> QED
  BY <1>1, <1>2, <1>3, <1>4, <1>5, <1>6, <1>7, <1>8, <1>9, <1>10, <1>11 DEF BucketNext

(* Until the reactor reconfigures it, the bucket is at most one call behind. *)
LEMMA BehindStep ==
  ASSUME BucketInv, [BucketNext]_bucketVars, pcR' = "idle"
  PROVE  (Behind /\ CallInv)'
<1>a. pcR = "idle" /\ WriterStep
  BY BucketSteps DEF BucketInv, WriterStep, reactor, SetCapacity, SetRate, SetRead, SetWrite
<1>b. capacity = Capacity /\ UNCHANGED <<capacity, rate>>
  BY <1>a DEF BucketInv, Configured, WriterStep
<1> USE BucketAssumption, <1>a, <1>b DEF BucketInv, BucketTypeOK, bucket, call, reactor, bucketVars, Behind, CallInv, Effective, Refilled, Least
<1>0. Gain \in Nat /\ SinceRefill \in Nat
  BY Gains DEF Gain, SinceRefill
<1>c. pc \in {"refill", "add", "fill"} =>
        rate * (at - timestamp) \in Nat /\ rate * (at - timestamp) + SinceRefill = Gain
  BY Gains, GainsAdd DEF Gain, SinceRefill
<1>1. CASE Tick
  <2>1. Gain' = Gain + rate /\ SinceRefill' = SinceRefill + rate
    BY <1>1, Gains DEF Tick, Gain, SinceRefill
  <2>2. CASE pc \in {"refill", "add", "fill"}
    BY <1>0, <1>1, <1>c, <2>1, <2>2 DEF Tick
  <2>3. CASE pc \notin {"refill", "add", "fill"}
    BY <1>0, <1>1, <2>1, <2>3 DEF Tick
  <2> QED
    BY <2>2, <2>3
<1>2. ASSUME NEW c \in 1 .. MaxCost, NEW blocking \in BOOLEAN, Drain(c, blocking)
      PROVE  (Behind /\ CallInv)'
  BY <1>0, <1>2 DEF Drain, Gain
<1>3. CASE ReadClock
  <2>1. at' = now /\ SinceRefill' = 0 /\ Gain' = Gain /\ rate * (at' - timestamp') = Gain
    BY <1>3, Gains DEF ReadClock, SinceRefill, Gain
  <2> QED
    BY <1>0, <1>3, <2>1 DEF ReadClock
<1>4. CASE RefillRead
  <2>1. Gain' = Gain /\ SinceRefill' = SinceRefill
    BY <1>4 DEF RefillRead, SinceRefill, Gain
  <2> QED
    BY <1>0, <1>4, <2>1 DEF RefillRead
<1>5. CASE RefillAdd
  <2>1. Gain' = Gain /\ SinceRefill' = SinceRefill /\ pc = "add" /\ level' = Refilled
    BY <1>5 DEF RefillAdd, SinceRefill, Gain
  <2> QED
    BY <1>0, <1>5, <2>1 DEF RefillAdd
<1>6. CASE RefillWrite
  <2>1. Gain' = SinceRefill /\ tokens' = Refilled /\ pc' = "test"
    BY <1>6 DEF RefillWrite, SinceRefill, Gain, Stamp
  <2>2. UNCHANGED <<credit, capacity>>
    BY <1>6 DEF RefillWrite
  <2> QED
    BY <1>0, <1>6, <1>c, <2>1, <2>2 DEF RefillWrite
<1>7. CASE Test
  <2>1. Gain' = Gain
    BY <1>7 DEF Test, Gain
  <2> QED
    BY <1>0, <1>7, <2>1 DEF Test
<1>8. CASE Wait
  <2>1. Gain' = Gain /\ wake' - timestamp' = TicksFor(cost - tokens) /\ TicksFor(cost - tokens) \in Int
    BY <1>8, WaitSuffices DEF Wait, Gain, TicksFor
  <2>2. rate * TicksFor(cost - tokens) >= cost - tokens /\ rate * TicksFor(cost - tokens) \in Int
    BY WaitSuffices DEF TicksFor
  <2>3. rate' * (wake' - timestamp') + tokens' >= cost'
    BY <1>8, <2>1, <2>2 DEF Wait
  <2> QED
    BY <1>0, <1>8, <2>1, <2>3 DEF Wait
<1>9. CASE Resume
  <2>1. Gain' = Gain /\ rate * (wake - timestamp) \in Int /\ rate * (wake - timestamp) <= Gain
    BY <1>9, GainsMonotonic DEF Resume, Gain
  <2> QED
    BY <1>0, <1>9, <2>1 DEF Resume
<1>10. CASE TakeRead
  <2>1. Gain' = Gain
    BY <1>10 DEF TakeRead, Gain
  <2> QED
    BY <1>0, <1>10, <2>1 DEF TakeRead
<1>11. CASE TakeWrite
  <2>1. Gain' = Gain
    BY <1>11 DEF TakeWrite, Gain
  <2> QED
    BY <1>0, <1>11, <2>1 DEF TakeWrite
<1>12. CASE UNCHANGED bucketVars
  BY <1>12 DEF Gain, SinceRefill
<1> QED
  BY <1>1, <1>2, <1>3, <1>4, <1>5, <1>6, <1>7, <1>8, <1>9, <1>10, <1>11, <1>12
     DEF BucketNext, SetCapacity, SetRate, SetRead, SetWrite

(* Every step preserves the invariant. *)
LEMMA BucketStep == BucketInv /\ [BucketNext]_bucketVars => BucketInv'
BY TypeStep, ConfiguredStep, LevelStep, BehindStep DEF BucketInv

(* The invariant holds of every behaviour. *)
THEOREM BucketInvHolds == BucketSpec => []BucketInv
  BY BucketFull, BucketStep, PTL DEF BucketSpec

(* Every variable of the bucket keeps its type. *)
THEOREM BucketTypeCorrect == BucketSpec => []BucketTypeOK
<1>1. BucketInv => BucketTypeOK
  BY DEF BucketInv
<1> QED
  BY <1>1, BucketInvHolds, PTL

(* Until it is reconfigured, the limiter grants no more than its capacity, the refill and
   one call (util.py:234-252, 264-272). *)
THEOREM RateBounded == BucketSpec => []RateBound
<1>1. BucketInv => RateBound
  <2> SUFFICES ASSUME BucketInv, pcR = "idle" PROVE credit >= -MaxCost
    BY DEF RateBound
  <2>1. Gain \in Nat
    BY Gains DEF Gain, BucketInv, BucketTypeOK
  <2> QED
    BY <2>1, BucketAssumption DEF BucketInv, BucketTypeOK, Behind, CallInv, Effective, Least
<1> QED
  BY <1>1, BucketInvHolds, PTL

(* However the reactor's four assignments and the writer's refills and withdrawals
   interleave, the bucket holds at most its capacity, and by the change of the capacity
   more only during the reconfiguration or after one overlapped it. *)
THEOREM LevelBounded == BucketSpec => []LevelWithinCapacity
<1>1. BucketInv => LevelWithinCapacity
  BY BucketAssumption DEF BucketInv, BucketTypeOK, Configured, LevelInv, LevelWithinCapacity, Ceiling, Least,
     Reconfiguring, Abs
<1> QED
  BY <1>1, BucketInvHolds, PTL
================================================================================
