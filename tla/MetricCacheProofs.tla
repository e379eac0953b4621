--------------------------- MODULE MetricCacheProofs ---------------------------
(* The safety theorems of MetricCache, for every number of metrics, timestamps
   and values, every limit and every drain strategy. *)
EXTENDS MetricCache, FiniteSetTheorems, TLAPS

\* Every set of points is finite.
LEMMA PointsFinite ==
  ASSUME NEW S \in SUBSET Points
  PROVE  IsFiniteSet(S) /\ Cardinality(S) \in Nat
<1>1. IsFiniteSet(Points)
  BY ConstantsAssumption, FS_Product DEF Points
<1>2. IsFiniteSet(S)
  BY <1>1, FS_Subset
<1> QED
  BY <1>2, FS_CardinalityType

\* A snapshot ranks metrics of the cache with natural numbers.
LEMMA SnapshotTyped ==
  ASSUME keys \subseteq Metrics
  PROVE  DOMAIN Snapshot \subseteq keys /\ Snapshot \in [DOMAIN Snapshot -> Nat]
<1>1. ASSUME NEW T \in SUBSET Timestamps
      PROVE  Cardinality(T) \in Nat
  BY ConstantsAssumption, FS_Subset, FS_CardinalityType
<1>2. \A m : Rank(m) \in Nat
  <2> TAKE m
  <2>1. Cardinality({t \in Timestamps : \E u \in Held(index[m]) : u <= t}) \in Nat
    BY <1>1
  <2>2. Cardinality(Held(index[m])) \in Nat
    BY <1>1 DEF Held
  <2> QED
    BY <2>1, <2>2 DEF Rank, Count
<1> QED
  BY <1>2 DEF Snapshot

LEMMA QueueTyped ==
  ASSUME TypeOK, DOMAIN queue \subseteq keys
  PROVE  DOMAIN Queue \subseteq keys /\ Queue \in [DOMAIN Queue -> Nat]
BY SnapshotTyped DEF TypeOK, Queue

--------------------------------------------------------------------------------
LEMMA TypeStep ==
  ASSUME TypeOK, ReactorInv, WriterInv, ChosenIsCached, [Next]_vars
  PROVE  TypeOK'
<1>s. strategy' = strategy
  BY DEF Next, vars
<1> USE <1>s
<1> USE ConstantsAssumption
<1> USE DEF TypeOK, cacheVars, flowVars, reactorVars, writerVars
<1>1. CASE Receive
  BY <1>1 DEF Receive
<1>2. CASE RecordMetrics
  BY <1>2 DEF RecordMetrics
<1>3. CASE StoreCheck
  BY <1>3 DEF StoreCheck, Requests
<1>4. CASE StoreIsFull
  BY <1>4 DEF StoreIsFull
<1>5. CASE StoreCount
  BY <1>5 DEF StoreCount
<1>6. CASE StoreFetch
  BY <1>6 DEF StoreFetch, ReactorInv, Requests
<1>7. CASE StoreAssign
  BY <1>7 DEF StoreAssign, ReactorInv, Requests
<1>8. CASE CacheFull
  BY <1>8 DEF CacheFull, ReactorInv
<1>9. CASE PauseFlag
  BY <1>9 DEF PauseFlag
<1>10. CASE PauseReceiving
  BY <1>10 DEF PauseReceiving, ReactorInv
<1>11. CASE ChooseQueued
  <2>1. DOMAIN Queue \subseteq keys /\ Queue \in [DOMAIN Queue -> Nat]
    BY QueueTyped DEF ChosenIsCached
  <2> QED
    BY <1>11, <2>1 DEF ChooseQueued
<1>12. CASE ChooseAny
  BY <1>12 DEF ChooseAny
<1>13. CASE PopRemove
  BY <1>13 DEF PopRemove, NoPoints
<1>14. CASE PopUncount
  <2>1. Cardinality(Popped) \in Nat
    BY PointsFinite DEF Popped
  <2> QED
    BY <1>14, <2>1 DEF PopUncount
<1>15. CASE CheckAvailableSpace
  BY <1>15 DEF CheckAvailableSpace
<1>16. CASE CacheSpaceAvailable
  <2>1. pcW' \in {"resumeFlag", "sort"} /\ cacheTooFull' \in BOOLEAN
    BY <1>16 DEF CacheSpaceAvailable
  <2>2. UNCHANGED <<keys, index, size, lock, metricReceiversPaused, transportPaused,
                    batch, pcR, req, ref, queue, metric, popped>>
    BY <1>16 DEF CacheSpaceAvailable
  <2> QED
    BY <2>1, <2>2
<1>17. CASE ResumeFlag
  BY <1>17 DEF ResumeFlag
<1>18. CASE ResumeReceiving
  BY <1>18 DEF ResumeReceiving
<1>19. CASE PopSort
  BY <1>19 DEF PopSort, NoPoints
<1>20. CASE UNCHANGED vars
  BY <1>20 DEF vars, threadVars
<1> QED
  BY <1>1, <1>2, <1>3, <1>4, <1>5, <1>6, <1>7, <1>8, <1>9, <1>10, <1>11, <1>12, <1>13,
     <1>14, <1>15, <1>16, <1>17, <1>18, <1>19, <1>20 DEF Next, Store, Drain
\* Where the reactor is in store() stays consistent with the lock and the cache.
LEMMA ReactorStep ==
  ASSUME TypeOK, ReactorInv, WriterInv, [Next]_vars
  PROVE  ReactorInv'
<1> USE ConstantsAssumption
<1> USE DEF TypeOK, cacheVars, flowVars, reactorVars, writerVars, ReactorInv, WriterInv, Requests
<1>1. CASE Receive
  BY <1>1 DEF Receive, NoPoints
<1>2. CASE RecordMetrics
  BY <1>2 DEF RecordMetrics, NoPoints
<1>3. CASE StoreCheck
  <2> PICK m \in Metrics, t \in Timestamps, v \in Values :
        /\ req' = [metric |-> m, timestamp |-> t, value |-> v,
                   dup |-> index[m][t] # None]
        /\ pcR' = IF index[m][t] # None THEN "fetch" ELSE "is_full"
    BY <1>3 DEF StoreCheck
  <2>1. pcR = "idle" /\ batch > 0 /\ UNCHANGED <<index, size, lock, ref, batch>>
    BY <1>3 DEF StoreCheck
  <2>2. CASE index[m][t] = None
    <3>1. req' = [metric |-> m, timestamp |-> t, value |-> v, dup |-> FALSE]
      BY <2>2
    <3> QED
      BY <2>1, <2>2, <3>1
  <2>3. CASE index[m][t] # None
    <3>1. req' = [metric |-> m, timestamp |-> t, value |-> v, dup |-> TRUE]
      BY <2>3
    <3> QED
      BY <2>1, <2>3, <3>1
  <2> QED
    BY <2>2, <2>3
<1>4. CASE StoreIsFull
  BY <1>4 DEF StoreIsFull, NoPoints
<1>5. CASE StoreCount
  BY <1>5 DEF StoreCount, NoPoints
<1>6. CASE StoreFetch
  BY <1>6 DEF StoreFetch, NoPoints
<1>7. CASE StoreAssign
  BY <1>7 DEF StoreAssign, NoPoints
<1>8. CASE CacheFull
  BY <1>8 DEF CacheFull, NoPoints
<1>9. CASE PauseFlag
  BY <1>9 DEF PauseFlag, NoPoints
<1>10. CASE PauseReceiving
  BY <1>10 DEF PauseReceiving, NoPoints
<1>11. CASE ChooseQueued
  BY <1>11 DEF ChooseQueued, NoPoints
<1>12. CASE ChooseAny
  BY <1>12 DEF ChooseAny, NoPoints
<1>13. CASE PopRemove
  BY <1>13 DEF PopRemove, NoPoints
<1>14. CASE PopUncount
  <2>1. Cardinality(Popped) \in Nat
    BY PointsFinite DEF Popped
  <2> QED
    BY <1>14, <2>1 DEF PopUncount
<1>15. CASE CheckAvailableSpace
  BY <1>15 DEF CheckAvailableSpace, NoPoints
<1>16. CASE CacheSpaceAvailable
  BY <1>16 DEF CacheSpaceAvailable, NoPoints
<1>17. CASE ResumeFlag
  BY <1>17 DEF ResumeFlag, NoPoints
<1>18. CASE ResumeReceiving
  BY <1>18 DEF ResumeReceiving, NoPoints
<1>19. CASE PopSort
  BY <1>19 DEF PopSort, NoPoints
<1>20. CASE UNCHANGED vars
  BY <1>20 DEF vars, threadVars
<1> QED
  BY <1>1, <1>2, <1>3, <1>4, <1>5, <1>6, <1>7, <1>8, <1>9, <1>10, <1>11, <1>12, <1>13,
     <1>14, <1>15, <1>16, <1>17, <1>18, <1>19, <1>20 DEF Next, Store, Drain

\* Where the writer is in pop() stays consistent with the lock.
LEMMA WriterStep ==
  ASSUME TypeOK, ReactorInv, WriterInv, ChosenIsCached, [Next]_vars
  PROVE  WriterInv'
<1>s. strategy' = strategy
  BY DEF Next, vars
<1>t. Snapshots' = Snapshots
  BY <1>s DEF Snapshots
<1> USE <1>s, <1>t
<1> USE ConstantsAssumption
<1> USE DEF TypeOK, cacheVars, flowVars, reactorVars, writerVars, ReactorInv, WriterInv
<1>1. CASE Receive
  BY <1>1 DEF Receive, NoPoints, Requests
<1>2. CASE RecordMetrics
  BY <1>2 DEF RecordMetrics, NoPoints, Requests
<1>3. CASE StoreCheck
  BY <1>3 DEF StoreCheck, NoPoints, Requests
<1>4. CASE StoreIsFull
  BY <1>4 DEF StoreIsFull, NoPoints, Requests
<1>5. CASE StoreCount
  BY <1>5 DEF StoreCount, NoPoints, Requests
<1>6. CASE StoreFetch
  BY <1>6 DEF StoreFetch, NoPoints, Requests
<1>7. CASE StoreAssign
  BY <1>7 DEF StoreAssign, NoPoints, Requests
<1>8. CASE CacheFull
  BY <1>8 DEF CacheFull, NoPoints, Requests
<1>9. CASE PauseFlag
  BY <1>9 DEF PauseFlag, NoPoints, Requests
<1>10. CASE PauseReceiving
  BY <1>10 DEF PauseReceiving, NoPoints, Requests
<1>11. CASE ChooseQueued
  <2>1. DOMAIN Queue \subseteq keys
    BY QueueTyped DEF ChosenIsCached
  <2> QED
    BY <1>11, <2>1 DEF ChooseQueued
<1>12. CASE ChooseAny
  BY <1>12 DEF ChooseAny, NoPoints, Requests
<1>13. CASE PopRemove
  BY <1>13 DEF PopRemove, NoPoints, Requests
<1>14. CASE PopUncount
  BY <1>14 DEF PopUncount, NoPoints, Requests
<1>15. CASE CheckAvailableSpace
  BY <1>15 DEF CheckAvailableSpace, NoPoints, Requests
<1>16. CASE CacheSpaceAvailable
  BY <1>16 DEF CacheSpaceAvailable, NoPoints, Requests
<1>17. CASE ResumeFlag
  BY <1>17 DEF ResumeFlag, NoPoints, Requests
<1>18. CASE ResumeReceiving
  BY <1>18 DEF ResumeReceiving, NoPoints, Requests
<1>19. CASE PopSort
  BY <1>19 DEF PopSort, NoPoints, Requests
<1>20. CASE UNCHANGED vars
  BY <1>20 DEF vars, threadVars
<1> QED
  BY <1>1, <1>2, <1>3, <1>4, <1>5, <1>6, <1>7, <1>8, <1>9, <1>10, <1>11, <1>12, <1>13,
     <1>14, <1>15, <1>16, <1>17, <1>18, <1>19, <1>20 DEF Next, Store, Drain

\* Only the writer takes metrics out, so its choices stay in the cache.
LEMMA ChosenStep ==
  ASSUME TypeOK, WriterInv, ChosenIsCached, [Next]_vars
  PROVE  ChosenIsCached'
<1> USE ConstantsAssumption
<1> USE DEF TypeOK, cacheVars, flowVars, reactorVars, writerVars, WriterInv, ChosenIsCached
<1>1. CASE Receive
  BY <1>1 DEF Receive
<1>2. CASE RecordMetrics
  BY <1>2 DEF RecordMetrics
<1>3. CASE StoreCheck
  BY <1>3 DEF StoreCheck
<1>4. CASE StoreIsFull
  BY <1>4 DEF StoreIsFull
<1>5. CASE StoreCount
  BY <1>5 DEF StoreCount
<1>6. CASE StoreFetch
  BY <1>6 DEF StoreFetch
<1>7. CASE StoreAssign
  BY <1>7 DEF StoreAssign
<1>8. CASE CacheFull
  BY <1>8 DEF CacheFull
<1>9. CASE PauseFlag
  BY <1>9 DEF PauseFlag
<1>10. CASE PauseReceiving
  BY <1>10 DEF PauseReceiving
<1>11. CASE ChooseQueued
  <2>1. DOMAIN Queue \subseteq keys
    BY QueueTyped DEF ChosenIsCached
  <2> QED
    BY <1>11, <2>1 DEF ChooseQueued
<1>12. CASE ChooseAny
  BY <1>12 DEF ChooseAny, Snapshots
<1>13. CASE PopRemove
  BY <1>13 DEF PopRemove
<1>14. CASE PopUncount
  BY <1>14 DEF PopUncount
<1>15. CASE CheckAvailableSpace
  BY <1>15 DEF CheckAvailableSpace
<1>16. CASE CacheSpaceAvailable
  BY <1>16 DEF CacheSpaceAvailable
<1>17. CASE ResumeFlag
  BY <1>17 DEF ResumeFlag
<1>18. CASE ResumeReceiving
  BY <1>18 DEF ResumeReceiving
<1>19. CASE PopSort
  BY <1>19 DEF PopSort
<1>20. CASE UNCHANGED vars
  BY <1>20 DEF vars, threadVars
<1> QED
  BY <1>1, <1>2, <1>3, <1>4, <1>5, <1>6, <1>7, <1>8, <1>9, <1>10, <1>11, <1>12, <1>13,
     <1>14, <1>15, <1>16, <1>17, <1>18, <1>19, <1>20 DEF Next, Store, Drain

\* Only the reactor adds, so the room it saw is there when it has the lock.
LEMMA SizeStep ==
  ASSUME TypeOK, ReactorInv, SizeWithinLimit, [Next]_vars
  PROVE  SizeWithinLimit'
<1> USE ConstantsAssumption
<1> USE DEF TypeOK, cacheVars, flowVars, reactorVars, writerVars, ReactorInv, SizeWithinLimit
<1>1. CASE Receive
  BY <1>1 DEF Receive
<1>2. CASE RecordMetrics
  BY <1>2 DEF RecordMetrics
<1>3. CASE StoreCheck
  BY <1>3 DEF StoreCheck
<1>4. CASE StoreIsFull
  BY <1>4 DEF StoreIsFull
<1>5. CASE StoreCount
  BY <1>5 DEF StoreCount
<1>6. CASE StoreFetch
  BY <1>6 DEF StoreFetch
<1>7. CASE StoreAssign
  BY <1>7 DEF StoreAssign
<1>8. CASE CacheFull
  BY <1>8 DEF CacheFull
<1>9. CASE PauseFlag
  BY <1>9 DEF PauseFlag
<1>10. CASE PauseReceiving
  BY <1>10 DEF PauseReceiving
<1>11. CASE ChooseQueued
  BY <1>11 DEF ChooseQueued
<1>12. CASE ChooseAny
  BY <1>12 DEF ChooseAny
<1>13. CASE PopRemove
  BY <1>13 DEF PopRemove
<1>14. CASE PopUncount
  <2>1. Cardinality(Popped) \in Nat
    BY PointsFinite DEF Popped
  <2> QED
    BY <1>14, <2>1 DEF PopUncount
<1>15. CASE CheckAvailableSpace
  BY <1>15 DEF CheckAvailableSpace
<1>16. CASE CacheSpaceAvailable
  BY <1>16 DEF CacheSpaceAvailable
<1>17. CASE ResumeFlag
  BY <1>17 DEF ResumeFlag
<1>18. CASE ResumeReceiving
  BY <1>18 DEF ResumeReceiving
<1>19. CASE PopSort
  BY <1>19 DEF PopSort
<1>20. CASE UNCHANGED vars
  BY <1>20 DEF vars, threadVars
<1> QED
  BY <1>1, <1>2, <1>3, <1>4, <1>5, <1>6, <1>7, <1>8, <1>9, <1>10, <1>11, <1>12, <1>13,
     <1>14, <1>15, <1>16, <1>17, <1>18, <1>19, <1>20 DEF Next, Store, Drain

--------------------------------------------------------------------------------
(* size against the points it stands for *)

\* A step that changes neither the points nor the places the count depends on.
LEMMA CountUnchanged ==
  ASSUME CountNeverOverstates, UNCHANGED <<index, size, lock, popped, metric>>,
         pcW = "uncount" <=> pcW' = "uncount"
  PROVE  CountNeverOverstates'
<1>1. Cached' = Cached /\ Popped' = Popped
  BY DEF Cached, Popped
<1> QED
  BY <1>1 DEF CountNeverOverstates, BeingInserted, BeingRemoved

LEMMA CountStep ==
  ASSUME TypeOK, ReactorInv, WriterInv, CountNeverOverstates, [Next]_vars
  PROVE  CountNeverOverstates'
<1> USE ConstantsAssumption
<1> USE DEF TypeOK, cacheVars, flowVars, reactorVars, writerVars
<1>a. Cardinality(Cached) \in Nat /\ Cardinality(Cached') \in Nat
      /\ Cardinality(Popped) \in Nat /\ Cardinality(Popped') \in Nat
  BY PointsFinite DEF Cached, Popped
<1>b. IsFiniteSet(Cached) /\ IsFiniteSet(Cached') /\ IsFiniteSet(Popped')
  BY PointsFinite DEF Cached, Popped
<1>1. CASE StoreCount
  <2>1. Cached' = Cached /\ Popped' = Popped
    BY <1>1 DEF StoreCount, Cached, Popped
  <2>2. BeingInserted = 0 /\ BeingInserted' = 1 /\ BeingRemoved' = BeingRemoved
    BY <1>1, <2>1 DEF StoreCount, BeingInserted, BeingRemoved
  <2>3. size' = size + 1
    BY <1>1 DEF StoreCount
  <2> QED
    BY <1>a, <2>1, <2>2, <2>3 DEF CountNeverOverstates, BeingRemoved
<1>2. CASE StoreAssign
  <2> DEFINE p == <<req.metric, req.timestamp>>
  <2>1. req \in Requests /\ p \in Points
    BY <1>2 DEF StoreAssign, ReactorInv, Requests, Points
  <2>2. UNCHANGED <<size, pcW, metric>>
    BY <1>2 DEF StoreAssign
  <2>3. Popped \subseteq Popped'
    <3>1. ASSUME NEW t \in Timestamps, popped[t] # None PROVE popped'[t] # None
      BY <1>2, <2>1, <3>1 DEF StoreAssign, Requests
    <3> QED
      BY <2>2, <3>1 DEF Popped, Points
  <2>4. BeingRemoved <= BeingRemoved'
    <3>1. Cardinality(Popped) <= Cardinality(Popped')
      BY <1>b, <2>3, FS_Subset
    <3> QED
      BY <1>a, <2>2, <3>1 DEF BeingRemoved
  <2>5. Cached \subseteq Cached'
    <3>1. ASSUME NEW m \in Metrics, NEW t \in Timestamps, index[m][t] # None
          PROVE  index'[m][t] # None
      BY <1>2, <2>1, <3>1 DEF StoreAssign, Requests
    <3> QED
      BY <3>1 DEF Cached, Points
  <2>6. CASE req.dup
    <3>1. BeingInserted' = BeingInserted
      BY <1>2, <2>6 DEF StoreAssign, BeingInserted
    <3>2. Cardinality(Cached) <= Cardinality(Cached')
      BY <1>b, <2>5, FS_Subset
    <3>3. BeingInserted \in Nat /\ BeingRemoved \in Nat /\ BeingRemoved' \in Nat
      BY <1>a DEF BeingInserted, BeingRemoved
    <3> QED
      BY <1>a, <2>2, <2>4, <3>1, <3>2, <3>3 DEF CountNeverOverstates
  <2>7. CASE ~req.dup
    <3>1. lock = "reactor" /\ lock' = "free" /\ ref = "live"
      BY <1>2, <2>7 DEF StoreAssign, ReactorInv
    <3>2. p \notin Cached /\ p \in Cached'
      BY <1>2, <2>1, <2>7, <3>1 DEF StoreAssign, ReactorInv, Cached, Points, Requests
    <3>3. Cardinality(Cached) < Cardinality(Cached')
      <4>1. Cardinality(Cached \cup {p}) = Cardinality(Cached) + 1
        BY <1>b, <3>2, FS_AddElement
      <4>2. Cardinality(Cached \cup {p}) <= Cardinality(Cached')
        BY <1>b, <2>5, <3>2, FS_Subset
      <4> QED
        BY <1>a, <4>1, <4>2
    <3>4. BeingInserted = 1 /\ BeingInserted' = 0
      BY <3>1 DEF BeingInserted
    <3>5. BeingRemoved \in Nat /\ BeingRemoved' \in Nat
      BY <1>a DEF BeingRemoved
    <3> QED
      BY <1>a, <2>2, <2>4, <3>3, <3>4, <3>5 DEF CountNeverOverstates
  <2> QED
    BY <2>6, <2>7
<1>3. CASE PopRemove
  <2>1. metric \in Metrics /\ lock = "free" /\ lock' = "writer" /\ pcW = "pop" /\ pcW' = "uncount"
    BY <1>3 DEF PopRemove, WriterInv
  <2>2. UNCHANGED <<size, metric>>
    BY <1>3 DEF PopRemove
  <2>3. Popped' = {p \in Cached : p[1] = metric}
    BY <1>3 DEF PopRemove, Popped, Cached
  <2>4. Cached' = Cached \ Popped'
    <3>1. ASSUME NEW m \in Metrics, NEW t \in Timestamps
          PROVE  index'[m][t] = IF m = metric THEN None ELSE index[m][t]
      BY <1>3 DEF PopRemove, NoPoints
    <3> QED
      BY <2>3, <3>1 DEF Cached, Points
  <2>5. Cardinality(Cached') = Cardinality(Cached) - Cardinality(Popped')
    <3>1. Cached \cap Popped' = Popped'
      BY <2>3
    <3> QED
      BY <1>b, <2>4, <3>1, FS_Difference
  <2>6. BeingInserted = 0 /\ BeingRemoved = 0 /\ BeingInserted' = 0
        /\ BeingRemoved' = Cardinality(Popped')
    BY <2>1 DEF BeingInserted, BeingRemoved
  <2> QED
    BY <1>a, <2>2, <2>5, <2>6 DEF CountNeverOverstates
<1>4. CASE PopUncount
  <2>1. Cached' = Cached
    BY <1>4 DEF PopUncount, Cached
  <2>2. BeingInserted = 0 /\ BeingInserted' = 0 /\ BeingRemoved' = 0
        /\ BeingRemoved = Cardinality(Popped)
    BY <1>4 DEF PopUncount, WriterInv, BeingInserted, BeingRemoved
  <2>3. size' = size - Cardinality(Popped)
    BY <1>4 DEF PopUncount
  <2> QED
    BY <1>a, <2>1, <2>2, <2>3 DEF CountNeverOverstates
<1>5. CASE ChooseQueued \/ ChooseAny \/ PopSort
  <2>1. UNCHANGED <<index, size, lock>> /\ pcW # "uncount" /\ pcW' # "uncount"
    BY <1>5 DEF ChooseQueued, ChooseAny, PopSort
  <2>2. Cached' = Cached
    BY <2>1 DEF Cached
  <2> QED
    BY <2>1, <2>2 DEF CountNeverOverstates, BeingInserted, BeingRemoved
<1>6. CASE Receive \/ RecordMetrics \/ StoreCheck \/ StoreIsFull \/ StoreFetch
           \/ CacheFull \/ PauseFlag \/ PauseReceiving
  BY <1>6, CountUnchanged DEF Receive, RecordMetrics, StoreCheck, StoreIsFull, StoreFetch,
     CacheFull, PauseFlag, PauseReceiving
<1>7. CASE CheckAvailableSpace \/ CacheSpaceAvailable \/ ResumeFlag \/ ResumeReceiving
  BY <1>7, CountUnchanged DEF CheckAvailableSpace, CacheSpaceAvailable, ResumeFlag,
     ResumeReceiving
<1>8. CASE UNCHANGED vars
  BY <1>8, CountUnchanged DEF vars, threadVars
<1> QED
  BY <1>1, <1>2, <1>3, <1>4, <1>5, <1>6, <1>7, <1>8 DEF Next, Store, Drain

--------------------------------------------------------------------------------
(* The theorems *)

LEMMA InitIInv ==
  ASSUME Init
  PROVE  IInv
<1> USE ConstantsAssumption
<1>1. TypeOK /\ WriterInv /\ ChosenIsCached /\ SizeWithinLimit
  <2>1. NoPoints \in [Timestamps -> Values \cup {None}]
    BY DEF NoPoints
  <2>2. DOMAIN queue = {} /\ queue \in [DOMAIN queue -> Nat]
    BY DEF Init
  <2>3. index \in [Metrics -> [Timestamps -> Values \cup {None}]]
    BY <2>1 DEF Init
  <2>4. TypeOK
    <3>1. /\ strategy \in Strategies /\ keys = {} /\ size = 0 /\ lock = "free" /\ batch = 0
          /\ pcR = "idle" /\ req = None /\ ref = "live"
          /\ pcW = "idle" /\ metric = None /\ popped = NoPoints
      BY DEF Init
    <3>2. DOMAIN queue \subseteq Metrics
      BY <2>2
    <3>3. /\ cacheTooFull \in BOOLEAN /\ metricReceiversPaused \in BOOLEAN
          /\ transportPaused \in BOOLEAN
      BY DEF Init
    <3>4. batch \in 0 .. MaxBatch
      BY <3>1
    <3> QED
      BY <2>1, <2>2, <2>3, <3>1, <3>2, <3>3, <3>4 DEF TypeOK
  <2>5. WriterInv /\ ChosenIsCached
    BY <2>2 DEF Init, WriterInv, ChosenIsCached
  <2>6. SizeWithinLimit
    BY DEF Init, SizeWithinLimit
  <2> QED
    BY <2>4, <2>5, <2>6
<1>2. ReactorInv
  BY DEF Init, ReactorInv
<1>3. Cardinality(Cached) \in Nat
  BY PointsFinite DEF Cached
<1>4. CountNeverOverstates
  BY <1>3 DEF Init, CountNeverOverstates, BeingInserted, BeingRemoved
<1> QED
  BY <1>1, <1>2, <1>4 DEF IInv

\* The invariant the threads maintain together.
THEOREM Invariance == Spec => []IInv
<1>1. IInv /\ [Next]_vars => IInv'
  BY TypeStep, ReactorStep, WriterStep, ChosenStep, SizeStep, CountStep DEF IInv
<1> QED
  BY <1>1, InitIInv, PTL DEF Spec

\* Every variable keeps its type.
THEOREM TypeCorrect == Spec => []TypeOK
BY Invariance, PTL DEF IInv

\* pop() never raises KeyError: what a strategy chose is still in the cache.
THEOREM ChoicesStayCached == Spec => []ChosenIsCached
BY Invariance, PTL DEF IInv

\* The cache never counts more than MAX_CACHE_SIZE points.
THEOREM SizeLimited == Spec => []SizeWithinLimit
BY Invariance, PTL DEF IInv

\* size never claims more points than there are.
THEOREM NeverOverstates == Spec => []CountNeverOverstates
BY Invariance, PTL DEF IInv

\* A datapoint is shed only by a cache that holds MAX_CACHE_SIZE points.
THEOREM ShedsOnlyWhenFull == Spec => ShedOnlyWhenFull
<1>1. ASSUME IInv, [Next]_vars, pcR = "is_full", pcR' = "cacheFull"
      PROVE  Cardinality(Cached) + BeingRemoved >= MaxCacheSize
  <2>1. size >= MaxCacheSize
    BY <1>1 DEF IInv, Next, Store, Drain, vars, threadVars, cacheVars, flowVars, reactorVars, writerVars,
       Receive, RecordMetrics, StoreCheck, StoreIsFull, StoreCount, StoreFetch, StoreAssign,
       CacheFull, PauseFlag, PauseReceiving, ChooseQueued, ChooseAny, PopRemove, PopUncount,
       CheckAvailableSpace, CacheSpaceAvailable, ResumeFlag, ResumeReceiving, PopSort
  <2>2. BeingInserted = 0
    BY <1>1 DEF IInv, ReactorInv, BeingInserted
  <2>3. Cardinality(Cached) \in Nat /\ BeingRemoved \in Nat
    BY PointsFinite DEF Cached, Popped, BeingRemoved
  <2> QED
    BY <1>1, <2>1, <2>2, <2>3, ConstantsAssumption DEF IInv, CountNeverOverstates, TypeOK
<1> QED
  BY <1>1, Invariance, PTL DEF ShedOnlyWhenFull, Spec

\* A new point that store() accepted is in the cache when store() returns.
THEOREM AcceptedPointsLand == Spec => AcceptedPointLands
<1>1. ASSUME IInv, [Next]_vars, pcR = "assign", ~req.dup, pcR' # "assign"
      PROVE  /\ req.metric \in keys'
             /\ index'[req.metric][req.timestamp] = req.value
  <2>1. StoreAssign
    BY <1>1 DEF Next, Store, Drain, vars, threadVars, cacheVars, flowVars, reactorVars, writerVars,
       Receive, RecordMetrics, StoreCheck, StoreIsFull, StoreCount, StoreFetch,
       CacheFull, PauseFlag, PauseReceiving, ChooseQueued, ChooseAny, PopRemove, PopUncount,
       CheckAvailableSpace, CacheSpaceAvailable, ResumeFlag, ResumeReceiving, PopSort
  <2> QED
    BY <1>1, <2>1 DEF StoreAssign, IInv, ReactorInv, TypeOK, Requests
<1> QED
  BY <1>1, Invariance, PTL DEF AcceptedPointLands, Spec
--------------------------------------------------------------------------------
(* The cache implements the ledger *)

Taking == IF pcW \in {"idle", "pop"} THEN None ELSE metric

LEMMA LedgerInit ==
  ASSUME Init
  PROVE  Ledger!Init
<1>1. Cached = {}
  BY DEF Init, Cached, Points, NoPoints
<1>2. Popped = {}
  BY DEF Init, Popped, Points, NoPoints
<1> QED
  BY <1>1, <1>2 DEF Init, Ledger!Init

LEMMA LedgerStep ==
  ASSUME IInv, [Next]_vars
  PROVE  [Ledger!Next]_(Ledger!ledgerVars)
<1> USE ConstantsAssumption
<1> USE DEF cacheVars, flowVars, reactorVars, writerVars
<1> DEFINE same == UNCHANGED <<keys, Cached, Taking, Popped>>
<1>a. ASSUME UNCHANGED <<keys, index, pcW, metric, popped>>
      PROVE  same
  BY <1>a DEF Cached, Popped, Taking
<1>b. ASSUME same PROVE [Ledger!Next]_(Ledger!ledgerVars)
  BY <1>b DEF Ledger!ledgerVars, Taking
<1>1. CASE StoreCheck \/ StoreFetch
  <2>1. PICK m \in Metrics : keys' = keys \cup {m}
    BY <1>1 DEF StoreCheck, StoreFetch, IInv, ReactorInv, Requests
  <2>2. UNCHANGED <<Cached, Taking, Popped>>
    BY <1>1 DEF StoreCheck, StoreFetch, Cached, Popped, Taking
  <2> QED
    BY <2>1, <2>2 DEF Ledger!Next, Ledger!Touch, Taking
<1>2. CASE StoreAssign
  <2> DEFINE p == <<req.metric, req.timestamp>>
  <2>1. req \in Requests /\ req.value # None /\ p \in Points
    BY <1>2 DEF StoreAssign, IInv, ReactorInv, Requests, Points
  <2>2. UNCHANGED <<keys, pcW, metric, Taking>>
    BY <1>2 DEF StoreAssign, Taking
  <2>3. CASE ref = "live"
    <3>1. Cached' = Cached \cup {p}
      <4>1. ASSUME NEW m \in Metrics, NEW t \in Timestamps
            PROVE  index'[m][t] = IF <<m, t>> = p THEN req.value ELSE index[m][t]
        BY <1>2, <2>1, <2>3 DEF StoreAssign, Requests, IInv, TypeOK
      <4> QED
        BY <2>1, <4>1 DEF Cached, Points
    <3>2. Popped' = Popped
      BY <1>2, <2>3 DEF StoreAssign, Popped
    <3>3. req.metric \in keys
      BY <1>2, <2>3 DEF StoreAssign, IInv, ReactorInv
    <3> QED
      BY <2>1, <2>2, <3>1, <3>2, <3>3 DEF Ledger!Next, Ledger!Accept, Ledger!Points, Points, Taking
  <2>4. CASE ref = "popped" /\ req.metric = metric
    <3>1. Cached' = Cached
      BY <1>2, <2>4 DEF StoreAssign, Cached
    <3>2. Popped' = Popped \cup {p}
      <4>1. ASSUME NEW t \in Timestamps
            PROVE  popped'[t] = IF t = req.timestamp THEN req.value ELSE popped[t]
        BY <1>2, <2>1, <2>4 DEF StoreAssign, Requests, IInv, TypeOK
      <4>2. \A q \in Points : q = p <=> q[1] = metric /\ q[2] = req.timestamp
        BY <2>1, <2>4 DEF Points
      <4>3. \A q \in Points : q \in Popped' <=> q \in Popped \/ q = p
        <5> TAKE q \in Points
        <5>1. q[2] \in Timestamps
          BY DEF Points
        <5>2. popped'[q[2]] # None <=> q[2] = req.timestamp \/ popped[q[2]] # None
          BY <2>1, <4>1, <5>1
        <5> QED
          BY <2>2, <4>2, <5>2 DEF Popped, Points
      <4> QED
        BY <2>1, <4>3 DEF Popped, Points
    <3>3. Taking = req.metric
      BY <2>4 DEF IInv, WriterInv, Taking
    <3> QED
      BY <2>1, <2>2, <3>1, <3>2, <3>3
         DEF Ledger!Next, Ledger!AcceptLate, Ledger!Points, Points, Taking
  <2>5. CASE ref = "lost"
    <3>1. same
      BY <1>2, <2>5, <1>a DEF StoreAssign
    <3> QED
      BY <3>1, <1>b
  <2> QED
    BY <1>2, <2>3, <2>4, <2>5 DEF StoreAssign, IInv, TypeOK, WriterInv
<1>3. CASE PopRemove
  <2>1. metric \in Metrics /\ metric \in keys /\ Taking = None /\ Taking' = metric
    BY <1>3 DEF PopRemove, IInv, WriterInv, Taking
  <2>2. Popped' = {p \in Cached : p[1] = metric}
    BY <1>3 DEF PopRemove, Popped, Cached
  <2>3. Cached' = Cached \ Popped'
    <3>1. ASSUME NEW m \in Metrics, NEW t \in Timestamps
          PROVE  index'[m][t] = IF m = metric THEN None ELSE index[m][t]
      BY <1>3, <2>1 DEF PopRemove, NoPoints, IInv, TypeOK
    <3>2. \A q \in Points : q \in Cached' <=> q \in Cached /\ q[1] # metric
      <4> TAKE q \in Points
      <4>1. q[1] \in Metrics /\ q[2] \in Timestamps
        BY DEF Points
      <4> QED
        BY <3>1, <4>1 DEF Cached, Points
    <3> QED
      BY <2>2, <3>2 DEF Cached, Points
  <2>4. keys' = keys \ {metric}
    BY <1>3 DEF PopRemove
  <2> QED
    BY <2>1, <2>2, <2>3, <2>4 DEF Ledger!Next, Ledger!Take, Ledger!PointsOf, Taking
<1>4. CASE PopSort
  <2>1. Taking \in Metrics /\ Taking' = None /\ UNCHANGED keys
    BY <1>4 DEF PopSort, IInv, WriterInv, Taking
  <2>2. Cached' = Cached /\ Popped' = {}
    BY <1>4 DEF PopSort, Cached, Popped, Points, NoPoints
  <2> QED
    BY <2>1, <2>2 DEF Ledger!Next, Ledger!Return, Taking
<1>5. CASE ChooseQueued \/ ChooseAny
  <2>1. UNCHANGED <<keys, index, popped>> /\ pcW = "idle" /\ pcW' = "pop"
    BY <1>5 DEF ChooseQueued, ChooseAny
  <2>2. popped = NoPoints
    BY <2>1 DEF IInv, WriterInv
  <2>3. Popped = {} /\ Popped' = {}
    BY <2>1, <2>2 DEF Popped, NoPoints, Points
  <2>4. same
    BY <2>1, <2>3 DEF Cached, Taking
  <2> QED
    BY <2>4, <1>b
<1>6. CASE PopUncount \/ CheckAvailableSpace \/ CacheSpaceAvailable \/ ResumeFlag
           \/ ResumeReceiving
  <2>1. UNCHANGED <<keys, index, metric, popped, Taking>>
    BY <1>6 DEF PopUncount, CheckAvailableSpace, CacheSpaceAvailable, ResumeFlag,
       ResumeReceiving, Taking
  <2>2. same
    BY <2>1 DEF Cached, Popped
  <2> QED
    BY <2>2, <1>b
<1>7. CASE Receive \/ RecordMetrics \/ StoreIsFull \/ StoreCount \/ CacheFull \/ PauseFlag
           \/ PauseReceiving \/ UNCHANGED vars
  <2>1. same
    BY <1>7, <1>a DEF Receive, RecordMetrics, StoreIsFull, StoreCount, CacheFull, PauseFlag,
       PauseReceiving, vars, threadVars
  <2> QED
    BY <2>1, <1>b
<1> QED
  BY <1>1, <1>2, <1>3, <1>4, <1>5, <1>6, <1>7 DEF Next, Store, Drain

\* Nothing but a pop() of its metric takes a point out of the cache, and pop()
\* hands over every point it took.
THEOREM Refinement == Spec => ImplementsLedger
<1>1. IInv /\ [Next]_vars => [Ledger!Next]_(Ledger!ledgerVars)
  BY LedgerStep
<1> QED
  BY <1>1, LedgerInit, Invariance, PTL DEF Spec, ImplementsLedger, Ledger!Spec
================================================================================
