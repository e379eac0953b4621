------------------------------ MODULE MetricCache ------------------------------
(***************************************************************************)
(* The in-memory cache of carbon-cache (carbon/lib/carbon/cache.py) with   *)
(* the two threads that share it and the flow-control flags they signal    *)
(* each other through (events.py, state.py, service.py, protocols.py).     *)
(*                                                                         *)
(*   reactor   the Twisted thread: every receiver, and the instrumentation *)
(*             task, call store(metric, (timestamp, value)) from it        *)
(*   writer    writeForever's thread: drain_metric() and pop()             *)
(*                                                                         *)
(* A step is what CPython executes without another thread being able to    *)
(* observe the middle of it: a dictionary operation, an attribute          *)
(* assignment.  The lock protects the size and the insertion of a new      *)
(* point; the duplicate test, is_full and the overwrite of a duplicate run *)
(* without it.                                                             *)
(***************************************************************************)
EXTENDS Integers, FiniteSets

CONSTANTS Metrics,        \* metric names
          Timestamps,     \* timestamps, naturals so that a strategy can order them
          Values,         \* values of datapoints
          None,           \* Python's None: no point, no metric, no datapoint
          MaxCacheSize,   \* settings.MAX_CACHE_SIZE
          LowWatermark,   \* the least integer >= settings.CACHE_SIZE_LOW_WATERMARK
          Strategies,     \* the values settings.CACHE_WRITE_STRATEGY may have
          UseFlowControl, \* settings.USE_FLOW_CONTROL
          SelfMetrics,    \* settings.CARBON_METRIC_INTERVAL > 0
          Arriving,       \* bound: the points <<metric, timestamp>> that are received
          MaxBatch,       \* bound: datapoints of one received message
          MaxDrift        \* bound: points in the cache that size does not count

ASSUME ConstantsAssumption ==
  /\ IsFiniteSet(Metrics)
  /\ IsFiniteSet(Timestamps) /\ Timestamps \subseteq Nat
  /\ None \notin Values /\ None \notin Metrics
  /\ MaxCacheSize \in Nat \ {0}
  /\ LowWatermark \in 1 .. MaxCacheSize
  /\ Strategies \subseteq {"naive", "max", "sorted", "timesorted", "random", "none"}
  /\ Arriving \subseteq Metrics \X Timestamps
  /\ UseFlowControl \in BOOLEAN /\ SelfMetrics \in BOOLEAN
  /\ MaxBatch \in Nat \ {0} /\ MaxDrift \in Nat

VARIABLES
  strategy,              \* settings.CACHE_WRITE_STRATEGY, read when the daemon starts
  keys,                  \* the metrics the dictionary has an entry for
  index,                 \* index[m][t]: the value cached for the point (m, t)
  size,                  \* _MetricCache.size
  lock,                  \* who holds _MetricCache.lock
  queue,                 \* what the strategy's snapshot still has to yield, ranked
  cacheTooFull,          \* state.cacheTooFull
  metricReceiversPaused, \* state.metricReceiversPaused
  transportPaused,       \* pauseProducing() was the last call on the receivers
  batch,                 \* datapoints of the current message not yet stored
  pcR, req, ref,         \* reactor: its place in store(), the datapoint, and
                         \* which dictionary self[metric] returned
  pcW, metric, popped    \* writer: its place, the drained metric, its points

cacheVars == <<keys, index, size, lock>>
flowVars  == <<cacheTooFull, metricReceiversPaused, transportPaused>>
reactorVars == <<batch, pcR, req, ref>>
writerVars  == <<queue, pcW, metric, popped>>
threadVars == <<cacheVars, flowVars, reactorVars, writerVars>>
vars == <<threadVars, strategy>>

Points == Metrics \X Timestamps
NoPoints == [t \in Timestamps |-> None]
Requests == [metric : Metrics, timestamp : Timestamps, value : Values, dup : BOOLEAN]

\* The timestamps a datapoint index holds, and its len().
Held(dict) == {t \in Timestamps : dict[t] # None}
Count(dict) == Cardinality(Held(dict))

\* Every point in the cache, and every point in the writer's popped index.
Cached == {p \in Points : index[p[1]][p[2]] # None}
Popped == {p \in Points : p[1] = metric /\ popped[p[2]] # None}

--------------------------------------------------------------------------------
(* The drain strategies *)

\* How a snapshot is sorted: by number of points, by age of the oldest point
\* (the number of timestamps not before it), or not at all.
Rank(m) ==
  CASE strategy = "sorted" -> Count(index[m])
    [] strategy = "timesorted" ->
         Cardinality({t \in Timestamps : \E u \in Held(index[m]) : u <= t})
    [] OTHER -> 0

\* Strategies that walk a snapshot of the cache before taking another one.
Snapshots == strategy \in {"naive", "sorted", "timesorted"}

\* watermarks leaves out the entries without points; keys and counts do not.
Snapshot == [m \in {n \in keys : strategy = "timesorted" => Held(index[n]) # {}} |-> Rank(m)]

\* Mutant: a fresh snapshot for every item.
Queue_Fresh == Snapshot

Queue == IF DOMAIN queue = {} THEN Snapshot ELSE queue
--------------------------------------------------------------------------------
Init ==
  /\ strategy \in Strategies
  /\ keys = {} /\ index = [m \in Metrics |-> NoPoints]
  /\ size = 0 /\ lock = "free" /\ queue = [m \in {} |-> 0]
  /\ cacheTooFull = FALSE /\ metricReceiversPaused = FALSE /\ transportPaused = FALSE
  /\ batch = 0 /\ pcR = "idle" /\ req = None /\ ref = "live"
  /\ pcW = "idle" /\ metric = None /\ popped = NoPoints

--------------------------------------------------------------------------------
(* The reactor thread: store() *)

\* A message arrives: a receiver hands over its datapoints one after the
\* other, and a pause in the middle does not hold back the rest.
Receive ==
  /\ pcR = "idle" /\ batch = 0 /\ ~transportPaused
  /\ batch' \in 1 .. MaxBatch
  /\ UNCHANGED <<cacheVars, flowVars, pcR, req, ref, writerVars>>

\* recordMetrics stores carbon's own statistics, paused or not.
RecordMetrics ==
  /\ SelfMetrics
  /\ pcR = "idle" /\ batch = 0
  /\ batch' \in 1 .. MaxBatch
  /\ UNCHANGED <<cacheVars, flowVars, pcR, req, ref, writerVars>>

\* The points the cache holds and size does not count.
Drift == Cardinality(Cached) - size

\* Mutant: duplicates take the branch of new points.
StoreCheck_CountsDuplicates ==
  /\ pcR = "idle" /\ batch > 0
  /\ \E p \in Arriving, v \in Values :
       /\ req' = [metric |-> p[1], timestamp |-> p[2], value |-> v, dup |-> FALSE]
       /\ keys' = keys \cup {p[1]}
       /\ pcR' = "is_full"
  /\ UNCHANGED <<index, size, lock, flowVars, batch, ref, writerVars>>

\* `timestamp not in self[metric]`: the subscription creates the entry.
StoreCheck ==
  /\ pcR = "idle" /\ batch > 0
  /\ \E p \in Arriving, v \in Values :
       LET dup == index[p[1]][p[2]] # None IN
       /\ dup => Drift <= MaxDrift
       /\ req' = [metric |-> p[1], timestamp |-> p[2], value |-> v, dup |-> dup]
       /\ keys' = keys \cup {p[1]}
       /\ pcR' = IF dup THEN "fetch" ELSE "is_full"
  /\ UNCHANGED <<index, size, lock, flowVars, batch, ref, writerVars>>

\* Mutant: `size > MAX_CACHE_SIZE`.
StoreIsFull_OffByOne ==
  /\ pcR = "is_full"
  /\ pcR' = IF size > MaxCacheSize THEN "cacheFull" ELSE "lock"
  /\ UNCHANGED <<cacheVars, flowVars, batch, req, ref, writerVars>>

\* is_full reads size without the lock.
StoreIsFull ==
  /\ pcR = "is_full"
  /\ pcR' = IF size >= MaxCacheSize THEN "cacheFull" ELSE "lock"
  /\ UNCHANGED <<cacheVars, flowVars, batch, req, ref, writerVars>>

\* `with self.lock: self.size += 1`
StoreCount ==
  /\ pcR = "lock" /\ lock = "free"
  /\ lock' = "reactor" /\ size' = size + 1
  /\ pcR' = "fetch"
  /\ UNCHANGED <<keys, index, flowVars, batch, req, ref, writerVars>>

\* Mutant: the entry is created again, not looked up.
StoreFetch_Resets ==
  /\ pcR = "fetch"
  /\ keys' = keys \cup {req.metric}
  /\ index' = [index EXCEPT ![req.metric] = NoPoints]
  /\ ref' = "live"
  /\ pcR' = "assign"
  /\ UNCHANGED <<size, lock, flowVars, batch, req, writerVars>>

\* `self[metric]` of the assignment: under the lock for a new point, without
\* it for a duplicate, whose entry the writer may have popped meanwhile.
StoreFetch ==
  /\ pcR = "fetch"
  /\ keys' = keys \cup {req.metric}
  /\ ref' = "live"
  /\ pcR' = "assign"
  /\ UNCHANGED <<index, size, lock, flowVars, batch, req, writerVars>>

\* `[timestamp] = value` into the dictionary fetched: the cache's, or one the
\* writer has popped and still has to read, or one nobody will read again.
StoreAssign ==
  /\ pcR = "assign"
  /\ index' = IF ref = "live"
              THEN [index EXCEPT ![req.metric][req.timestamp] = req.value] ELSE index
  /\ popped' = IF ref = "popped"
               THEN [popped EXCEPT ![req.timestamp] = req.value] ELSE popped
  /\ lock' = IF req.dup THEN lock ELSE "free"
  /\ pcR' = "idle" /\ batch' = batch - 1 /\ req' = None /\ ref' = "live"
  /\ UNCHANGED <<keys, size, flowVars, queue, pcW, metric>>

\* events.cacheFull(), its handlers in the order they were added.  The
\* datapoint that found the cache full is dropped.
CacheFull ==
  /\ pcR = "cacheFull"
  /\ cacheTooFull' = TRUE
  /\ pcR' = IF UseFlowControl THEN "pauseFlag" ELSE "idle"
  /\ IF UseFlowControl THEN UNCHANGED <<batch, req>>
                       ELSE batch' = batch - 1 /\ req' = None
  /\ UNCHANGED <<cacheVars, metricReceiversPaused, transportPaused, ref, writerVars>>

PauseFlag ==
  /\ pcR = "pauseFlag"
  /\ metricReceiversPaused' = TRUE
  /\ pcR' = "pause"
  /\ UNCHANGED <<cacheVars, cacheTooFull, transportPaused, batch, req, ref, writerVars>>

PauseReceiving ==
  /\ pcR = "pause"
  /\ transportPaused' = TRUE
  /\ pcR' = "idle" /\ batch' = batch - 1 /\ req' = None
  /\ UNCHANGED <<cacheVars, cacheTooFull, metricReceiversPaused, ref, writerVars>>

--------------------------------------------------------------------------------
(* The writer thread: drain_metric() and pop() *)

\* Mutant: the snapshot keeps the item it yields.
ChooseQueued_Keeps ==
  /\ pcW = "idle" /\ keys # {} /\ Snapshots
  /\ \E m \in DOMAIN Queue :
       /\ \A n \in DOMAIN Queue : Queue[n] <= Queue[m]
       /\ metric' = m
       /\ queue' = Queue
  /\ pcW' = "pop"
  /\ UNCHANGED <<cacheVars, flowVars, reactorVars, popped>>

\* choose_item of a strategy with a snapshot: the highest rank still queued.
ChooseQueued ==
  /\ pcW = "idle" /\ keys # {} /\ Snapshots
  /\ \E m \in DOMAIN Queue :
       /\ \A n \in DOMAIN Queue : Queue[n] <= Queue[m]
       /\ metric' = m
       /\ queue' = [n \in DOMAIN Queue \ {m} |-> Queue[n]]
  /\ pcW' = "pop"
  /\ UNCHANGED <<cacheVars, flowVars, reactorVars, popped>>

\* choose_item of the others: a longest index, or any key.
ChooseAny ==
  /\ pcW = "idle" /\ ~Snapshots
  /\ \E m \in keys :
       /\ strategy = "max" => \A n \in keys : Count(index[n]) <= Count(index[m])
       /\ metric' = m
  /\ pcW' = "pop"
  /\ UNCHANGED <<cacheVars, flowVars, reactorVars, queue, popped>>

\* Mutant: the index is popped before the lock is taken.
PopRemove_Unlocked ==
  /\ pcW = "pop" /\ metric \in keys
  /\ keys' = keys \ {metric}
  /\ popped' = index[metric]
  /\ index' = [index EXCEPT ![metric] = NoPoints]
  /\ ref' = IF pcR = "assign" /\ req.metric = metric /\ ref = "live" THEN "popped" ELSE ref
  /\ pcW' = "uncount"
  /\ UNCHANGED <<lock, size, flowVars, batch, pcR, req, queue, metric>>

\* `with self.lock: datapoint_index = defaultdict.pop(self, metric)`; the
\* reactor may hold a reference to the dictionary popped.
PopRemove ==
  /\ pcW = "pop" /\ lock = "free" /\ metric \in keys
  /\ lock' = "writer"
  /\ keys' = keys \ {metric}
  /\ popped' = index[metric]
  /\ index' = [index EXCEPT ![metric] = NoPoints]
  /\ ref' = IF pcR = "assign" /\ req.metric = metric /\ ref = "live" THEN "popped" ELSE ref
  /\ pcW' = "uncount"
  /\ UNCHANGED <<size, flowVars, batch, pcR, req, queue, metric>>

\* Mutant: one is subtracted for the metric, not for each of its points.
PopUncount_OneMetric ==
  /\ pcW = "uncount"
  /\ size' = size - 1
  /\ lock' = "free"
  /\ pcW' = "check"
  /\ UNCHANGED <<keys, index, flowVars, reactorVars, queue, metric, popped>>

\* `self.size -= len(datapoint_index)`, and the lock is released.
PopUncount ==
  /\ pcW = "uncount"
  /\ size' = size - Cardinality(Popped)
  /\ lock' = "free"
  /\ pcW' = "check"
  /\ UNCHANGED <<keys, index, flowVars, reactorVars, queue, metric, popped>>

\* _check_available_space, in the writer's thread and without the lock.
CheckAvailableSpace ==
  /\ pcW = "check"
  /\ pcW' = IF cacheTooFull /\ size < LowWatermark THEN "spaceAvailable" ELSE "sort"
  /\ UNCHANGED <<cacheVars, flowVars, reactorVars, queue, metric, popped>>

\* events.cacheSpaceAvailable(), its handlers in the order they were added.
CacheSpaceAvailable ==
  /\ pcW = "spaceAvailable"
  /\ cacheTooFull' = FALSE
  /\ pcW' = IF UseFlowControl THEN "resumeFlag" ELSE "sort"
  /\ UNCHANGED <<cacheVars, metricReceiversPaused, transportPaused, reactorVars,
                 queue, metric, popped>>

ResumeFlag ==
  /\ pcW = "resumeFlag"
  /\ metricReceiversPaused' = FALSE
  /\ pcW' = "resume"
  /\ UNCHANGED <<cacheVars, cacheTooFull, transportPaused, reactorVars, queue, metric, popped>>

ResumeReceiving ==
  /\ pcW = "resume"
  /\ transportPaused' = FALSE
  /\ pcW' = "sort"
  /\ UNCHANGED <<cacheVars, cacheTooFull, metricReceiversPaused, reactorVars,
                 queue, metric, popped>>

\* `sorted(datapoint_index.items())`: the points the caller gets are fixed.
PopSort ==
  /\ pcW = "sort"
  /\ popped' = NoPoints /\ metric' = None
  /\ ref' = IF ref = "popped" THEN "lost" ELSE ref
  /\ pcW' = "idle"
  /\ UNCHANGED <<cacheVars, flowVars, batch, pcR, req, queue>>

--------------------------------------------------------------------------------
Store == StoreCheck \/ StoreIsFull \/ StoreCount \/ StoreFetch \/ StoreAssign
         \/ CacheFull \/ PauseFlag \/ PauseReceiving
Drain == ChooseQueued \/ ChooseAny \/ PopRemove \/ PopUncount \/ CheckAvailableSpace
         \/ CacheSpaceAvailable \/ ResumeFlag \/ ResumeReceiving \/ PopSort

Next == (Receive \/ RecordMetrics \/ Store \/ Drain) /\ UNCHANGED strategy

Spec == Init /\ [][Next]_vars

(* Both threads are scheduled, and a thread that waits for the lock gets it:
   between two stores the reactor waits for the network, without the lock.
   The instrumentation task runs every CARBON_METRIC_INTERVAL seconds.  No
   client has to send anything. *)
FairSpec == Spec /\ WF_threadVars(Store) /\ SF_threadVars(StoreCount)
                 /\ WF_threadVars(Drain) /\ SF_threadVars(PopRemove)
                 /\ SF_threadVars(RecordMetrics)

--------------------------------------------------------------------------------
(* Properties *)

TypeOK ==
  /\ strategy \in Strategies
  /\ keys \subseteq Metrics
  /\ index \in [Metrics -> [Timestamps -> Values \cup {None}]]
  /\ size \in Int
  /\ lock \in {"free", "reactor", "writer"}
  /\ DOMAIN queue \subseteq Metrics /\ queue \in [DOMAIN queue -> Nat]
  /\ cacheTooFull \in BOOLEAN /\ metricReceiversPaused \in BOOLEAN
  /\ transportPaused \in BOOLEAN
  /\ batch \in 0 .. MaxBatch
  /\ pcR \in {"idle", "is_full", "lock", "fetch", "assign", "cacheFull", "pauseFlag", "pause"}
  /\ req \in Requests \cup {None}
  /\ ref \in {"live", "popped", "lost"}
  /\ pcW \in {"idle", "pop", "uncount", "check", "spaceAvailable", "resumeFlag", "resume", "sort"}
  /\ metric \in Metrics \cup {None}
  /\ popped \in [Timestamps -> Values \cup {None}]

(* The cache counts at most MAX_CACHE_SIZE points although is_full is read
   before the lock is taken: only the reactor adds, so a store that found room
   still has it when it gets the lock. *)
SizeWithinLimit == size <= MaxCacheSize

\* A new point is counted just before it is inserted; popped points are
\* uncounted just after they are removed.
BeingInserted == IF lock = "reactor" THEN 1 ELSE 0
BeingRemoved  == IF pcW = "uncount" THEN Cardinality(Popped) ELSE 0

(* size never claims more points than the cache holds, whatever the two
   threads interleave: a duplicate written while its metric is popped makes
   size too small, never too large. *)
CountNeverOverstates == size <= Cardinality(Cached) + BeingInserted + BeingRemoved

(* store() sheds a datapoint only if MAX_CACHE_SIZE points really are in the
   cache, or in the hands of the pop() that is taking them out. *)
ShedOnlyWhenFull ==
  [][pcR = "is_full" /\ pcR' = "cacheFull"
     => Cardinality(Cached) + BeingRemoved >= MaxCacheSize]_vars

(* A new point that store() accepted is in the cache when store() returns: the
   lock keeps pop() from taking the dictionary between `self[metric]` and the
   assignment. *)
AcceptedPointLands ==
  [][pcR = "assign" /\ ~req.dup /\ pcR' # "assign"
     => /\ req.metric \in keys'
        /\ index'[req.metric][req.timestamp] = req.value]_vars

(* The metrics a strategy chose, for now or for later in its snapshot, are still
   in the cache when their turn comes: pop() never raises KeyError. *)
ChosenIsCached ==
  /\ pcW = "pop" => metric \in keys \ DOMAIN queue
  /\ DOMAIN queue \subseteq keys

(* With a strategy that walks a snapshot, every point in the cache is drained,
   however many others keep arriving: the snapshot reaches every metric before the
   strategy looks at the cache again. *)
CachedPointDrained == \A p \in Arriving : Snapshots /\ p \in Cached ~> p \notin Cached

(* Where the reactor is in store(): it holds the lock exactly while it inserts a
   new point, the point is still absent then, and the dictionary it assigns
   into is the cache's unless it overwrites a duplicate. *)
ReactorInv ==
  /\ pcR # "idle" => req \in Requests /\ batch \in 1 .. MaxBatch
  /\ lock = "reactor" <=> pcR \in {"fetch", "assign"} /\ ~req.dup
  /\ pcR \in {"is_full", "lock"} => ~req.dup
  /\ pcR \in {"is_full", "lock", "fetch", "assign"} /\ ~req.dup
       => index[req.metric][req.timestamp] = None
  /\ pcR = "lock" => size < MaxCacheSize
  /\ pcR = "assign" /\ ref = "live" => req.metric \in keys
  /\ pcR = "assign" /\ ~req.dup => ref = "live"

(* Where the writer is in pop(): it holds the lock exactly between taking the
   dictionary and uncounting its points, and only snapshot strategies queue. *)
WriterInv ==
  /\ lock = "writer" <=> pcW = "uncount"
  /\ pcW # "idle" => metric \in Metrics
  /\ pcW \in {"idle", "pop"} => popped = NoPoints
  /\ ref = "popped" => pcR = "assign" /\ req.metric = metric /\ pcW \notin {"idle", "pop"}
  /\ ~Snapshots => DOMAIN queue = {}

(* The cache implements the ledger: nothing but a pop() of its metric takes a
   point out, and pop() hands over every point it took. *)
Ledger == INSTANCE CacheLedger
            WITH pending <- Cached, handed <- Popped,
                 taking <- IF pcW \in {"idle", "pop"} THEN None ELSE metric
ImplementsLedger == Ledger!Spec

\* The inductive invariant behind the theorems of MetricCacheProofs.
IInv ==
  /\ TypeOK /\ ReactorInv /\ WriterInv
  /\ ChosenIsCached /\ SizeWithinLimit /\ CountNeverOverstates

(* The receivers stop accepting data only until the cache size falls below
   the watermark (carbon.conf.example:128). *)
ReceiversResume == []<>(transportPaused => size >= LowWatermark)
================================================================================
