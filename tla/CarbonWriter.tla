------------------------------ MODULE CarbonWriter ------------------------------
(***************************************************************************)
(* The writer thread of carbon-cache (carbon/lib/carbon/writer.py): the    *)
(* loops of writeForever, writeCachedDataPoints and optimalWriteOrder over *)
(* the metric cache, with the limit on file creation, a database that may  *)
(* fail and the shutdown of the reactor.  The cache is CacheLedger, which  *)
(* MetricCache implements.                                                 *)
(***************************************************************************)
EXTENDS Naturals, FiniteSets

CONSTANTS Metrics, Timestamps, None,
          Watched,        \* bound: the metrics that are read and that the liveness
                          \* properties follow; metrics are interchangeable
          LimitCreates,   \* MAX_CREATES_PER_MINUTE is finite
          MaxTokens,      \* capacity of CREATE_BUCKET, in tokens
          DatabaseFails   \* exists, create and write may raise

ASSUME WriterAssumption ==
  /\ None \notin Metrics /\ Watched \subseteq Metrics
  /\ LimitCreates \in BOOLEAN /\ DatabaseFails \in BOOLEAN
  /\ MaxTokens \in Nat \ {0}

VARIABLES
  keys, pending, taking, handed,  \* the cache, see CacheLedger
  running,                        \* reactor.running
  createTokens,                   \* whole tokens in CREATE_BUCKET
  files,                          \* metrics the database has a file for
  pcW,                            \* the writer's place
  metric, datapoints,             \* what drain_metric() returned
  dbFileExists, dataWritten,      \* the locals of the same names
  unwritten,                      \* points accepted and not written since
  dropped,                        \* points the writer gave up
  late                            \* points a pass did not see, or left when it raised

ledgerVars == <<keys, pending, taking, handed>>
history == <<unwritten, dropped, late>>
vars == <<ledgerVars, running, createTokens, files, pcW, metric, datapoints,
          dbFileExists, dataWritten, history>>

Cache == INSTANCE CacheLedger

Points == Metrics \X Timestamps

Init ==
  /\ Cache!Init
  /\ running = TRUE /\ createTokens = MaxTokens
  /\ files \in SUBSET Metrics
  /\ pcW = "forever" /\ metric = None /\ datapoints = {}
  /\ dbFileExists = FALSE /\ dataWritten = FALSE
  /\ unwritten = {} /\ dropped = {} /\ late = {}

--------------------------------------------------------------------------------
(* The reactor thread *)

\* A store() the cache accepts, or sheds after looking its metric up.
Store(p) ==
  /\ running
  /\ \/ Cache!Touch(p[1]) /\ UNCHANGED history
     \/ /\ Cache!Accept(p) \/ Cache!AcceptLate(p)
        /\ unwritten' = unwritten \cup {p}
        /\ dropped' = dropped \ {p}
        /\ late' = IF pcW \in {"sleep", "backoff", "forever"} THEN late \cup {p} ELSE {}
  /\ UNCHANGED <<running, createTokens, files, pcW, metric, datapoints, dbFileExists, dataWritten>>

\* reactor.stop(): shutdownModifyUpdateSpeed() may move the level of the bucket, and
\* when `running` is false the reactor's thread only waits for the writer's.
Stop ==
  /\ running
  /\ running' = FALSE
  /\ createTokens' \in IF LimitCreates THEN 0 .. MaxTokens ELSE {createTokens}
  /\ UNCHANGED <<ledgerVars, files, pcW, metric, datapoints, dbFileExists,
                 dataWritten, history>>

\* Time passes and CREATE_BUCKET fills.
Refill ==
  /\ LimitCreates /\ createTokens < MaxTokens
  /\ createTokens' = createTokens + 1
  /\ UNCHANGED <<ledgerVars, running, files, pcW, metric, datapoints, dbFileExists,
                 dataWritten, history>>

--------------------------------------------------------------------------------
(* The writer thread *)

GoTo(pc) == pcW' = pc

\* The points in hand are lost: `continue` after an error, a drop, an exception.
GiveUp ==
  /\ datapoints' = {} /\ metric' = None
  /\ dropped' = dropped \cup (datapoints \ pending)
  /\ UNCHANGED unwritten

\* Mutant: `while True`.
WriteForever_Always ==
  /\ pcW = "forever"
  /\ GoTo("cached")
  /\ UNCHANGED <<ledgerVars, running, createTokens, files, metric, datapoints, dbFileExists,
                 dataWritten, history>>

\* `while reactor.running`
WriteForever ==
  /\ pcW = "forever"
  /\ GoTo(IF running THEN "cached" ELSE "exited")
  /\ UNCHANGED <<ledgerVars, running, createTokens, files, metric, datapoints, dbFileExists,
                 dataWritten, history>>

\* Mutant: `while cache and reactor.running`.
WriteCached_Running ==
  /\ pcW = "cached"
  /\ GoTo(IF keys # {} /\ running THEN "order" ELSE "sleep")
  /\ dataWritten' = FALSE
  /\ late' = {}
  /\ UNCHANGED <<ledgerVars, running, createTokens, files, metric, datapoints, dbFileExists,
                 unwritten, dropped>>

\* `while cache: dataWritten = False`, and the end of writeCachedDataPoints.
WriteCached ==
  /\ pcW = "cached"
  /\ GoTo(IF keys # {} THEN "order" ELSE "sleep")
  /\ dataWritten' = FALSE
  /\ late' = {}
  /\ UNCHANGED <<ledgerVars, running, createTokens, files, metric, datapoints, dbFileExists,
                 unwritten, dropped>>

\* `while cache` of the generator, which ends the for loop over it.
OrderEnds ==
  /\ pcW = "order" /\ keys = {}
  /\ GoTo(IF dataWritten THEN "cached" ELSE "pause")
  /\ UNCHANGED <<ledgerVars, running, createTokens, files, metric, datapoints, dbFileExists,
                 dataWritten, history>>

\* drain_metric(): pop() removes the points ...
DrainTake(m) ==
  /\ pcW = "order"
  /\ Cache!Take(m)
  /\ GoTo("pop")
  /\ UNCHANGED <<running, createTokens, files, metric, datapoints, dbFileExists, dataWritten, history>>

\* ... and returns them.
DrainReturn ==
  /\ pcW = "pop"
  /\ metric' = taking /\ datapoints' = handed
  /\ Cache!Return
  /\ GoTo("exists")
  /\ UNCHANGED <<running, createTokens, files, dbFileExists, dataWritten, history>>

\* Mutant: the bucket is drained for every metric.
OrderYield_DrainsForAll ==
  /\ pcW = "exists"
  /\ LET exists == metric \in files
         allowed == exists \/ ~LimitCreates \/ createTokens > 0 IN
     /\ dbFileExists' = exists
     /\ createTokens' = IF LimitCreates /\ createTokens > 0 THEN createTokens - 1 ELSE createTokens
     /\ IF allowed
        THEN /\ GoTo(IF exists THEN "write" ELSE "create")
             /\ dataWritten' = TRUE
             /\ UNCHANGED <<metric, datapoints, history>>
        ELSE /\ GoTo("order") /\ GiveUp
             /\ UNCHANGED <<dataWritten, late>>
  /\ UNCHANGED <<ledgerVars, running, files>>

\* Does the metric have a file, and if not, may one be created?
OrderYield ==
  /\ pcW = "exists"
  /\ LET exists == metric \in files
         allowed == exists \/ ~LimitCreates \/ createTokens > 0 IN
     /\ dbFileExists' = exists
     /\ createTokens' = IF ~exists /\ LimitCreates /\ createTokens > 0 THEN createTokens - 1 ELSE createTokens
     /\ IF allowed
        THEN /\ GoTo(IF exists THEN "write" ELSE "create")
             /\ dataWritten' = TRUE
             /\ UNCHANGED <<metric, datapoints, history>>
        ELSE /\ GoTo("order") /\ GiveUp
             /\ UNCHANGED <<dataWritten, late>>
  /\ UNCHANGED <<ledgerVars, running, files>>

\* state.database.exists() raises, through both generators up to writeForever.
ExistsRaises ==
  /\ pcW = "exists" /\ DatabaseFails
  /\ GoTo("backoff") /\ GiveUp
  /\ late' = pending
  /\ UNCHANGED <<ledgerVars, running, createTokens, files, dbFileExists, dataWritten>>

\* Mutant: the points a metric is created with are not written.
Create_SkipsWrite ==
  /\ pcW = "create"
  /\ files' = files \cup {metric}
  /\ metric' = None /\ datapoints' = {}
  /\ GoTo("order")
  /\ UNCHANGED <<ledgerVars, running, createTokens, dbFileExists, dataWritten, history>>

Create ==
  /\ pcW = "create"
  /\ files' = files \cup {metric}
  /\ GoTo("write")
  /\ UNCHANGED <<ledgerVars, running, createTokens, metric, datapoints, dbFileExists,
                 dataWritten, history>>

CreateFails ==
  /\ pcW = "create" /\ DatabaseFails
  /\ GoTo("order") /\ GiveUp
  /\ UNCHANGED <<ledgerVars, running, createTokens, files, dbFileExists, dataWritten, late>>

\* Once UPDATE_BUCKET lets it, the writer writes all the points it holds.  What
\* was stored again meanwhile is still to be written.
Write ==
  /\ pcW = "write"
  /\ unwritten' = unwritten \ (datapoints \ pending)
  /\ metric' = None /\ datapoints' = {}
  /\ GoTo("order")
  /\ UNCHANGED <<ledgerVars, running, createTokens, files, dbFileExists, dataWritten, dropped, late>>

WriteFails ==
  /\ pcW = "write" /\ DatabaseFails
  /\ GoTo("order") /\ GiveUp
  /\ UNCHANGED <<ledgerVars, running, createTokens, files, dbFileExists, dataWritten, late>>

\* The sleeps: a second after a pass that only dropped new metrics, a second
\* after the cache was empty, a tenth of a second after an exception.
Wake ==
  /\ pcW \in {"pause", "sleep", "backoff"}
  /\ GoTo(IF pcW = "pause" THEN "cached" ELSE "forever")
  /\ UNCHANGED <<ledgerVars, running, createTokens, files, metric, datapoints, dbFileExists,
                 dataWritten, history>>

Writer ==
  \/ WriteForever \/ WriteCached \/ OrderEnds \/ (\E m \in Metrics : DrainTake(m)) \/ DrainReturn
  \/ OrderYield \/ ExistsRaises \/ Create \/ CreateFails \/ Write \/ WriteFails \/ Wake

\* The process is gone when the writer has returned to a stopped reactor.
Exited == pcW = "exited" /\ UNCHANGED vars

Next == (\E p \in Points : Store(p)) \/ Stop \/ Refill \/ Writer \/ Exited

Spec == Init /\ [][Next]_vars

(* The writer's thread runs, time passes, the drain strategy gets to every metric
   (CachedPointDrained of MetricCache), and a call of the database that is made again
   and again for a metric succeeds in the end. *)
Fairness == /\ WF_vars(Writer) /\ WF_vars(Refill)
            /\ \A m \in Metrics : /\ SF_vars(DrainTake(m))
                                   /\ SF_vars(metric = m /\ OrderYield)
                                   /\ SF_vars(metric = m /\ Create)

--------------------------------------------------------------------------------
(* Properties *)

(* A point that was accepted reaches update_many, however often the points of its
   metric are stored again meanwhile, unless it is given up or the daemon stops. *)
PointPersisted ==
  \A p \in Watched \X Timestamps :
    p \in unwritten ~> (pcW = "write" /\ p \in datapoints) \/ p \in dropped \/ ~running

(* A new metric that keeps arriving gets its file in the end, although its first
   points may be dropped (carbon.conf.example:75). *)
NewMetricCreated ==
  \A m \in Watched :
    ([]<>(running /\ \E p \in pending : p[1] = m)) => <>(m \in files)

(* The writer stops after the reactor: it does not keep the process alive. *)
WriterStops == ~running ~> pcW = "exited"

(* A daemon that stops flushes the cache (carbon.conf.example:163): all that is left in
   memory came while the writer slept after its last pass, or was there when an
   exception of the database ended that pass. *)
LeavesOnlyLate == pcW = "exited" => pending \cup datapoints \subseteq late
================================================================================
