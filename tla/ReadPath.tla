-------------------------------- MODULE ReadPath --------------------------------
(***************************************************************************)
(* A graph drawn while the writer works: WhisperReader.fetch of             *)
(* graphite-web reads the file of a metric, and then asks carbon-cache for  *)
(* the points it still holds.  The two are not one step, and a point may    *)
(* be in neither place: the writer has it in its hands.                     *)
(***************************************************************************)
EXTENDS CarbonWriter

CONSTANT CarbonLinkFails  \* the query to the cache may raise

ASSUME ReadAssumption == CarbonLinkFails \in BOOLEAN

VARIABLES
  disk,      \* the points in the files of the metrics that are read
  reading,   \* the metric of the fetch in progress, or None
  values,    \* what whisper.fetch() returned
  result,    \* what the fetch that just ended returned
  failed,    \* its query to the cache raised
  due,       \* points accepted before it began and not given up since
  passed     \* points that were in the writer's hands during it

readVars == <<reading, values, result, failed, due, passed>>
allVars == <<vars, disk, readVars>>

OfMetric(S, m) == {p \in S : p[1] = m}
InHand == handed \cup datapoints

ReadInit ==
  /\ Init /\ disk = {}
  /\ reading = None /\ values = {} /\ result = {} /\ failed = FALSE /\ due = {} /\ passed = {}

\* A step of carbon-cache beside the fetch.
Beside(A) ==
  /\ A
  /\ due' = due \ dropped'
  /\ passed' = IF reading = None THEN passed
               ELSE passed \cup OfMetric(handed' \cup datapoints', reading)
  /\ result' = {} /\ failed' = FALSE
  /\ UNCHANGED <<reading, values>>

CacheStep ==
  \/ Beside(Write) /\ disk' = disk \cup {p \in datapoints : p[1] \in Watched}
  \/ /\ Beside(\/ \E p \in Points : Store(p)
               \/ WriteForever \/ WriteCached \/ OrderEnds
               \/ (\E m \in Metrics : DrainTake(m)) \/ DrainReturn
               \/ OrderYield \/ ExistsRaises \/ Create \/ CreateFails \/ WriteFails \/ Wake
               \/ Stop \/ Refill)
     /\ UNCHANGED disk

\* whisper.fetch(): the metric has a file, or there is no node to read.
Fetch(m) ==
  /\ reading = None /\ m \in files
  /\ reading' = m
  /\ values' = OfMetric(disk, m)
  /\ due' = OfMetric(disk \cup (unwritten \ dropped), m)
  /\ passed' = OfMetric(InHand, m)
  /\ result' = {} /\ failed' = FALSE
  /\ UNCHANGED <<vars, disk>>

FetchEnds ==
  /\ reading' = None /\ values' = {} /\ due' = {} /\ passed' = {}
  /\ UNCHANGED <<vars, disk>>

\* Mutant: the answer of the cache is not used.
MergeWithCarbonlink_DiskOnly ==
  /\ reading # None /\ running
  /\ result' = values /\ failed' = FALSE
  /\ FetchEnds

\* merge_with_carbonlink(): the reactor answers with what the cache holds of the metric.
MergeWithCarbonlink ==
  /\ reading # None /\ running
  /\ result' = values \cup Cache!PointsOf(reading) /\ failed' = FALSE
  /\ FetchEnds

\* The query raises, or carbon-cache is gone: the values of the file alone.
MergeFails ==
  /\ reading # None /\ (CarbonLinkFails \/ ~running)
  /\ result' = values /\ failed' = TRUE
  /\ FetchEnds

ReadNext == CacheStep \/ (\E m \in Watched : Fetch(m)) \/ MergeWithCarbonlink \/ MergeFails
            \/ (Exited /\ reading = None /\ UNCHANGED <<disk, readVars>>)

\* The writer is as fair with readers beside it as without; nobody has to read.
ReadSpec == ReadInit /\ [][ReadNext]_allVars /\ Fairness

--------------------------------------------------------------------------------
(* Properties *)

(* A fetch that reaches the cache misses an accepted point only if the writer held
   it at some time during the fetch. *)
MissesOnlyInHand ==
  [][ reading # None /\ reading' = None
        => failed' \/ due \subseteq result' \cup passed ]_allVars
================================================================================
