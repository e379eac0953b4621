------------------------------- MODULE Aggregator -------------------------------
(***************************************************************************)
(* The aggregation processor of carbon-aggregator                          *)
(* (carbon/lib/carbon/aggregator/): the buffers of the aggregate metrics   *)
(* with their compute tasks, and the rules, which a task of their own      *)
(* reads again from a file other programs edit.                            *)
(*                                                                         *)
(* Time is counted in aggregation intervals, and an aggregate value is the *)
(* number of datapoints it was computed from.  A rule is known by the      *)
(* aggregate metric it computes.                                           *)
(***************************************************************************)
EXTENDS Naturals, FiniteSets

CONSTANTS Aggregates,
          MaxIntervals,   \* MAX_AGGREGATION_INTERVALS
          LastInterval,   \* bound: the latest timestamp, in intervals
          MaxTime,        \* bound: the end of the clock
          MaxPoints,      \* bound: datapoints received
          MaxEdits        \* bound: modifications of the rules file

Intervals == 0 .. LastInterval

ASSUME AggregatorAssumption ==
  /\ IsFiniteSet(Aggregates)
  /\ MaxIntervals \in Nat /\ LastInterval \in Nat
  /\ MaxTime \in Nat /\ MaxPoints \in Nat /\ MaxEdits \in Nat
  /\ LastInterval < MaxTime - MaxIntervals

VARIABLES
  now,
  exists, content, parsable, mtime,  \* the rules file
  rules, rules_last_read,    \* RuleManager
  rereading,                 \* RuleManager.read_task.running
  opening,                   \* getmtime() has returned `opening`, open() is next; 0 if idle
  buffers,                   \* keys of BufferManager.buffers
  tasks,                     \* running compute tasks of an aggregate
  values,                    \* interval_buffers: interval -> number of values
  active,                    \* intervals whose buffer is active
  points, unsent, seen, restored  \* history, see below

fileVars == <<exists, content, parsable, mtime>>
ruleVars == <<rules, rules_last_read, rereading, opening>>
bufferVars == <<buffers, tasks, values, active>>
\* Datapoints received, intervals with points no aggregate was computed from yet, points
\* per interval since the rules were read, and whether an old file was put back.
history == <<points, unsent, seen, restored>>
vars == <<now, fileVars, ruleVars, bufferVars, history>>

Nothing == [i \in {} |-> 0]

\* Unless the first read succeeds the daemon does not start.
Init ==
  /\ now = 0
  /\ exists = TRUE /\ content \in SUBSET Aggregates /\ parsable = TRUE /\ mtime = 1
  /\ rules = content /\ rules_last_read = 1 /\ rereading = TRUE /\ opening = 0
  /\ buffers = {} /\ tasks = [a \in Aggregates |-> 0]
  /\ values = [a \in Aggregates |-> Nothing] /\ active = [a \in Aggregates |-> {}]
  /\ points = 0 /\ unsent = [a \in Aggregates |-> {}]
  /\ seen = [a \in Aggregates |-> [i \in Intervals |-> 0]]
  /\ restored = FALSE

--------------------------------------------------------------------------------
(* The world: the clock and the editors of the rules file *)

Tick ==
  /\ now < MaxTime
  /\ now' = now + 1
  /\ UNCHANGED <<fileVars, ruleVars, bufferVars, history>>

Edit ==
  /\ mtime <= MaxEdits
  /\ exists' = TRUE /\ mtime' = mtime + 1
  /\ \/ parsable' = TRUE /\ content' \in SUBSET Aggregates
     \/ parsable' = FALSE /\ content' = {}
  /\ UNCHANGED <<now, ruleVars, bufferVars, history>>

RemoveFile ==
  /\ exists /\ ~restored
  /\ exists' = FALSE
  /\ UNCHANGED <<now, content, parsable, mtime, ruleVars, bufferVars, history>>

\* The file comes back as it was, with its old modification time.
Restore ==
  /\ ~exists
  /\ exists' = TRUE /\ restored' = TRUE
  /\ UNCHANGED <<now, content, parsable, mtime, ruleVars, bufferVars, points, unsent, seen>>

--------------------------------------------------------------------------------
(* Datapoints *)

Old(i) == i + MaxIntervals < now

\* Mutant: a buffer that was computed stays inactive.
Activated_Once(a, i) == IF i \in DOMAIN values[a] THEN active[a] ELSE active[a] \cup {i}

\* IntervalBuffer.input()
Activated(a, i) == active[a] \cup {i}

\* MetricBuffer.input()
Input(a, i) ==
  [j \in DOMAIN values[a] \cup {i} |->
     IF j \notin DOMAIN values[a] THEN 1 ELSE IF j = i THEN values[a][j] + 1 ELSE values[a][j]]

\* A datapoint of interval i whose metric matches the patterns of `matched` goes to the
\* buffers of the rules among them; a buffer that is new gets its compute task.
Process(matched, i) ==
  /\ opening = 0 /\ points < MaxPoints
  /\ points' = points + 1
  /\ LET into == matched \cap rules IN
     /\ buffers' = buffers \cup into
     /\ tasks' = [a \in Aggregates |-> IF a \in into \ buffers THEN tasks[a] + 1 ELSE tasks[a]]
     /\ values' = [a \in Aggregates |-> IF a \in into THEN Input(a, i) ELSE values[a]]
     /\ active' = [a \in Aggregates |-> IF a \in into THEN Activated(a, i) ELSE active[a]]
     /\ unsent' = [a \in Aggregates |-> IF a \in into THEN unsent[a] \cup {i} ELSE unsent[a]]
     /\ seen' = [a \in Aggregates |-> IF a \in into THEN [seen[a] EXCEPT ![i] = @ + 1] ELSE seen[a]]
  /\ UNCHANGED <<now, fileVars, ruleVars, restored>>

\* Mutants: the age test is off by one; a metric without buffers keeps its task.
Aged_Early(a) == {i \in DOMAIN values[a] : i + MaxIntervals <= now}
Emptied_Never(a, left) == FALSE

\* Buffers older than age_threshold are deleted, and with the last one the metric's.
Aged(a) == {i \in DOMAIN values[a] : Old(i)}
Emptied(a, left) == left = {} /\ DOMAIN values[a] # {}

\* compute_value(): the active buffers are computed, the old ones deleted.  The task
\* runs every `frequency` or WRITE_BACK_FREQUENCY seconds, so at any time of an interval.
ComputeValue(a) ==
  /\ opening = 0 /\ tasks[a] > 0
  /\ unsent' = [unsent EXCEPT ![a] = @ \ active[a]]
  /\ active' = [active EXCEPT ![a] = {}]
  /\ LET left == DOMAIN values[a] \ Aged(a) IN
     /\ values' = [values EXCEPT ![a] = [i \in left |-> values[a][i]]]
     /\ IF Emptied(a, left)
        THEN tasks' = [tasks EXCEPT ![a] = @ - 1] /\ buffers' = buffers \ {a}
        ELSE UNCHANGED <<tasks, buffers>>
  /\ UNCHANGED <<now, fileVars, ruleVars, points, seen, restored>>

--------------------------------------------------------------------------------
(* The rules: read_rules() of the read task, every ten seconds *)

Reread(ready) == rereading /\ opening = 0 /\ ready /\ UNCHANGED <<now, fileVars>>

\* Mutant: the rules of a file that is gone stay.
ReadGone_KeepsRules ==
  /\ Reread(~exists)
  /\ UNCHANGED <<ruleVars, bufferVars, history>>

\* The file is gone: its rules too, but not the buffers.
ReadGone ==
  /\ Reread(~exists)
  /\ rules' = {}
  /\ UNCHANGED <<rules_last_read, rereading, opening, bufferVars, history>>

\* The file was not modified since it was read.
ReadUnmodified == Reread(exists /\ mtime <= rules_last_read) /\ UNCHANGED <<ruleVars, bufferVars, history>>

\* getmtime() finds a file that was modified.
ReadStat ==
  /\ Reread(exists /\ mtime > rules_last_read)
  /\ opening' = mtime
  /\ UNCHANGED <<rules, rules_last_read, rereading, bufferVars, history>>

\* BufferManager.clear()
Clear ==
  /\ tasks' = [a \in Aggregates |-> IF a \in buffers THEN tasks[a] - 1 ELSE tasks[a]]
  /\ buffers' = {}
  /\ values' = [a \in Aggregates |-> Nothing] /\ active' = [a \in Aggregates |-> {}]

\* The file is read after its modification time was: what the buffers hold is discarded.
ReadRules ==
  /\ opening > 0 /\ exists /\ parsable
  /\ rules' = content /\ rules_last_read' = opening /\ opening' = 0
  /\ Clear
  /\ unsent' = [a \in Aggregates |-> {}]
  /\ seen' = [a \in Aggregates |-> [i \in Intervals |-> 0]]
  /\ UNCHANGED <<now, fileVars, rereading, points, restored>>

\* open() or parse_definition() raises, and a LoopingCall that raised is not called again.
ReadRaises ==
  /\ opening > 0 /\ (~exists \/ ~parsable)
  /\ rereading' = FALSE /\ opening' = 0
  /\ UNCHANGED <<now, fileVars, rules, rules_last_read, bufferVars, history>>

\* With the clock at its bound and the read task gone, the daemon waits.
Idle == now = MaxTime /\ ~rereading /\ UNCHANGED vars

Compute == \E a \in Aggregates : ComputeValue(a)
ReadTask == ReadGone \/ ReadUnmodified \/ ReadStat \/ ReadRules \/ ReadRaises

Next ==
  \/ Tick \/ Edit \/ RemoveFile \/ Restore
  \/ \E matched \in SUBSET Aggregates \ {{}}, i \in Intervals : Process(matched, i)
  \/ Compute \/ ReadTask \/ Idle

Spec == Init /\ [][Next]_vars

\* The clock goes on and the reactor calls the tasks that are due.
FairSpec == Spec /\ WF_vars(Tick) /\ WF_vars(ReadTask)
                 /\ \A a \in Aggregates : WF_vars(ComputeValue(a))

--------------------------------------------------------------------------------
(* Properties *)

TypeOK ==
  /\ now \in 0 .. MaxTime /\ exists \in BOOLEAN /\ mtime \in 1 .. MaxEdits + 1
  /\ content \subseteq Aggregates /\ parsable \in BOOLEAN
  /\ rules \subseteq Aggregates /\ rules_last_read \in 1 .. mtime
  /\ rereading \in BOOLEAN /\ opening \in 0 .. mtime
  /\ buffers \subseteq Aggregates /\ tasks \in [Aggregates -> 0 .. 1]
  /\ DOMAIN values = Aggregates
  /\ \A a \in Aggregates :
       /\ DOMAIN values[a] \subseteq Intervals
       /\ values[a] \in [DOMAIN values[a] -> 1 .. MaxPoints]
       /\ active[a] \subseteq DOMAIN values[a]
  /\ active \in [Aggregates -> SUBSET Intervals] /\ unsent \in [Aggregates -> SUBSET Intervals]
  /\ points \in 0 .. MaxPoints /\ restored \in BOOLEAN
  /\ seen \in [Aggregates -> [Intervals -> 0 .. MaxPoints]]

(* Whatever is received, aged, reloaded and allocated again, an aggregate has one compute
   task as long as it has a buffer and none after that: values are never emitted twice
   from two tasks, nor kept by a buffer no task computes. *)
OneTaskPerBuffer ==
  \A a \in Aggregates :
    /\ tasks[a] = IF a \in buffers THEN 1 ELSE 0
    /\ a \in buffers <=> DOMAIN values[a] # {}

(* "Aggregation only happens for datapoints that fall in the past MAX_AGGREGATION_INTERVALS"
   (carbon.conf.example:532): for those it misses none.  As long as an interval is in the
   window, its buffer has every point that came since the rules were read, those that
   were computed before included. *)
WindowComplete ==
  \A a \in Aggregates, i \in Intervals :
    ~Old(i) /\ seen[a][i] > 0 => i \in DOMAIN values[a] /\ values[a][i] = seen[a][i]

(* What the two rest on: a buffer never has more values than points came for its interval
   since the rules were read, and at least one. *)
Counted ==
  \A a \in Aggregates, i \in Intervals :
    /\ seen[a][i] <= points
    /\ i \in DOMAIN values[a] => values[a][i] <= seen[a][i]

IInv == TypeOK /\ OneTaskPerBuffer /\ WindowComplete /\ Counted

(* An aggregate is computed from every point that came, also from one that comes when its
   interval was computed already, unless new rules discard the buffers. *)
PointsAggregated == \A a \in Aggregates, i \in Intervals : i \in unsent[a] ~> i \notin unsent[a]

(* Buffers of metrics that stop coming are released, whatever happens to their rules. *)
BuffersReleased == <>[](buffers = {})

(* The rules in force become those of the file (aggregation-rules.conf.example:43), as long
   as no read raised; a file put back with its old modification time may stay unread. *)
RulesFollowFile ==
  <>[](rereading => IF exists THEN rules = content \/ (restored /\ rules = {}) ELSE rules = {})
================================================================================
