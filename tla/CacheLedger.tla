------------------------------ MODULE CacheLedger ------------------------------
(***************************************************************************)
(* What the metric cache promises to its two users, without the lock, the  *)
(* size and the steps inside store() and pop(): accepted points stay       *)
(* pending until the writer takes their metric, and then all the points of *)
(* that metric are handed over together.  MetricCache implements this      *)
(* specification; CarbonWriter is built from its actions.                  *)
(***************************************************************************)
CONSTANTS Metrics, Timestamps, None

VARIABLES keys,     \* the metrics the cache has an entry for
          pending,  \* the points in the cache
          taking,   \* the metric pop() is taking out, or None
          handed    \* its points, until pop() returns them

ledgerVars == <<keys, pending, taking, handed>>

Points == Metrics \X Timestamps
PointsOf(m) == {p \in pending : p[1] = m}

Init == keys = {} /\ pending = {} /\ taking = None /\ handed = {}

\* store() looks the metric up, and that alone gives it an entry.
Touch(m) ==
  /\ keys' = keys \cup {m}
  /\ UNCHANGED <<pending, taking, handed>>

\* store() writes a point of a metric that has an entry.
Accept(p) ==
  /\ p[1] \in keys
  /\ pending' = pending \cup {p}
  /\ UNCHANGED <<keys, taking, handed>>

\* store() writes a duplicate into the dictionary that pop() is taking out.
AcceptLate(p) ==
  /\ p[1] = taking
  /\ handed' = handed \cup {p}
  /\ UNCHANGED <<keys, pending, taking>>

\* pop() removes an entry with all its points.
Take(m) ==
  /\ taking = None /\ m \in keys
  /\ taking' = m
  /\ keys' = keys \ {m}
  /\ handed' = PointsOf(m)
  /\ pending' = pending \ PointsOf(m)

\* pop() returns.
Return ==
  /\ taking # None
  /\ taking' = None /\ handed' = {}
  /\ UNCHANGED <<keys, pending>>

Next ==
  \/ \E m \in Metrics : Touch(m) \/ Take(m)
  \/ \E p \in Points : Accept(p) \/ AcceptLate(p)
  \/ Return

Spec == Init /\ [][Next]_ledgerVars
================================================================================
