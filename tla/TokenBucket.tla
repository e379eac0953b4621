------------------------------ MODULE TokenBucket ------------------------------
(***************************************************************************)
(* The rate limiter of carbon (carbon/lib/carbon/util.py), as the writer    *)
(* thread uses it for CREATE_BUCKET and UPDATE_BUCKET while the reactor's   *)
(* thread may change its capacity at shutdown.  Neither takes a lock: each     *)
(* step below is what one thread does between two accesses of the other's.   *)
(* Time is counted in ticks and tokens in the units for which the rates are  *)
(* whole numbers.                                                           *)
(***************************************************************************)
EXTENDS Integers

CONSTANTS Capacity,     \* the capacity at first
          Rate,         \* fill_rate at first, in units per tick
          MaxCost,      \* the largest cost of a drain()
          Reconfigure,  \* MAX_UPDATES_PER_SECOND_ON_SHUTDOWN is set
          NewCapacity, NewRate,
          MaxTime       \* bound: the clock stops there

ASSUME BucketAssumption ==
  /\ MaxCost \in Nat \ {0} /\ Capacity \in Nat /\ MaxCost <= Capacity
  /\ Rate \in Nat \ {0}
  /\ NewCapacity \in Nat /\ NewRate \in Nat \ {0}
  /\ MaxTime \in Nat
  /\ Reconfigure \in BOOLEAN

VARIABLES
  capacity, rate, tokens, timestamp,  \* the attributes (tokens is _tokens)
  now,                                \* time()
  pc, cost, block, at, delta, limit, level, wake,  \* the drain() in progress, its locals
  pcR, sum,                           \* the setCapacityAndFillRate() in progress
  credit,   \* what an ideal bucket of this capacity and rate would hold
  raced     \* a read-modify-write of the writer overlapped the reconfiguration

bucket == <<capacity, rate, tokens, timestamp>>
call == <<pc, cost, block, at, delta, limit, level, wake>>
reactor == <<pcR, sum>>
bucketVars == <<bucket, now, call, reactor, credit, raced>>

Least(a, b) == IF a <= b THEN a ELSE b
Abs(n) == IF n >= 0 THEN n ELSE -n

BucketInit ==
  /\ capacity = Capacity /\ rate = Rate /\ tokens = Capacity
  /\ timestamp = 0 /\ now = 0
  /\ pc = "idle" /\ cost = 0 /\ block = FALSE
  /\ at = 0 /\ delta = 0 /\ limit = 0 /\ level = 0 /\ wake = 0
  /\ pcR = "idle" /\ sum = 0
  /\ credit = Capacity /\ raced = FALSE

Tick ==
  /\ now < MaxTime
  /\ now' = now + 1
  /\ credit' = Least(capacity, credit + rate)
  /\ UNCHANGED <<bucket, call, reactor, raced>>

--------------------------------------------------------------------------------
(* The writer's thread.  The attributes that it reads one after the other, in the     *)
(* reverse of the order in which the reactor writes them, it reads in one step: what   *)
(* they give was there together at some moment.                                       *)

\* Where the reactor is inside setCapacityAndFillRate().
Reconfiguring == pcR \in {"rate", "read", "write"}

\* drain(c, blocking): the `tokens` property leaves a full bucket, and its timestamp,
\* as it is.  The writer waits for UPDATE_BUCKET, and does not for CREATE_BUCKET.
Drain(c, blocking) ==
  /\ pc = "idle"
  /\ cost' = c /\ block' = blocking
  /\ pc' = IF tokens < capacity THEN "clock" ELSE "test"
  /\ UNCHANGED <<bucket, now, at, delta, limit, level, wake, reactor, credit, raced>>

\* `now = time()`
ReadClock ==
  /\ pc = "clock"
  /\ at' = now
  /\ pc' = "refill"
  /\ UNCHANGED <<bucket, now, cost, block, delta, limit, level, wake, reactor, credit, raced>>

\* What was filled in since the timestamp, and the capacity that limits it.
RefillRead ==
  /\ pc = "refill"
  /\ delta' = rate * (at - timestamp)
  /\ limit' = capacity
  /\ pc' = "add"
  /\ raced' = (raced \/ Reconfiguring)
  /\ UNCHANGED <<bucket, now, cost, block, at, level, wake, reactor, credit>>

\* `min(self.capacity, self._tokens + delta)`
RefillAdd ==
  /\ pc = "add"
  /\ level' = Least(limit, tokens + delta)
  /\ pc' = "fill"
  /\ UNCHANGED <<bucket, now, cost, block, at, delta, limit, wake, reactor, credit, raced>>

\* Mutant: the refill is counted again.
Stamp_Kept == timestamp

\* The timestamp of a refill is the time at which it began.
Stamp == at

RefillWrite ==
  /\ pc = "fill"
  /\ tokens' = level /\ timestamp' = Stamp
  /\ pc' = "test"
  /\ UNCHANGED <<capacity, rate, now, cost, block, at, delta, limit, level, wake, reactor, credit, raced>>

\* `if cost <= self.tokens`
Test ==
  /\ pc = "test"
  /\ \/ cost <= tokens /\ pc' = "take"
     \/ cost > tokens /\ block /\ pc' = "wait"
     \/ cost > tokens /\ ~block /\ pc' = "idle"
  /\ UNCHANGED <<bucket, now, cost, block, at, delta, limit, level, wake, reactor, credit, raced>>

\* The ticks in which n units are filled in, in whole ticks.
TicksFor(n) == (n + rate - 1) \div rate

\* A blocking call sleeps until the units that it still needs are filled in, counted from
\* the timestamp.  They may be none: the level is read again.
Wait ==
  /\ pc = "wait"
  /\ wake' = timestamp + TicksFor(cost - tokens)
  /\ pc' = "sleep"
  /\ UNCHANGED <<bucket, now, cost, block, at, delta, limit, level, reactor, credit, raced>>

Resume ==
  /\ pc = "sleep" /\ now >= wake
  /\ pc' = "take"
  /\ UNCHANGED <<bucket, now, cost, block, at, delta, limit, level, wake, reactor, credit, raced>>

\* `self._tokens -= cost` reads ...
TakeRead ==
  /\ pc = "take"
  /\ level' = tokens
  /\ pc' = "store"
  /\ raced' = (raced \/ Reconfiguring)
  /\ UNCHANGED <<bucket, now, cost, block, at, delta, limit, wake, reactor, credit>>

\* ... and writes.
TakeWrite ==
  /\ pc = "store"
  /\ tokens' = level - cost
  /\ credit' = credit - cost
  /\ pc' = "idle"
  /\ UNCHANGED <<capacity, rate, timestamp, now, cost, block, at, delta, limit, level, wake, reactor, raced>>

--------------------------------------------------------------------------------
(* The reactor's thread: shutdownModifyUpdateSpeed() calls setCapacityAndFillRate()     *)
(* once for a bucket.                                                                 *)

SetCapacity ==
  /\ Reconfigure /\ pcR = "idle"
  /\ capacity' = NewCapacity
  /\ pcR' = "rate"
  /\ credit' = credit + (NewCapacity - capacity)
  /\ raced' = (pc \in {"add", "fill", "store"})
  /\ UNCHANGED <<rate, tokens, timestamp, now, call, sum>>

SetRate ==
  /\ pcR = "rate"
  /\ rate' = NewRate
  /\ pcR' = "read"
  /\ UNCHANGED <<capacity, tokens, timestamp, now, call, sum, credit, raced>>

\* Mutant: the level is not moved with the capacity.
SetRead_KeepsTokens ==
  /\ pcR = "read"
  /\ sum' = tokens
  /\ pcR' = "write"
  /\ UNCHANGED <<bucket, now, call, credit, raced>>

\* `self._tokens = delta + self._tokens` reads ...
SetRead ==
  /\ pcR = "read"
  /\ sum' = (NewCapacity - Capacity) + tokens
  /\ pcR' = "write"
  /\ UNCHANGED <<bucket, now, call, credit, raced>>

\* ... and writes.
SetWrite ==
  /\ pcR = "write"
  /\ tokens' = sum
  /\ pcR' = "done"
  /\ UNCHANGED <<capacity, rate, timestamp, now, call, sum, credit, raced>>

BucketNext ==
  \/ Tick
  \/ \E c \in 1 .. MaxCost, blocking \in BOOLEAN : Drain(c, blocking)
  \/ ReadClock \/ RefillRead \/ RefillAdd \/ RefillWrite
  \/ Test \/ Wait \/ Resume \/ TakeRead \/ TakeWrite
  \/ SetCapacity \/ SetRate \/ SetRead \/ SetWrite

BucketSpec == BucketInit /\ [][BucketNext]_bucketVars

--------------------------------------------------------------------------------
(* Properties *)

BucketTypeOK ==
  /\ capacity \in Nat /\ rate \in Nat \ {0} /\ tokens \in Int
  /\ timestamp \in Nat /\ now \in Nat /\ timestamp <= now
  /\ pc \in {"idle", "clock", "refill", "add", "fill", "test", "wait", "sleep", "take", "store"}
  /\ cost \in 0 .. MaxCost /\ block \in BOOLEAN
  /\ at \in 0 .. now /\ (pc \in {"refill", "add", "fill"} => timestamp <= at)
  /\ delta \in Nat /\ limit \in Nat /\ level \in Int /\ wake \in Int
  /\ pcR \in {"idle", "rate", "read", "write", "done"} /\ sum \in Int
  /\ credit \in Int /\ raced \in BOOLEAN

(* Until the reactor reconfigures it, the limiter grants in every interval no more than its
   capacity, what the interval refills, and one call: a full bucket keeps an old
   timestamp, so that the first token taken from it is given back at once. *)
RateBound == pcR = "idle" => credit >= -MaxCost

(* The bucket holds no more than its capacity (util.py:231), also when the capacity is
   lowered in any state of a call.  While the reactor is between its assignments, and for
   as long as the writer takes to spend it after one of its read-modify-writes overlapped
   them, it may hold more, by the change of the capacity and never by more: a refill or a
   `-=` puts back a level of the old capacity, or the reactor adds to one of the new. *)
LevelWithinCapacity ==
  tokens <= capacity + (IF Reconfiguring \/ raced THEN Abs(NewCapacity - Capacity) ELSE 0)

--------------------------------------------------------------------------------
(* The inductive invariant behind both *)

\* How far the reactor is.
Configured ==
  /\ capacity = IF pcR = "idle" THEN Capacity ELSE NewCapacity
  /\ rate = IF pcR \in {"idle", "rate"} THEN Rate ELSE NewRate
  /\ pcR = "idle" => ~raced

\* The most that the bucket, or a level that a thread has read, may be: either capacity
\* inside the reconfiguration, if a read-modify-write of the writer overlaps it.
Ceiling ==
  CASE pcR = "idle" -> Capacity
    [] Reconfiguring /\ ~raced -> Capacity
    [] Reconfiguring /\ raced -> Capacity + NewCapacity - Least(Capacity, NewCapacity)
    [] pcR = "done" /\ ~raced -> NewCapacity
    [] pcR = "done" /\ raced -> NewCapacity + Abs(NewCapacity - Capacity)

LevelInv ==
  /\ tokens <= Ceiling
  /\ pc = "add" => limit <= Ceiling
  /\ pc \in {"fill", "store"} => level <= Ceiling
  /\ Reconfiguring /\ pc \in {"add", "fill", "store"} => raced
  /\ pcR = "write" =>
       sum <= NewCapacity + (IF raced THEN Abs(NewCapacity - Capacity) ELSE 0)

Gain == rate * (now - timestamp)
Effective == Least(capacity, tokens + Gain)

\* What the refill in progress makes of the level, and what came in since it began.
Refilled == Least(capacity, tokens + rate * (at - timestamp))
SinceRefill == rate * (now - at)

\* The ideal bucket is at most one call behind; once a call is past its refill, or when
\* the bucket is full, it also gained everything since the timestamp, and during a refill
\* everything since it began.
Behind ==
  /\ credit >= Effective - MaxCost
  /\ tokens = capacity \/ pc \in {"test", "wait", "sleep", "take", "store"} =>
       credit >= Least(capacity, tokens + Gain - MaxCost)
  /\ pc \in {"refill", "add", "fill"} =>
       credit >= Least(capacity, Refilled + SinceRefill - MaxCost)

\* Where a call in progress is, while the bucket is as it was configured.
CallInv ==
  /\ tokens <= capacity /\ credit <= capacity
  /\ tokens + Gain >= 0
  /\ pc \in {"refill", "add", "fill"} => tokens + rate * (at - timestamp) >= 0
  /\ pc = "add" => delta = rate * (at - timestamp) /\ limit = capacity
  /\ pc = "fill" => level = Refilled
  /\ pc = "sleep" => rate * (wake - timestamp) + tokens >= cost
  /\ pc \in {"take", "store"} => tokens + Gain >= cost
  /\ pc = "store" => level = tokens

BucketInv ==
  /\ BucketTypeOK /\ Configured /\ LevelInv
  /\ pcR = "idle" => Behind /\ CallInv
================================================================================
