----------------------------- MODULE ReceivingProofs -----------------------------
(***************************************************************************)
(* What a daemon does with what comes in, for any number of connections,    *)
(* aggregates, intervals and changes of the rules file: receivers follow    *)
(* the flag, but for those that the list iterator or an old flag lets slip  *)
(* (StraysBounded), an aggregate has one task, and it computes from all of  *)
(* a window (OneTaskPerBuffer, WindowComplete, from the invariant IInv of   *)
(* Aggregator).                                                             *)
(***************************************************************************)
EXTENDS Receivers, Aggregator, SequenceTheorems, FiniteSetTheorems, TLAPS

--------------------------------------------------------------------------------
(* Receivers *)

ReceiversTypeOK ==
  /\ metricReceiversPaused \in BOOLEAN /\ sawPaused \in BOOLEAN /\ overlapped \in BOOLEAN
  /\ resumeHandlers \in Seq(Connections) /\ open \subseteq Connections
  /\ new \in Connections \cup {None}
  /\ pcR \in {"idle", "made", "adding", "flag", "pausing"} /\ turnR \in Nat \ {0}
  /\ pcW \in {"idle", "flag", "resuming"} /\ turnW \in Nat \ {0}
  /\ strays \in Nat

Once(list) == \A i, j \in 1 .. Len(list) : list[i] = list[j] => i = j

\* The handlers that a walk of a list has before it.
Ahead(list, turn) == {list[k] : k \in turn .. Len(list)}

\* Each connection has its handlers in both lists, once, but for the one being made.
HandlersListed ==
  /\ pauseHandlers = resumeHandlers
  /\ Once(resumeHandlers)
  /\ ToSet(resumeHandlers) = open \ {new}
  /\ reading \subseteq open
  /\ new # None <=> pcR \in {"made", "adding"}
  /\ new # None => new \in open /\ (new \in reading \/ sawPaused)

\* What the flag is while the threads are at it, when they do not overlap.
FlagsAgree ==
  /\ Resuming /\ pcR \in {"flag", "pausing"} => overlapped
  /\ pcW = "resuming" => overlapped \/ ~metricReceiversPaused
  /\ pcR = "pausing" => overlapped \/ metricReceiversPaused

\* A pause without a resume leaves nothing but what its walk has before it.
PauseReaches ==
  ~overlapped /\ metricReceiversPaused /\ pcW = "idle" =>
    /\ pcR \in {"idle", "adding", "flag"} => reading = {}
    /\ pcR = "made" => sawPaused /\ reading \subseteq {new}
    /\ pcR = "pausing" => reading \subseteq Ahead(pauseHandlers, turnR)

\* S has no more than n elements.
Few(S, n) == IsFiniteSet(S) /\ Cardinality(S) <= n

\* The connections that do not produce, or soon will not, although the flag is down.
Unread == (open \ reading) \cup IF pcR = "made" /\ sawPaused THEN {new} ELSE {}
ResumeReaches ==
  ~overlapped =>
    /\ pcW = "idle" /\ ~metricReceiversPaused => Few(Unread, strays)
    /\ pcW = "flag" /\ new # None /\ sawPaused => strays >= 1
    /\ pcW = "resuming" => Few(Unread \ Ahead(resumeHandlers, turnW), strays)

ReceiversInv ==
  ReceiversTypeOK /\ HandlersListed /\ FlagsAgree /\ PauseReaches /\ ResumeReaches

--------------------------------------------------------------------------------
(* The lists of handlers *)

LEMMA AddHandler ==
  ASSUME NEW list \in Seq(Connections), Once(list), NEW c \in Connections, c \notin ToSet(list),
         NEW turn \in Nat \ {0}
  PROVE  LET added == addHandler(list, c) IN
         /\ added \in Seq(Connections) /\ Once(added)
         /\ ToSet(added) = ToSet(list) \cup {c}
         /\ Ahead(list, turn) \subseteq Ahead(added, turn)
<1> DEFINE added == Append(list, c)
<1>1. /\ added \in Seq(Connections) /\ Len(added) = Len(list) + 1 /\ added[Len(list) + 1] = c
      /\ \A i \in 1 .. Len(list) : added[i] = list[i]
  OBVIOUS
<1>2. /\ \A i \in 1 .. Len(list) : list[i] \in ToSet(list)
      /\ DOMAIN list = 1 .. Len(list) /\ DOMAIN added = 1 .. Len(added)
  BY <1>1 DEF ToSet
<1>3. addHandler(list, c) = added
  BY <1>2 DEF addHandler, Contains
<1> HIDE DEF added
<1>4. Once(added)
  BY <1>1, <1>2 DEF Once
<1>5. ToSet(added) = ToSet(list) \cup {c}
  BY <1>1, <1>2 DEF ToSet
<1>6. Ahead(list, turn) \subseteq Ahead(added, turn)
  BY <1>1 DEF Ahead
<1> QED
  BY <1>1, <1>3, <1>4, <1>5, <1>6

\* A walk of the list loses the handler that is removed, and one that moves up past it.
LEMMA RemoveHandler ==
  ASSUME NEW list \in Seq(Connections), Once(list), NEW c \in ToSet(list), NEW turn \in Nat \ {0}
  PROVE  LET removed == removeHandler(list, c) IN
         /\ removed \in Seq(Connections) /\ Once(removed)
         /\ ToSet(removed) = ToSet(list) \ {c}
         /\ \E x : Ahead(list, turn) \subseteq Ahead(removed, turn) \cup {c, x}
<1> DEFINE at == CHOOSE i \in DOMAIN list : list[i] = c
           removed == RemoveAt(list, at)
<1>1. at \in 1 .. Len(list) /\ list[at] = c /\ DOMAIN list = 1 .. Len(list) /\ Len(list) \in Nat
  BY DEF ToSet
<1>2. removeHandler(list, c) = removed
  BY <1>1 DEF removeHandler, Contains
<1> HIDE DEF at
<1>3. /\ removed \in Seq(Connections) /\ Len(removed) = Len(list) - 1
      /\ \A i \in 1 .. at - 1 : removed[i] = list[i]
      /\ \A i \in at .. Len(list) - 1 : removed[i] = list[i + 1]
  <2> DEFINE front == SubSeq(list, 1, at - 1)
             back == SubSeq(list, at + 1, Len(list))
  <2>1. /\ front \in Seq(Connections) /\ Len(front) = at - 1
        /\ \A i \in 1 .. at - 1 : front[i] = list[i]
    <3>1. \A i \in 1 .. at - 1 : list[i] \in Connections
      BY <1>1
    <3> QED
      BY <1>1, <3>1, SubSeqProperties
  <2>2. /\ back \in Seq(Connections) /\ Len(back) = Len(list) - at
        /\ \A i \in 1 .. Len(list) - at : back[i] = list[at + i]
    <3>1. \A i \in at + 1 .. Len(list) : list[i] \in Connections
      BY <1>1
    <3>2. /\ back \in Seq(Connections)
          /\ Len(back) = IF at + 1 <= Len(list) THEN Len(list) - (at + 1) + 1 ELSE 0
          /\ \A i \in 1 .. Len(list) - (at + 1) + 1 : back[i] = list[(at + 1) + i - 1]
      BY <1>1, <3>1, SubSeqProperties
    <3> HIDE DEF back
    <3>3. Len(list) - (at + 1) + 1 = Len(list) - at
      BY <1>1
    <3>4. Len(back) = Len(list) - at
      <4>1. at + 1 <= Len(list) \/ at = Len(list)
        <5>1. \A a, n \in Int : a <= n => a + 1 <= n \/ a = n
          OBVIOUS
        <5>2. at \in Int /\ Len(list) \in Int /\ at <= Len(list)
          BY <1>1
        <5> QED
          BY <5>1, <5>2
      <4>2. at = Len(list) => ~(at + 1 <= Len(list)) /\ Len(list) - at = 0
        BY <1>1
      <4> QED
        BY <3>2, <3>3, <4>1, <4>2
    <3>5. ASSUME NEW i \in 1 .. Len(list) - at PROVE back[i] = list[at + i]
      <4>1. (at + 1) + i - 1 = at + i
        BY <1>1
      <4> QED
        BY <3>2, <3>3, <4>1
    <3> QED
      BY <3>2, <3>4, <3>5
  <2>3. removed = front \o back
    BY DEF removed, RemoveAt
  <2> HIDE DEF front, back
  <2>4. /\ front \o back \in Seq(Connections)
        /\ Len(front \o back) = (at - 1) + (Len(list) - at)
        /\ \A i \in 1 .. (at - 1) + (Len(list) - at) :
             (front \o back)[i] = IF i <= at - 1 THEN front[i] ELSE back[i - (at - 1)]
    <3>1. /\ front \o back \in Seq(Connections)
          /\ Len(front \o back) = Len(front) + Len(back)
          /\ \A i \in 1 .. Len(front) + Len(back) :
               (front \o back)[i] = IF i <= Len(front) THEN front[i] ELSE back[i - Len(front)]
      BY <2>1, <2>2, ConcatProperties
    <3> QED
      BY <2>1, <2>2, <3>1
  <2>5. ASSUME NEW i \in at .. Len(list) - 1 PROVE removed[i] = list[i + 1]
    <3>1. /\ i - (at - 1) \in 1 .. Len(list) - at /\ at + (i - (at - 1)) = i + 1
          /\ ~(i <= at - 1) /\ i \in 1 .. (at - 1) + (Len(list) - at)
      BY <1>1
    <3>2. removed[i] = back[i - (at - 1)]
      BY <2>3, <2>4, <3>1
    <3> QED
      BY <2>2, <3>1, <3>2
  <2>6. ASSUME NEW i \in 1 .. at - 1 PROVE removed[i] = list[i]
    <3>1. i <= at - 1 /\ i \in 1 .. (at - 1) + (Len(list) - at)
      BY <1>1
    <3> QED
      BY <2>1, <2>3, <2>4, <3>1
  <2>7. removed \in Seq(Connections) /\ Len(removed) = Len(list) - 1
    BY <1>1, <2>3, <2>4
  <2> QED
    BY <2>5, <2>6, <2>7
<1> HIDE DEF removed
<1>4. DOMAIN removed = 1 .. Len(list) - 1
  BY <1>3
<1>5. ASSUME NEW i \in 1 .. Len(list), i # at
      PROVE  \E j \in 1 .. Len(list) - 1 : removed[j] = list[i] /\ (j = i \/ (j = i - 1 /\ at < i))
  <2>1. CASE i < at
    <3>1. i \in 1 .. at - 1 /\ i \in 1 .. Len(list) - 1
      BY <1>1, <2>1
    <3> QED
      BY <1>3, <3>1
  <2>2. CASE i > at
    <3>1. i - 1 \in at .. Len(list) - 1 /\ i - 1 \in 1 .. Len(list) - 1 /\ (i - 1) + 1 = i
      BY <1>1, <2>2
    <3>2. removed[i - 1] = list[i]
      BY <1>3, <3>1
    <3> QED
      BY <2>2, <3>1, <3>2
  <2> QED
    BY <1>1, <1>5, <2>1, <2>2
<1>6. ASSUME NEW j \in 1 .. Len(list) - 1
      PROVE  \E i \in 1 .. Len(list) : /\ i # at /\ removed[j] = list[i]
                                       /\ i = IF j < at THEN j ELSE j + 1
  <2>1. CASE j < at
    BY <1>1, <1>3, <2>1
  <2>2. CASE j >= at
    <3>1. j \in at .. Len(list) - 1 /\ j + 1 \in 1 .. Len(list) /\ j + 1 # at /\ ~(j < at)
      BY <1>1, <2>2
    <3> QED
      BY <1>3, <3>1
  <2> QED
    BY <1>1, <2>1, <2>2
<1>7. Once(removed)
  <2> SUFFICES ASSUME NEW i \in 1 .. Len(list) - 1, NEW j \in 1 .. Len(list) - 1,
                      removed[i] = removed[j]
               PROVE  i = j
    BY <1>3 DEF Once
  <2> QED
    BY <1>1, <1>6 DEF Once
<1>8. ToSet(removed) = ToSet(list) \ {c}
  <2>1. ASSUME NEW j \in 1 .. Len(list) - 1 PROVE removed[j] \in ToSet(list) \ {c}
    BY <1>1, <1>6 DEF Once, ToSet
  <2>2. ASSUME NEW e \in ToSet(list) \ {c} PROVE e \in ToSet(removed)
    <3>1. PICK i \in 1 .. Len(list) : e = list[i] /\ i # at
      BY <1>1 DEF ToSet
    <3> QED
      BY <1>4, <1>5, <3>1 DEF ToSet
  <2> QED
    BY <1>4, <2>1, <2>2 DEF ToSet
<1>9. Ahead(list, turn) \subseteq Ahead(removed, turn) \cup {c, list[turn]}
  <2> SUFFICES ASSUME NEW i \in turn .. Len(list), i # at, i # turn
               PROVE  list[i] \in Ahead(removed, turn)
    BY <1>1 DEF Ahead
  <2>1. i \in 1 .. Len(list) /\ i > turn
    BY <1>1
  <2>2. PICK j \in 1 .. Len(list) - 1 : removed[j] = list[i] /\ (j = i \/ (j = i - 1 /\ at < i))
    BY <1>5, <2>1
  <2>3. j \in turn .. Len(removed)
    BY <1>3, <2>1, <2>2
  <2> QED
    BY <2>2, <2>3 DEF Ahead
<1> QED
  BY <1>2, <1>3, <1>7, <1>8, <1>9

--------------------------------------------------------------------------------
(* Few connections *)

LEMMA FewerIsFew ==
  ASSUME NEW n \in Nat, NEW S, Few(S, n), NEW T, T \subseteq S
  PROVE  Few(T, n)
BY FS_Subset, FS_CardinalityType DEF Few

LEMMA OneMoreIsFew ==
  ASSUME NEW n \in Nat, NEW S, Few(S, n), NEW x, NEW T, T \subseteq S \cup {x}
  PROVE  Few(T, n + 1)
<1>1. Few(S \cup {x}, n + 1)
  <2>1. /\ IsFiniteSet(S \cup {x}) /\ Cardinality(S) \in Nat /\ Cardinality(S) <= n
        /\ \/ Cardinality(S \cup {x}) = Cardinality(S)
           \/ Cardinality(S \cup {x}) = Cardinality(S) + 1
    BY FS_AddElement, FS_CardinalityType DEF Few
  <2> QED
    BY <2>1 DEF Few
<1> QED
  BY <1>1, FewerIsFew

LEMMA NoneOrOneIsFew ==
  ASSUME NEW n \in Nat, NEW x, NEW T, T \subseteq {x}, T # {} => n >= 1
  PROVE  Few(T, n)
<1>1. CASE T = {}
  BY <1>1, FS_EmptySet DEF Few
<1>2. CASE T = {x}
  BY <1>2, FS_Singleton DEF Few
<1> QED
  BY <1>1, <1>2

--------------------------------------------------------------------------------
(* The invariant *)

LEMMA ReceiversStart == ReceiversInit => ReceiversInv
<1> SUFFICES ASSUME ReceiversInit PROVE ReceiversInv
  OBVIOUS
<1>1. ReceiversTypeOK
  <2>1. <<>> \in Seq(Connections)
    OBVIOUS
  <2>2. strays \in Nat /\ turnR \in Nat \ {0} /\ turnW \in Nat \ {0}
    BY DEF ReceiversInit
  <2> QED
    BY <2>1, <2>2, Zenon DEF ReceiversInit, ReceiversTypeOK
<1>2. HandlersListed
  BY ReceiverAssumption DEF ReceiversInit, HandlersListed, Once, ToSet
<1>3. Few(Unread, strays)
  BY NoneOrOneIsFew DEF ReceiversInit, Unread
<1> QED
  BY <1>1, <1>2, <1>3 DEF ReceiversInit, ReceiversInv, FlagsAgree, PauseReaches, ResumeReaches, Resuming

\* A receiver that is made while the flag is up reads it.
LEMMA ConnectionMadeKeeps ==
  ASSUME ReceiversInv, NEW c \in Connections, ConnectionMade(c)
  PROVE  ReceiversInv'
<1> USE DEF ReceiversInv
<1>1. c # None /\ new = None /\ pcR = "idle" /\ c \notin open
  BY ReceiverAssumption DEF ConnectionMade, HandlersListed
<1>2. /\ pcR' = "made" /\ new' = c /\ sawPaused' = metricReceiversPaused
      /\ open' = open \cup {c} /\ reading' = reading \cup {c}
      /\ UNCHANGED <<metricReceiversPaused, pauseHandlers, resumeHandlers, turnR, pcW, turnW, overlapped>>
  BY DEF ConnectionMade, lists
<1>3. strays' \in Nat /\ strays' >= strays
      /\ (pcW # "idle" /\ metricReceiversPaused => strays' = strays + 1)
      /\ (~(pcW # "idle" /\ metricReceiversPaused) => strays' = strays)
  BY DEF ReceiversTypeOK, ConnectionMade, Disturb, Resuming
<1>4. ReceiversTypeOK'
  BY <1>2, <1>3 DEF ReceiversTypeOK
<1>5. HandlersListed'
  <2>1. open = ToSet(resumeHandlers) /\ open' \ {new'} = open /\ reading' \subseteq open'
    BY <1>1, <1>2, ReceiverAssumption DEF HandlersListed, ReceiversTypeOK
  <2>2. new' \in open' /\ new' \in reading'
    BY <1>2
  <2> QED
    BY <1>1, <1>2, <2>1, <2>2 DEF HandlersListed
<1>6. FlagsAgree' /\ PauseReaches'
  BY <1>1, <1>2 DEF FlagsAgree, PauseReaches, Resuming
<1>7. ~metricReceiversPaused => Unread' \subseteq Unread
  BY <1>1, <1>2 DEF Unread
<1>8. ResumeReaches'
  <2>1. pcW = "idle" /\ ~metricReceiversPaused /\ ~overlapped => Few(Unread', strays')
    BY <1>3, <1>7, FewerIsFew DEF ResumeReaches, ReceiversTypeOK
  <2>2. pcW = "flag" /\ sawPaused' => strays' >= 1
    BY <1>2, <1>3 DEF ReceiversTypeOK
  <2>3. ASSUME pcW = "resuming", ~overlapped
        PROVE  Few(Unread' \ Ahead(resumeHandlers, turnW), strays')
    <3>1. ~metricReceiversPaused
      BY <2>3 DEF FlagsAgree
    <3> QED
      BY <1>3, <1>7, <2>3, <3>1, FewerIsFew DEF ResumeReaches, ReceiversTypeOK
  <2> QED
    BY <1>2, <2>1, <2>2, <2>3 DEF ResumeReaches
<1> QED
  BY <1>4, <1>5, <1>6, <1>8

LEMMA ConnectionPausesKeeps == ReceiversInv /\ ConnectionPauses => ReceiversInv'
<1> SUFFICES ASSUME ReceiversInv, ConnectionPauses PROVE ReceiversInv'
  OBVIOUS
<1> USE DEF ReceiversInv
<1>1. /\ pcR = "made" /\ pcR' = "adding" /\ new # None
      /\ reading' = IF sawPaused THEN reading \ {new} ELSE reading
      /\ UNCHANGED <<metricReceiversPaused, pauseHandlers, resumeHandlers, open, turnR, new, sawPaused,
                     pcW, turnW, strays, overlapped>>
  BY DEF ConnectionPauses, HandlersListed, lists, meanwhile
<1>2. ReceiversTypeOK'
  BY <1>1 DEF ReceiversTypeOK
<1>3. HandlersListed'
  BY <1>1 DEF HandlersListed
<1>4. FlagsAgree' /\ PauseReaches'
  BY <1>1 DEF FlagsAgree, PauseReaches, Resuming
<1>5. Unread' \subseteq Unread
  BY <1>1 DEF Unread
<1>6. ResumeReaches'
  BY <1>1, <1>5, FewerIsFew DEF ResumeReaches, ReceiversTypeOK
<1> QED
  BY <1>2, <1>3, <1>4, <1>6

\* A walk of the writer gets to the connection that is added before it ends.
LEMMA ConnectionAddsKeeps == ReceiversInv /\ ConnectionAdds => ReceiversInv'
<1> SUFFICES ASSUME ReceiversInv, ConnectionAdds PROVE ReceiversInv'
  OBVIOUS
<1> USE DEF ReceiversInv
<1> DEFINE added == addHandler(resumeHandlers, new)
<1>1. /\ pcR = "adding" /\ pcR' = "idle" /\ new \in Connections /\ new' = None
      /\ new \notin ToSet(resumeHandlers) /\ pauseHandlers' = added /\ resumeHandlers' = added
      /\ UNCHANGED <<metricReceiversPaused, open, reading, turnR, sawPaused, pcW, turnW, strays, overlapped>>
  BY DEF ConnectionAdds, HandlersListed, ReceiversTypeOK, meanwhile
<1>2. /\ added \in Seq(Connections) /\ Once(added) /\ ToSet(added) = ToSet(resumeHandlers) \cup {new}
      /\ Ahead(resumeHandlers, turnW) \subseteq Ahead(added, turnW)
  BY <1>1, AddHandler DEF HandlersListed, ReceiversTypeOK
<1> HIDE DEF added
<1>3. ReceiversTypeOK'
  BY <1>1, <1>2 DEF ReceiversTypeOK
<1>4. HandlersListed'
  <2>1. ToSet(added) = open /\ None \notin open
    BY <1>1, <1>2, ReceiverAssumption DEF HandlersListed, ReceiversTypeOK
  <2> QED
    BY <1>1, <1>2, <2>1 DEF HandlersListed
<1>5. FlagsAgree' /\ PauseReaches'
  BY <1>1 DEF FlagsAgree, PauseReaches, Resuming
<1>6. Unread' = Unread
  BY <1>1 DEF Unread
<1>7. ResumeReaches'
  BY <1>1, <1>2, <1>6, FewerIsFew DEF ResumeReaches, ReceiversTypeOK
<1> QED
  BY <1>3, <1>4, <1>5, <1>7

\* A connection that is lost makes a walk pass over one more at most.
LEMMA ConnectionLostKeeps ==
  ASSUME ReceiversInv, NEW c \in Connections, ConnectionLost(c)
  PROVE  ReceiversInv'
<1> USE DEF ReceiversInv
<1> DEFINE removed == removeHandler(resumeHandlers, c)
<1>1. /\ pcR = "idle" /\ c \in open /\ new = None /\ c \in ToSet(resumeHandlers)
      /\ pauseHandlers' = removed /\ resumeHandlers' = removed
      /\ open' = open \ {c} /\ reading' = reading \ {c}
      /\ UNCHANGED <<metricReceiversPaused, pcR, turnR, new, sawPaused, pcW, turnW, overlapped>>
  BY ReceiverAssumption DEF ConnectionLost, HandlersListed, reactorVars
<1>2. strays' = IF pcW # "idle" THEN strays + 1 ELSE strays
  BY DEF ConnectionLost, Disturb, Resuming
<1>3. /\ removed \in Seq(Connections) /\ Once(removed)
      /\ ToSet(removed) = ToSet(resumeHandlers) \ {c}
      /\ \E x : Ahead(resumeHandlers, turnW) \subseteq Ahead(removed, turnW) \cup {c, x}
  BY <1>1, RemoveHandler DEF HandlersListed, ReceiversTypeOK
<1> HIDE DEF removed
<1>4. ReceiversTypeOK'
  BY <1>1, <1>2, <1>3 DEF ReceiversTypeOK
<1>5. HandlersListed'
  BY <1>1, <1>3 DEF HandlersListed
<1>6. FlagsAgree' /\ PauseReaches'
  BY <1>1 DEF FlagsAgree, PauseReaches, Resuming
<1>7. Unread' \subseteq Unread /\ c \notin Unread'
  BY <1>1 DEF Unread
<1>8. ResumeReaches'
  <2>1. ~overlapped /\ pcW = "idle" /\ ~metricReceiversPaused => Few(Unread', strays')
    BY <1>2, <1>7, FewerIsFew DEF ResumeReaches, ReceiversTypeOK
  <2>2. ASSUME pcW = "resuming", ~overlapped
        PROVE  Few(Unread' \ Ahead(removed, turnW), strays')
    <3>1. PICK x : Ahead(resumeHandlers, turnW) \subseteq Ahead(removed, turnW) \cup {c, x}
      BY <1>3
    <3>2. Unread' \ Ahead(removed, turnW) \subseteq (Unread \ Ahead(resumeHandlers, turnW)) \cup {x}
      BY <1>7, <3>1
    <3>3. Few(Unread \ Ahead(resumeHandlers, turnW), strays) /\ strays \in Nat
      BY <2>2 DEF ResumeReaches, ReceiversTypeOK
    <3> QED
      BY <1>2, <2>2, <3>2, <3>3, OneMoreIsFew
  <2> QED
    BY <1>1, <2>1, <2>2 DEF ResumeReaches
<1> QED
  BY <1>4, <1>5, <1>6, <1>8

LEMMA WholeWalk ==
  ASSUME NEW list \in Seq(Connections)
  PROVE  /\ Ahead(list, 1) = ToSet(list)
         /\ \A turn \in Nat \ {0} : /\ turn > Len(list) => Ahead(list, turn) = {}
                                    /\ turn <= Len(list) =>
                                         /\ list[turn] \in ToSet(list)
                                         /\ Ahead(list, turn) = {list[turn]} \cup Ahead(list, turn + 1)
<1>1. DOMAIN list = 1 .. Len(list) /\ Len(list) \in Nat
  OBVIOUS
<1>2. Ahead(list, 1) = ToSet(list)
  BY <1>1 DEF Ahead, ToSet
<1>3. ASSUME NEW turn \in Nat \ {0}, turn > Len(list) PROVE Ahead(list, turn) = {}
  BY <1>1, <1>3 DEF Ahead
<1>4. ASSUME NEW turn \in Nat \ {0}, turn <= Len(list)
      PROVE  /\ list[turn] \in ToSet(list)
             /\ Ahead(list, turn) = {list[turn]} \cup Ahead(list, turn + 1)
  <2>1. turn .. Len(list) = {turn} \cup ((turn + 1) .. Len(list)) /\ turn \in 1 .. Len(list)
    BY <1>1, <1>4
  <2> QED
    BY <1>1, <2>1 DEF Ahead, ToSet
<1> QED
  BY <1>2, <1>3, <1>4

\* The reactor pauses the receivers: the flag, then each of the list.
LEMMA PausingKeeps ==
  ASSUME ReceiversInv, CacheFull \/ PauseFlag \/ PauseNext
  PROVE  ReceiversInv'
<1> USE DEF ReceiversInv
<1>1. CASE CacheFull
  <2>1. /\ pcR = "idle" /\ pcR' = "flag" /\ overlapped' = (overlapped \/ pcW # "idle")
        /\ UNCHANGED <<metricReceiversPaused, pauseHandlers, resumeHandlers, open, reading, turnR, new,
                       sawPaused, pcW, turnW, strays>>
    BY <1>1 DEF CacheFull, lists, Resuming
  <2>2. ReceiversTypeOK' /\ HandlersListed' /\ FlagsAgree' /\ PauseReaches'
    BY <2>1 DEF ReceiversTypeOK, HandlersListed, FlagsAgree, PauseReaches, Resuming
  <2>3. ResumeReaches'
    BY <2>1 DEF ResumeReaches, Unread
  <2> QED
    BY <2>2, <2>3
<1>2. CASE PauseFlag
  <2>1. /\ pcR = "flag" /\ pcR' = "pausing" /\ metricReceiversPaused' = TRUE /\ turnR' = 1
        /\ UNCHANGED <<pauseHandlers, resumeHandlers, open, reading, new, sawPaused, pcW, turnW, strays, overlapped>>
    BY <1>2 DEF PauseFlag, lists, meanwhile
  <2>2. ReceiversTypeOK' /\ HandlersListed' /\ FlagsAgree'
    BY <2>1 DEF ReceiversTypeOK, HandlersListed, FlagsAgree, Resuming
  <2>3. reading \subseteq Ahead(pauseHandlers, 1)
    BY <2>1, WholeWalk, ReceiverAssumption DEF ReceiversTypeOK, HandlersListed
  <2>4. PauseReaches'
    BY <2>1, <2>3 DEF PauseReaches
  <2>5. ResumeReaches'
    BY <2>1 DEF ResumeReaches, FlagsAgree, Resuming
  <2> QED
    BY <2>2, <2>4, <2>5
<1>3. CASE PauseNext
  <2>1. /\ pcR = "pausing" /\ turnR \in Nat \ {0} /\ pauseHandlers \in Seq(Connections)
        /\ UNCHANGED <<metricReceiversPaused, pauseHandlers, resumeHandlers, open, new, sawPaused, pcW, turnW,
                       strays, overlapped>>
    BY <1>3 DEF PauseNext, lists, meanwhile, ReceiversTypeOK, HandlersListed
  <2>2. ~overlapped => pcW = "idle" /\ metricReceiversPaused
    BY <2>1 DEF FlagsAgree, Resuming
  <2>3. CASE turnR <= Len(pauseHandlers)
    <3>1. reading' = reading \ {pauseHandlers[turnR]} /\ turnR' = turnR + 1 /\ pcR' = pcR
      BY <1>3, <2>3 DEF PauseNext
    <3>2. Ahead(pauseHandlers, turnR) = {pauseHandlers[turnR]} \cup Ahead(pauseHandlers, turnR + 1)
      BY <2>1, <2>3, WholeWalk
    <3> QED
      BY <2>1, <2>2, <3>1, <3>2 DEF ReceiversTypeOK, HandlersListed, FlagsAgree, PauseReaches,
         ResumeReaches, Resuming
  <2>4. CASE ~(turnR <= Len(pauseHandlers))
    <3>1. reading' = reading /\ turnR' = 1 /\ pcR' = "idle"
      BY <1>3, <2>4 DEF PauseNext
    <3>2. Ahead(pauseHandlers, turnR) = {}
      BY <2>1, <2>4, WholeWalk
    <3> QED
      BY <2>1, <2>2, <3>1, <3>2 DEF ReceiversTypeOK, HandlersListed, FlagsAgree, PauseReaches,
         ResumeReaches, Resuming
  <2> QED
    BY <2>3, <2>4
<1> QED
  BY <1>1, <1>2, <1>3

\* The writer resumes them.
LEMMA ResumingKeeps ==
  ASSUME ReceiversInv, SpaceAvailable \/ ResumeFlag \/ ResumeNext
  PROVE  ReceiversInv'
<1> USE DEF ReceiversInv
<1>1. CASE SpaceAvailable
  <2>1. /\ pcW = "idle" /\ pcW' = "flag" /\ overlapped' = (pcR \in {"flag", "pausing"})
        /\ strays' = IF new # None /\ sawPaused THEN 1 ELSE 0
        /\ UNCHANGED <<metricReceiversPaused, pauseHandlers, resumeHandlers, open, reading, pcR, turnR, new,
                       sawPaused, turnW>>
    BY <1>1 DEF SpaceAvailable, lists, reactorVars
  <2>2. ReceiversTypeOK'
    BY <2>1 DEF ReceiversTypeOK
  <2>3. HandlersListed'
    BY <2>1 DEF HandlersListed
  <2>4. FlagsAgree'
    BY <2>1 DEF FlagsAgree
  <2>5. PauseReaches' /\ ResumeReaches'
    BY <2>1 DEF PauseReaches, ResumeReaches
  <2> QED
    BY <2>2, <2>3, <2>4, <2>5
<1>2. CASE ResumeFlag
  <2>1. /\ pcW = "flag" /\ pcW' = "resuming" /\ metricReceiversPaused' = FALSE /\ turnW' = 1
        /\ UNCHANGED <<pauseHandlers, resumeHandlers, open, reading, pcR, turnR, new, sawPaused, strays, overlapped>>
    BY <1>2 DEF ResumeFlag, lists, reactorVars, meanwhile
  <2>2. ReceiversTypeOK' /\ HandlersListed' /\ FlagsAgree' /\ PauseReaches'
    <3>1. ReceiversTypeOK'
      <4>1. turnW' \in Nat \ {0}
        BY <2>1
      <4>2. pcW' \in {"idle", "flag", "resuming"} /\ metricReceiversPaused' \in BOOLEAN
        BY <2>1, Zenon
      <4> QED
        BY <2>1, <4>1, <4>2, Zenon DEF ReceiversTypeOK
    <3>2. HandlersListed'
      BY <2>1 DEF HandlersListed
    <3>3. FlagsAgree' /\ PauseReaches'
      BY <2>1 DEF FlagsAgree, PauseReaches, Resuming
    <3> QED
      BY <3>1, <3>2, <3>3
  <2>3. Ahead(resumeHandlers, 1) = open \ {new}
    BY WholeWalk DEF ReceiversTypeOK, HandlersListed
  <2>4. Unread \ Ahead(resumeHandlers, 1) \subseteq IF new # None /\ sawPaused THEN {new} ELSE {}
    BY <2>3, ReceiverAssumption DEF Unread, HandlersListed, ReceiversTypeOK
  <2>5. ~overlapped => Few(Unread \ Ahead(resumeHandlers, 1), strays)
    BY <2>1, <2>4, NoneOrOneIsFew DEF ResumeReaches, ReceiversTypeOK
  <2>6. Unread' = Unread
    BY <2>1 DEF Unread
  <2> QED
    BY <2>1, <2>2, <2>5, <2>6 DEF ResumeReaches
<1>3. CASE ResumeNext
  <2>1. /\ pcW = "resuming" /\ turnW \in Nat \ {0} /\ resumeHandlers \in Seq(Connections) /\ strays \in Nat
        /\ UNCHANGED <<metricReceiversPaused, pauseHandlers, resumeHandlers, open, pcR, turnR, new, sawPaused,
                       strays, overlapped>>
    BY <1>3 DEF ResumeNext, lists, reactorVars, meanwhile, ReceiversTypeOK
  <2>2. ~overlapped => ~metricReceiversPaused /\ Few(Unread \ Ahead(resumeHandlers, turnW), strays)
    BY <2>1 DEF FlagsAgree, ResumeReaches
  <2>3. CASE turnW <= Len(resumeHandlers)
    <3>1. reading' = reading \cup {resumeHandlers[turnW]} /\ turnW' = turnW + 1 /\ pcW' = pcW
      BY <1>3, <2>3 DEF ResumeNext
    <3>2. /\ Ahead(resumeHandlers, turnW) = {resumeHandlers[turnW]} \cup Ahead(resumeHandlers, turnW + 1)
          /\ resumeHandlers[turnW] \in open \ {new}
      BY <2>1, <2>3, WholeWalk DEF HandlersListed
    <3>3. ReceiversTypeOK' /\ HandlersListed' /\ FlagsAgree' /\ PauseReaches'
      BY <2>1, <3>1, <3>2 DEF ReceiversTypeOK, HandlersListed, FlagsAgree, PauseReaches, Resuming
    <3>4. Unread' \ Ahead(resumeHandlers, turnW + 1) \subseteq Unread \ Ahead(resumeHandlers, turnW)
      BY <2>1, <3>1, <3>2 DEF Unread
    <3> QED
      BY <2>1, <2>2, <3>1, <3>3, <3>4, FewerIsFew DEF ResumeReaches
  <2>4. CASE ~(turnW <= Len(resumeHandlers))
    <3>1. reading' = reading /\ turnW' = 1 /\ pcW' = "idle"
      BY <1>3, <2>4 DEF ResumeNext
    <3>2. Unread \ Ahead(resumeHandlers, turnW) = Unread /\ Unread' = Unread
      BY <2>1, <2>4, <3>1, WholeWalk DEF Unread
    <3>3. ReceiversTypeOK'
      BY <2>1, <3>1 DEF ReceiversTypeOK
    <3>4. HandlersListed'
      BY <2>1, <3>1 DEF HandlersListed
    <3>5. FlagsAgree' /\ PauseReaches' /\ ResumeReaches'
      BY <2>1, <2>2, <3>1, <3>2 DEF FlagsAgree, PauseReaches, ResumeReaches, Resuming
    <3> QED
      BY <3>3, <3>4, <3>5
  <2> QED
    BY <2>3, <2>4
<1> QED
  BY <1>1, <1>2, <1>3

LEMMA ReceiversStep == ReceiversInv /\ [ReceiversNext]_receiversVars => ReceiversInv'
<1> SUFFICES ASSUME ReceiversInv, [ReceiversNext]_receiversVars PROVE ReceiversInv'
  OBVIOUS
<1>1. CASE ReceiversNext
  BY <1>1, ConnectionMadeKeeps, ConnectionPausesKeeps, ConnectionAddsKeeps, ConnectionLostKeeps,
     PausingKeeps, ResumingKeeps DEF ReceiversNext
<1>2. CASE UNCHANGED receiversVars
  BY <1>2 DEF receiversVars, lists, reactorVars, meanwhile, ReceiversInv, ReceiversTypeOK, HandlersListed,
     FlagsAgree, PauseReaches, ResumeReaches, Resuming, Unread
<1> QED
  BY <1>1, <1>2

LEMMA ReceiversInvHolds == ReceiversSpec => []ReceiversInv
BY ReceiversStart, ReceiversStep, PTL DEF ReceiversSpec

--------------------------------------------------------------------------------
(* When neither thread is busy and the reactor did not pause during the last resume, the
   receivers follow the flag of state.py, but for one that stays paused for each connection
   lost during the resume, or made around it with the old flag (events.py:17). *)
THEOREM StraysAreBounded == ReceiversSpec => []StraysBounded
<1>1. ReceiversInv => StraysBounded
  <2> SUFFICES ASSUME ReceiversInv, Quiet, ~overlapped
               PROVE  IF metricReceiversPaused THEN reading = {} ELSE Cardinality(open \ reading) <= strays
    BY DEF StraysBounded
  <2>1. CASE metricReceiversPaused
    BY <2>1 DEF ReceiversInv, PauseReaches, Quiet
  <2>2. CASE ~metricReceiversPaused
    BY <2>2 DEF ReceiversInv, ResumeReaches, Quiet, Unread, Few
  <2> QED
    BY <2>1, <2>2
<1> QED
  BY <1>1, ReceiversInvHolds, PTL

--------------------------------------------------------------------------------
(* The aggregation processor *)

(* What an aggregate's buffers are in a state of the specification. *)
Well(a) ==
  /\ DOMAIN values[a] \subseteq Intervals
  /\ values[a] \in [DOMAIN values[a] -> 1 .. MaxPoints]
  /\ active[a] \subseteq DOMAIN values[a]
  /\ tasks[a] = IF a \in buffers THEN 1 ELSE 0
  /\ a \in buffers <=> DOMAIN values[a] # {}

(* What an aggregate has computed from an interval, and what came for it. *)
Complete(a, i) ==
  /\ ~Old(i) /\ seen[a][i] > 0 => i \in DOMAIN values[a] /\ values[a][i] = seen[a][i]
  /\ seen[a][i] <= points
  /\ i \in DOMAIN values[a] => values[a][i] <= seen[a][i]

(* What is the same for all aggregates. *)
Flags == exists \in BOOLEAN /\ parsable \in BOOLEAN /\ rereading \in BOOLEAN /\ restored \in BOOLEAN
Numbers ==
  /\ now \in 0 .. MaxTime /\ mtime \in 1 .. MaxEdits + 1
  /\ content \subseteq Aggregates /\ rules \subseteq Aggregates
  /\ rules_last_read \in 1 .. mtime /\ opening \in 0 .. mtime /\ points \in 0 .. MaxPoints
Common == Flags /\ Numbers

Tables ==
  /\ buffers \subseteq Aggregates /\ tasks \in [Aggregates -> 0 .. 1]
  /\ DOMAIN values = Aggregates
  /\ active \in [Aggregates -> SUBSET Intervals] /\ unsent \in [Aggregates -> SUBSET Intervals]
  /\ seen \in [Aggregates -> [Intervals -> 0 .. MaxPoints]]

Wells == \A a \in Aggregates : Well(a)
Completes == \A a \in Aggregates, i \in Intervals : Complete(a, i)

(* IInv, aggregate by aggregate. *)
LEMMA PerAggregate == IInv <=> Common /\ Tables /\ Wells /\ Completes
<1>1. IInv => Common /\ Tables /\ Wells /\ Completes
  BY DEF IInv, TypeOK, OneTaskPerBuffer, WindowComplete, Counted, Common, Flags, Numbers, Tables, Wells,
         Well, Completes, Complete
<1>2. Common /\ Tables /\ Wells /\ Completes => IInv
  BY DEF IInv, TypeOK, OneTaskPerBuffer, WindowComplete, Counted, Common, Flags, Numbers, Tables, Wells,
         Well, Completes, Complete
<1> QED
  BY <1>1, <1>2

LEMMA PerAggregateNext == IInv' <=> Common' /\ Tables' /\ Wells' /\ Completes'
BY PerAggregate, PTL

(* The daemon starts without buffers. *)
LEMMA Initial == Init => IInv
<1> SUFFICES ASSUME Init PROVE IInv
  OBVIOUS
<1> USE AggregatorAssumption DEF Init
<1>1. Common
  <2>1. Flags
    BY DEF Flags
  <2>2. Numbers
    BY DEF Numbers
  <2> QED
    BY <2>1, <2>2 DEF Common
<1>2. Tables
  BY DEF Tables
<1>3. Wells
  BY DEF Wells, Well, Nothing
<1>4. Completes
  BY DEF Completes, Complete, Nothing
<1> QED
  BY <1>1, <1>2, <1>3, <1>4, PerAggregate

(* Steps that leave the buffers alone: the clock, the editors, and a read that ends
   without new rules.  As time passes, intervals only leave the window. *)
LEMMA OutsideStep ==
  ASSUME IInv, UNCHANGED <<bufferVars, points, unsent, seen>>, Common', now <= now'
  PROVE  IInv'
<1> USE DEF bufferVars
<1>1. Common /\ Tables /\ Wells /\ Completes
  BY PerAggregate
<1>2. Tables'
  BY <1>1 DEF Tables
<1>3. Wells'
  BY <1>1 DEF Wells, Well
<1>4. ASSUME NEW i \in Intervals, ~Old(i)' PROVE ~Old(i)
  BY <1>1, <1>4, AggregatorAssumption DEF Old, Common, Numbers, Intervals
<1>5. Completes'
  BY <1>1, <1>4 DEF Completes, Complete
<1> QED
  BY <1>2, <1>3, <1>5, PerAggregateNext

(* BufferManager.clear(): no aggregate has buffers, nothing was seen. *)
LEMMA ClearStep == ASSUME IInv, ReadRules PROVE IInv'
<1> USE AggregatorAssumption DEF ReadRules, Clear, fileVars
<1>1. Common /\ Tables /\ Wells /\ Completes
  BY PerAggregate
<1>2. Common'
  <2>1. Flags'
    BY <1>1 DEF Common, Flags
  <2>2. Numbers'
    BY <1>1 DEF Common, Numbers
  <2> QED
    BY <2>1, <2>2 DEF Common
<1>3. \A a \in Aggregates : tasks'[a] = 0 /\ values'[a] = Nothing /\ active'[a] = {}
  BY <1>1 DEF Tables, Wells, Well
<1>4. Tables'
  <2>1. tasks' \in [Aggregates -> 0 .. 1]
    BY <1>3
  <2> QED
    BY <2>1, <1>1 DEF Tables
<1>5. Wells'
  BY <1>3 DEF Wells, Well, Nothing
<1>6. Completes'
  BY <1>1, <1>3 DEF Completes, Complete, Nothing, Common, Numbers
<1> QED
  BY <1>2, <1>4, <1>5, <1>6, PerAggregateNext

(* compute_value() deletes what is old, and with the last buffer the task. *)
LEMMA ComputeStep == ASSUME IInv, NEW a \in Aggregates, ComputeValue(a) PROVE IInv'
<1> USE AggregatorAssumption DEF ComputeValue, fileVars, ruleVars
<1> DEFINE left == DOMAIN values[a] \ Aged(a)
<1>1. Common /\ Tables /\ Wells /\ Completes
  BY PerAggregate
<1>2. Common'
  <2>1. Flags'
    BY <1>1 DEF Common, Flags
  <2>2. Numbers'
    BY <1>1 DEF Common, Numbers
  <2> QED
    BY <2>1, <2>2 DEF Common
<1>3. a \in buffers /\ DOMAIN values[a] # {}
  BY <1>1 DEF Wells, Well
<1>4. /\ values'[a] = [i \in left |-> values[a][i]]
      /\ active'[a] = {}
      /\ \A b \in Aggregates \ {a} : values'[b] = values[b] /\ active'[b] = active[b]
  BY <1>1 DEF Tables
<1>5. \/ left = {} /\ tasks' = [tasks EXCEPT ![a] = 0] /\ buffers' = buffers \ {a}
      \/ left # {} /\ UNCHANGED <<tasks, buffers>>
  BY <1>1, <1>3 DEF Emptied, Wells, Well
<1>6. Tables'
  <2>1. tasks' \in [Aggregates -> 0 .. 1] /\ buffers' \subseteq Aggregates
    BY <1>1, <1>5 DEF Tables
  <2> QED
    BY <1>1, <2>1 DEF Tables
<1>7. ASSUME NEW b \in Aggregates PROVE Well(b)'
  <2>1. CASE b = a
    <3>1. /\ DOMAIN values'[a] = left /\ left \subseteq DOMAIN values[a]
          /\ values'[a] \in [left -> 1 .. MaxPoints]
      <4>1. values[a] \in [DOMAIN values[a] -> 1 .. MaxPoints]
        BY <1>1 DEF Wells, Well
      <4>2. left \subseteq DOMAIN values[a]
        OBVIOUS
      <4>3. \A i \in left : values[a][i] \in 1 .. MaxPoints
        BY <4>1, <4>2
      <4> HIDE DEF left
      <4> QED
        BY <4>2, <4>3, <1>4
    <3>2. tasks'[a] = IF a \in buffers' THEN 1 ELSE 0
      BY <1>1, <1>3, <1>5 DEF Tables, Wells, Well
    <3>3. a \in buffers' <=> left # {}
      BY <1>3, <1>5
    <3> QED
      BY <2>1, <3>1, <3>2, <3>3, <1>1, <1>4 DEF Wells, Well
  <2>2. CASE b # a
    BY <2>2, <1>1, <1>4, <1>5 DEF Tables, Wells, Well
  <2> QED
    BY <2>1, <2>2
<1>8. ASSUME NEW b \in Aggregates, NEW i \in Intervals PROVE Complete(b, i)'
  <2>1. Old(i)' <=> Old(i)
    BY DEF Old
  <2>2. CASE b = a
    BY <2>1, <2>2, <1>1, <1>4 DEF Completes, Complete, Aged
  <2>3. CASE b # a
    BY <2>1, <2>3, <1>1, <1>4 DEF Completes, Complete
  <2> QED
    BY <2>2, <2>3
<1> QED
  BY <1>2, <1>6, <1>7, <1>8, PerAggregateNext DEF Wells, Completes

(* A datapoint goes to the buffer of its interval in each aggregate of a matching rule,
   and is counted for those. *)
LEMMA ProcessStep ==
  ASSUME IInv, NEW matched \in SUBSET Aggregates, NEW i \in Intervals, Process(matched, i)
  PROVE  IInv'
<1> USE AggregatorAssumption DEF Process, fileVars, ruleVars
<1> DEFINE into == matched \cap rules
<1>1. Common /\ Tables /\ Wells /\ Completes
  BY PerAggregate
<1>2. Common'
  <2>1. Flags'
    BY <1>1 DEF Common, Flags
  <2>2. Numbers'
    BY <1>1 DEF Common, Numbers
  <2> QED
    BY <2>1, <2>2 DEF Common
<1>3. ASSUME NEW a \in Aggregates, a \notin into
      PROVE  /\ values'[a] = values[a] /\ active'[a] = active[a] /\ seen'[a] = seen[a]
             /\ unsent'[a] = unsent[a] /\ tasks'[a] = tasks[a] /\ (a \in buffers' <=> a \in buffers)
  BY <1>1, <1>3 DEF Tables
<1>4. ASSUME NEW a \in Aggregates, a \in into
      PROVE  /\ values'[a] = Input(a, i) /\ active'[a] = active[a] \cup {i}
             /\ seen'[a] = [seen[a] EXCEPT ![i] = @ + 1]
             /\ unsent'[a] = unsent[a] \cup {i} /\ tasks'[a] = 1 /\ a \in buffers'
  BY <1>1, <1>4 DEF Tables, Wells, Well, Activated
<1>5. ASSUME NEW a \in Aggregates, NEW j \in Intervals
      PROVE  seen[a][j] \in 0 .. points /\ points + 1 \in 0 .. MaxPoints
  BY <1>1 DEF Completes, Complete, Tables, Common, Numbers
<1>9. points \in Nat /\ MaxPoints \in Nat /\ points + 1 <= MaxPoints
  BY <1>1 DEF Common, Numbers
<1>6. Tables'
  <2>1. tasks' \in [Aggregates -> 0 .. 1]
    BY <1>1 DEF Tables, Wells, Well
  <2>2. active' \in [Aggregates -> SUBSET Intervals] /\ unsent' \in [Aggregates -> SUBSET Intervals]
    BY <1>1 DEF Tables, Activated
  <2>3. seen' \in [Aggregates -> [Intervals -> 0 .. MaxPoints]]
    <3>1. ASSUME NEW a \in Aggregates PROVE seen'[a] \in [Intervals -> 0 .. MaxPoints]
      <4>1. seen[a][i] + 1 \in 0 .. MaxPoints
        BY <1>5, <1>9
      <4> QED
        BY <1>1, <1>3, <1>4, <4>1 DEF Tables
    <3> QED
      BY <3>1
  <2> QED
    BY <1>1, <2>1, <2>2, <2>3 DEF Tables
<1>7. ASSUME NEW a \in Aggregates PROVE Well(a)'
  <2>1. CASE a \notin into
    BY <2>1, <1>1, <1>3 DEF Wells, Well
  <2>2. CASE a \in into
    <3>1. DOMAIN Input(a, i) = DOMAIN values[a] \cup {i}
      BY DEF Input
    <3>2. ASSUME NEW j \in DOMAIN values[a] \cup {i} PROVE Input(a, i)[j] \in 1 .. MaxPoints
      <4>1. CASE j \notin DOMAIN values[a]
        BY <4>1, <1>9 DEF Input
      <4>2. CASE j \in DOMAIN values[a]
        <5>1. values[a][j] \in 1 .. points
          <6>1. j \in Intervals /\ values[a][j] \in 1 .. MaxPoints
            BY <4>2, <1>1 DEF Wells, Well
          <6>2. values[a][j] <= seen[a][j] /\ seen[a][j] \in 0 .. points
            BY <4>2, <6>1, <1>1, <1>5 DEF Completes, Complete
          <6> QED
            BY <6>1, <6>2, <1>9
        <5> QED
          BY <4>2, <5>1, <1>9 DEF Input
      <4> QED
        BY <4>1, <4>2
    <3>3. Input(a, i) \in [DOMAIN values[a] \cup {i} -> 1 .. MaxPoints]
      BY <3>2 DEF Input
    <3> QED
      BY <2>2, <3>1, <3>3, <1>1, <1>4 DEF Wells, Well
  <2> QED
    BY <2>1, <2>2
<1>8. ASSUME NEW a \in Aggregates, NEW j \in Intervals PROVE Complete(a, j)'
  <2>1. Old(j)' <=> Old(j)
    BY DEF Old
  <2>2. Complete(a, j) /\ seen[a][j] \in 0 .. points /\ points' = points + 1
    BY <1>1, <1>5 DEF Completes
  <2>3. CASE a \notin into \/ j # i
    <3>1. /\ seen'[a][j] = seen[a][j]
          /\ j \in DOMAIN values'[a] <=> j \in DOMAIN values[a]
      BY <2>3, <1>1, <1>3, <1>4 DEF Tables, Input
    <3>2. j \in DOMAIN values[a] => values'[a][j] = values[a][j]
      BY <2>3, <1>3, <1>4 DEF Input
    <3> QED
      BY <2>1, <2>2, <3>1, <3>2, <1>9 DEF Complete
  <2>4. CASE a \in into /\ j = i
    <3>1. seen'[a][j] = seen[a][j] + 1 /\ points' = points + 1
      BY <2>4, <1>1, <1>4 DEF Tables
    <3>2. CASE j \in DOMAIN values[a]
      <4>1. values'[a][j] = values[a][j] + 1 /\ j \in DOMAIN values'[a]
        BY <2>4, <3>2, <1>4 DEF Input
      <4>2. values[a][j] \in 1 .. seen[a][j]
        BY <3>2, <1>1, <1>5 DEF Wells, Well, Completes, Complete
      <4>3. ~Old(j) => values[a][j] = seen[a][j]
        BY <4>2, <1>1, <1>5 DEF Completes, Complete
      <4> QED
        BY <2>1, <3>1, <4>1, <4>2, <4>3, <1>1, <1>5, <1>9 DEF Complete
    <3>3. CASE j \notin DOMAIN values[a]
      <4>1. values'[a][j] = 1 /\ j \in DOMAIN values'[a]
        BY <2>4, <3>3, <1>4 DEF Input
      <4>2. ~Old(j) => seen[a][j] = 0
        BY <3>3, <1>1, <1>5 DEF Completes, Complete
      <4> QED
        BY <2>1, <3>1, <4>1, <4>2, <1>1, <1>5, <1>9 DEF Complete
    <3> QED
      BY <3>2, <3>3
  <2> QED
    BY <2>3, <2>4
<1> QED
  BY <1>2, <1>6, <1>7, <1>8, PerAggregateNext DEF Wells, Completes

(* Every step keeps the invariant. *)
LEMMA Step == IInv /\ [Next]_vars => IInv'
<1> SUFFICES ASSUME IInv, [Next]_vars PROVE IInv'
  OBVIOUS
<1> USE AggregatorAssumption DEF fileVars, ruleVars, bufferVars, history
<1>0. Common
  BY PerAggregate
<1>1. CASE Tick
  <2>1. Flags'
    BY <1>0, <1>1 DEF Tick, Common, Flags
  <2>2. Numbers' /\ now <= now'
    BY <1>0, <1>1 DEF Tick, Common, Numbers
  <2>3. Common'
    BY <2>1, <2>2 DEF Common
  <2> QED
    BY <1>1, <2>2, <2>3, OutsideStep DEF Tick
<1>2. CASE Edit \/ RemoveFile \/ Restore
  <2>1. Flags'
    BY <1>0, <1>2 DEF Edit, RemoveFile, Restore, Common, Flags
  <2>2. Numbers' /\ now <= now'
    BY <1>0, <1>2 DEF Edit, RemoveFile, Restore, Common, Numbers
  <2>3. Common'
    BY <2>1, <2>2 DEF Common
  <2> QED
    BY <1>2, <2>2, <2>3, OutsideStep DEF Edit, RemoveFile, Restore
<1>3. CASE \E matched \in SUBSET Aggregates \ {{}}, i \in Intervals : Process(matched, i)
  BY <1>3, ProcessStep
<1>4. CASE Compute
  BY <1>4, ComputeStep DEF Compute
<1>5. CASE ReadGone \/ ReadUnmodified \/ ReadStat \/ ReadRaises
  <2>1. Flags'
    BY <1>0, <1>5 DEF ReadGone, ReadUnmodified, ReadStat, ReadRaises, Reread, Common, Flags
  <2>2. Numbers' /\ now <= now'
    BY <1>0, <1>5 DEF ReadGone, ReadUnmodified, ReadStat, ReadRaises, Reread, Common, Numbers
  <2>3. Common'
    BY <2>1, <2>2 DEF Common
  <2> QED
    BY <1>5, <2>2, <2>3, OutsideStep DEF ReadGone, ReadUnmodified, ReadStat, ReadRaises, Reread
<1>6. CASE ReadRules
  BY <1>6, ClearStep
<1>7. CASE Idle \/ UNCHANGED vars
  <2>1. Flags'
    BY <1>0, <1>7 DEF Idle, vars, Common, Flags
  <2>2. Numbers' /\ now <= now'
    BY <1>0, <1>7 DEF Idle, vars, Common, Numbers
  <2>3. Common'
    BY <2>1, <2>2 DEF Common
  <2> QED
    BY <1>7, <2>2, <2>3, OutsideStep DEF Idle, vars
<1> QED
  BY <1>1, <1>2, <1>3, <1>4, <1>5, <1>6, <1>7 DEF Next, ReadTask

(* IInv always holds. *)
THEOREM Invariant == Spec => []IInv
<1>1. Init => IInv
  BY Initial
<1>2. IInv /\ [Next]_vars => IInv'
  BY Step
<1> QED
  BY <1>1, <1>2, PTL DEF Spec

(* The types of Aggregator's state. *)
THEOREM TypeCorrect == Spec => []TypeOK
<1>1. IInv => TypeOK
  BY DEF IInv
<1> QED
  BY <1>1, Invariant, PTL

(* However buffers are filled, aged, cleared and allocated again, an aggregate with buffers
   has one compute task and one without has none. *)
THEOREM OneTask == Spec => []OneTaskPerBuffer
<1>1. IInv => OneTaskPerBuffer
  BY DEF IInv
<1> QED
  BY <1>1, Invariant, PTL

(* An interval in the window has all the points that came for it since the rules were
   read, for every length of the window. *)
THEOREM WindowAlwaysComplete == Spec => []WindowComplete
<1>1. IInv => WindowComplete
  BY DEF IInv
<1> QED
  BY <1>1, Invariant, PTL
==================================================================================
