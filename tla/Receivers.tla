------------------------------- MODULE Receivers -------------------------------
(***************************************************************************)
(* Flow control with receivers that come and go (carbon/lib/carbon/         *)
(* protocols.py and events.py).  The reactor pauses the receivers, accepts  *)
(* and closes connections; the writer thread resumes the receivers, walking *)
(* the live list of handlers that the reactor changes.  MetricCache decides *)
(* when; here the cache may be full, and have space again, at any time.     *)
(***************************************************************************)
EXTENDS Naturals, Sequences, SequencesExt, FiniteSets

CONSTANTS
  Connections, None,
  MaxStrays  \* a bound of the model: what may disturb one resume

ASSUME ReceiverAssumption ==
  None \notin Connections /\ IsFiniteSet(Connections) /\ MaxStrays \in Nat

VARIABLES
  cacheTooFull, metricReceiversPaused,  \* the flags of state.py
  pauseHandlers, resumeHandlers,        \* the receivers in the lists of the events
  open,        \* the connections there are
  reading,     \* those whose transport produces data
  pcR, turnR,  \* the reactor: what it does, and how far its list iterator is
  new, sawPaused,  \* the connection being made, and what it read of the flag
  pcW, turnW,  \* the writer: the same
  strays,      \* since the last resume began: the connections lost during it, and those
               \* made during it that had read the old flag
  overlapped   \* the reactor was pausing while the writer resumed

reactorVars == <<pcR, turnR, new, sawPaused>>
lists == <<pauseHandlers, resumeHandlers>>
meanwhile == <<strays, overlapped>>
receiversVars == <<cacheTooFull, metricReceiversPaused, lists, open, reading, reactorVars,
          pcW, turnW, meanwhile>>

ReceiversInit ==
  /\ cacheTooFull = FALSE /\ metricReceiversPaused = FALSE
  /\ pauseHandlers = <<>> /\ resumeHandlers = <<>>
  /\ open = {} /\ reading = {}
  /\ pcR = "idle" /\ turnR = 1 /\ new = None /\ sawPaused = FALSE
  /\ pcW = "idle" /\ turnW = 1
  /\ strays = 0 /\ overlapped = FALSE

Resuming == pcW # "idle"

\* An event has each handler once.
addHandler(handlers, c) == IF Contains(handlers, c) THEN handlers ELSE Append(handlers, c)
removeHandler(handlers, c) ==
  IF Contains(handlers, c)
  THEN RemoveAt(handlers, CHOOSE i \in DOMAIN handlers : handlers[i] = c) ELSE handlers

Disturb == strays < MaxStrays /\ strays' = strays + 1

--------------------------------------------------------------------------------
(* The reactor thread *)

\* connectionMade(): `if state.metricReceiversPaused` ...
ConnectionMade(c) ==
  /\ pcR = "idle" /\ c \notin open
  /\ open' = open \cup {c} /\ reading' = reading \cup {c}
  /\ new' = c /\ sawPaused' = metricReceiversPaused /\ pcR' = "made"
  /\ IF Resuming /\ metricReceiversPaused THEN Disturb ELSE UNCHANGED strays
  /\ UNCHANGED <<cacheTooFull, metricReceiversPaused, lists, turnR, pcW, turnW, overlapped>>

\* ... pauseReceiving() ...
ConnectionPauses ==
  /\ pcR = "made"
  /\ reading' = IF sawPaused THEN reading \ {new} ELSE reading
  /\ pcR' = "adding"
  /\ UNCHANGED <<cacheTooFull, metricReceiversPaused, lists, open, turnR, new, sawPaused,
                 pcW, turnW, meanwhile>>

\* ... and addHandler() for both events.
ConnectionAdds ==
  /\ pcR = "adding"
  /\ pauseHandlers' = addHandler(pauseHandlers, new)
  /\ resumeHandlers' = addHandler(resumeHandlers, new)
  /\ pcR' = "idle" /\ new' = None
  /\ UNCHANGED <<cacheTooFull, metricReceiversPaused, open, reading, turnR, sawPaused,
                 pcW, turnW, meanwhile>>

\* connectionLost(): both handlers are removed from lists that may be walked.
ConnectionLost(c) ==
  /\ pcR = "idle" /\ c \in open
  /\ open' = open \ {c} /\ reading' = reading \ {c}
  /\ pauseHandlers' = removeHandler(pauseHandlers, c)
  /\ resumeHandlers' = removeHandler(resumeHandlers, c)
  /\ IF Resuming THEN Disturb ELSE UNCHANGED strays
  /\ UNCHANGED <<cacheTooFull, metricReceiversPaused, reactorVars, pcW, turnW,
                 overlapped>>

\* store() sheds a point, of a receiver or of carbon's own: cacheFull sets its flag and
\* calls pauseReceivingMetrics.
CacheFull ==
  /\ pcR = "idle"
  /\ cacheTooFull' = TRUE
  /\ pcR' = "flag"
  /\ overlapped' = (overlapped \/ Resuming)
  /\ UNCHANGED <<metricReceiversPaused, lists, open, reading, turnR, new, sawPaused,
                 pcW, turnW, strays>>

PauseFlag ==
  /\ pcR = "flag"
  /\ metricReceiversPaused' = TRUE
  /\ pcR' = "pausing" /\ turnR' = 1
  /\ UNCHANGED <<cacheTooFull, lists, open, reading, new, sawPaused, pcW, turnW, meanwhile>>

\* The next turn of `for handler in self.handlers` of the event.
PauseNext ==
  /\ pcR = "pausing"
  /\ IF turnR <= Len(pauseHandlers)
     THEN /\ reading' = reading \ {pauseHandlers[turnR]}
          /\ turnR' = turnR + 1 /\ UNCHANGED pcR
     ELSE /\ pcR' = "idle" /\ turnR' = 1 /\ UNCHANGED reading
  /\ UNCHANGED <<cacheTooFull, metricReceiversPaused, lists, open, new, sawPaused,
                 pcW, turnW, meanwhile>>

--------------------------------------------------------------------------------
(* The writer thread *)

\* _check_available_space() after a pop: cacheSpaceAvailable clears its flag ...
SpaceAvailable ==
  /\ pcW = "idle" /\ cacheTooFull
  /\ cacheTooFull' = FALSE
  /\ pcW' = "flag"
  /\ strays' = IF new # None /\ sawPaused THEN 1 ELSE 0
  /\ overlapped' = (pcR \in {"flag", "pausing"})
  /\ UNCHANGED <<metricReceiversPaused, lists, open, reading, reactorVars, turnW>>

\* ... and calls resumeReceivingMetrics.
ResumeFlag ==
  /\ pcW = "flag"
  /\ metricReceiversPaused' = FALSE
  /\ pcW' = "resuming" /\ turnW' = 1
  /\ UNCHANGED <<cacheTooFull, lists, open, reading, reactorVars, meanwhile>>

\* Mutant: the last handler of the list is not called.
ResumeNext_ButLast ==
  /\ pcW = "resuming"
  /\ IF turnW < Len(resumeHandlers)
     THEN /\ reading' = reading \cup {resumeHandlers[turnW]}
          /\ turnW' = turnW + 1 /\ UNCHANGED pcW
     ELSE /\ pcW' = "idle" /\ turnW' = 1 /\ UNCHANGED reading
  /\ UNCHANGED <<cacheTooFull, metricReceiversPaused, lists, open, reactorVars, meanwhile>>

ResumeNext ==
  /\ pcW = "resuming"
  /\ IF turnW <= Len(resumeHandlers)
     THEN /\ reading' = reading \cup {resumeHandlers[turnW]}
          /\ turnW' = turnW + 1 /\ UNCHANGED pcW
     ELSE /\ pcW' = "idle" /\ turnW' = 1 /\ UNCHANGED reading
  /\ UNCHANGED <<cacheTooFull, metricReceiversPaused, lists, open, reactorVars, meanwhile>>

ReceiversNext ==
  \/ \E c \in Connections : ConnectionMade(c) \/ ConnectionLost(c)
  \/ ConnectionPauses \/ ConnectionAdds
  \/ CacheFull \/ PauseFlag \/ PauseNext
  \/ SpaceAvailable \/ ResumeFlag \/ ResumeNext

ReceiversSpec == ReceiversInit /\ [][ReceiversNext]_receiversVars

--------------------------------------------------------------------------------
(* Properties *)

Quiet == pcR = "idle" /\ pcW = "idle"

(* When neither thread is busy and the reactor did not pause during the last resume,
   the receivers follow the flag, but for one that stays paused for each connection
   that the reactor lost during the resume (the list shifts under the walk) or made
   around it (the flag it read was old). *)
StraysBounded ==
  Quiet /\ ~overlapped =>
    IF metricReceiversPaused THEN reading = {} ELSE Cardinality(open \ reading) <= strays
================================================================================
