------------------------------- MODULE PageProofs -------------------------------
(***************************************************************************)
(* Three parts of the pages of graphite-web, for all names, graphs, targets *)
(* and bounds: a dashboard's refresh task is in the runner once, what is    *)
(* stored under a name knows itself by that name, and the selection of the  *)
(* composer's list is one of places of the list.                            *)
(***************************************************************************)
EXTENDS AutoRefresh, DashboardSession, Composer, SequenceLemmas

--------------------------------------------------------------------------------
(* The refresh task *)

(* The states the runner can be in while the button is p. *)
Record == [tasks : Nat, removeQueue : Nat, thread : BOOLEAN, running : BOOLEAN, due : BOOLEAN]
InOrder(t, p) ==
  /\ t \in Record
  /\ p => t.running /\ t.tasks = t.removeQueue + 1
  /\ ~p => ~t.running /\ t.tasks = t.removeQueue
  /\ t.thread <=> t.tasks > 0

(* The invariant is about the runner and the button alone. *)
LEMMA AsRunner == RefreshInv <=> pressed \in BOOLEAN /\ InOrder(Runner, pressed)
<1>1. Runner \in Record <=> /\ tasks \in Nat /\ removeQueue \in Nat /\ thread \in BOOLEAN
                           /\ running \in BOOLEAN /\ due \in BOOLEAN
  BY DEF Runner, Record
<1>2. /\ Runner.tasks = tasks /\ Runner.removeQueue = removeQueue
      /\ Runner.thread = thread /\ Runner.running = running
  BY DEF Runner
<1>3. CASE pressed \in BOOLEAN /\ tasks \in Nat /\ removeQueue \in Nat /\ running \in BOOLEAN
  BY <1>1, <1>2, <1>3 DEF RefreshInv, RefreshTypeOK, OneRefreshTask, InOrder
<1>4. CASE ~(pressed \in BOOLEAN /\ tasks \in Nat /\ removeQueue \in Nat /\ running \in BOOLEAN)
  BY <1>1, <1>4 DEF RefreshInv, RefreshTypeOK, InOrder
<1> QED
  BY <1>3, <1>4

(* Starting and stopping the task does what it says, from any state. *)
LEMMA Starting ==
  ASSUME NEW p \in BOOLEAN, NEW t, InOrder(t, p)
  PROVE  InOrder(startTask(t), TRUE)
<1> USE DEF InOrder, Record
<1>1. CASE t.running
  <2>1. p
    BY <1>1
  <2>2. startTask(t) = t
    BY <1>1 DEF startTask
  <2> QED
    BY <2>1, <2>2
<1>2. CASE ~t.running
  <2>1. ~p /\ t.tasks = t.removeQueue
    BY <1>2
  <2>2. startTask(t) = [tasks |-> t.tasks + 1, removeQueue |-> t.removeQueue, thread |-> TRUE,
                        running |-> TRUE, due |-> TRUE]
    BY <1>2 DEF startTask
  <2> QED
    BY <2>1, <2>2
<1> QED
  BY <1>1, <1>2

LEMMA Stopping ==
  ASSUME NEW p \in BOOLEAN, NEW t, InOrder(t, p)
  PROVE  InOrder(stopTask(t), FALSE)
<1> USE DEF InOrder, Record
<1>1. CASE t.running
  <2>1. p /\ t.tasks = t.removeQueue + 1
    BY <1>1
  <2>2. stopTask(t) = [tasks |-> t.tasks, removeQueue |-> t.removeQueue + 1, thread |-> t.thread,
                       running |-> FALSE, due |-> t.due]
    BY <1>1 DEF stopTask
  <2> QED
    BY <2>1, <2>2
<1>2. CASE ~t.running
  <2>1. ~p
    BY <1>2
  <2>2. stopTask(t) = t
    BY <1>2 DEF stopTask
  <2> QED
    BY <2>1, <2>2
<1> QED
  BY <1>1, <1>2

LEMMA Restarting ==
  ASSUME NEW p \in BOOLEAN, NEW t, InOrder(t, p)
  PROVE  InOrder(Restart(t), TRUE)
BY Starting, Stopping DEF Restart

(* The button's toggle() works on the state the button is in, or on the one it gets: in
   applyState() the task is started or stopped before the button is toggled. *)
LEMMA Toggling ==
  ASSUME pressed \in BOOLEAN, NEW s \in BOOLEAN, NEW t, InOrder(t, pressed) \/ InOrder(t, s)
  PROVE  InOrder(ToggleTo(t, s), s)
<1>1. CASE s = pressed
  BY <1>1 DEF ToggleTo
<1>2. CASE s /\ ~pressed
  <2>1. ToggleTo(t, s) = startTask(t)
    BY <1>2 DEF ToggleTo
  <2>2. s = TRUE
    BY <1>2
  <2> QED
    BY <2>1, <2>2, Starting
<1>3. CASE ~s /\ pressed
  <2>1. ToggleTo(t, s) = stopTask(t)
    BY <1>3 DEF ToggleTo
  <2>2. s = FALSE
    BY <1>3
  <2> QED
    BY <2>1, <2>2, Stopping
<1> QED
  BY <1>1, <1>2, <1>3

(* What SetRunner() makes of the runner. *)
LEMMA SettingRunner ==
  ASSUME NEW t, SetRunner(t), pressed' \in BOOLEAN, InOrder(t, pressed')
  PROVE  RefreshInv'
BY DEF SetRunner, InOrder, Record, RefreshInv, RefreshTypeOK, OneRefreshTask

(* The dashboard starts without the task. *)
LEMMA NotRefreshing == RefreshInit => RefreshInv
<1> SUFFICES ASSUME RefreshInit PROVE RefreshInv
  OBVIOUS
<1>1. tasks = 0 /\ removeQueue = 0
  BY DEF RefreshInit
<1>2. ~thread /\ ~running /\ ~pressed /\ {thread, running, due, pressed} \subseteq BOOLEAN
  BY DEF RefreshInit
<1>3. running = pressed
  BY DEF RefreshInit
<1>4. ~(tasks > 0)
  BY <1>1
<1> QED
  BY <1>1, <1>2, <1>3, <1>4 DEF RefreshInv, RefreshTypeOK, OneRefreshTask

(* A turn of the runner empties the queue. *)
LEMMA RunnerTurn == RefreshInv /\ RunTasks => RefreshInv'
<1> SUFFICES ASSUME RefreshInv, RunTasks PROVE RefreshInv'
  OBVIOUS
<1> USE DEF RefreshInv, RefreshTypeOK, OneRefreshTask
<1>1. tasks' = (IF pressed THEN 1 ELSE 0) /\ removeQueue' = 0
  BY DEF RunTasks
<1>2. due' \in BOOLEAN
  <2>1. CASE tasks' > 0 /\ due
    BY <2>1 DEF RunTasks
  <2>2. CASE ~(tasks' > 0 /\ due)
    BY <2>2 DEF RunTasks
  <2> QED
    BY <2>1, <2>2
<1>3. thread' \in BOOLEAN /\ (thread' <=> tasks' > 0)
  BY DEF RunTasks
<1>4. UNCHANGED <<running, pressed>>
  BY DEF RunTasks
<1> QED
  BY <1>1, <1>2, <1>3, <1>4

(* Every step keeps the invariant. *)
LEMMA RefreshStep == RefreshInv /\ [RefreshNext]_refreshVars => RefreshInv'
<1> SUFFICES ASSUME RefreshInv, [RefreshNext]_refreshVars PROVE RefreshInv'
  OBVIOUS
<1>0. pressed \in BOOLEAN /\ InOrder(Runner, pressed)
  BY AsRunner
<1>1. CASE PressButton
  <2>1. pressed' \in BOOLEAN /\ SetRunner(ToggleTo(Runner, pressed'))
    BY <1>0, <1>1 DEF PressButton
  <2>2. InOrder(ToggleTo(Runner, pressed'), pressed')
    BY <1>0, <2>1, Toggling
  <2> QED
    BY <2>1, <2>2, SettingRunner
<1>2. CASE UpdateAutoRefresh
  <2>1. pressed' = pressed
    BY <1>2 DEF UpdateAutoRefresh
  <2>2. CASE pressed
    <3>1. SetRunner(Restart(Runner))
      BY <1>2, <2>2 DEF UpdateAutoRefresh
    <3>2. InOrder(Restart(Runner), TRUE)
      BY <1>0, Restarting
    <3>3. pressed' = TRUE
      BY <1>0, <2>1, <2>2
    <3> QED
      BY <3>1, <3>2, <3>3, SettingRunner
  <2>3. CASE ~pressed
    <3>1. SetRunner(Runner)
      BY <1>2, <2>3 DEF UpdateAutoRefresh
    <3> QED
      BY <1>0, <2>1, <3>1, SettingRunner
  <2> QED
    BY <2>2, <2>3
<1>3. ASSUME NEW enabled \in BOOLEAN, ApplyState(enabled)
      PROVE  RefreshInv'
  <2> DEFINE first == IF enabled THEN Restart(Runner) ELSE stopTask(Runner)
             toggled == ToggleTo(first, enabled)
             last == IF enabled THEN Restart(toggled) ELSE toggled
  <2>1. pressed' = enabled /\ SetRunner(last)
    BY <1>3 DEF ApplyState
  <2>2. InOrder(first, enabled)
    BY <1>0, Restarting, Stopping
  <2> HIDE DEF first
  <2>3. InOrder(toggled, enabled)
    BY <1>0, <2>2, Toggling
  <2> HIDE DEF toggled
  <2>4. InOrder(last, enabled)
    BY <2>3, Restarting
  <2> HIDE DEF last
  <2> QED
    BY <2>1, <2>4, SettingRunner
<1>4. CASE Elapse
  BY <1>4 DEF Elapse, RefreshInv, RefreshTypeOK, OneRefreshTask
<1>5. CASE RunTasks
  BY <1>5, RunnerTurn
<1>6. CASE UNCHANGED <<runner, pressed>>
  BY <1>6 DEF runner, RefreshInv, RefreshTypeOK, OneRefreshTask
<1>7. ASSUME \/ RefreshButton \/ TimeRangeUpdated
             \/ \E new \in SUBSET Graphs \ {{}}, ranges \in [Graphs -> {NoRange, Brought(range)}] :
                  NewRecords(new, ranges)
             \/ \E g \in Graphs : MailGraph(g)
             \/ \E g \in Graphs, r \in Ranges : ImageLoaded(g, r) \/ ImageFails(g, r)
      PROVE  UNCHANGED <<runner, pressed>>
  BY <1>7 DEF RefreshButton, TimeRangeUpdated, NewRecords, MailGraph, ImageLoaded, ImageFails
<1>8. CASE UNCHANGED refreshVars
  BY <1>6, <1>8 DEF refreshVars
<1> QED
  BY <1>1, <1>2, <1>3, <1>4, <1>5, <1>6, <1>7, <1>8 DEF RefreshNext

(* The invariant holds in every state. *)
THEOREM RefreshInvHolds == RefreshSpec => []RefreshInv
BY NotRefreshing, RefreshStep, PTL DEF RefreshSpec

(* refreshTask is in the runner once while the auto-refresh button is pressed, and not
   at all otherwise, however it was stopped and started. *)
THEOREM OneTask == RefreshSpec => []OneRefreshTask
<1>1. RefreshInv => OneRefreshTask
  BY DEF RefreshInv
<1> QED
  BY <1>1, RefreshInvHolds, PTL

(* The refresh task does not run while the button is released. *)
THEOREM NoRefreshAfterRelease == RefreshSpec => RefreshOnlyWhilePressed
<1>1. RefreshInv /\ [RefreshNext]_refreshVars => [RunTasks /\ images' # images => pressed]_refreshVars
  <2> SUFFICES ASSUME RefreshInv, RunTasks, images' # images PROVE pressed
    OBVIOUS
  <2>1. tasks' > 0
    BY DEF RunTasks
  <2>2. tasks' = tasks - removeQueue
    BY DEF RunTasks
  <2> QED
    BY <2>1, <2>2 DEF RefreshInv, RefreshTypeOK, OneRefreshTask
<1> QED
  BY <1>1, RefreshInvHolds, PTL DEF RefreshSpec, RefreshOnlyWhilePressed

--------------------------------------------------------------------------------
(* The names *)

Named == All \cup {None}
AnyState == Named \cup {Absent}
RequestType == [kind : {"save", "load", "share", "delete", "login", "logout"}, name : Named,
                state : AnyState, served : BOOLEAN, heard : BOOLEAN]

SessionTypeOK ==
  /\ page \in Named /\ name \in Named /\ hash \in Named
  /\ may \in BOOLEAN /\ saveEnabled \in BOOLEAN /\ loggedIn \in BOOLEAN
  /\ requests \subseteq RequestType
  /\ stored \in [All -> AnyState]

\* A save that is on its way carries the name in its URL, and a dashboard is shared with
\* the first request only as long as it has no name.
Proper(r) ==
  /\ r.kind = "load" => r.name \in All
  /\ r.kind = "share" /\ r.served => r.state \in Temps
  /\ ~r.served => /\ r.kind = "save" => r.state = r.name
                  /\ r.kind = "share" => r.state = None
SentUnderItsName == \A r \in requests : Proper(r)

SessionInv == SessionTypeOK /\ SentUnderItsName /\ StoredUnderItsName /\ SaveButtonTrue

\* setDashboardName() leaves a name of the dashboard and a button that agree.
LEMMA NameSet ==
  ASSUME SessionInv, NEW n \in Named, setDashboardName(n)
  PROVE  /\ name' = n /\ name' \in Named /\ hash' \in Named /\ saveEnabled' \in BOOLEAN
         /\ saveEnabled' <=> (name' # None /\ may)
BY Zenon DEF SessionInv, SessionTypeOK, setDashboardName, changeHash

\* A request that the page sends keeps the requests as they should be.
LEMMA SendKeeps ==
  ASSUME SessionInv, NEW kind, NEW n \in Named, NEW state \in AnyState,
         kind \in {"save", "load", "share", "delete", "login", "logout"},
         kind = "load" => n \in All,
         kind = "save" => state = n, kind = "share" => state = None,
         Send(Request(kind, n, state))
  PROVE  requests' \subseteq RequestType /\ SentUnderItsName'
<1> DEFINE new == Request(kind, n, state)
<1>1. new \in RequestType /\ new.kind = kind /\ new.name = n /\ new.state = state
      /\ new.served = FALSE
  BY DEF Request, RequestType
<1>2. requests' = requests \cup {new}
  BY DEF Send
<1>3. requests \subseteq RequestType /\ SentUnderItsName
  BY DEF SessionInv, SessionTypeOK
<1> HIDE DEF new
<1>4. requests' \subseteq RequestType
  BY <1>1, <1>2, <1>3
<1>5. SentUnderItsName'
  BY <1>1, <1>2, <1>3 DEF SentUnderItsName, Proper
<1> QED
  BY <1>4, <1>5

\* So does an answer.
LEMMA AnsweredKeeps ==
  ASSUME SessionInv, NEW r \in requests, NEW state \in AnyState, Answered(r, state),
         r.kind = "share" => state \in Temps
  PROVE  requests' \subseteq RequestType /\ SentUnderItsName'
<1> DEFINE answer == [r EXCEPT !.served = TRUE, !.state = state]
<1>1. r \in RequestType /\ Proper(r)
  BY DEF SessionInv, SessionTypeOK, SentUnderItsName
<1>2. answer \in RequestType /\ answer.served /\ answer.state = state
      /\ answer.kind = r.kind /\ answer.name = r.name
  BY <1>1 DEF RequestType
<1>3. \A q \in requests' : q \in requests \/ q = answer
  BY DEF Answered
<1> HIDE DEF answer
<1>4. Proper(answer)
  BY <1>1, <1>2 DEF Proper
<1> QED
  BY <1>2, <1>3, <1>4 DEF SessionInv, SessionTypeOK, SentUnderItsName

LEMMA InitSession == Init => SessionInv
BY DEF Init, SessionInv, SessionTypeOK, SentUnderItsName, StoredUnderItsName,
       SaveButtonTrue, AnyState, Named, All

\* A reload forgets answers; what was sent and is not served yet stays as it is.
LEMMA ReloadKeeps ==
  ASSUME SessionInv, Reload
  PROVE  SessionInv'
<1> DEFINE initial == IF page = None THEN Absent ELSE stored[page]
           title   == IF initial = Absent THEN None ELSE initial
           named   == title # None /\ loggedIn
           now     == IF named THEN title ELSE hash
           left    == {[r EXCEPT !.heard = FALSE] : r \in {q \in requests : ~q.served}}
           asked   == IF now = None THEN {} ELSE {Request("load", now, None)}
<1>1. title \in Named
  BY DEF SessionInv, SessionTypeOK, AnyState, Named
<1>2. now \in Named
  BY <1>1 DEF SessionInv, SessionTypeOK
<1>3. /\ name' = title /\ may' = loggedIn /\ saveEnabled' = named /\ hash' = now
      /\ requests' = left \cup asked /\ UNCHANGED <<page, server>>
  BY Zenon DEF Reload
<1>4. \A q \in left : q \in RequestType /\ Proper(q)
  <2>1. TAKE q \in left
  <2>2. PICK r \in requests : ~r.served /\ q = [r EXCEPT !.heard = FALSE]
    BY <2>1
  <2>3. r \in RequestType /\ Proper(r)
    BY <2>2 DEF SessionInv, SessionTypeOK, SentUnderItsName
  <2>4. /\ q \in RequestType
        /\ q.served = r.served /\ q.kind = r.kind /\ q.state = r.state /\ q.name = r.name
    BY <2>2, <2>3 DEF RequestType
  <2> QED
    BY <2>3, <2>4 DEF Proper
<1>5. \A q \in asked : q \in RequestType /\ Proper(q)
  <2>1. TAKE q \in asked
  <2>2. q = Request("load", now, None) /\ now \in All
    BY <1>2, <2>1 DEF Named
  <2>3. /\ q \in RequestType
        /\ q.kind = "load" /\ q.name = now
    BY <1>2, <2>2 DEF Request, RequestType, AnyState, Named
  <2> QED
    BY <2>2, <2>3 DEF Proper
<1> HIDE DEF left, asked, now, title, initial
<1>6. requests' \subseteq RequestType /\ SentUnderItsName'
  BY <1>3, <1>4, <1>5 DEF SentUnderItsName
<1>7. saveEnabled' \in BOOLEAN /\ may' \in BOOLEAN /\ SaveButtonTrue'
  BY <1>3 DEF SessionInv, SessionTypeOK, SaveButtonTrue
<1>8. page' \in Named /\ loggedIn' \in BOOLEAN /\ stored' \in [All -> AnyState] /\ StoredUnderItsName'
  BY <1>3 DEF SessionInv, SessionTypeOK, StoredUnderItsName, server
<1> QED
  BY <1>1, <1>2, <1>3, <1>6, <1>7, <1>8 DEF SessionInv, SessionTypeOK

LEMMA NextSession == SessionInv /\ [Next]_vars => SessionInv'
<1> SUFFICES ASSUME SessionInv, [Next]_vars
             PROVE  SessionInv'
  OBVIOUS
<1> USE DEF SessionInv
<1> DEFINE ServerKept == page' \in Named /\ loggedIn' \in BOOLEAN
                         /\ stored' \in [All -> AnyState] /\ StoredUnderItsName'
           NameKept == /\ name' \in Named /\ hash' \in Named /\ may' \in BOOLEAN
                       /\ saveEnabled' \in BOOLEAN /\ SaveButtonTrue'
           RequestsKept == requests' \subseteq RequestType /\ SentUnderItsName'
<1>0. ServerKept /\ NameKept /\ RequestsKept => SessionInv'
  BY DEF SessionTypeOK
\* The parts that a step leaves alone.
<1>1. UNCHANGED <<page, server>> => ServerKept
  BY DEF SessionTypeOK, StoredUnderItsName, server
<1>2. UNCHANGED <<name, may, saveEnabled, hash>> => NameKept
  BY DEF SessionTypeOK, SaveButtonTrue
<1>3. \A r \in requests : requests' = requests \ {r} => RequestsKept
  BY DEF SessionTypeOK, SentUnderItsName
<1>4. requests' = requests => RequestsKept
  BY DEF SessionTypeOK, SentUnderItsName
<1>5. ASSUME NEW n \in Named, setDashboardName(n), UNCHANGED may
      PROVE  NameKept
  BY <1>5, NameSet DEF SessionTypeOK, SaveButtonTrue
<1>6. CASE UNCHANGED vars
  BY <1>6, <1>0, <1>1, <1>2, <1>4 DEF vars, client
<1>7. CASE New
  BY <1>7, <1>0, <1>1, <1>4, <1>5 DEF New, Named
<1>8. CASE Save
  <2>1. RequestsKept
    BY <1>8, SendKeeps, Zenon DEF Save, SessionTypeOK, AnyState
  <2> QED
    BY <1>8, <2>1, <1>0, <1>1, <1>2 DEF Save, client
<1>9. CASE doShare
  <2>1. RequestsKept
    BY <1>9, SendKeeps DEF doShare, AnyState, Named
  <2> QED
    BY <1>9, <2>1, <1>0, <1>1, <1>2 DEF doShare, client
<1>10. CASE LogIn \/ LogOut
  <2>1. RequestsKept
    BY <1>10, SendKeeps DEF LogIn, LogOut, AnyState, Named
  <2> QED
    BY <1>10, <2>1, <1>0, <1>1, <1>2 DEF LogIn, LogOut, client
<1>11. CASE Reload
  BY <1>11, ReloadKeeps
<1>12. CASE onhashchange
  <2>1. CASE setting
    BY <1>12, <2>1, <1>0, <1>1, <1>2, <1>4, Zenon DEF onhashchange
  <2>2. CASE ~setting
    BY <1>12, <2>2, ReloadKeeps, Zenon DEF onhashchange
  <2> QED
    BY <2>1, <2>2
<1>13. ASSUME NEW n \in Names, saveDashboard(n)
       PROVE  SessionInv'
  <2>1. n \in Named /\ n \in AnyState /\ name' = n
    BY <1>13, NameSet DEF saveDashboard, AnyState, Named, All
  <2>2. RequestsKept
    BY <1>13, <2>1, SendKeeps DEF saveDashboard, SaveState
  <2> QED
    BY <1>13, <2>1, <2>2, <1>0, <1>1, <1>5 DEF saveDashboard
<1>14. ASSUME NEW n \in All, Open(n) \/ deleteDashboard(n)
       PROVE  SessionInv'
  <2>1. RequestsKept
    BY <1>14, SendKeeps DEF Open, deleteDashboard, AnyState, Named
  <2> QED
    BY <1>14, <2>1, <1>0, <1>1, <1>2 DEF Open, deleteDashboard, client
<1>15. ASSUME NEW n \in All, TypeHash(n)
       PROVE  SessionInv'
  <2>1. NameKept
    BY <1>15 DEF TypeHash, SessionTypeOK, SaveButtonTrue, Named
  <2> QED
    BY <1>15, <2>1, <1>0, <1>1, <1>4 DEF TypeHash
<1>16. ASSUME NEW r \in requests, Serve(r)
       PROVE  SessionInv'
  <2>1. r \in RequestType /\ ~r.served /\ Proper(r)
    BY <1>16 DEF Serve, SessionTypeOK, SentUnderItsName
  <2>2. NameKept
    BY <1>16, <1>2 DEF Serve, client
  <2>3. \A state \in AnyState : Answered(r, state) /\ (r.kind = "share" => state \in Temps) => RequestsKept
    BY AnsweredKeeps
  <2>4. page' = page
    BY <1>16 DEF Serve, client
  <2>5. CASE ServeSave(r)
    <3>1. r.state = r.name
      BY <2>1, <2>5 DEF ServeSave, Proper
    <3>2. ServerKept
      BY <2>1, <2>4, <2>5, <3>1 DEF ServeSave, SessionTypeOK, StoredUnderItsName, RequestType, AnyState
    <3> QED
      BY <2>2, <2>3, <2>5, <3>2, <1>0 DEF ServeSave, AnyState, Named
  <2>6. CASE ServeLoad(r)
    <3>1. stored[r.name] \in AnyState
      BY <2>1, <2>6 DEF ServeLoad, Proper, SessionTypeOK
    <3> QED
      BY <2>2, <2>3, <2>4, <2>6, <3>1, <1>0, <1>1 DEF ServeLoad
  <2>7. CASE ServeDelete(r)
    <3>1. ServerKept
      BY <2>4, <2>7 DEF ServeDelete, SessionTypeOK, StoredUnderItsName, AnyState
    <3> QED
      BY <2>2, <2>3, <2>7, <3>1, <1>0 DEF ServeDelete, AnyState, Named
  <2>8. CASE ServeShare(r)
    <3>1. r.state = None
      BY <2>1, <2>8 DEF ServeShare, Proper
    <3>2. PICK n \in Temps : stored' = [stored EXCEPT ![n] = r.state] /\ Answered(r, n)
      BY <2>8 DEF ServeShare
    <3>3. ServerKept
      BY <2>4, <2>8, <3>1, <3>2 DEF ServeShare, SessionTypeOK, StoredUnderItsName, AnyState, Named
    <3> QED
      BY <2>2, <2>3, <3>2, <3>3, <1>0 DEF AnyState, Named, All
  <2>9. CASE ServeLogin(r)
    <3>1. ServerKept
      BY <2>4, <2>9 DEF ServeLogin, SessionTypeOK, StoredUnderItsName
    <3> QED
      BY <2>2, <2>3, <2>9, <3>1, <1>0 DEF ServeLogin, AnyState, Named
  <2> QED
    BY <1>16, <2>5, <2>6, <2>7, <2>8, <2>9 DEF Serve
<1>17. ASSUME NEW r \in requests, Hear(r)
       PROVE  SessionInv'
  <2>1. r \in RequestType /\ r.state \in AnyState /\ r.served /\ Proper(r)
    BY <1>17 DEF Hear, SessionTypeOK, RequestType, SentUnderItsName
  <2>2. CASE HearNothing(r)
    BY <2>2, <1>0, <1>1, <1>2, <1>3 DEF HearNothing, client
  <2>3. CASE HearLoad(r)
    <3>1. r.state \in Named
      BY <2>1, <2>3 DEF HearLoad, AnyState
    <3> QED
      BY <2>3, <3>1, <1>0, <1>1, <1>3, <1>5 DEF HearLoad
  <2>4. CASE HearShare(r)
    <3>1. r.state \in Named /\ name' = r.state
      BY <2>1, <2>4, NameSet DEF HearShare, Proper, Named, All
    <3> DEFINE again == Request("save", r.state, r.state)
    <3>2. again \in RequestType /\ again.kind = "save" /\ again.state = again.name
      BY <2>1, <3>1 DEF Request, RequestType
    <3>3. requests' = (requests \ {r}) \cup {again}
      BY <2>4, <3>1 DEF HearShare
    <3> HIDE DEF again
    <3>4. RequestsKept
      BY <3>2, <3>3 DEF SessionTypeOK, SentUnderItsName, Proper
    <3> QED
      BY <2>4, <3>1, <3>4, <1>0, <1>1, <1>5 DEF HearShare
  <2>5. CASE HearLogin(r)
    <3>1. NameKept
      BY <2>5 DEF HearLogin, Adjusted, SessionTypeOK, SaveButtonTrue
    <3> QED
      BY <2>5, <3>1, <1>0, <1>1, <1>3 DEF HearLogin
  <2> QED
    BY <1>17, <2>2, <2>3, <2>4, <2>5 DEF Hear
<1>18. ASSUME NEW r \in requests, Fail(r)
       PROVE  SessionInv'
  <2>1. NameKept
    BY <1>18 DEF Fail, Adjusted, SessionTypeOK, SaveButtonTrue
  <2> QED
    BY <1>18, <2>1, <1>0, <1>1, <1>3 DEF Fail
<1> QED
  BY <1>6, <1>7, <1>8, <1>9, <1>10, <1>11, <1>12, <1>13, <1>14, <1>15, <1>16, <1>17, <1>18
     DEF Next, All

(* Every dashboard is stored under the name it knows itself by. *)
THEOREM NamesAgree == Spec => []StoredUnderItsName
<1>1. SessionInv => StoredUnderItsName
  BY DEF SessionInv
<1> QED
  BY InitSession, NextSession, <1>1, PTL DEF Spec

(* The Save button tells the truth. *)
THEOREM SaveButtonRight == Spec => []SaveButtonTrue
<1>1. SessionInv => SaveButtonTrue
  BY DEF SessionInv
<1> QED
  BY InitSession, NextSession, <1>1, PTL DEF Spec

--------------------------------------------------------------------------------
(* The list of the composer *)

\* What the scanner cuts a target into are targets.
Closed(T) == \A t \in T : Pieces(ArgString(t)) \in Seq(T)

\* Places of a list of n targets, each at most once.
Selection(s, n) == s \in Seq(Nat) /\ IsInjective(s) /\ ToSet(s) \subseteq 1 .. n

\* A list of targets of T, with a selection of its places.
Fine(l, T) ==
  /\ l = [targets |-> l.targets, selected |-> l.selected]
  /\ l.targets \in Seq(T)
  /\ Selection(l.selected, Len(l.targets))

ComposerInv == Fine(List, Texts)

--------------------------------------------------------------------------------
(* Selections *)

LEMMA SelectionParts ==
  ASSUME NEW s, NEW n \in Nat, Selection(s, n)
  PROVE  /\ Len(s) \in Nat /\ DOMAIN s = 1 .. Len(s)
         /\ \A k \in 1 .. Len(s) : s[k] \in 1 .. n /\ s[k] \in ToSet(s)
         /\ \A j, k \in 1 .. Len(s) : s[j] = s[k] => j = k
<1>1. Len(s) \in Nat /\ DOMAIN s = 1 .. Len(s)
  BY LenProperties DEF Selection
<1>2. \A k \in 1 .. Len(s) : s[k] \in 1 .. n /\ s[k] \in ToSet(s)
  BY <1>1 DEF Selection, ToSet
<1>3. \A j, k \in 1 .. Len(s) : s[j] = s[k] => j = k
  BY <1>1 DEF Selection, IsInjective
<1> QED
  BY <1>1, <1>2, <1>3

\* A selection whose places are renamed.
LEMMA Renamed ==
  ASSUME NEW s, NEW n \in Nat, Selection(s, n),
         NEW D, ToSet(s) \subseteq D, NEW m \in Nat, NEW f \in [D -> 1 .. m],
         \A j, k \in D : f[j] = f[k] => j = k,
         NEW r, r = [k \in DOMAIN s |-> f[s[k]]]
  PROVE  Selection(r, m)
<1> DEFINE q == Len(s)
<1>1. /\ q \in Nat /\ DOMAIN s = 1 .. q /\ DOMAIN r = 1 .. q
      /\ \A k \in 1 .. q : s[k] \in D
      /\ \A j, k \in 1 .. q : s[j] = s[k] => j = k
  BY SelectionParts
<1>2. \A k \in 1 .. q : r[k] = f[s[k]] /\ r[k] \in 1 .. m
  BY <1>1
<1>3. r \in [1 .. q -> Nat]
  <2>1. r = [k \in 1 .. q |-> r[k]]
    BY <1>1
  <2> QED
    BY <1>2, <2>1
<1> HIDE DEF q
<1>4. r \in Seq(Nat)
  BY <1>1, <1>3
<1>5. IsInjective(r)
  BY <1>1, <1>2 DEF IsInjective
<1>6. ToSet(r) \subseteq 1 .. m
  BY <1>1, <1>2 DEF ToSet
<1> QED
  BY <1>4, <1>5, <1>6 DEF Selection

LEMMA ShiftUp ==
  ASSUME NEW s, NEW n \in Nat, Selection(s, n), NEW at \in Nat
  PROVE  Selection(Shifted(s, at, 1), n + 1)
<1> DEFINE D == 1 .. n
           f == [k \in D |-> IF k >= at THEN k + 1 ELSE k]
           r == Shifted(s, at, 1)
<1>1. f \in [D -> 1 .. n + 1]
  OBVIOUS
<1>2. \A j, k \in D : f[j] = f[k] => j = k
  OBVIOUS
<1>3. ToSet(s) \subseteq D
  BY DEF Selection
<1>4. r = [k \in DOMAIN s |-> f[s[k]]]
  BY SelectionParts DEF Shifted
<1>5. n + 1 \in Nat
  OBVIOUS
<1> HIDE DEF D, f, r
<1>6. Selection(r, n + 1)
  BY <1>1, <1>2, <1>3, <1>4, <1>5, Renamed
<1> QED
  BY <1>6 DEF r

LEMMA ShiftDown ==
  ASSUME NEW s, NEW n \in Nat, Selection(s, n), NEW at \in 1 .. n, at \notin ToSet(s)
  PROVE  Selection(Shifted(s, at, -1), n - 1)
<1> DEFINE D == (1 .. n) \ {at}
           f == [k \in D |-> IF k >= at THEN k - 1 ELSE k]
           r == Shifted(s, at, -1)
<1>1. f \in [D -> 1 .. n - 1]
  OBVIOUS
<1>2. \A j, k \in D : f[j] = f[k] => j = k
  OBVIOUS
<1>3. ToSet(s) \subseteq D
  BY DEF Selection
<1>4. r = [k \in DOMAIN s |-> f[s[k]]]
  <2>1. \A k \in DOMAIN s : s[k] \in D
    BY <1>3, SelectionParts
  <2>2. \A k \in D : f[k] = IF k >= at THEN k + -1 ELSE k
    OBVIOUS
  <2> HIDE DEF D, f
  <2> QED
    BY <2>1, <2>2 DEF Shifted
<1>5. n - 1 \in Nat
  OBVIOUS
<1> HIDE DEF D, f, r
<1>6. Selection(r, n - 1)
  BY <1>1, <1>2, <1>3, <1>4, <1>5, Renamed
<1> QED
  BY <1>6 DEF r

--------------------------------------------------------------------------------
(* The operations of the list *)

LEMMA FineParts ==
  ASSUME NEW l, NEW T, Fine(l, T)
  PROVE  /\ Len(l.targets) \in Nat /\ DOMAIN l.targets = 1 .. Len(l.targets)
         /\ \A k \in 1 .. Len(l.targets) : l.targets[k] \in T
         /\ Len(l.selected) \in Nat /\ DOMAIN l.selected = 1 .. Len(l.selected)
         /\ \A k \in 1 .. Len(l.selected) : l.selected[k] \in 1 .. Len(l.targets)
         /\ \A j, k \in 1 .. Len(l.selected) : l.selected[j] = l.selected[k] => j = k
<1>1. /\ Len(l.targets) \in Nat /\ DOMAIN l.targets = 1 .. Len(l.targets)
      /\ \A k \in 1 .. Len(l.targets) : l.targets[k] \in T
  BY LenProperties, ElementOfSeq DEF Fine
<1>2. Selection(l.selected, Len(l.targets))
  BY DEF Fine
<1> QED
  BY <1>1, <1>2, SelectionParts

\* The place of the first target with a value.
LEMMA Finding ==
  ASSUME NEW l, NEW T, l.targets \in Seq(T), NEW t, NEW at, at = indexOfTarget(l, t)
  PROVE  /\ at = 0 \/ (at \in 1 .. Len(l.targets) /\ l.targets[at] = t)
         /\ \A k \in 1 .. Len(l.targets) : l.targets[k] = t => at # 0
<1> DEFINE I == {i \in 1 .. Len(l.targets) : l.targets[i] = t}
<1>1. Len(l.targets) \in Nat
  BY LenProperties
<1>2. at = IF I # {} THEN Min(I) ELSE 0
  BY DEF indexOfTarget, SelectInSeq
<1>3. I # {} => Min(I) \in I
  <2>1. I \in SUBSET Nat
    BY <1>1
  <2> HIDE DEF I
  <2> QED
    BY <2>1, Least
<1>4. 0 \notin I
  BY <1>1
<1> HIDE DEF I
<1>5. (I = {} /\ at = 0) \/ (at \in I /\ at # 0)
  BY <1>2, <1>3, <1>4
<1> QED
  BY <1>5 DEF I

\* The record of a list, whatever its parts.
LEMMA MakeFine ==
  ASSUME NEW T, NEW ts \in Seq(T), NEW s, Selection(s, Len(ts)),
         NEW r, r = [targets |-> ts, selected |-> s]
  PROVE  Fine(r, T)
BY DEF Fine

LEMMA Removed ==
  ASSUME NEW T, NEW l, Fine(l, T), NEW t
  PROVE  Fine(RemoveTarget(l, t), T)
<1> DEFINE at == indexOfTarget(l, t)
           n == Len(l.targets)
           ts == RemoveAt(l.targets, at)
           rest == RemoveFirst(l.selected, at)
           sel == OnRemove(l.selected, at)
<1>1. at = 0 \/ at \in 1 .. n
  BY Finding DEF Fine
<1>2. CASE at = 0
  BY <1>2 DEF RemoveTarget
<1>3. CASE at # 0
  <2>1. at \in 1 .. n /\ n \in Nat /\ l.targets \in Seq(T) /\ Selection(l.selected, n)
    BY <1>1, <1>3, FineParts DEF Fine
  <2>2. RemoveTarget(l, t) = [targets |-> ts, selected |-> sel]
    BY <1>3 DEF RemoveTarget
  <2> HIDE DEF at
  <2>3. ts \in Seq(T) /\ Len(ts) = n - 1
    BY <2>1, Removing DEF TakenOut
  <2>4. /\ rest \in Seq(Nat) /\ IsInjective(rest)
        /\ ToSet(rest) = ToSet(l.selected) \ {at}
    BY <2>1, RemovingFirst DEF Selection
  <2>5. Selection(rest, n) /\ at \notin ToSet(rest)
    BY <2>1, <2>4 DEF Selection
  <2>6. sel = Shifted(rest, at, -1)
    BY DEF OnRemove
  <2> HIDE DEF n, rest, sel, ts
  <2>7. Selection(sel, n - 1)
    BY <2>1, <2>5, <2>6, ShiftDown
  <2> QED
    BY <2>2, <2>3, <2>7, MakeFine
<1> QED
  BY <1>2, <1>3

LEMMA Inserted ==
  ASSUME NEW T, NEW l, Fine(l, T), NEW t \in T, NEW at \in 1 .. Len(l.targets) + 1
  PROVE  Fine(insertTarget(l, at, t), T)
<1> DEFINE n == Len(l.targets)
           ts == InsertAt(l.targets, at, t)
           sel == IF l.targets = <<>> THEN <<>> ELSE Shifted(l.selected, at, 1)
<1>1. n \in Nat /\ l.targets \in Seq(T) /\ Selection(l.selected, n) /\ at \in Nat
  BY FineParts DEF Fine
<1>2. ts \in Seq(T) /\ Len(ts) = n + 1
  BY <1>1, Inserting DEF PutIn
<1>3. Selection(Shifted(l.selected, at, 1), n + 1)
  BY <1>1, ShiftUp
<1>4. Selection(<<>>, n + 1)
  BY DEF Selection, IsInjective, ToSet
<1>5. Selection(sel, n + 1)
  BY <1>3, <1>4
<1>6. insertTarget(l, at, t) = [targets |-> ts, selected |-> sel]
  BY DEF insertTarget
<1> HIDE DEF n, ts, sel
<1> QED
  BY <1>2, <1>5, <1>6, MakeFine

LEMMA Added ==
  ASSUME NEW T, NEW l, Fine(l, T), NEW t \in T
  PROVE  Fine(AddTarget(l, t), T)
<1>1. Len(l.targets) + 1 \in 1 .. Len(l.targets) + 1
  BY FineParts
<1> QED
  BY <1>1, Inserted DEF AddTarget

LEMMA Toggled ==
  ASSUME NEW T, NEW l, Fine(l, T), NEW t \in T
  PROVE  Fine(toggle(l, t), T)
BY Removed, Added DEF toggle

LEMMA Selecting ==
  ASSUME NEW T, NEW l, Fine(l, T), NEW t
  PROVE  Fine(SelectToo(l, t), T) /\ SelectToo(l, t).targets = l.targets
<1> DEFINE at == indexOfTarget(l, t)
           sel == Append(l.selected, at)
<1>1. /\ at = 0 \/ at \in 1 .. Len(l.targets)
      /\ l.targets \in Seq(T) /\ Selection(l.selected, Len(l.targets)) /\ Len(l.targets) \in Nat
      /\ l = [targets |-> l.targets, selected |-> l.selected]
  BY Finding, FineParts DEF Fine
<1>2. CASE at = 0 \/ Contains(l.selected, at)
  BY <1>2 DEF SelectToo
<1>3. CASE ~(at = 0 \/ Contains(l.selected, at))
  <2>1. at \in 1 .. Len(l.targets) /\ at \in Nat
    BY <1>1, <1>3
  <2>2. at \notin ToSet(l.selected)
    BY <1>1, <1>3, SelectionParts DEF Contains, ToSet
  <2>3. PICK r : r = [l EXCEPT !.selected = Append(@, at)]
    OBVIOUS
  <2>4. SelectToo(l, t) = r
    BY <1>3, <2>3 DEF SelectToo
  <2> HIDE DEF at
  <2>5. r = [targets |-> l.targets, selected |-> sel]
    BY <1>1, <2>3
  <2>6. sel \in Seq(Nat) /\ ToSet(sel) = ToSet(l.selected) \cup {at} /\ IsInjective(sel)
    BY <1>1, <2>1, <2>2, Appending, InjectiveAppend DEF Selection
  <2>7. Selection(sel, Len(l.targets))
    BY <1>1, <2>1, <2>6 DEF Selection
  <2> HIDE DEF sel
  <2>8. Fine(r, T)
    BY <1>1, <2>5, <2>7, MakeFine
  <2> QED
    BY <2>4, <2>5, <2>8
<1> QED
  BY <1>2, <1>3

\* A target put in the place of another.
LEMMA Overwritten ==
  ASSUME NEW T, NEW l, Fine(l, T), NEW t \in T, NEW at \in 1 .. Len(l.targets),
         NEW r, r = [l EXCEPT !.targets[at] = t]
  PROVE  Fine(r, T)
<1>1. /\ l.targets \in Seq(T) /\ Selection(l.selected, Len(l.targets))
      /\ l = [targets |-> l.targets, selected |-> l.selected]
  BY DEF Fine
<1> DEFINE ts == [l.targets EXCEPT ![at] = t]
<1>2. ts \in Seq(T) /\ Len(ts) = Len(l.targets)
  BY <1>1, ExceptSeq
<1>3. r = [targets |-> ts, selected |-> l.selected]
  BY <1>1
<1> HIDE DEF ts
<1> QED
  BY <1>1, <1>2, <1>3, MakeFine

LEMMA Replaced ==
  ASSUME NEW T, NEW l, Fine(l, T), NEW old, NEW new \in T
  PROVE  Fine(replaceTarget(l, old, new), T)
<1> DEFINE at == indexOfTarget(l, old)
<1>1. at = 0 \/ at \in 1 .. Len(l.targets)
  BY Finding DEF Fine
<1>2. PICK r : r = [l EXCEPT !.targets[at] = new]
  OBVIOUS
<1>3. replaceTarget(l, old, new) = IF at = 0 THEN l ELSE r
  BY <1>2 DEF replaceTarget
<1> HIDE DEF at
<1>4. at # 0 => Fine(r, T)
  BY <1>1, <1>2, Overwritten
<1> QED
  BY <1>3, <1>4

--------------------------------------------------------------------------------
(* What a handler does to each of several targets, as steps one after the other *)

Do(kind, x, l, t) ==
  CASE kind = "toggle" -> toggle(l, t)
    [] kind = "remove" -> RemoveTarget(l, t)
    [] kind = "apply"  -> ApplyTo(l, t, x)
    [] kind = "put"    -> PutBack(l, x, t)
    [] kind = "call"   -> RemoveCall(l, t)
    [] kind = "move"   -> Swapped(l, t, t + x)

\* The function a fold over q defines, and the values it goes through.
Iterates(g, kind, x, base, q, N) ==
  g = [s \in SUBSET (1 .. N) |->
         IF s = {} THEN base ELSE Do(kind, x, g[s \ {Max(s)}], q[Max(s)])]
Steps(h, kind, x, base, q, N, r) ==
  h[0] = base /\ h[N] = r /\ \A n \in 1 .. N : h[n] = Do(kind, x, h[n - 1], q[n])

LEMMA IterationExists ==
  ASSUME NEW kind, NEW x, NEW base, NEW q, NEW N \in Nat
  PROVE  \E g : Iterates(g, kind, x, base, q, N)
<1> DEFINE After(g, n) == Do(kind, x, g, q[n])
           Body(g, s) == IF s = {} THEN base ELSE After(g[s \ {Max(s)}], Max(s))
           Iter(g, n) == g = [s \in SUBSET (1 .. n) |-> Body(g, s)]
           S == {n \in Nat : \E g : Iter(g, n)}
<1> HIDE DEF After
<1>1. 0 \in S
  <2>1. Iter([s \in SUBSET (1 .. 0) |-> base], 0)
    OBVIOUS
  <2> QED
    BY <2>1
<1>2. ASSUME NEW n \in Nat, n \in S PROVE n + 1 \in S
  <2>1. PICK g : Iter(g, n)
    BY <1>2
  <2> DEFINE g2 == [s \in SUBSET (1 .. n + 1) |->
                      IF n + 1 \in s THEN After(g[s \ {n + 1}], n + 1) ELSE g[s]]
  <2>2. ASSUME NEW s \in SUBSET (1 .. n + 1), n + 1 \in s PROVE g2[s] = Body(g2, s)
    <3>1. Max(s) = n + 1
      BY <2>2, Greatest
    <3>2. s \ {n + 1} \in SUBSET (1 .. n + 1) /\ n + 1 \notin s \ {n + 1}
      OBVIOUS
    <3> QED
      BY <2>2, <3>1, <3>2
  <2>3. ASSUME NEW s \in SUBSET (1 .. n + 1), n + 1 \notin s PROVE g2[s] = Body(g2, s)
    <3>1. s \in SUBSET (1 .. n)
      BY <2>3
    <3>2. g2[s] = Body(g, s)
      BY <2>1, <2>3, <3>1
    <3>3. CASE s = {}
      BY <3>2, <3>3
    <3>4. CASE s # {}
      <4>1. Max(s) \in s
        BY <3>1, <3>4, GreatestIsElement
      <4>2. s \ {Max(s)} \in SUBSET (1 .. n + 1) /\ n + 1 \notin s \ {Max(s)}
        BY <2>3
      <4> QED
        BY <3>2, <3>4, <4>2
    <3> QED
      BY <3>3, <3>4
  <2>4. Iter(g2, n + 1)
    BY <2>2, <2>3
  <2> HIDE DEF g2, Iter
  <2> QED
    BY <2>4
<1> HIDE DEF S
<1>3. N \in S
  BY <1>1, <1>2, Induct
<1> QED
  BY <1>3 DEF S, After, Iterates

LEMMA Stepwise ==
  ASSUME NEW kind, NEW x, NEW base, NEW q, NEW N \in Nat, NEW iter,
         Iterates(iter, kind, x, base, q, N)
  PROVE  \E h : Steps(h, kind, x, base, q, N, iter[1 .. N])
<1> DEFINE After(g, n) == Do(kind, x, g, q[n])
           Body(s) == IF s = {} THEN base ELSE After(iter[s \ {Max(s)}], Max(s))
           h == [n \in 0 .. N |-> iter[1 .. n]]
<1>1. iter = [s \in SUBSET (1 .. N) |-> Body(s)]
  BY DEF Iterates
<1> HIDE DEF After
<1>2. h[0] = base
  <2>1. 1 .. 0 = {} /\ {} \in SUBSET (1 .. N) /\ 0 \in 0 .. N
    OBVIOUS
  <2>2. iter[{}] = base
    BY <1>1, <2>1
  <2> QED
    BY <2>1, <2>2
<1>3. ASSUME NEW n \in 1 .. N PROVE h[n] = After(h[n - 1], n)
  <2>1. 1 .. n \in SUBSET (1 .. N) /\ n \in 1 .. n /\ n \in Nat
    OBVIOUS
  <2>2. (1 .. n) \ {n} = 1 .. n - 1 /\ n \in 0 .. N /\ n - 1 \in 0 .. N
    OBVIOUS
  <2>3. Max(1 .. n) = n
    BY <2>1, Greatest
  <2>4. iter[1 .. n] = After(iter[1 .. n - 1], n)
    BY <1>1, <2>1, <2>2, <2>3
  <2> QED
    BY <2>2, <2>4
<1>4. h[N] = iter[1 .. N]
  OBVIOUS
<1> HIDE DEF h
<1> QED
  BY <1>2, <1>3, <1>4 DEF Steps, After

LEMMA RemoveSteps ==
  ASSUME NEW l, NEW q, NEW N \in Nat, DOMAIN q = 1 .. N
  PROVE  \E h : Steps(h, "remove", 0, l, q, N, RemoveEach(l, q))
<1> DEFINE Eq(g) == g = [s \in SUBSET (1 .. N) |->
                      IF s = {} THEN l ELSE RemoveTarget(g[s \ {Max(s)}], q[Max(s)])]
           iter == CHOOSE g : Eq(g)
<1>1. RemoveEach(l, q) = iter[1 .. N]
  BY DEF RemoveEach, FoldLeft, MapThenFoldSet
<1>2. \A m, t : Do("remove", 0, m, t) = RemoveTarget(m, t)
  BY DEF Do
<1>3. PICK g : Iterates(g, "remove", 0, l, q, N)
  BY IterationExists
<1>4. Eq(g)
  BY <1>2, <1>3 DEF Iterates
<1> HIDE DEF Eq
<1>5. Eq(iter)
  BY <1>4
<1> HIDE DEF iter
<1>6. Iterates(iter, "remove", 0, l, q, N)
  BY <1>2, <1>5 DEF Eq, Iterates
<1> QED
  BY <1>1, <1>6, Stepwise

LEMMA ApplySteps ==
  ASSUME NEW l, NEW x, NEW q, NEW N \in Nat, DOMAIN q = 1 .. N
  PROVE  \E h : Steps(h, "apply", x, l, q, N, ApplyToEach(l, q, x))
<1> DEFINE Eq(g) == g = [s \in SUBSET (1 .. N) |->
                      IF s = {} THEN l ELSE ApplyTo(g[s \ {Max(s)}], q[Max(s)], x)]
           iter == CHOOSE g : Eq(g)
<1>1. ApplyToEach(l, q, x) = iter[1 .. N]
  BY DEF ApplyToEach, FoldLeft, MapThenFoldSet
<1>2. \A m, t : Do("apply", x, m, t) = ApplyTo(m, t, x)
  BY DEF Do
<1>3. PICK g : Iterates(g, "apply", x, l, q, N)
  BY IterationExists
<1>4. Eq(g)
  BY <1>2, <1>3 DEF Iterates
<1> HIDE DEF Eq
<1>5. Eq(iter)
  BY <1>4
<1> HIDE DEF iter
<1>6. Iterates(iter, "apply", x, l, q, N)
  BY <1>2, <1>5 DEF Eq, Iterates
<1> QED
  BY <1>1, <1>6, Stepwise

LEMMA PutSteps ==
  ASSUME NEW l, NEW x, NEW q, NEW N \in Nat, DOMAIN q = 1 .. N
  PROVE  \E h : Steps(h, "put", x, l, q, N, PutBackEach(l, x, q))
<1> DEFINE Eq(g) == g = [s \in SUBSET (1 .. N) |->
                      IF s = {} THEN l ELSE PutBack(g[s \ {Max(s)}], x, q[Max(s)])]
           iter == CHOOSE g : Eq(g)
<1>1. PutBackEach(l, x, q) = iter[1 .. N]
  BY DEF PutBackEach, FoldLeft, MapThenFoldSet
<1>2. \A m, t : Do("put", x, m, t) = PutBack(m, x, t)
  BY DEF Do
<1>3. PICK g : Iterates(g, "put", x, l, q, N)
  BY IterationExists
<1>4. Eq(g)
  BY <1>2, <1>3 DEF Iterates
<1> HIDE DEF Eq
<1>5. Eq(iter)
  BY <1>4
<1> HIDE DEF iter
<1>6. Iterates(iter, "put", x, l, q, N)
  BY <1>2, <1>5 DEF Eq, Iterates
<1> QED
  BY <1>1, <1>6, Stepwise

LEMMA CallSteps ==
  ASSUME NEW l, NEW q, NEW N \in Nat, DOMAIN q = 1 .. N
  PROVE  \E h : Steps(h, "call", 0, l, q, N, RemoveCalls(l, q))
<1> DEFINE Eq(g) == g = [s \in SUBSET (1 .. N) |->
                      IF s = {} THEN l ELSE RemoveCall(g[s \ {Max(s)}], q[Max(s)])]
           iter == CHOOSE g : Eq(g)
<1>1. RemoveCalls(l, q) = iter[1 .. N]
  BY DEF RemoveCalls, FoldLeft, MapThenFoldSet
<1>2. \A m, t : Do("call", 0, m, t) = RemoveCall(m, t)
  BY DEF Do
<1>3. PICK g : Iterates(g, "call", 0, l, q, N)
  BY IterationExists
<1>4. Eq(g)
  BY <1>2, <1>3 DEF Iterates
<1> HIDE DEF Eq
<1>5. Eq(iter)
  BY <1>4
<1> HIDE DEF iter
<1>6. Iterates(iter, "call", 0, l, q, N)
  BY <1>2, <1>5 DEF Eq, Iterates
<1> QED
  BY <1>1, <1>6, Stepwise

LEMMA MoveSteps ==
  ASSUME NEW l, NEW x, NEW q, NEW N \in Nat, DOMAIN q = 1 .. N
  PROVE  \E h : Steps(h, "move", x, l, q, N, MoveEach(l, q, x))
<1> DEFINE Eq(g) == g = [s \in SUBSET (1 .. N) |->
                      IF s = {} THEN l ELSE Swapped(g[s \ {Max(s)}], q[Max(s)], q[Max(s)] + x)]
           iter == CHOOSE g : Eq(g)
<1>1. MoveEach(l, q, x) = iter[1 .. N]
  BY DEF MoveEach, FoldLeft, MapThenFoldSet
<1>2. \A m, t : Do("move", x, m, t) = Swapped(m, t, t + x)
  BY DEF Do
<1>3. PICK g : Iterates(g, "move", x, l, q, N)
  BY IterationExists
<1>4. Eq(g)
  BY <1>2, <1>3 DEF Iterates
<1> HIDE DEF Eq
<1>5. Eq(iter)
  BY <1>4
<1> HIDE DEF iter
<1>6. Iterates(iter, "move", x, l, q, N)
  BY <1>2, <1>5 DEF Eq, Iterates
<1> QED
  BY <1>1, <1>6, Stepwise

EmptyList == [targets |-> <<>>, selected |-> <<>>]

LEMMA LoadSteps ==
  ASSUME NEW q, NEW N \in Nat, DOMAIN q = 1 .. N
  PROVE  \E h : Steps(h, "toggle", 0, EmptyList, q, N, Loaded(q))
<1> DEFINE Eq(g) == g = [s \in SUBSET (1 .. N) |->
                      IF s = {} THEN EmptyList ELSE toggle(g[s \ {Max(s)}], q[Max(s)])]
           iter == CHOOSE g : Eq(g)
<1>1. Loaded(q) = iter[1 .. N]
  BY DEF Loaded, EmptyList, FoldLeft, MapThenFoldSet
<1>2. \A m, t : Do("toggle", 0, m, t) = toggle(m, t)
  BY DEF Do
<1>3. PICK g : Iterates(g, "toggle", 0, EmptyList, q, N)
  BY IterationExists
<1>4. Eq(g)
  BY <1>2, <1>3 DEF Iterates
<1> HIDE DEF Eq
<1>5. Eq(iter)
  BY <1>4
<1> HIDE DEF iter
<1>6. Iterates(iter, "toggle", 0, EmptyList, q, N)
  BY <1>2, <1>5 DEF Eq, Iterates
<1> QED
  BY <1>1, <1>6, Stepwise

\* What holds of the first value and is kept by each step holds of the last one.
LEMMA FineAlong ==
  ASSUME NEW h, NEW kind, NEW x, NEW base, NEW q, NEW N \in Nat, NEW r, NEW T,
         Steps(h, kind, x, base, q, N, r), Fine(base, T),
         \A n \in 1 .. N : Fine(h[n - 1], T) => Fine(Do(kind, x, h[n - 1], q[n]), T)
  PROVE  Fine(r, T)
<1> DEFINE S == {n \in Nat : n \in 0 .. N => Fine(h[n], T)}
<1>1. 0 \in S
  BY DEF Steps
<1>2. ASSUME NEW n \in Nat, n \in S PROVE n + 1 \in S
  <2>1. CASE n + 1 \in 0 .. N
    <3>1. n + 1 \in 1 .. N /\ n \in 0 .. N /\ (n + 1) - 1 = n
      BY <2>1
    <3>2. h[n + 1] = Do(kind, x, h[(n + 1) - 1], q[n + 1]) /\ Fine(h[(n + 1) - 1], T)
      BY <1>2, <3>1 DEF Steps
    <3>3. Fine(h[n + 1], T)
      BY <3>1, <3>2
    <3> QED
      BY <3>3
  <2>2. CASE n + 1 \notin 0 .. N
    BY <2>2
  <2> QED
    BY <2>1, <2>2
<1> HIDE DEF S
<1>3. N \in S
  BY <1>1, <1>2, Induct
<1>4. Fine(h[N], T)
  BY <1>3 DEF S
<1> QED
  BY <1>4 DEF Steps

LEMMA RemovedEach ==
  ASSUME NEW T, NEW l, Fine(l, T), NEW P, NEW q \in Seq(P)
  PROVE  Fine(RemoveEach(l, q), T)
<1>1. PICK N \in Nat : DOMAIN q = 1 .. N
  BY LenProperties
<1>2. PICK h : Steps(h, "remove", 0, l, q, N, RemoveEach(l, q))
  BY <1>1, RemoveSteps
<1>3. ASSUME NEW n \in 1 .. N, Fine(h[n - 1], T)
      PROVE  Fine(Do("remove", 0, h[n - 1], q[n]), T)
  BY <1>3, Removed DEF Do
<1> QED
  BY <1>2, <1>3, FineAlong

LEMMA AppliedToEach ==
  ASSUME NEW T, NEW l, Fine(l, T), NEW P, NEW q \in Seq(P), NEW extra,
         \A t \in P : Applied(t, extra) \in T
  PROVE  Fine(ApplyToEach(l, q, extra), T)
<1>1. PICK N \in Nat : DOMAIN q = 1 .. N /\ \A n \in 1 .. N : q[n] \in P
  BY LenProperties, ElementOfSeq
<1>2. PICK h : Steps(h, "apply", extra, l, q, N, ApplyToEach(l, q, extra))
  BY <1>1, ApplySteps
<1>3. ASSUME NEW n \in 1 .. N, Fine(h[n - 1], T)
      PROVE  Fine(Do("apply", extra, h[n - 1], q[n]), T)
  <2>1. Do("apply", extra, h[n - 1], q[n]) = ApplyTo(h[n - 1], q[n], extra)
    BY DEF Do
  <2>2. Applied(q[n], extra) \in T
    BY <1>1
  <2>3. Fine(replaceTarget(h[n - 1], q[n], Applied(q[n], extra)), T)
    BY <1>3, <2>2, Replaced
  <2> QED
    BY <2>1, <2>3, Selecting DEF ApplyTo
<1> QED
  BY <1>2, <1>3, FineAlong

LEMMA LoadedFine ==
  ASSUME NEW T, NEW q \in Seq(T)
  PROVE  Fine(Loaded(q), T)
<1>1. PICK N \in Nat : DOMAIN q = 1 .. N /\ \A n \in 1 .. N : q[n] \in T
  BY LenProperties, ElementOfSeq
<1>2. PICK h : Steps(h, "toggle", 0, EmptyList, q, N, Loaded(q))
  BY <1>1, LoadSteps
<1>3. ASSUME NEW n \in 1 .. N, Fine(h[n - 1], T)
      PROVE  Fine(Do("toggle", 0, h[n - 1], q[n]), T)
  BY <1>1, <1>3, Toggled DEF Do
<1>4. Fine(EmptyList, T)
  BY DEF EmptyList, Fine, Selection, IsInjective, ToSet
<1> QED
  BY <1>2, <1>3, <1>4, FineAlong

\* moveTarget() exchanges targets and keeps their number.
LEMMA Swapping ==
  ASSUME NEW T, NEW ts \in Seq(T), NEW i \in 1 .. Len(ts), NEW j \in 1 .. Len(ts)
  PROVE  Swapped(ts, i, j) \in Seq(T) /\ Len(Swapped(ts, i, j)) = Len(ts)
<1>1. ts[i] \in T /\ ts[j] \in T
  BY ElementOfSeq
<1> DEFINE us == [ts EXCEPT ![i] = ts[j]]
<1>2. us \in Seq(T) /\ Len(us) = Len(ts)
  BY <1>1, ExceptSeq
<1>3. Swapped(ts, i, j) = [us EXCEPT ![j] = ts[i]]
  BY DEF Swapped
<1> HIDE DEF us
<1> QED
  BY <1>1, <1>2, <1>3, ExceptSeq

LEMMA MovedEach ==
  ASSUME NEW T, NEW ts \in Seq(T), NEW x, NEW P, NEW q \in Seq(P),
         \A p \in P : p \in 1 .. Len(ts) /\ p + x \in 1 .. Len(ts)
  PROVE  MoveEach(ts, q, x) \in Seq(T) /\ Len(MoveEach(ts, q, x)) = Len(ts)
<1>1. PICK N \in Nat : DOMAIN q = 1 .. N /\ \A n \in 1 .. N : q[n] \in P
  BY LenProperties, ElementOfSeq
<1>2. PICK h : Steps(h, "move", x, ts, q, N, MoveEach(ts, q, x))
  BY <1>1, MoveSteps
<1> DEFINE Kept(us) == us \in Seq(T) /\ Len(us) = Len(ts)
           S == {n \in Nat : n \in 0 .. N => Kept(h[n])}
<1>3. 0 \in S
  BY <1>2 DEF Steps
<1>4. ASSUME NEW n \in Nat, n \in S PROVE n + 1 \in S
  <2>1. CASE n + 1 \in 0 .. N
    <3>1. n + 1 \in 1 .. N /\ n \in 0 .. N /\ (n + 1) - 1 = n
      BY <2>1
    <3>2. h[n + 1] = Do("move", x, h[(n + 1) - 1], q[n + 1]) /\ Kept(h[n])
      BY <1>2, <1>4, <3>1 DEF Steps
    <3>3. h[n + 1] = Swapped(h[n], q[n + 1], q[n + 1] + x)
      BY <3>1, <3>2 DEF Do
    <3>4. q[n + 1] \in 1 .. Len(h[n]) /\ q[n + 1] + x \in 1 .. Len(h[n])
      BY <1>1, <3>1, <3>2
    <3>5. Kept(h[n + 1])
      BY <3>2, <3>3, <3>4, Swapping
    <3> QED
      BY <3>5
  <2>2. CASE n + 1 \notin 0 .. N
    BY <2>2
  <2> QED
    BY <2>1, <2>2
<1> HIDE DEF S
<1>5. N \in S
  BY <1>3, <1>4, Induct
<1>6. Kept(h[N])
  BY <1>5 DEF S
<1> QED
  BY <1>2, <1>6 DEF Steps

LEMMA ValuesAreTargets ==
  ASSUME NEW T, NEW l, Fine(l, T)
  PROVE  Values(l) \in Seq(T)
<1> DEFINE N == Len(l.selected)
           V == Values(l)
<1>1. /\ N \in Nat /\ DOMAIN l.selected = 1 .. N
      /\ \A n \in 1 .. N : l.targets[l.selected[n]] \in T
  BY FineParts
<1>2. V = [n \in 1 .. N |-> l.targets[l.selected[n]]]
  BY <1>1 DEF Values
<1> HIDE DEF N, V
<1>3. V \in [1 .. N -> T]
  BY <1>1, <1>2
<1>4. V \in Seq(T)
  BY <1>1, <1>3
<1> QED
  BY <1>4 DEF V

--------------------------------------------------------------------------------
(* How often the list holds a target.  The selected values are read first and looked up one
   after the other: a value is found as long as the list holds it, at whichever place. *)

\* One target of the value old gives way to those of new.
Exchanged(l, m, old, new) ==
  \A t : HowOften(m.targets, t) =
           HowOften(l.targets, t) - (IF old = t THEN 1 ELSE 0) + HowOften(new, t)

LEMMA Found ==
  ASSUME NEW T, NEW l, Fine(l, T), NEW t, HowOften(l.targets, t) > 0, NEW at, at = indexOfTarget(l, t)
  PROVE  at \in 1 .. Len(l.targets) /\ l.targets[at] = t /\ at # 0
<1>1. l.targets \in Seq(T)
  BY DEF Fine
<1>2. \E k \in 1 .. Len(l.targets) : l.targets[k] = t
  BY <1>1, Often
<1> QED
  BY <1>1, <1>2, Finding

LEMMA RemovedOnce ==
  ASSUME NEW T, NEW l, Fine(l, T), NEW old, HowOften(l.targets, old) > 0
  PROVE  Exchanged(l, RemoveTarget(l, old), old, <<>>)
<1> DEFINE ts == l.targets
           m == RemoveTarget(l, old)
<1>1. PICK at : at = indexOfTarget(l, old)
  OBVIOUS
<1>2. at \in 1 .. Len(ts) /\ ts[at] = old /\ at # 0 /\ ts \in Seq(T)
  BY <1>1, Found DEF Fine
<1>3. m.targets = RemoveAt(ts, at)
  BY <1>1, <1>2 DEF RemoveTarget
<1> HIDE DEF ts, m
<1>4. ASSUME NEW t
      PROVE  HowOften(m.targets, t) = HowOften(ts, t) - (IF old = t THEN 1 ELSE 0) + HowOften(<<>>, t)
  <2>1. HowOften(RemoveAt(ts, at), t) = HowOften(ts, t) - IF ts[at] = t THEN 1 ELSE 0
    BY <1>2, OftenLess
  <2>2. HowOften(<<>>, t) = 0
    BY OftenOne
  <2>3. HowOften(ts, t) \in Nat
    BY <1>2, Often
  <2> QED
    BY <1>2, <1>3, <2>1, <2>2, <2>3
<1> QED
  BY <1>4 DEF Exchanged, ts, m

LEMMA ReplacedOnce ==
  ASSUME NEW T, NEW l, Fine(l, T), NEW old, HowOften(l.targets, old) > 0, NEW new \in T
  PROVE  Exchanged(l, replaceTarget(l, old, new), old, <<new>>)
<1> DEFINE ts == l.targets
           m == replaceTarget(l, old, new)
           us == m.targets
<1>1. PICK at : at = indexOfTarget(l, old)
  OBVIOUS
<1>2. at \in 1 .. Len(ts) /\ ts[at] = old /\ at # 0 /\ ts \in Seq(T)
  BY <1>1, Found DEF Fine
<1>3. us = [ts EXCEPT ![at] = new]
  <2>1. PICK r : r = [l EXCEPT !.targets[at] = new]
    OBVIOUS
  <2>2. m = r
    BY <1>1, <1>2, <2>1 DEF replaceTarget
  <2>3. l = [targets |-> ts, selected |-> l.selected]
    BY DEF Fine
  <2> HIDE DEF m, ts
  <2> QED
    BY <2>1, <2>2, <2>3
<1> HIDE DEF ts, us, m
<1>4. us \in Seq(T) /\ Len(us) = Len(ts) /\ \A k \in 1 .. Len(ts) : us[k] = IF k = at THEN new ELSE ts[k]
  BY <1>2, <1>3, ExceptSeq
<1>5. us[at] = new
  BY <1>2, <1>4
<1>6. ASSUME NEW t
      PROVE  HowOften(us, t) = HowOften(ts, t) - (IF old = t THEN 1 ELSE 0) + HowOften(<<new>>, t)
  <2>1. HowOften(us, t) = HowOften(ts, t) - (IF ts[at] = t THEN 1 ELSE 0) + IF us[at] = t THEN 1 ELSE 0
    BY <1>2, <1>4, OftenElsewhere
  <2>2. HowOften(<<new>>, t) = IF new = t THEN 1 ELSE 0
    BY OftenOne
  <2> QED
    BY <1>2, <1>5, <2>1, <2>2
<1> QED
  BY <1>6 DEF Exchanged, ts, us, m

LEMMA AppliedOnce ==
  ASSUME NEW T, NEW l, Fine(l, T), NEW old, HowOften(l.targets, old) > 0, NEW extra,
         Applied(old, extra) \in T
  PROVE  Exchanged(l, ApplyTo(l, old, extra), old, <<Applied(old, extra)>>)
<1> DEFINE new == Applied(old, extra)
           m == replaceTarget(l, old, new)
<1>1. ApplyTo(l, old, extra) = SelectToo(m, new)
  BY DEF ApplyTo
<1> HIDE DEF new
<1>2. Exchanged(l, m, old, <<new>>) /\ Fine(m, T)
  BY ReplacedOnce, Replaced DEF new
<1> HIDE DEF m
<1>3. SelectToo(m, new).targets = m.targets
  BY <1>2, Selecting
<1> QED
  BY <1>1, <1>2, <1>3 DEF Exchanged, new

\* Pieces are put back, the literals are not.
PutOnce(l, m, a) ==
  \A t : HowOften(m.targets, t) = HowOften(l.targets, t) +
           IF a = t /\ ~IsLiteral(t) THEN 1 ELSE 0

LEMMA PutBackOne ==
  ASSUME NEW T, NEW l, Fine(l, T), NEW at, at \in 1 .. Len(l.targets) + 1, NEW a \in T,
         NEW m, m = PutBack(l, at, a)
  PROVE  Fine(m, T) /\ at \in 1 .. Len(m.targets) + 1 /\ PutOnce(l, m, a)
<1>0. l.targets \in Seq(T)
  BY DEF Fine
<1>1. CASE IsLiteral(a)
  <2>1. m = l
    BY <1>1 DEF PutBack
  <2>2. \A t : HowOften(l.targets, t) \in Nat
    BY <1>0, Often
  <2>3. PutOnce(l, l, a)
    BY <1>1, <2>2 DEF PutOnce
  <2> QED
    BY <2>1, <2>3
<1>2. CASE ~IsLiteral(a)
  <2> DEFINE us == InsertAt(l.targets, at, a)
             r == insertTarget(l, at, a)
  <2>2. Fine(r, T)
    BY Inserted
  <2>3. r.targets = us
    BY DEF insertTarget
  <2>5. us \in Seq(T) /\ Len(us) = Len(l.targets) + 1
    BY <1>0, Inserting DEF PutIn
  <2>6. m = SelectToo(r, a)
    BY <1>2 DEF PutBack
  <2>4. \A t : HowOften(us, t) = HowOften(l.targets, t) + IF a = t THEN 1 ELSE 0
    BY <1>0, OftenMore
  <2> HIDE DEF us, r
  <2>7. Fine(m, T) /\ m.targets = us
    BY <2>2, <2>3, <2>6, Selecting
  <2>8. Len(l.targets) \in Nat
    BY <1>0, LenProperties
  <2>9. at \in 1 .. Len(m.targets) + 1
    BY <2>5, <2>7, <2>8
  <2>10. PutOnce(l, m, a)
    BY <1>2, <2>4, <2>7 DEF PutOnce
  <2> QED
    BY <2>7, <2>9, <2>10
<1> QED
  BY <1>1, <1>2

\* All of the pieces of a text.
PutAll(l, m, q) ==
  \A t : HowOften(m.targets, t) = HowOften(l.targets, t) +
           IF IsLiteral(t) THEN 0 ELSE HowOften(q, t)

LEMMA PuttingBack ==
  ASSUME NEW T, NEW l, Fine(l, T), NEW at, at \in 1 .. Len(l.targets) + 1, NEW q \in Seq(T)
  PROVE  Fine(PutBackEach(l, at, q), T) /\ PutAll(l, PutBackEach(l, at, q), q)
<1>1. PICK N \in Nat : N = Len(q) /\ DOMAIN q = 1 .. N /\ \A n \in 1 .. N : q[n] \in T
  BY LenProperties, ElementOfSeq
<1>2. PICK h : Steps(h, "put", at, l, q, N, PutBackEach(l, at, q))
  BY <1>1, PutSteps
<1> DEFINE Kept(m) == Fine(m, T) /\ at \in 1 .. Len(m.targets) + 1
           Put(m, n) == \A t : HowOften(m.targets, t) = HowOften(l.targets, t) +
                                  IF IsLiteral(t) THEN 0 ELSE CountTo(q, t, n)
           S == {n \in Nat : n \in 0 .. N => Kept(h[n]) /\ Put(h[n], n)}
<1>3. 0 \in S
  <2>1. \A t : CountTo(q, t, 0) = 0
    BY Counting DEF Counts
  <2>2. \A t : HowOften(l.targets, t) \in Nat
    BY Often DEF Fine
  <2>3. Put(l, 0)
    BY <2>1, <2>2
  <2>4. h[0] = l /\ Kept(l)
    BY <1>2 DEF Steps
  <2> HIDE DEF Kept, Put
  <2> QED
    BY <2>3, <2>4
<1>4. ASSUME NEW n \in Nat, n \in S PROVE n + 1 \in S
  <2>1. CASE n + 1 \in 0 .. N
    <3>1. n + 1 \in 1 .. N /\ n \in 0 .. N /\ (n + 1) - 1 = n
      BY <2>1
    <3>2. h[n + 1] = Do("put", at, h[(n + 1) - 1], q[n + 1]) /\ Kept(h[n]) /\ Put(h[n], n)
      BY <1>2, <1>4, <3>1 DEF Steps
    <3>3. h[n + 1] = PutBack(h[n], at, q[n + 1])
      BY <3>1, <3>2 DEF Do
    <3>4. q[n + 1] \in T
      BY <1>1, <3>1
    <3>5. Kept(h[n + 1]) /\ PutOnce(h[n], h[n + 1], q[n + 1])
      BY <3>2, <3>3, <3>4, PutBackOne
    <3>6. ASSUME NEW t
          PROVE  HowOften(h[n + 1].targets, t) = HowOften(l.targets, t) +
                   IF IsLiteral(t) THEN 0 ELSE CountTo(q, t, n + 1)
      <4>1. Counts(q, t, n) /\ HowOften(l.targets, t) \in Nat
        BY Counting, Often DEF Fine
      <4>2. HowOften(h[n].targets, t) = HowOften(l.targets, t) +
               IF IsLiteral(t) THEN 0 ELSE CountTo(q, t, n)
        BY <3>2
      <4>3. HowOften(h[n + 1].targets, t) = HowOften(h[n].targets, t) +
              IF q[n + 1] = t /\ ~IsLiteral(t) THEN 1 ELSE 0
        BY <3>5 DEF PutOnce
      <4> QED
        BY <4>1, <4>2, <4>3 DEF Counts
    <3> QED
      BY <3>5, <3>6
  <2>2. CASE n + 1 \notin 0 .. N
    BY <2>2
  <2> QED
    BY <2>1, <2>2
<1> HIDE DEF S
<1>5. N \in S
  BY <1>3, <1>4, Induct
<1>6. Fine(h[N], T) /\ Put(h[N], N)
  BY <1>5 DEF S
<1>7. \A t : HowOften(q, t) = CountTo(q, t, N)
  BY <1>1, Often
<1>8. h[N] = PutBackEach(l, at, q)
  BY <1>2 DEF Steps
<1> QED
  BY <1>6, <1>7, <1>8 DEF PutAll

LEMMA Reversing ==
  ASSUME NEW P, NEW q \in Seq(P)
  PROVE  Reverse(q) \in Seq(P)
<1> DEFINE n == Len(q)
           r == Reverse(q)
<1>1. n \in Nat /\ \A k \in 1 .. n : q[k] \in P
  BY LenProperties, ElementOfSeq
<1>2. r = [i \in 1 .. n |-> q[(n - i) + 1]]
  BY DEF Reverse
<1>3. \A i \in 1 .. n : (n - i) + 1 \in 1 .. n
  BY <1>1
<1> HIDE DEF n, r
<1>4. r \in [1 .. n -> P]
  BY <1>1, <1>2, <1>3
<1>5. r \in Seq(P)
  BY <1>1, <1>4
<1> QED
  BY <1>5 DEF r

LEMMA WithoutOften ==
  ASSUME NEW P, NEW s \in Seq(P), NEW places
  PROVE  /\ Without(s, places) \in Seq(P)
         /\ \A t : HowOften(Without(s, places), t) =
                     Cardinality({k \in DOMAIN s : k \notin places /\ s[k] = t})
<1>1. Without(s, places) = FlattenSeq(Singly(s, places))
  BY DEF Without, Singly
<1>2. \A t : OftenSome(P, s, places, t)
  BY FlattenSome
<1> QED
  BY <1>1, <1>2 DEF OftenSome

\* What remains of a target that is cut: its pieces but the literals.
LEMMA RemainsOften ==
  ASSUME NEW T, NEW p \in Seq(T)
  PROVE  /\ NoLiterals(p) \in Seq(T)
         /\ \A t : HowOften(NoLiterals(p), t) = IF IsLiteral(t) THEN 0 ELSE HowOften(p, t)
<1> DEFINE L == {k \in DOMAIN p : IsLiteral(p[k])}
<1>1. NoLiterals(p) = Without(p, L)
  BY DEF NoLiterals
<1>2. /\ Without(p, L) \in Seq(T)
      /\ \A t : HowOften(Without(p, L), t) = Cardinality({k \in DOMAIN p : k \notin L /\ p[k] = t})
  <2> HIDE DEF L
  <2> QED
    BY WithoutOften
<1>3. ASSUME NEW t
      PROVE  Cardinality({k \in DOMAIN p : k \notin L /\ p[k] = t}) =
               IF IsLiteral(t) THEN 0 ELSE HowOften(p, t)
  <2>1. CASE IsLiteral(t)
    <3>1. {k \in DOMAIN p : k \notin L /\ p[k] = t} = {}
      BY <2>1
    <3> QED
      BY <2>1, <3>1, FS_EmptySet
  <2>2. CASE ~IsLiteral(t)
    <3>1. {k \in DOMAIN p : k \notin L /\ p[k] = t} = {k \in DOMAIN p : p[k] = t}
      BY <2>2
    <3> QED
      BY <2>2, <3>1 DEF HowOften
  <2> QED
    BY <2>1, <2>2
<1> HIDE DEF L
<1> QED
  BY <1>1, <1>2, <1>3

LEMMA RemainsAreTargets ==
  ASSUME NEW T, Closed(T), NEW u \in T
  PROVE  Remains(u) \in Seq(T)
<1>1. CASE Malformed(ArgString(u))
  <2>1. Remains(u) = <<u>>
    BY <1>1 DEF Remains
  <2> QED
    BY <2>1
<1>2. CASE ~Malformed(ArgString(u))
  <2>1. Remains(u) = NoLiterals(Pieces(ArgString(u)))
    BY <1>2 DEF Remains
  <2>2. Pieces(ArgString(u)) \in Seq(T)
    BY DEF Closed
  <2> QED
    BY <2>1, <2>2, RemainsOften
<1> QED
  BY <1>1, <1>2

\* One outer call: a malformed target stays, the pieces of another are put back.
LEMMA CallRemoved ==
  ASSUME NEW T, Closed(T), NEW l, Fine(l, T), NEW old, HowOften(l.targets, old) > 0
  PROVE  Fine(RemoveCall(l, old), T) /\ Exchanged(l, RemoveCall(l, old), old, Remains(old))
<1> DEFINE ts == l.targets
           r == RemoveTarget(l, old)
           p == Pieces(ArgString(old))
           q == Reverse(p)
           m == RemoveCall(l, old)
<1>1. PICK at : at = indexOfTarget(l, old)
  OBVIOUS
<1>2. at \in 1 .. Len(ts) /\ ts[at] = old /\ at # 0 /\ ts \in Seq(T) /\ Len(ts) \in Nat
  BY <1>1, Found, LenProperties DEF Fine
<1>3. CASE Malformed(ArgString(old))
  <2>1. m = l /\ Remains(old) = <<old>>
    BY <1>3 DEF RemoveCall, Remains
  <2>2. ASSUME NEW t
        PROVE  HowOften(ts, t) = HowOften(ts, t) - (IF old = t THEN 1 ELSE 0) + HowOften(<<old>>, t)
    <3>1. HowOften(<<old>>, t) = (IF old = t THEN 1 ELSE 0) /\ HowOften(ts, t) \in Nat
      BY <1>2, OftenOne, Often
    <3> QED
      BY <3>1
  <2> HIDE DEF m
  <2>3. Exchanged(l, l, old, <<old>>)
    BY <2>2 DEF Exchanged
  <2>4. Fine(m, T) /\ Exchanged(l, m, old, Remains(old))
    BY <2>1, <2>3
  <2> QED
    BY <2>4 DEF m
<1>4. CASE ~Malformed(ArgString(old))
  <2>1. r = [targets |-> RemoveAt(ts, at), selected |-> OnRemove(l.selected, at)]
    BY <1>1, <1>2 DEF RemoveTarget
  <2>2. m = PutBackEach(r, at, q) /\ Remains(old) = NoLiterals(p)
    BY <1>1, <1>4 DEF RemoveCall, Remains
  <2>3. old \in T
    BY <1>2, ElementOfSeq
  <2>4. p \in Seq(T) /\ q \in Seq(T)
    BY <2>3, Reversing DEF Closed
  <2>5. Fine(r, T) /\ Exchanged(l, r, old, <<>>)
    BY Removed, RemovedOnce
  <2>6. Len(RemoveAt(ts, at)) = Len(ts) - 1
    BY <1>2, Removing DEF TakenOut
  <2>7. at \in 1 .. Len(r.targets) + 1
    BY <1>2, <2>1, <2>6
  <2> HIDE DEF ts, r, p, q, m
  <2>8. Fine(m, T) /\ PutAll(r, m, q)
    BY <2>2, <2>4, <2>5, <2>7, PuttingBack
  <2>9. ASSUME NEW t
        PROVE  HowOften(m.targets, t) = HowOften(ts, t) - (IF old = t THEN 1 ELSE 0) + HowOften(Remains(old), t)
    <3>1. HowOften(q, t) = HowOften(p, t)
      BY <2>4, OftenReverse DEF q
    <3>2. HowOften(Remains(old), t) = IF IsLiteral(t) THEN 0 ELSE HowOften(p, t)
      BY <2>2, <2>4, RemainsOften
    <3>3. HowOften(m.targets, t) = HowOften(r.targets, t) + IF IsLiteral(t) THEN 0 ELSE HowOften(q, t)
      BY <2>8 DEF PutAll
    <3>4. HowOften(r.targets, t) = HowOften(ts, t) - (IF old = t THEN 1 ELSE 0) + HowOften(<<>>, t)
      BY <2>5 DEF Exchanged, ts
    <3>5. HowOften(<<>>, t) = 0 /\ HowOften(ts, t) \in Nat /\ HowOften(p, t) \in Nat
      BY <1>2, <2>4, OftenOne, Often
    <3> QED
      BY <3>1, <3>2, <3>3, <3>4, <3>5
  <2> QED
    BY <2>8, <2>9 DEF Exchanged, m, ts
<1> QED
  BY <1>3, <1>4

\* The targets of V have given way to those of new.
Became(l, r, V, new) ==
  \A t : HowOften(r.targets, t) = HowOften(l.targets, t) - HowOften(V, t) + HowOften(new, t)
Enough(l, V) == \A t : HowOften(V, t) <= HowOften(l.targets, t)

\* One after the other, each value of V is found and gives way to a sequence of W.
LEMMA Exchanging ==
  ASSUME NEW T, NEW l, Fine(l, T), NEW P, NEW V \in Seq(P), Enough(l, V),
         NEW W \in Seq(Seq(T)), NEW N, N = Len(V), N = Len(W),
         NEW h, NEW kind, NEW x, NEW r, Steps(h, kind, x, l, V, N, r),
         \A n \in 1 .. N : Fine(h[n - 1], T) /\ HowOften(h[n - 1].targets, V[n]) > 0 =>
            /\ Fine(Do(kind, x, h[n - 1], V[n]), T)
            /\ Exchanged(h[n - 1], Do(kind, x, h[n - 1], V[n]), V[n], W[n])
  PROVE  Fine(r, T) /\ Became(l, r, V, FlattenSeq(W))
<1>1. N \in Nat
  BY LenProperties
<1>2. PICK g : Flattens(g, W, N)
  BY FlattenSteps
<1> DEFINE Been(m, n) == \A t : HowOften(m.targets, t) =
                           HowOften(l.targets, t) - CountTo(V, t, n) + HowOften(g[n], t)
           S == {n \in Nat : n \in 0 .. N => Fine(h[n], T) /\ Been(h[n], n)}
<1>3. \A t : HowOften(l.targets, t) \in Nat
  BY Often DEF Fine
<1>4. \A t : OftenFlat(g, W, N, T, t)
  BY <1>2, OftenFlattened
<1>5. 0 \in S
  <2>1. \A t : CountTo(V, t, 0) = 0
    BY Counting DEF Counts
  <2>2. \A t : HowOften(g[0], t) = 0
    BY <1>4 DEF OftenFlat
  <2>3. Been(l, 0)
    BY <1>3, <2>1, <2>2
  <2>4. h[0] = l
    BY DEF Steps
  <2> HIDE DEF Been
  <2> QED
    BY <2>3, <2>4
<1>6. ASSUME NEW n \in Nat, n \in S PROVE n + 1 \in S
  <2>1. CASE n + 1 \in 0 .. N
    <3>1. n + 1 \in 1 .. N /\ n \in 0 .. N /\ (n + 1) - 1 = n /\ n + 1 \in Nat /\ n + 1 <= N
      BY <1>1, <2>1
    <3>2. Fine(h[n], T) /\ Been(h[n], n)
      BY <1>6, <3>1
    <3>3. PICK u : u = V[n + 1]
      OBVIOUS
    <3>4. \A t : Counts(V, t, n)
      BY Counting
    <3>5. \A t : HowOften(g[n], t) \in Nat /\ HowOften(W[n + 1], t) \in Nat
               /\ HowOften(g[n + 1], t) = HowOften(g[n], t) + HowOften(W[n + 1], t)
      BY <1>4, <3>1, Often DEF OftenFlat
    <3>6. HowOften(h[n].targets, u) > 0
      <4>1. CountTo(V, u, n + 1) = CountTo(V, u, n) + 1
        BY <3>3, <3>4 DEF Counts
      <4>2. CountTo(V, u, n + 1) <= HowOften(V, u)
        <5>1. HowOften(V, u) = CountTo(V, u, N)
          BY Often
        <5> QED
          BY <1>1, <3>1, <5>1, CountingMore
      <4>3. HowOften(V, u) <= HowOften(l.targets, u)
        BY DEF Enough
      <4>4. HowOften(h[n].targets, u) = HowOften(l.targets, u) - CountTo(V, u, n) + HowOften(g[n], u)
        BY <3>2
      <4>5. HowOften(V, u) \in Nat /\ CountTo(V, u, n) \in Nat
        BY <3>4, Often DEF Counts
      <4> QED
        BY <1>3, <3>5, <4>1, <4>2, <4>3, <4>4, <4>5
    <3>7. h[n + 1] = Do(kind, x, h[n], u)
      BY <3>1, <3>3 DEF Steps
    <3>8. Fine(h[n + 1], T) /\ Exchanged(h[n], h[n + 1], u, W[n + 1])
      BY <3>1, <3>2, <3>3, <3>6, <3>7
    <3>9. ASSUME NEW t
          PROVE  HowOften(h[n + 1].targets, t) =
                   HowOften(l.targets, t) - CountTo(V, t, n + 1) + HowOften(g[n + 1], t)
      <4>1. HowOften(h[n].targets, t) = HowOften(l.targets, t) - CountTo(V, t, n) + HowOften(g[n], t)
        BY <3>2
      <4>2. HowOften(h[n + 1].targets, t) =
              HowOften(h[n].targets, t) - (IF u = t THEN 1 ELSE 0) + HowOften(W[n + 1], t)
        BY <3>8 DEF Exchanged
      <4>3. /\ CountTo(V, t, n + 1) = CountTo(V, t, n) + IF u = t THEN 1 ELSE 0
            /\ CountTo(V, t, n) \in Nat
        BY <3>3, <3>4 DEF Counts
      <4> QED
        BY <1>3, <3>5, <4>1, <4>2, <4>3
    <3> QED
      BY <3>8, <3>9
  <2>2. CASE n + 1 \notin 0 .. N
    BY <2>2
  <2> QED
    BY <2>1, <2>2
<1> HIDE DEF S
<1>7. N \in S
  BY <1>1, <1>5, <1>6, Induct
<1>8. Fine(h[N], T) /\ Been(h[N], N)
  BY <1>1, <1>7 DEF S
<1>9. h[N] = r /\ g[N] = FlattenSeq(W) /\ \A t : HowOften(V, t) = CountTo(V, t, N)
  BY <1>2, Often DEF Steps, Flattens
<1> QED
  BY <1>8, <1>9 DEF Became

LEMMA ValuesEnough ==
  ASSUME NEW T, NEW l, Fine(l, T)
  PROVE  /\ \A t : HowOften(l.targets, t) =
                     HowOften(Values(l), t) + HowOften(Without(l.targets, ToSet(l.selected)), t)
         /\ Enough(l, Values(l)) /\ Without(l.targets, ToSet(l.selected)) \in Seq(T)
<1> DEFINE ts == l.targets
           s == l.selected
           V == Values(l)
           J == ToSet(s)
           others == Without(ts, J)
<1>1. /\ ts \in Seq(T) /\ V \in Seq(T) /\ DOMAIN V = DOMAIN s
      /\ \A n \in DOMAIN s : V[n] = ts[s[n]] /\ s[n] \in DOMAIN ts /\ s[n] \in J
      /\ \A j, k \in DOMAIN s : s[j] = s[k] => j = k
      /\ \A k \in J : \E n \in DOMAIN s : s[n] = k
  BY FineParts, ValuesAreTargets DEF Fine, Values, ToSet
<1>2. others \in Seq(T) /\ \A t : HowOften(others, t) =
        Cardinality({k \in DOMAIN ts : k \notin J /\ ts[k] = t})
  BY <1>1, WithoutOften
<1> HIDE DEF ts, s, V, J, others
<1>3. ASSUME NEW t PROVE HowOften(ts, t) = HowOften(V, t) + HowOften(others, t)
  <2> DEFINE A == {n \in DOMAIN V : V[n] = t}
             B == {k \in DOMAIN ts : k \in J /\ ts[k] = t}
             C == {k \in DOMAIN ts : k \notin J /\ ts[k] = t}
             f == [n \in A |-> s[n]]
  <2>1. IsFiniteSet(A) /\ IsFiniteSet(B) /\ IsFiniteSet(C)
    <3>1. A \subseteq DOMAIN V /\ B \subseteq DOMAIN ts /\ C \subseteq DOMAIN ts
      OBVIOUS
    <3> HIDE DEF A, B, C
    <3> QED
      BY <1>1, <3>1, FinitePlaces
  <2>2. f \in [A -> B] /\ \A j, k \in A : f[j] = f[k] => j = k
    BY <1>1
  <2>3. \A b \in B : \E a \in A : f[a] = b
    BY <1>1
  <2>4. B \cap C = {} /\ B \cup C = {k \in DOMAIN ts : ts[k] = t}
    OBVIOUS
  <2> HIDE DEF A, B, C, f
  <2>5. Cardinality(A) = Cardinality(B)
    BY <2>1, <2>2, <2>3, SameNumber
  <2>6. /\ Cardinality(B \cup C) = Cardinality(B) + Cardinality(C) - Cardinality(B \cap C)
        /\ Cardinality(B \cap C) = 0 /\ Cardinality(B) \in Nat /\ Cardinality(C) \in Nat
    BY <2>1, <2>4, FS_Union, FS_EmptySet, FS_CardinalityType
  <2>7. HowOften(ts, t) = Cardinality(B \cup C) /\ HowOften(V, t) = Cardinality(A)
    BY <2>4 DEF HowOften, A
  <2>8. HowOften(others, t) = Cardinality(C)
    BY <1>2 DEF C
  <2> QED
    BY <2>5, <2>6, <2>7, <2>8
<1>4. ASSUME NEW t PROVE HowOften(V, t) <= HowOften(ts, t)
  <2>1. HowOften(V, t) \in Nat /\ HowOften(others, t) \in Nat
    BY <1>1, <1>2, Often
  <2> QED
    BY <1>3, <2>1
<1> QED
  BY <1>2, <1>3, <1>4 DEF Enough, ts, s, V, J, others

LEMMA RemovedEachOnce ==
  ASSUME NEW T, NEW l, Fine(l, T), NEW V \in Seq(T), Enough(l, V)
  PROVE  Became(l, RemoveEach(l, V), V, <<>>)
<1>1. PICK N : N = Len(V) /\ N \in Nat /\ DOMAIN V = 1 .. N
  BY LenProperties
<1>2. PICK h : Steps(h, "remove", 0, l, V, N, RemoveEach(l, V))
  BY <1>1, RemoveSteps
<1>3. PICK w : w = Singly(V, DOMAIN V) /\ \A t : OftenSome(T, V, DOMAIN V, t)
  BY FlattenSome
<1>4. DOMAIN w = 1 .. N /\ \A n \in 1 .. N : w[n] = <<>>
  BY <1>1, <1>3 DEF Singly
<1>5. w \in Seq(Seq(T)) /\ Len(w) = N
  <2>1. w \in Seq(Seq(T))
    BY <1>3 DEF OftenSome
  <2> QED
    BY <1>1, <1>4, <2>1, LenProperties
<1>6. ASSUME NEW t PROVE HowOften(FlattenSeq(w), t) = 0
  <2>1. HowOften(FlattenSeq(w), t) = Cardinality({k \in DOMAIN V : k \notin DOMAIN V /\ V[k] = t})
    BY <1>3 DEF OftenSome
  <2>2. {k \in DOMAIN V : k \notin DOMAIN V /\ V[k] = t} = {}
    OBVIOUS
  <2> QED
    BY <2>1, <2>2, FS_EmptySet
<1>7. ASSUME NEW n \in 1 .. N, Fine(h[n - 1], T) /\ HowOften(h[n - 1].targets, V[n]) > 0
      PROVE  /\ Fine(Do("remove", 0, h[n - 1], V[n]), T)
             /\ Exchanged(h[n - 1], Do("remove", 0, h[n - 1], V[n]), V[n], w[n])
  <2>1. Do("remove", 0, h[n - 1], V[n]) = RemoveTarget(h[n - 1], V[n])
    BY DEF Do
  <2> QED
    BY <1>4, <1>7, <2>1, Removed, RemovedOnce
<1>8. Became(l, RemoveEach(l, V), V, FlattenSeq(w))
  BY <1>1, <1>2, <1>5, <1>7, Exchanging
<1>9. \A t : HowOften(<<>>, t) = 0
  BY OftenOne
<1> QED
  BY <1>6, <1>8, <1>9 DEF Became

LEMMA AppliedEachOnce ==
  ASSUME NEW T, NEW l, Fine(l, T), NEW V \in Seq(T), Enough(l, V), NEW extra,
         \A n \in DOMAIN V : Applied(V[n], extra) \in T,
         NEW U, U = [n \in DOMAIN V |-> Applied(V[n], extra)]
  PROVE  U \in Seq(T) /\ Became(l, ApplyToEach(l, V, extra), V, U)
<1>1. PICK N : N = Len(V) /\ N \in Nat /\ DOMAIN V = 1 .. N
  BY LenProperties
<1>2. PICK h : Steps(h, "apply", extra, l, V, N, ApplyToEach(l, V, extra))
  BY <1>1, ApplySteps
<1>3. U \in Seq(T) /\ DOMAIN U = 1 .. N
  <2>1. U \in [1 .. N -> T]
    BY <1>1
  <2> QED
    BY <1>1, <2>1
<1>4. PICK w : w = Singly(U, {}) /\ \A t : OftenSome(T, U, {}, t)
  BY <1>3, FlattenSome
<1>5. DOMAIN w = 1 .. N /\ \A n \in 1 .. N : w[n] = <<Applied(V[n], extra)>>
  BY <1>1, <1>3, <1>4 DEF Singly
<1>6. w \in Seq(Seq(T)) /\ Len(w) = N
  <2>1. w \in Seq(Seq(T))
    BY <1>4 DEF OftenSome
  <2> QED
    BY <1>1, <1>5, <2>1, LenProperties
<1>7. ASSUME NEW t PROVE HowOften(FlattenSeq(w), t) = HowOften(U, t)
  <2>1. HowOften(FlattenSeq(w), t) = Cardinality({k \in DOMAIN U : k \notin {} /\ U[k] = t})
    BY <1>4 DEF OftenSome
  <2>2. {k \in DOMAIN U : k \notin {} /\ U[k] = t} = {k \in DOMAIN U : U[k] = t}
    OBVIOUS
  <2> QED
    BY <2>1, <2>2 DEF HowOften
<1>8. ASSUME NEW n \in 1 .. N, Fine(h[n - 1], T) /\ HowOften(h[n - 1].targets, V[n]) > 0
      PROVE  /\ Fine(Do("apply", extra, h[n - 1], V[n]), T)
             /\ Exchanged(h[n - 1], Do("apply", extra, h[n - 1], V[n]), V[n], w[n])
  <2> DEFINE new == Applied(V[n], extra)
  <2>1. Do("apply", extra, h[n - 1], V[n]) = ApplyTo(h[n - 1], V[n], extra)
    BY DEF Do
  <2>2. new \in T /\ w[n] = <<new>>
    BY <1>1, <1>5
  <2>3. Exchanged(h[n - 1], ApplyTo(h[n - 1], V[n], extra), V[n], w[n])
    BY <1>8, <2>2, AppliedOnce
  <2>4. Fine(replaceTarget(h[n - 1], V[n], new), T)
    BY <1>8, <2>2, Replaced
  <2>5. Fine(ApplyTo(h[n - 1], V[n], extra), T)
    BY <2>4, Selecting DEF ApplyTo
  <2> QED
    BY <2>1, <2>3, <2>5
<1>9. Became(l, ApplyToEach(l, V, extra), V, FlattenSeq(w))
  BY <1>1, <1>2, <1>6, <1>8, Exchanging
<1> QED
  BY <1>3, <1>7, <1>9 DEF Became

LEMMA CallsRemoved ==
  ASSUME NEW T, Closed(T), NEW l, Fine(l, T), NEW V \in Seq(T), Enough(l, V),
         NEW W, W = [n \in DOMAIN V |-> Remains(V[n])]
  PROVE  /\ Fine(RemoveCalls(l, V), T)
         /\ W \in Seq(Seq(T)) /\ Became(l, RemoveCalls(l, V), V, FlattenSeq(W))
<1>1. PICK N : N = Len(V) /\ N \in Nat /\ DOMAIN V = 1 .. N /\ \A n \in 1 .. N : V[n] \in T
  BY LenProperties, ElementOfSeq
<1>2. PICK h : Steps(h, "call", 0, l, V, N, RemoveCalls(l, V))
  BY <1>1, CallSteps
<1>3. W \in Seq(Seq(T)) /\ Len(W) = N
  <2>1. \A n \in 1 .. N : Remains(V[n]) \in Seq(T)
    BY <1>1, RemainsAreTargets
  <2>2. W \in [1 .. N -> Seq(T)]
    BY <1>1, <2>1
  <2> QED
    BY <1>1, <2>2
<1>4. ASSUME NEW n \in 1 .. N, Fine(h[n - 1], T) /\ HowOften(h[n - 1].targets, V[n]) > 0
      PROVE  /\ Fine(Do("call", 0, h[n - 1], V[n]), T)
             /\ Exchanged(h[n - 1], Do("call", 0, h[n - 1], V[n]), V[n], W[n])
  <2>1. Do("call", 0, h[n - 1], V[n]) = RemoveCall(h[n - 1], V[n])
    BY DEF Do
  <2>2. W[n] = Remains(V[n])
    BY <1>1
  <2> QED
    BY <1>4, <2>1, <2>2, CallRemoved
<1> QED
  BY <1>1, <1>2, <1>3, <1>4, Exchanging

--------------------------------------------------------------------------------
(* The targets a handler may leave in the list: texts, whatever is cut or joined *)

LEMMA PiecesAreTexts ==
  ASSUME NEW s \in Texts
  PROVE  Pieces(s) \in Seq(Texts)
<1> DEFINE N == Cardinality(Cuts(s)) + 1
           q == Pieces(s)
<1>1. DOMAIN s = 1 .. Len(s) /\ Len(s) \in Nat
  BY LenProperties DEF Texts
<1>2. IsFiniteSet(Cuts(s))
  <2>1. Cuts(s) \in SUBSET (1 .. Len(s))
    BY <1>1 DEF Cuts, Commas
  <2>2. IsFiniteSet(1 .. Len(s))
    BY <1>1, FS_Interval
  <2> QED
    BY <2>1, <2>2, FS_Subset
<1>3. N \in Nat
  BY <1>2, FS_CardinalityType
<1>4. \A J : Without(s, J) \in Texts
  BY WithoutOften DEF Texts
<1>5. \A n \in 1 .. N : q[n] \in Texts
  BY <1>4 DEF Pieces
<1>6. q = [n \in 1 .. N |-> q[n]]
  BY DEF Pieces
<1> HIDE DEF N, q
<1>7. q \in [1 .. N -> Texts]
  BY <1>5, <1>6
<1>8. q \in Seq(Texts)
  BY <1>3, <1>7
<1> QED
  BY <1>8 DEF q

LEMMA TextsClosed == Closed(Texts)
<1>1. ASSUME NEW t \in Texts PROVE ArgString(t) \in Texts
  <2>1. \A J : Without(t, J) \in Texts
    BY WithoutOften DEF Texts
  <2>2. (\E J : ArgString(t) = Without(t, J)) \/ ArgString(t) = t
    BY DEF ArgString
  <2> QED
    BY <2>1, <2>2
<1> QED
  BY <1>1, PiecesAreTexts DEF Closed

LEMMA CallsAreTexts ==
  ASSUME NEW ts \in Seq(Texts)
  PROVE  Call(ts) \in Texts
<1> DEFINE w == [k \in DOMAIN ts |-> IF k = 1 THEN ts[k] ELSE <<",">> \o ts[k]]
<1>1. PICK N \in Nat : DOMAIN ts = 1 .. N /\ \A k \in 1 .. N : ts[k] \in Seq(Tokens)
  BY LenProperties, ElementOfSeq DEF Texts
<1>2. /\ <<",">> \in Seq(Tokens) /\ <<"function", "(">> \in Seq(Tokens)
      /\ <<")">> \in Seq(Tokens)
  BY DEF Tokens, Opening, Closing
<1>3. \A u, v \in Seq(Tokens) : u \o v \in Seq(Tokens)
  OBVIOUS
<1>4. w \in [1 .. N -> Seq(Tokens)]
  <2>1. \A k \in 1 .. N : <<",">> \o ts[k] \in Seq(Tokens)
    BY <1>1, <1>2, <1>3
  <2> HIDE DEF Tokens
  <2> QED
    BY <1>1, <2>1
<1>5. Joined(ts) = FlattenSeq(w)
  BY DEF Joined
<1> HIDE DEF w
<1>6. w \in Seq(Seq(Tokens))
  BY <1>4
<1>7. Joined(ts) \in Seq(Tokens)
  BY <1>5, <1>6, Flattening
<1>8. Call(ts) = (<<"function", "(">> \o Joined(ts)) \o <<")">>
  BY DEF Call
<1> QED
  BY <1>2, <1>3, <1>7, <1>8, Zenon DEF Texts

LEMMA TypedAreTexts == \A t \in Typed : t \in Texts
<1> SUFFICES ASSUME NEW t \in Typed PROVE t \in Texts
  OBVIOUS
<1>1. PICK m \in Metrics : t = <<m>> \/ t = Call(<<<<m>>>>)
  BY DEF Typed
<1>2. <<m>> \in Texts
  <2>1. m \in Tokens
    BY DEF Tokens
  <2> QED
    BY <2>1 DEF Texts
<1>3. <<<<m>>>> \in Seq(Texts)
  BY <1>2
<1> QED
  BY <1>1, <1>2, <1>3, CallsAreTexts

LEMMA AppliedAreTexts ==
  ASSUME NEW t \in Texts, NEW extra \in Inputs
  PROVE  Applied(t, extra) \in Texts
<1>1. extra \in Texts
  <2>1. extra \in {<<>>, <<"5">>, <<"-5">>} \/ \E x \in {",", "(", ")"} : extra = <<"quote", x, "quote">>
    BY DEF Inputs, Quoted
  <2>2. {"quote", ",", "(", ")", "5", "-5"} \subseteq Tokens
    BY DEF Tokens, Opening, Closing
  <2>3. \A x, y, z \in Tokens :
          <<>> \in Seq(Tokens) /\ <<x>> \in Seq(Tokens) /\ <<x, y, z>> \in Seq(Tokens)
    OBVIOUS
  <2>4. <<>> \in Texts /\ <<"5">> \in Texts /\ <<"-5">> \in Texts
    BY <2>2, <2>3, Zenon DEF Texts
  <2>5. \A x \in {",", "(", ")"} : <<"quote", x, "quote">> \in Texts
    <3>1. \A x \in {",", "(", ")"} : x \in Tokens /\ "quote" \in Tokens
      BY <2>2
    <3> QED
      BY <2>3, <3>1, Zenon DEF Texts
  <2> QED
    BY <2>1, <2>4, <2>5
<1>2. <<t>> \in Seq(Texts) /\ <<t, extra>> \in Seq(Texts)
  <2> HIDE DEF Texts
  <2> QED
    BY <1>1
<1>3. Applied(t, extra) = Call(<<t>>) \/ Applied(t, extra) = Call(<<t, extra>>)
  BY Zenon DEF Applied
<1> QED
  BY <1>2, <1>3, CallsAreTexts

--------------------------------------------------------------------------------
(* The steps *)

LEMMA Shown ==
  ASSUME NEW l, Show(l), Fine(l, Texts)
  PROVE  ComposerInv'
<1>1. targets' = l.targets /\ selected' = l.selected
  BY DEF Show
<1>2. List' = [targets |-> l.targets, selected |-> l.selected]
  BY <1>1 DEF List
<1>3. Fine(List', Texts)
  BY <1>2 DEF Fine
<1> QED
  BY <1>3 DEF ComposerInv, Fine

LEMMA ComposerStarts == ComposerInit => ComposerInv
<1> SUFFICES ASSUME ComposerInit PROVE ComposerInv
  OBVIOUS
<1>1. targets = <<>> /\ selected = <<>>
  BY DEF ComposerInit
<1>2. Fine(List, Texts)
  BY <1>1 DEF List, Fine, Selection, IsInjective, ToSet
<1> QED
  BY <1>2 DEF ComposerInv

\* The actions that change the list through Show(): each leaves a list of texts.
LEMMA SelectionKept ==
  ASSUME Fine(List, Texts)
  PROVE  /\ \A t \in Typed : ToggleTarget(t) \/ AddDialog(t) \/ editTarget(t) => ComposerInv'
         /\ \A query \in Seq(Typed), on \in BOOLEAN : loadURL(query, on) => ComposerInv'
<1>1. \A t \in Typed : t \in Texts
  BY TypedAreTexts
<1>2. List.targets = targets /\ List.selected = selected
  BY DEF List
<1>3. ASSUME NEW t \in Typed, ToggleTarget(t) PROVE ComposerInv'
  <2>1. Show(toggle(List, t))
    BY <1>3 DEF ToggleTarget
  <2> QED
    BY <1>1, <2>1, Toggled, Shown
<1>4. ASSUME NEW t \in Typed, AddDialog(t) PROVE ComposerInv'
  <2>1. Show(AddTarget(List, t))
    BY <1>4 DEF AddDialog
  <2> QED
    BY <1>1, <2>1, Added, Shown
<1>5. ASSUME NEW t \in Typed, editTarget(t) PROVE ComposerInv'
  <2>1. PICK r : r = [List EXCEPT !.targets[selected[1]] = t]
    OBVIOUS
  <2>2. Show(r) /\ Len(selected) = 1
    BY <1>5, <2>1 DEF editTarget
  <2>3. selected[1] \in 1 .. Len(List.targets)
    <3>1. 1 \in 1 .. Len(List.selected)
      BY <1>2, <2>2
    <3> QED
      BY <1>2, <3>1, FineParts
  <2>4. Fine(r, Texts)
    BY <1>1, <2>1, <2>3, Overwritten
  <2> QED
    BY <1>1, <2>2, <2>4, Shown
<1>6. ASSUME NEW query \in Seq(Typed), NEW on \in BOOLEAN, loadURL(query, on) PROVE ComposerInv'
  <2>1. Show(Loaded(query))
    BY <1>6 DEF loadURL
  <2>2. query \in Seq(Texts)
    BY <1>1, SeqMonotonic
  <2> QED
    BY <1>1, <2>1, <2>2, LoadedFine, Shown
<1> QED
  BY <1>3, <1>4, <1>5, <1>6

LEMMA WindowKeeps ==
  ASSUME Fine(List, Texts)
  PROVE  /\ RemoveSelected => ComposerInv'
         /\ \A extra \in Inputs : applyFuncToEach(extra) => ComposerInv'
         /\ applyFuncToAll => ComposerInv'
         /\ removeOuterCall => ComposerInv'
<1> DEFINE V == Values(List)
<1>1. V \in Seq(Texts)
  BY ValuesAreTargets
<1>2. V # <<>> \/ selected = <<>>
  <2>1. List.selected = selected
    BY DEF List
  <2>2. DOMAIN V = DOMAIN selected /\ DOMAIN selected = 1 .. Len(selected) /\ Len(selected) \in Nat
    BY <2>1, FineParts DEF Values
  <2>3. CASE V = <<>>
    <3>1. Len(selected) = 0
      BY <2>2, <2>3
    <3>2. selected \in Seq(Nat)
      BY <2>1 DEF Fine, Selection
    <3> QED
      BY <3>1, <3>2, EmptySeq
  <2> QED
    BY <2>3
<1> HIDE DEF V
<1>3. ASSUME RemoveSelected PROVE ComposerInv'
  <2>1. Show(RemoveEach(List, V))
    BY <1>3 DEF RemoveSelected, V
  <2> QED
    BY <1>1, <2>1, RemovedEach, Shown
<1>4. ASSUME NEW extra \in Inputs, applyFuncToEach(extra) PROVE ComposerInv'
  <2>1. Show(ApplyToEach(List, V, extra))
    BY <1>4 DEF applyFuncToEach, V
  <2>2. \A t \in Texts : Applied(t, extra) \in Texts
    BY AppliedAreTexts
  <2>3. Fine(ApplyToEach(List, V, extra), Texts)
    BY <1>1, <2>2, AppliedToEach
  <2> QED
    BY <2>1, <2>3, Shown
<1>5. ASSUME applyFuncToAll PROVE ComposerInv'
  <2> DEFINE new == Call(V)
             first == replaceTarget(List, Head(V), new)
             rest == RemoveEach(first, Tail(V))
  <2>1. Show(SelectToo(rest, new)) /\ selected # <<>>
    BY <1>5 DEF applyFuncToAll, V
  <2>2. new \in Texts
    BY <1>1, CallsAreTexts
  <2>3. Tail(V) \in Seq(Texts)
    BY <1>1, <1>2, <2>1, HeadTailProperties
  <2> HIDE DEF new
  <2>4. Fine(first, Texts)
    BY <2>2, Replaced
  <2> HIDE DEF first
  <2>5. Fine(rest, Texts)
    BY <2>3, <2>4, RemovedEach
  <2> HIDE DEF rest
  <2>6. Fine(SelectToo(rest, new), Texts)
    BY <2>5, Selecting
  <2> QED
    BY <2>1, <2>2, <2>6, Shown
<1>6. ASSUME removeOuterCall PROVE ComposerInv'
  <2>1. Show(RemoveCalls(List, V))
    BY <1>6 DEF removeOuterCall, V
  <2>2. Enough(List, V)
    BY ValuesEnough DEF V
  <2>3. Fine(RemoveCalls(List, V), Texts)
    BY <1>1, <2>2, TextsClosed, CallsRemoved
  <2> QED
    BY <2>1, <2>3, Shown
<1> QED
  BY <1>3, <1>4, <1>5, <1>6

LEMMA MovesKeep ==
  ASSUME Fine(List, Texts)
  PROVE  /\ \A direction \in {-1, 1} : moveTarget(direction) => ComposerInv'
         /\ swapTargets => ComposerInv'
         /\ \A at \in DOMAIN targets, ctrl \in BOOLEAN : Click(at, ctrl) => ComposerInv'
<1> DEFINE n == Len(targets)
<1>1. List.targets = targets /\ List.selected = selected
  BY DEF List
<1>2. /\ targets \in Seq(Texts) /\ n \in Nat /\ DOMAIN targets = 1 .. n
      /\ Selection(selected, n) /\ selected \in Seq(Nat)
  BY <1>1, FineParts DEF Fine, Selection
<1> HIDE DEF n
<1>3. /\ Len(selected) \in Nat /\ DOMAIN selected = 1 .. Len(selected)
      /\ \A k \in 1 .. Len(selected) : selected[k] \in 1 .. n /\ selected[k] \in ToSet(selected)
  BY <1>2, SelectionParts
<1>4. ToSet(selected) \subseteq 1 .. n /\ \A p \in ToSet(selected) : \E k \in DOMAIN selected : p = selected[k]
  BY <1>2 DEF Selection, ToSet
<1>5. ASSUME NEW direction \in {-1, 1}, moveTarget(direction) PROVE ComposerInv'
  <2> DEFINE ts == MoveEach(targets, selected, direction)
             s == [k \in DOMAIN selected |-> selected[k] + direction]
             l == [targets |-> ts, selected |-> s]
             D == ToSet(selected)
             f == [p \in D |-> p + direction]
  <2>1. Show(l) /\ \A k \in DOMAIN selected : selected[k] + direction \in DOMAIN targets
    BY <1>5 DEF moveTarget
  <2>2. \A p \in D : p \in 1 .. n /\ p + direction \in 1 .. n
    BY <1>2, <1>4, <2>1
  <2>3. selected \in Seq(D)
    <3>1. selected \in [1 .. Len(selected) -> D]
      <4>1. selected = [k \in 1 .. Len(selected) |-> selected[k]]
        BY <1>2, <1>3
      <4> HIDE DEF D
      <4> QED
        BY <1>3, <4>1 DEF D
    <3> HIDE DEF D
    <3> QED
      BY <1>3, <3>1
  <2>4. ts \in Seq(Texts) /\ Len(ts) = n
    BY <1>2, <2>2, <2>3, MovedEach DEF n
  <2>5. direction \in Int
    OBVIOUS
  <2>6. f \in [D -> 1 .. n] /\ \A j, k \in D : f[j] = f[k] => j = k
    BY <1>2, <2>2, <2>5
  <2>7. s = [k \in DOMAIN selected |-> f[selected[k]]]
    BY <1>3
  <2>8. D \subseteq D /\ ToSet(selected) \subseteq D
    OBVIOUS
  <2> HIDE DEF ts, s, D, f
  <2>9. Selection(s, n)
    BY <1>2, <2>6, <2>7, <2>8, Renamed
  <2>10. Fine(l, Texts)
    BY <2>4, <2>9, MakeFine
  <2> QED
    BY <2>1, <2>10, Shown
<1>6. ASSUME swapTargets PROVE ComposerInv'
  <2> DEFINE ts == Swapped(targets, selected[1], selected[2])
  <2>1. PICK r : r = [List EXCEPT !.targets = Swapped(@, selected[1], selected[2])]
    OBVIOUS
  <2>2. Show(r) /\ Len(selected) = 2
    BY <1>6, <2>1 DEF swapTargets
  <2>3. selected[1] \in 1 .. n /\ selected[2] \in 1 .. n
    BY <1>3, <2>2
  <2>4. ts \in Seq(Texts) /\ Len(ts) = n
    BY <1>2, <2>3, Swapping DEF n
  <2>5. r = [targets |-> ts, selected |-> selected]
    BY <2>1 DEF List
  <2> HIDE DEF ts
  <2>6. Fine(r, Texts)
    BY <1>2, <2>4, <2>5, MakeFine
  <2> QED
    BY <2>2, <2>6, Shown
<1>7. ASSUME NEW at \in DOMAIN targets, NEW ctrl \in BOOLEAN, Click(at, ctrl) PROVE ComposerInv'
  <2>1. /\ targets' = targets
        /\ \/ selected' = <<at>>
           \/ selected' = RemoveFirst(selected, at)
           \/ (~Contains(selected, at) /\ selected' = Append(selected, at))
    BY <1>7, Zenon DEF Click
  <2>2. at \in 1 .. n /\ at \in Nat
    BY <1>2
  <2>3. Selection(<<at>>, n)
    <3>1. <<at>> \in Seq(Nat) /\ DOMAIN <<at>> = {1} /\ <<at>>[1] = at
      BY <2>2
    <3> QED
      BY <2>2, <3>1 DEF Selection, IsInjective, ToSet
  <2>4. Selection(RemoveFirst(selected, at), n)
    BY <1>2, RemovingFirst DEF Selection
  <2>5. ~Contains(selected, at) => Selection(Append(selected, at), n)
    <3>1. ASSUME ~Contains(selected, at) PROVE Selection(Append(selected, at), n)
      <4>1. at \notin ToSet(selected)
        BY <1>3, <1>4, <3>1 DEF Contains
      <4>2. /\ Append(selected, at) \in Seq(Nat) /\ IsInjective(Append(selected, at))
            /\ ToSet(Append(selected, at)) = ToSet(selected) \cup {at}
        BY <1>2, <2>2, <4>1, Appending, InjectiveAppend DEF Selection
      <4> QED
        BY <1>4, <2>2, <4>2 DEF Selection
    <3> QED
      BY <3>1
  <2>6. Selection(selected', n)
    BY <2>1, <2>3, <2>4, <2>5
  <2>7. List' = [targets |-> targets, selected |-> selected']
    BY <2>1 DEF List
  <2>8. Fine(List', Texts)
    BY <1>2, <2>6, <2>7 DEF Fine, n
  <2> QED
    BY <2>8 DEF ComposerInv
<1> QED
  BY <1>5, <1>6, <1>7

LEMMA ComposerSteps == ComposerInv /\ [ComposerNext]_composerVars => ComposerInv'
<1> SUFFICES ASSUME ComposerInv, [ComposerNext]_composerVars PROVE ComposerInv'
  OBVIOUS
<1>1. Fine(List, Texts)
  BY DEF ComposerInv
<1>2. ASSUME targets' = targets, selected' = selected PROVE ComposerInv'
  <2>1. List' = List
    BY <1>2 DEF List
  <2> QED
    BY <1>1, <2>1 DEF ComposerInv
<1>3. CASE UNCHANGED composerVars
  BY <1>2, <1>3 DEF composerVars
<1>4. CASE \E t \in Typed : ToggleTarget(t) \/ AddDialog(t) \/ editTarget(t)
  BY <1>1, <1>4, SelectionKept
<1>5. CASE \E query \in BoundedSeq(Typed, 2), on \in BOOLEAN : loadURL(query, on)
  <2>1. PICK query \in BoundedSeq(Typed, 2), on \in BOOLEAN : loadURL(query, on)
    BY <1>5
  <2>2. query \in Seq(Typed)
    <3>1. PICK k \in 0 .. 2 : query \in [1 .. k -> Typed]
      BY <2>1 DEF BoundedSeq, SeqOf
    <3>2. k \in Nat
      BY <3>1
    <3> QED
      BY <3>1, <3>2
  <2> QED
    BY <1>1, <2>1, <2>2, SelectionKept
<1>6. CASE PressAutoRefresh \/ Refresh
  BY <1>2, <1>6 DEF PressAutoRefresh, Refresh
<1>7. CASE \E at \in DOMAIN targets, ctrl \in BOOLEAN : Click(at, ctrl)
  BY <1>1, <1>7, MovesKeep
<1>8. CASE RemoveSelected \/ applyFuncToAll \/ removeOuterCall
  BY <1>1, <1>8, WindowKeeps
<1>9. CASE \E extra \in Inputs : applyFuncToEach(extra)
  BY <1>1, <1>9, WindowKeeps
<1>10. CASE swapTargets \/ \E direction \in {-1, 1} : moveTarget(direction)
  BY <1>1, <1>10, MovesKeep
<1> QED
  BY <1>3, <1>4, <1>5, <1>6, <1>7, <1>8, <1>9, <1>10, Zenon DEF ComposerNext

(* Whatever the targets and however often a value is repeated: no place is selected twice,
   and every selected place is one of the list (SelectionInList). *)
THEOREM SelectionStaysInList == ComposerSpec => []SelectionInList
<1>1. ComposerInv => SelectionInList
  <2> SUFFICES ASSUME ComposerInv PROVE SelectionInList
    OBVIOUS
  <2>1. Fine(List, Texts)
    BY DEF ComposerInv
  <2>2. List.targets = targets /\ List.selected = selected
    BY DEF List
  <2>3. targets \in Seq(Texts) /\ Selection(selected, Len(targets))
    BY <2>1, <2>2 DEF Fine
  <2> QED
    BY <2>3, LenProperties DEF SelectionInList, Selection
<1> QED
  BY <1>1, ComposerStarts, ComposerSteps, PTL DEF ComposerSpec

--------------------------------------------------------------------------------
(* Each selected target once *)

LEMMA Bagged ==
  ASSUME NEW T, NEW l, Show(l), NEW others \in Seq(T), NEW new \in Seq(T),
         \A t : HowOften(l.targets, t) = HowOften(others, t) + HowOften(new, t)
  PROVE  BecomeBag(others \o new)
<1>1. targets' = l.targets
  BY DEF Show
<1>2. \A t : HowOften(others \o new, t) = HowOften(others, t) + HowOften(new, t)
  BY OftenConcat
<1>3. \A t : HowOften(targets', t) = HowOften(others \o new, t)
  BY <1>1, <1>2
<1> QED
  BY <1>3 DEF BecomeBag, HowOften

\* The values of V gave way to new, the other targets are as they were.
LEMMA OthersKept ==
  ASSUME NEW T, Fine(List, T), NEW V, V = Values(List), NEW r, NEW new,
         Became(List, r, V, new), \A t : HowOften(new, t) \in Nat
  PROVE  \A t : HowOften(r.targets, t) = HowOften(Others, t) + HowOften(new, t)
<1>1. List.targets = targets /\ List.selected = selected
  BY DEF List
<1>2. \A t : HowOften(targets, t) = HowOften(V, t) + HowOften(Others, t)
  BY <1>1, ValuesEnough DEF Others
<1>3. V \in Seq(T) /\ Others \in Seq(T)
  BY <1>1, ValuesAreTargets, ValuesEnough DEF Others
<1>4. ASSUME NEW t PROVE HowOften(r.targets, t) = HowOften(Others, t) + HowOften(new, t)
  <2>1. HowOften(V, t) \in Nat /\ HowOften(Others, t) \in Nat
    BY <1>3, Often
  <2>2. HowOften(r.targets, t) = HowOften(targets, t) - HowOften(V, t) + HowOften(new, t)
    BY <1>1 DEF Became
  <2> QED
    BY <1>2, <2>1, <2>2
<1> QED
  BY <1>4

LEMMA ActsOnce == ComposerInv => ActedOnOnce
<1> SUFFICES ASSUME ComposerInv PROVE ActedOnOnce
  OBVIOUS
<1> DEFINE V == Values(List)
<1>1. Fine(List, Texts)
  BY DEF ComposerInv
<1>2. List.targets = targets /\ List.selected = selected
  BY DEF List
<1>3. V \in Seq(Texts) /\ Enough(List, V) /\ Others \in Seq(Texts)
  BY <1>1, <1>2, ValuesAreTargets, ValuesEnough DEF Others
<1>5. \A n \in DOMAIN V : V[n] \in Texts
  BY <1>3, LenProperties, ElementOfSeq
<1>6. selected # <<>> => V # <<>>
  <2>1. DOMAIN V = DOMAIN selected /\ DOMAIN selected = 1 .. Len(selected) /\ Len(selected) \in Nat
    BY <1>1, <1>2, FineParts DEF Values
  <2>2. selected \in Seq(Nat)
    BY <1>1, <1>2 DEF Fine, Selection
  <2>3. ASSUME V = <<>> PROVE selected = <<>>
    <3>1. Len(selected) = 0
      BY <2>1, <2>3
    <3> QED
      BY <2>2, <3>1, EmptySeq
  <2> QED
    BY <2>3
<1>7. V = Values(List)
  OBVIOUS
<1> HIDE DEF V
<1>8. ASSUME RemoveSelected PROVE BecomeBag(Others)
  <2> DEFINE r == RemoveEach(List, V)
  <2>1. Show(r)
    BY <1>7, <1>8 DEF RemoveSelected
  <2>2. Became(List, r, V, <<>>)
    BY <1>1, <1>3, RemovedEachOnce
  <2> HIDE DEF r
  <2>3. <<>> \in Seq(Texts) /\ \A t : HowOften(<<>>, t) \in Nat
    BY EmptySeq, Often
  <2>4. \A t : HowOften(r.targets, t) = HowOften(Others, t) + HowOften(<<>>, t)
    BY <1>1, <1>7, <2>2, <2>3, OthersKept
  <2>5. BecomeBag(Others \o <<>>)
    BY <1>3, <2>1, <2>3, <2>4, Bagged
  <2>6. Others \o <<>> = Others
    BY <1>3, ConcatEmptySeq
  <2> QED
    BY <2>5, <2>6
<1>9. ASSUME applyFuncToAll PROVE BecomeBag(Others \o <<Call(V)>>)
  <2> DEFINE new == Call(V)
             first == replaceTarget(List, Head(V), new)
             rest == RemoveEach(first, Tail(V))
             r == SelectToo(rest, new)
  <2>1. Show(r) /\ selected # <<>>
    BY <1>7, <1>9 DEF applyFuncToAll
  <2>2. V \in Seq(Texts) /\ Others \in Seq(Texts) /\ Fine(List, Texts) /\ new \in Texts
    BY <1>1, <1>3, CallsAreTexts
  <2> HIDE DEF new
  <2>3. V # <<>> /\ Tail(V) \in Seq(Texts)
    BY <1>6, <2>1, <2>2, HeadTailProperties
  <2>4. \A t : HowOften(Tail(V), t) = HowOften(V, t) - IF Head(V) = t THEN 1 ELSE 0
    BY <2>2, <2>3, OftenTail
  <2>5. \A t : /\ HowOften(V, t) \in Nat /\ HowOften(Tail(V), t) \in Nat
               /\ HowOften(targets, t) \in Nat /\ HowOften(V, t) <= HowOften(targets, t)
    BY <1>2, <1>3, <2>2, <2>3, Often DEF Enough, Fine
  <2>6. HowOften(List.targets, Head(V)) > 0
    <3>1. HowOften(Tail(V), Head(V)) = HowOften(V, Head(V)) - 1
      BY <2>4
    <3> QED
      BY <1>2, <2>5, <3>1
  <2>7. Fine(first, Texts) /\ Exchanged(List, first, Head(V), <<new>>)
    BY <2>2, <2>6, Replaced, ReplacedOnce
  <2> HIDE DEF first
  <2>8. \A t : HowOften(<<new>>, t) \in Nat
    BY OftenOne
  <2>9. \A t : HowOften(first.targets, t) =
                 HowOften(targets, t) - (IF Head(V) = t THEN 1 ELSE 0) + HowOften(<<new>>, t)
    BY <1>2, <2>7 DEF Exchanged
  <2>10. Enough(first, Tail(V))
    <3>1. ASSUME NEW t PROVE HowOften(Tail(V), t) <= HowOften(first.targets, t)
      BY <2>4, <2>5, <2>8, <2>9
    <3> QED
      BY <3>1 DEF Enough
  <2>11. Fine(rest, Texts) /\ Became(first, rest, Tail(V), <<>>)
    BY <2>3, <2>7, <2>10, RemovedEach, RemovedEachOnce
  <2> HIDE DEF rest
  <2>12. r.targets = rest.targets
    BY <2>11, Selecting
  <2> HIDE DEF r
  <2>13. Became(List, r, V, <<new>>)
    <3>1. ASSUME NEW t
          PROVE  HowOften(r.targets, t) = HowOften(targets, t) - HowOften(V, t) + HowOften(<<new>>, t)
      <4>1. HowOften(rest.targets, t) =
              HowOften(first.targets, t) - HowOften(Tail(V), t) + HowOften(<<>>, t)
        BY <2>11 DEF Became
      <4>2. HowOften(<<>>, t) = 0
        BY OftenOne
      <4> QED
        BY <2>4, <2>5, <2>8, <2>9, <2>12, <4>1, <4>2
    <3> QED
      BY <1>2, <3>1 DEF Became
  <2>14. \A t : HowOften(r.targets, t) = HowOften(Others, t) + HowOften(<<new>>, t)
    BY <1>1, <1>7, <2>8, <2>13, OthersKept
  <2>15. <<new>> \in Seq(Texts)
    BY <2>2
  <2>16. BecomeBag(Others \o <<new>>)
    BY <2>1, <2>2, <2>14, <2>15, Bagged
  <2> QED
    BY <2>16 DEF new
<1>10. ASSUME removeOuterCall
       PROVE  BecomeBag(Others \o FlattenSeq([k \in DOMAIN V |-> Remains(V[k])]))
  <2> DEFINE r == RemoveCalls(List, V)
  <2>1. Show(r)
    BY <1>7, <1>10 DEF removeOuterCall
  <2>2. PICK W : W = [k \in DOMAIN V |-> Remains(V[k])]
    OBVIOUS
  <2>3. W \in Seq(Seq(Texts)) /\ Became(List, r, V, FlattenSeq(W))
    BY <1>1, <1>3, <2>2, TextsClosed, CallsRemoved
  <2>4. FlattenSeq(W) \in Seq(Texts)
    BY <2>3, Flattening
  <2> HIDE DEF r
  <2>5. \A t : HowOften(FlattenSeq(W), t) \in Nat
    BY <2>4, Often
  <2>6. \A t : HowOften(r.targets, t) = HowOften(Others, t) + HowOften(FlattenSeq(W), t)
    BY <1>1, <1>7, <2>3, <2>5, OthersKept
  <2>7. BecomeBag(Others \o FlattenSeq(W))
    BY <1>3, <2>1, <2>4, <2>6, Bagged
  <2> QED
    BY <2>2, <2>7
<1>11. ASSUME NEW extra \in Inputs, applyFuncToEach(extra)
       PROVE  BecomeBag(Others \o [k \in DOMAIN V |-> Applied(V[k], extra)])
  <2> DEFINE r == ApplyToEach(List, V, extra)
  <2>1. Show(r)
    BY <1>7, <1>11 DEF applyFuncToEach
  <2>2. PICK new : new = [k \in DOMAIN V |-> Applied(V[k], extra)]
    OBVIOUS
  <2>4. V \in Seq(Texts) /\ Others \in Seq(Texts) /\ Fine(List, Texts)
    BY <1>1, <1>3
  <2>5. \A n \in DOMAIN V : Applied(V[n], extra) \in Texts
    BY <1>5, AppliedAreTexts
  <2>6. new \in Seq(Texts) /\ Became(List, r, V, new)
    BY <1>3, <2>2, <2>4, <2>5, AppliedEachOnce
  <2> HIDE DEF r
  <2>7. \A t : HowOften(new, t) \in Nat
    BY <2>6, Often
  <2>8. \A t : HowOften(r.targets, t) = HowOften(Others, t) + HowOften(new, t)
    BY <1>1, <1>7, <2>6, <2>7, OthersKept
  <2>9. BecomeBag(Others \o new)
    BY <2>1, <2>4, <2>6, <2>8, Bagged
  <2> QED
    BY <2>2, <2>9
<1> QED
  BY <1>7, <1>8, <1>9, <1>10, <1>11, Zenon DEF ActedOnOnce

(* Whatever the targets, however often a value is repeated and in whatever order they were
   selected: Remove, the functions and "Remove Outer Call" use each selected target once and
   touch no other, and the call of a text that is malformed stays where the others of the
   selection lose theirs (SelectionActedOnOnce). *)
THEOREM EachActedOnOnce == ComposerSpec => SelectionActedOnOnce
<1>1. ComposerInv => [ActedOnOnce]_composerVars
  BY ActsOnce
<1> QED
  BY <1>1, ComposerStarts, ComposerSteps, PTL DEF ComposerSpec, SelectionActedOnOnce

================================================================================
