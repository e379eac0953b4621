------------------------------ MODULE AutoRefresh ------------------------------
(***************************************************************************)
(* How a dashboard refreshes (graphite-web, content/js/dashboard.js): the  *)
(* refresh task in Ext's TaskRunner, the button and the field that start   *)
(* and stop it, the time range of the dashboard and those that graphs      *)
(* bring with them, and the images of the graphs, which are loaded in the  *)
(* background and arrive in any order.                                     *)
(***************************************************************************)
EXTENDS Naturals

CONSTANTS Graphs,
          NoRange,    \* a graph without "from" and "until" among its parameters
          MaxEntries, \* bound: entries of the task in the runner
          MaxImages,  \* bound: images of a graph that are on their way
          MaxRange    \* bound: how often the dashboard's time range changes

ASSUME RefreshAssumption == {MaxEntries, MaxImages, MaxRange} \subseteq Nat

VARIABLES
  tasks, removeQueue,  \* how often refreshTask is in these lists of the runner
  thread,              \* the runner's interval timer is set
  running,             \* refreshTask.running
  due,                 \* the interval has passed since taskRunTime
  pressed,             \* the auto-refresh button
  positive,            \* refreshTask.interval > 0
  range,               \* the time range of the dashboard: how often it changed
  own,                 \* the time range among the parameters of each graph
  images,              \* the images on their way, by the range they were asked for
  url, loading         \* of the records

runner == <<tasks, removeQueue, thread, running, due>>
shown == <<range, own, images, url, loading>>
refreshVars == <<runner, pressed, positive, shown>>

\* A range that a graph has brought while the dashboard's was r.
Brought(r) == MaxRange + 1 + r
Ranges == 0 .. Brought(MaxRange)
NoImages == [r \in Ranges |-> 0]

RefreshInit ==
  /\ tasks = 0 /\ removeQueue = 0 /\ thread = FALSE /\ running = FALSE /\ due = FALSE
  /\ pressed = FALSE /\ positive = TRUE
  /\ range = 0 /\ own = [g \in Graphs |-> NoRange] /\ images = [g \in Graphs |-> NoImages]
  /\ url = [g \in Graphs |-> 0] /\ loading = [g \in Graphs |-> FALSE]

--------------------------------------------------------------------------------
(* The task: the runner as a record, so that a handler can stop and start it *)

Runner == [tasks |-> tasks, removeQueue |-> removeQueue, thread |-> thread,
           running |-> running, due |-> due]
SetRunner(t) ==
  /\ t.tasks <= MaxEntries
  /\ tasks' = t.tasks /\ removeQueue' = t.removeQueue /\ thread' = t.thread
  /\ running' = t.running /\ due' = t.due

\* A task that is started is due at once: its taskRunTime is 0.
startTask(t) ==
  IF t.running THEN t
  ELSE [t EXCEPT !.tasks = @ + 1, !.thread = TRUE, !.running = TRUE, !.due = TRUE]

\* A task that is stopped stays in the list until the runner's next turn.
stopTask(t) ==
  IF t.running THEN [t EXCEPT !.removeQueue = @ + 1, !.running = FALSE] ELSE t

\* The button's toggle(): its handler is called only if the state changes.
ToggleTo(t, state) ==
  CASE state = pressed -> t
    [] state /\ ~pressed -> startTask(t)
    [] OTHER -> stopTask(t)

\* Mutant: a task is started again without being stopped.
Restart_NoStop(t) == startTask([t EXCEPT !.running = FALSE])
Restart(t) == startTask(stopTask(t))

--------------------------------------------------------------------------------
(* The images *)

\* The parameters of the dashboard, over which those of the graph are laid.
RangeOf(r, o) == IF o = NoRange THEN r ELSE o
\* What updateGraphRecords() asks for a graph.
Asked(r, o) == [q \in Ranges |-> IF q = RangeOf(r, o) THEN 1 ELSE 0]

\* Images for all, with the ranges as the step leaves them; those that were on their way
\* to a record that is replaced do not reach the new one.
RequestImages(replaced) ==
  /\ \A g \in Graphs \ replaced, r \in Ranges : images[g][r] < MaxImages
  /\ images' = [g \in Graphs |-> [r \in Ranges |->
                  Asked(range', own'[g])[r] + IF g \in replaced THEN 0 ELSE images[g][r]]]
  /\ loading' = [g \in Graphs |-> TRUE]

refreshGraphs == UNCHANGED <<range, own>> /\ RequestImages({})

\* onload sets the url of the record, whichever image was asked for last.
ImageLoaded(g, r) ==
  /\ images[g][r] > 0
  /\ images' = [images EXCEPT ![g][r] = @ - 1]
  /\ url' = [url EXCEPT ![g] = r] /\ loading' = [loading EXCEPT ![g] = FALSE]
  /\ UNCHANGED <<runner, pressed, positive, range, own>>

\* There is no onerror.
ImageFails(g, r) ==
  /\ images[g][r] > 0
  /\ images' = [images EXCEPT ![g][r] = @ - 1]
  /\ UNCHANGED <<runner, pressed, positive, range, own, url, loading>>

--------------------------------------------------------------------------------
(* Handlers *)

\* The toggleHandler of the button.
PressButton ==
  /\ pressed' = ~pressed
  /\ SetRunner(ToggleTo(Runner, ~pressed))
  /\ UNCHANGED <<positive, shown>>

\* updateAutoRefresh(): the "change" of the field lets any number through.
UpdateAutoRefresh ==
  /\ positive' \in BOOLEAN
  /\ SetRunner(IF pressed THEN Restart(Runner) ELSE Runner)
  /\ UNCHANGED <<pressed, shown>>

RefreshButton ==
  /\ refreshGraphs
  /\ UNCHANGED <<runner, pressed, positive, url>>

\* Mutant: a graph keeps the range that it has.
TimeRangeUpdated_KeepsOwn ==
  /\ range < MaxRange
  /\ range' = range + 1 /\ UNCHANGED own
  /\ RequestImages({})
  /\ UNCHANGED <<runner, pressed, positive, url>>

\* timeRangeUpdated() changes the defaults and the parameters of all records.
TimeRangeUpdated ==
  /\ range < MaxRange
  /\ range' = range + 1 /\ own' = [g \in Graphs |-> range']
  /\ RequestImages({})
  /\ UNCHANGED <<runner, pressed, positive, url>>

\* graphAreaToggle(), importGraphUrl() and the editor of the dashboard add records; a
\* URL and the editor's text may hold a range.
NewRecords(new, ranges) ==
  /\ own' = [g \in Graphs |-> IF g \in new THEN ranges[g] ELSE own[g]]
  /\ UNCHANGED range
  /\ RequestImages(new)
  /\ url' = [g \in Graphs |-> IF g \in new THEN RangeOf(range, own'[g]) ELSE url[g]]
  /\ UNCHANGED <<runner, pressed, positive>>

\* mailGraph() lays the parameters of the dashboard over those of the record itself.
MailGraph(g) ==
  /\ own' = [own EXCEPT ![g] = range]
  /\ UNCHANGED <<runner, pressed, positive, range, images, url, loading>>

\* applyState(): the button and the task, then the parameters that were saved with the
\* dashboard and with each graph.
ApplyState(enabled) ==
  /\ pressed' = enabled
  /\ positive' \in BOOLEAN
  /\ LET toggled == ToggleTo(IF enabled THEN Restart(Runner) ELSE stopTask(Runner), enabled)
     IN  SetRunner(IF enabled THEN Restart(toggled) ELSE toggled)
  /\ range' \in {range, range + 1} /\ range' <= MaxRange
  /\ own' \in [Graphs -> {NoRange, range', Brought(range')}]
  /\ RequestImages(Graphs)
  /\ \E r \in Ranges : url' = [g \in Graphs |-> r]

--------------------------------------------------------------------------------
(* The runner *)

\* The interval passes; one that is not positive always has.
Elapse ==
  /\ ~due /\ due' = TRUE
  /\ UNCHANGED <<tasks, removeQueue, thread, running, pressed, positive, shown>>

\* Mutant: the tasks run before the queue is looked at.
RunTasks_RemovesLast ==
  /\ thread
  /\ tasks' = tasks - removeQueue /\ removeQueue' = 0
  /\ thread' = (tasks' > 0)
  /\ IF due THEN refreshGraphs /\ due' = ~positive
     ELSE UNCHANGED <<due, range, own, images, loading>>
  /\ UNCHANGED <<running, pressed, positive, url>>

\* runTasks(): what was stopped is removed, before what is left may run.
RunTasks ==
  /\ thread
  /\ tasks' = tasks - removeQueue /\ removeQueue' = 0
  /\ thread' = (tasks' > 0)
  /\ IF tasks' > 0 /\ due
     THEN refreshGraphs /\ due' = ~positive
     ELSE UNCHANGED <<due, range, own, images, loading>>
  /\ UNCHANGED <<running, pressed, positive, url>>

RefreshNext ==
  \/ PressButton \/ UpdateAutoRefresh \/ RefreshButton \/ TimeRangeUpdated
  \/ \E new \in SUBSET Graphs \ {{}}, ranges \in [Graphs -> {NoRange, Brought(range)}] :
       NewRecords(new, ranges)
  \/ \E g \in Graphs : MailGraph(g)
  \/ \E enabled \in BOOLEAN : ApplyState(enabled)
  \/ Elapse \/ RunTasks
  \/ \E g \in Graphs, r \in Ranges : ImageLoaded(g, r) \/ ImageFails(g, r)

RefreshSpec == RefreshInit /\ [][RefreshNext]_refreshVars

(* Timers fire; an image that is asked for arrives or fails, and not all fail. *)
FairRefreshSpec ==
  /\ RefreshSpec
  /\ WF_refreshVars(Elapse) /\ SF_refreshVars(RunTasks)
  /\ \A g \in Graphs, r \in Ranges :
       WF_refreshVars(ImageLoaded(g, r) \/ ImageFails(g, r)) /\ SF_refreshVars(ImageLoaded(g, r))

--------------------------------------------------------------------------------
(* Properties *)

(* However often the task is stopped and started between two turns of the runner, by
   the button, the field or a dashboard that is loaded, it is left there once while the
   button is pressed, and not at all otherwise; and the runner's timer is set for it. *)
OneRefreshTask ==
  /\ tasks = removeQueue + (IF pressed THEN 1 ELSE 0)
  /\ running = pressed
  /\ thread <=> tasks > 0

RefreshTypeOK ==
  /\ tasks \in Nat /\ removeQueue \in Nat
  /\ thread \in BOOLEAN /\ running \in BOOLEAN /\ due \in BOOLEAN
  /\ pressed \in BOOLEAN

RefreshInv == RefreshTypeOK /\ OneRefreshTask

(* The task refreshes the graphs only while the button is pressed (dashboard.rst:118),
   although a task that was stopped is still in the runner's list. *)
RefreshOnlyWhilePressed == [][ RunTasks /\ images' # images => pressed ]_refreshVars

\* A record for the graph comes, or the parameters of the one that is there are changed.
AddRecords(new) == \E ranges \in [Graphs -> {NoRange, Brought(range)}] : NewRecords(new, ranges)
LoadState == \E enabled \in BOOLEAN : ApplyState(enabled)
RecordKept(g) ==
  [][ ~LoadState /\ ~MailGraph(g) /\ ~\E new \in SUBSET Graphs : g \in new /\ AddRecords(new) ]_refreshVars

(* A graph shows the range of the dashboard in the end, while the button stays pressed,
   whatever images for older ranges were on their way and whatever range the graph had
   before the dashboard's changed.  One that has brought a range since the last change,
   with its URL or with the state of the dashboard, shows that one instead. *)
RangeShown ==
  \A g \in Graphs : <>[]pressed /\ <>RecordKept(g)
     => <>[](url[g] = IF own[g] = Brought(range) THEN own[g] ELSE range)
================================================================================
