# Carbon and Graphite-web: a verification project

The repository is the notebook of a group of interns. Its one program of size
is the Graphite monitoring stack kept under `src/MinhNV/ghichep_graphite/`:
**carbon** (Python 2, Twisted), the daemons that receive, relay, aggregate and
store time series, and **graphite-web** (Django), which reads them and whose
pages, the dashboard and the graph composer, are programs of their own in
JavaScript. The rest is notes, images, vendored JavaScript and installation
guides. This directory holds TLA+ models of the parts of carbon and graphite-web
that carry the system's own logic, the TLC runs that check them, and TLAPS proofs.

Paths: `carbon/` stands for `src/MinhNV/ghichep_graphite/carbon/lib/carbon/`,
`graphite/` for `src/MinhNV/ghichep_graphite/graphite-web/webapp/graphite/`,
`js/` for `src/MinhNV/ghichep_graphite/graphite-web/webapp/content/js/`, `docs/` for
`src/MinhNV/ghichep_graphite/graphite-web/docs/`, and `carbon.conf.example` for
the file in `carbon/conf/` of the distribution.

- [1. Inventory](#1-inventory)
- [2. Modules and the code they model](#2-modules-and-the-code-they-model)
- [3. Runs, bounds and fairness](#3-runs-bounds-and-fairness)
- [4. Proofs](#4-proofs)
- [5. Where code and documentation disagree](#5-where-code-and-documentation-disagree)
- [6. What is not modelled](#6-what-is-not-modelled)
- [7. Plan](#7-plan)

To check: `tlc -config <run>.cfg <module>` and `tlapm <module>`; `PROJECT.json`
lists the runs, the mutants, the theorems and the lines each definition models.

## 1. Inventory

### How the parts interact

    clients --> MetricReceiver --> pipeline --> write: cache ===> writer thread --> Whisper files
                     ^               |                   ^  \                            |
                     |               |                   |   `-- cacheFull,              |
                     |               |                   |       cacheSpaceAvailable     |
                     `---- pause/resumeReceivingMetrics--|-------'                       |
                                     |                   |                               |
                                     +--> aggregate --> metricGenerated                  |
                                     +--> relay: CarbonClientManager --> destinations    |
                                                         |                               |
    browser --> graphite-web: finders --> Whisper reader + CarbonLink query <------------'
      |               ^
      |               +-- dashboard views, saved graphs (Django tables)
      `-- dashboard.js, composer.js over Ext's Store, DataView, TaskRunner

`carbon-cache` has two threads: the reactor's, which runs every receiver, query
and timer, and the writer's, which drains the cache. They share the cache
dictionary, its lock, two flags and the lists of event handlers. The relay and
the aggregator are single-threaded: what interleaves there is callbacks,
timers, connection events and the edits of the files they read. graphite-web
is a pool of request threads, and reads files that carbon-cache writes. The
pages have one thread each; what interleaves there is the user's clicks, the
timers, the images that arrive and the answers of requests, in any order, over
state that is kept several times: in a store of records, in the nodes of a
view, in the keys of the records, in the URL and on the server.

### Components

| component | state | operations | what is hard | what makes it correct |
|---|---|---|---|---|
| metric cache, `carbon/cache.py` | dictionary metric -> points, `size`, lock, the strategy's snapshot | `store`, `drain_metric`, `pop`, five strategies, watermark and full tests | most of `store` runs without the lock; stale snapshots; counts kept apart from the data | an accepted point lands; the size is never an over-count and never over the limit; points are shed only when full; a strategy names only metrics that are there and gets to all of them |
| flow control, `carbon/events.py`, `state.py`, `protocols.py` | flags, handler lists, connections | pause/resume events, connect, disconnect | handlers of opposite events run in two threads; lists change while they are walked | receivers follow the flag; a pause ends |
| writer, `carbon/writer.py` | place in its loops, points in hand | drain, existence test, create, write, sleep, shutdown | failures between draining and writing; limits on creation; shutdown while asleep | points reach their file or are given up by a branch that says so; the process ends; new metrics get their file |
| token bucket, `carbon/util.py` | level, capacity, rate, time stamp | `drain` (blocking or not), lazy refill, reconfiguration | two threads read-modify-write the level without a lock; arithmetic at the capacity | the rate bound holds; the level passes the capacity by no more than its change, and only around the change |
| relay client, `carbon/client.py` | queue, connection, retry delay, deferred send, deferreds of a stop | send, pause, reconnect, reset, stop | every order of connection events and timers | points are kept, sent once, in order; a send is scheduled when one can be; a stop completes |
| relay manager, `carbon/client.py`, `routers.py` | destinations in the router, one queue each, the buffer of the fake client | route, destination up and down, re-injection, stop | points move between queues while routing changes; re-injection re-enters the router | no point lost or duplicated by re-injection; pauses and buffers only without a destination |
| aggregator, `carbon/aggregator/` | rules, one buffer per aggregate and interval, one timer per aggregate | input, compute, age, re-read rules | late points; reloads while buffers are live; a file edited while it is read | complete aggregates in the window; timers neither leak nor double; rules follow the file |
| read path, `graphite/readers/whisper.py`, `carbonlink.py`, `protocols.py` | a fetch in progress | read file, query cache, merge | file and cache are read one after the other while the writer moves points between them | a fetch misses only points the writer holds at that time |
| hash ring, `carbon/hashing.py` | sorted ring | add, remove, get nodes | collisions, the end of the ring | same answer in relay and webapp; every node found |
| rewrite rules, regex lists, `carbon/rewrite.py`, `regexlist.py` | rules, last modification time | match, re-read | partial reads, a read task that raises | lists follow their file |
| instrumentation, `carbon/instrumentation.py` | counters | increment, record | unlocked counters of two threads | no lost counts |
| CarbonLink pool, `graphite/carbonlink.py` | pooled sockets, last failure per host | select, query, query all | threads share sockets; failure memory | a response answers its own query; failed hosts are avoided |
| store, remote finder, remote reader, `graphite/storage.py`, `finders/remote.py`, `readers/remote.py`, `worker_pool/` | thread pools, requests in flight, last failure | find, fetch, merge | deadlines, late answers, jobs that raise | each request answers; a fetch in flight is shared |
| whitelist, `graphite/whitelist/views.py` | one file | add, remove, show | requests change a file without a lock | no change is lost |
| graph area, `js/dashboard.js`, Ext's `Store` and `DataView` | records with their key, targets and index; nodes with the index in their close button; active menu; dragged record; a breakout on its way | toggle, import, load, close, drag, merge, edit, clone, break out, refresh | nodes keep an index that removals make stale; a menu, a drag and an answer hold a record that may leave the area | clicks and drags find the graph they are on; a close button never removes an earlier graph; the key follows the targets; clicks are not swallowed for ever |
| auto-refresh, `js/dashboard.js`, Ext's `TaskRunner` | the runner's lists and timer, the button, images on their way, a time range for the dashboard and for each graph | press, change the interval, change the range, load, add, mail, run | a task is stopped and started between two turns; images out of order or failing; graphs that bring a range | one task, only while the button is pressed; the dashboard's range is shown in the end, but for graphs that brought another since |
| sessions, `js/dashboard.js`, `graphite/dashboard/views.py` | name, hash, permission, Save button; requests; stored dashboards | open, save, save as, share, delete, log in and out, reload | answers in any order, over a reload, after another dashboard was opened | a stored dashboard knows its name; the Save button tells the truth |
| composer, `js/composer.js`, `composer_widgets.js`, `graphite/templates/composer.html` | the list of targets, its selection, the URL, the auto-refresh timer | toggle, load, add, edit, remove, apply, unwrap, move, swap | targets found by value and selected by node; a value may occur twice; a text is cut by a scanner that is "almost correct" | what is selected is in the list, and each is acted on once |
| saved graphs, `graphite/composer/views.py` | one table | save, delete | two requests save a new name | one row per name (it is not so, section 5) |
| rendering, accounts, configuration, schemas, scripts | none across steps, or Django's | | | |

The hazards of this code, one per place, are in `PROJECT.json` with the
properties that would catch them, or the reason none does yet.

## 2. Modules and the code they model

| module | models | extends or uses |
|---|---|---|
| `CacheLedger` | the contract of the cache: entries, pending points, hand-over of all points of a metric | |
| `MetricCache` | `cache.py` with both threads, step by step, and the flow-control flags | refines `CacheLedger` |
| `CarbonWriter` | `writer.py` over the cache's contract | uses `CacheLedger` |
| `ReadPath` | a fetch of graphite-web beside the daemon | extends `CarbonWriter` |
| `TokenBucket` | `TokenBucket` of `util.py` | |
| `Receivers` | connections, handler lists and the flag | |
| `CarbonClient` | one destination of a relay | |
| `CarbonRelay` | several destinations, router, buffer, stop | |
| `Aggregator` | buffers, compute tasks, rules and their file | |
| `DashboardGraphs` | the graph area of a dashboard | |
| `AutoRefresh` | the refresh task, the button and the images | |
| `DashboardSession` | which dashboard a window shows and what the server stores | |
| `Composer` | the targets of the graph composer and their selection | |
| `MetricCacheProofs` | theorems about the cache | extends `MetricCache`, TLAPS |
| `WriterProofs` | theorems about the token bucket and the read path with the writer | uses `TokenBucket`, `ReadPath` |
| `ReceivingProofs` | theorems about receivers and the aggregator | uses `Receivers`, `Aggregator` |
| `CarbonClientProofs`, `CarbonRelayProofs` | theorems about one destination and about the relay | extend their component; the relay's `SequenceLemmas` |
| `DashboardGraphsProofs` | theorems about the graph area | extends `DashboardGraphs`, `SequenceLemmas` |
| `PageProofs` | theorems about auto-refresh, sessions and the composer | uses the three modules, `SequenceLemmas` |
| `SequenceLemmas` | induction for a set, the folds of the community modules, and sequences: what appending, inserting, removing, flattening and counting do | |
| `MC...` | constants of the small instances | extend their component |

**MetricCache.** A step is what CPython does without another thread seeing its
middle: one dictionary operation or attribute assignment. `store()` is
`StoreCheck` (the duplicate test, which also enters the metric into the
defaultdict), `StoreIsFull` (no lock), `StoreCount` (lock, `size += 1`),
`StoreFetch` (`self[metric]`) and `StoreAssign`; the variable `ref` remembers
whether the dictionary fetched is still the cache's or one `pop()` took.
`pop()` is `PopRemove`, `PopUncount`, `CheckAvailableSpace`,
`CacheSpaceAvailable`, `ResumeFlag`, `ResumeReceiving`, `PopSort`. The reactor
enters by `Receive`, a message of several datapoints, or `RecordMetrics`, the
daemon's own statistics, which ignore the pause. All strategies are one
definition with a rank.

**CacheLedger.** Five actions: a metric touched without a point, a point
accepted, a point accepted into a dictionary in use, all points of a metric
taken, the points returned. It is what `CarbonWriter` is built on, and
`MetricCache` is shown to implement it, by a run and by a theorem.

**CarbonWriter.** `pcW` is the place in the nested loops of `writeForever`,
`writeCachedDataPoints` and `optimalWriteOrder`. Calls of the database succeed
or raise; the create limit is a number of tokens that refills as time passes.
`unwritten`, `dropped` and `late` are history: points accepted and not in the
file, points a branch of the code gave up, and points that came when no pass
would see them. It has no run of its own: `ReadPath` extends it, and its
properties are checked there.

**ReadPath** adds the content of the files and a fetch as its two reads.
**TokenBucket** has time in ticks and tokens in the units for which the rates are
whole. Both threads are taken apart where they meet: the writer's lazy refill is
`ReadClock`, `RefillRead`, `RefillAdd`, `RefillWrite` and its `-=` is `TakeRead`,
`TakeWrite`; the reactor's `setCapacityAndFillRate` is `SetCapacity`, `SetRate`,
`SetRead`, `SetWrite`, once for a bucket (`writer.py:175-184`). What the writer reads in one
step it reads in the code in the reverse of the order in which the reactor writes it, so
that what it gets was there together at some moment. `raced` says that a
read-modify-write of the writer overlapped the reconfiguration; `credit` is an ideal
bucket beside the real one. **Receivers** walks the handler lists turn by turn, as
`Event.__call__` does, one walk per thread; the cache may be full whoever stores, a
receiver or carbon itself.

**CarbonClient** and **CarbonRelay** take one turn of the reactor as one step;
`sendDatapointsNow`, watermarks, the slow-connection reset and the deferreds
are inside the action of the handler that reaches them. In `CarbonClient`,
`lowWatermark` is one of `Watermarks` and stays: the least size that is not below
`SEND_QUEUE_LOW_WATERMARK`. `SendHighPriorityDatapoint` is modelled although nothing
in this version calls it: the queue has to keep its order with it.

In `CarbonRelay`, `method` is one of `Methods` and stays: the consistent-hashing, the
fast-hashing or the rules router. `Walk` is what a router goes through for a metric
(`Ring`, the order of the destinations that are up, or `Rules`, the destinations of
the matching rules) and `Yielded` the places of it that it yields. `clients` is
`client_factories`: `disconnectClient` forgets a client (`client.py:531`) whose factory
may still connect and put its destination on the router again. `RoutingRaises` says when
`sendDatapoint` raises, into the event's `except` (`events.py:19-22`): at a forgotten
client (`client.py:554`), after the clients before it got the point (`Reached`), and in a
fast ring without a node (`routers.py:223`). Such a point goes to `unrouted`. `Flow`
collects queues, buffer and losses so that re-injection is a fold of `Send` over the
queue, in the code's order: copy, route, clear; `cleared` are the points that were in the
buffer again when it was cleared. `Closed` is the end of a connection that the client
closed itself. Left out are the two aggregated-hashing routers, `DIVERSE_REPLICAS`, and a
relay rule that names a destination twice.

**Aggregator** counts time in aggregation intervals and knows a rule by the
aggregate it computes. `Process` is the whole of `AggregationProcessor.process`
for one datapoint; `ComputeValue` the whole of `compute_value`; a task may run
at any time, which covers every `WRITE_BACK_FREQUENCY`. `read_rules` is split
where another program can change the file: between `getmtime` and `open`. Every edit
raises the modification time; only moving the file back restores an old one.
An aggregate value is the number of its points, and `seen` counts what came.

**DashboardGraphs.** A handler of the page is one action. `Area` collects the
store, the records and the nodes of the view, so that a handler is a
composition of the operators that model Ext's own (`StoreInsert` with the
view's `OnAdd`, `StoreRemoveAt` with `OnRemove`, a changed field with
`OnUpdate`, `Refresh`) and of `UpdateGraphRecords`. A node has the index that
was printed into its close button (`shown`) and the `viewIndex` by which the
view finds its record. A target is a metric or a call on metrics, a key is what
was encoded, with its own form for a raw path. A dashboard that is loaded brings the
keys it was saved with (`SavedGraphs`), which may be behind their targets. `swallowed`
counts clicks that opened nothing.

**AutoRefresh** has the runner's `tasks` and `removeQueue` as counts of the one
task that the page starts, `RunTasks` as a turn of its timer, and the images on
their way by the range they were asked for. A range of the dashboard is the number of its
changes; `own` is the range among a graph's own parameters, which are laid over the
dashboard's (`Asked`, `js/dashboard.js:1064-1066`): the dashboard's one, after a change of
it or after `mailGraph`, or one that the graph has `Brought` with its URL, the text it
was edited in, or the saved dashboard. `NewRecords` replaces records: images for the
old ones do not arrive. A clone starts with the parameters of its graph, and is a graph
like it.

**DashboardSession** has the requests of one window as a set, which the server
serves and the window hears in any order, or loses; `setDashboardName` and
`changeHash` are inside the handlers that call them; `Reload` is a whole load of
the page. Of a state only the name in it is kept. The settings are those under
which saving needs a login.

**Composer** has the list of targets and its selection as one record `List`;
handlers fold over the values that were selected when they began, as the code
does, and look each up by value. The dialogs are modal, so that a dialog and its
answer are one action. A target is a sequence of tokens (metrics, parentheses,
braces, commas, quotes, two numbers), so that `removeOuterCall` can be what it is: a regular
expression that strips the outer parentheses (`ArgString`), a scanner that counts
parentheses and cuts at commas without looking at quotes (`Depth`, `Cuts`, `Pieces`), the
return at a "Malformed target" (`Malformed`), and a regular expression for literals that
knows no sign (`IsLiteral`). Single quotes and the trimming of whitespace are left
out. Functions of two arguments get a number or a quoted comma or parenthesis
(`Inputs`).

## 3. Runs, bounds and fairness

| run | shows |
|---|---|
| `cache_threads` | every interleaving of `store` and `pop` with flow control: size within its limit and never over-counted, shedding only when full, accepted points land, the ledger is implemented; with fair threads a snapshot strategy drains every point, and no strategy names a metric that is gone |
| `read_persistence` | points are written or given up by a branch that says so, new metrics get their file, the writer stops and leaves only what no pass could see, while every database call may fail; a fetch misses only what the writer held during it |
| `bucket_limits` | the rate bound, and the level while each access of a call interleaves with each assignment of a reconfiguration |
| `receivers_safety` | receivers follow the flag through two concurrent walks of the handlers, but for one receiver for each connection lost during a resume or made around it |
| `client_delivery` | scheduling, keeping, order, space events and the stop of one destination, with a watermark above a message and one of its size |
| `relay_delivery` | two destinations up and down, with each of three routers: nothing lost but where routing raises or the buffer is cleared, nothing duplicated, the buffer drains, a stop sends the queues |
| `aggregator_windows` | windows are complete, one task per buffer, buffers are released, rules follow the file, also when it is edited while it is read |
| `graphs_area` | through any order of the handlers of the graph area the view shows the store, a stale close button removes a later graph or none, the key of a graph falls behind its targets by one operation only, and at most two clicks in a row are swallowed |
| `dashboard_refresh` | the task is in the runner once while the button is pressed and refreshes only then; the range of the dashboard is shown in the end, but for graphs that brought another since it last changed |
| `dashboard_names` | what is stored under a name carries it, and the Save button follows name and permission, whichever answer comes last |
| `composer_targets` | the selection stays in the list, and removing, applying and unwrapping touch each selected target once and no other, also when values occur twice and the scanner cuts a target badly |
| `cache_stall` | the counterexample to what the documentation says of flow control, section 5 |

**Bounds.** They are constants named in each module, and appear in guards only.

- *Cache*: two metrics, two timestamps, three of the four points of them
  (`Arriving`), a limit of two and messages of one. Two metrics let a store race
  the pop of its own or of another metric, two timestamps of one metric and one
  of the other let a message find the cache full or the metric popped.
  `Strategies` is one that walks a snapshot and one that looks anew each time;
  the others differ in the rank alone. `MaxDrift` bounds how far `size` may fall
  behind, which otherwise grows for ever.
- *Writer and reader*: two metrics and a create bucket of one token, so that one
  metric starves the other; one timestamp, since points of a metric move
  together; one metric is read and followed by the liveness properties
  (`Watched`), the other one competes.
- *Bucket*: four units of capacity, costs of one and two, six ticks: enough to
  drain, overdraw, wait, refill to the brim and be reconfigured, to a capacity of one, at
  each place.
- *Receivers*: three connections, so that one is before, one at and one after
  the one that leaves while a list is walked. `MaxStrays` is the number of
  connections that may be lost, or made with the old flag, during one resume.
- *Client*: a queue of three, messages of two, watermarks of two and of three, four
  points of which one of the daemon's own: full, above and below the watermark, two
  messages to empty, and one message that empties the queue from a size not below the
  watermark.
- *Relay*: two destinations whose rings begin at different ones for the two metrics (and a
  rule with one of them), queues and messages of one, two points, two losses, and two
  attempts in vain before a destination leaves the router, so that one which is down is
  still on it, with its queue, and then leaves it (the code's five only repeat it).
- *Aggregator*: two aggregates, two intervals, a window of one, three ticks, two
  points, two edits with a removal and return of the file: a point before and
  one after a computation, a reload, or the end of the window; a first edit that is being
  read, and a second one between its `getmtime` and `open`.
- *Graph area*: one metric, which still gives two keys (a raw path and an encoded
  target list), calls on it, and merges; three records (`Ids`), so that a close
  button has a graph before and one after it, or that two are in the area and the
  third, out of it, is still dragged, in a menu or broken out; three targets and
  calls in all of them (`MaxSize`), enough for a merge, and for a key that differs
  from the targets. A load brings up to two graphs, in records that were not in the area.
- *Auto-refresh*: one graph, since graphs meet in nothing but the dashboard's range;
  four entries in the runner (stopped and started twice between two turns), two images
  of a range on their way at a time, two changes of the range.
- *Sessions*: two names and one temporary one, two requests and two events at a
  time: every pair of answers overlaps, also around a reload, and any number of
  them follow each other.
- *Composer*: one metric and the calls on it (a call is also what one types), three
  targets; of one target thirteen tokens, of two together eight, of three nine: a list can
  hold a value twice beside another, a function can make the value that is already there, and
  one target can be a call with a number or something quoted, called again. `MCComposer`
  assumes, and TLC evaluates, that the scanner finds the arguments of calls in which nothing
  is quoted (`ArgumentsFound`), braces included.

`TokenBucket_limits.cfg` turns deadlock checking off because the model's clock
ends; no other configuration does.

**Fairness.** Threads: both get to run (`WF` of the writer and of the reactor),
since neither blocks for ever: the lock is held for a few statements.
`cache_threads` has the strategy's choices as they are, without fairness among
them; draining is claimed for the strategy that walks a snapshot. In the writer, `SF`
of `DrainTake(m)` is what `CachedPointDrained` of the cache establishes; `SF` of
`OrderYield` and `Create` for a metric says that a database call repeated for
ever does not fail for ever. Time passes (`WF` of `Refill`,
`Tick`). In the relay, delayed calls are called (`WF`), and a destination that
is tried again and again is reached (`SF` of `ConnectionMade`); only
liveness that is about reaching destinations uses it. `CarbonRelay` asks for no more
than that: the retries are called and a destination is reached. In the aggregator the
reactor calls due tasks (`WF`); the editors of the file have no fairness. In the
browser timers fire (`WF` of `Elapse`, `SF` of `RunTasks`, whose guard other
handlers switch), each image arrives or fails (`WF`), and one that is asked for
again and again is not refused for ever (`SF` of `ImageLoaded`): the page has no
`onerror`, so that without it an old range stays. Users have no fairness. `RangeShown` has
two premises about them: the button stays pressed, and from some time on the record of the
graph is kept (`RecordKept`: no load, no new record for it, no mail of it).

## 4. Proofs

Every safety property that a run checks is stated by a theorem, for every value of
the constants that the named assumptions admit. Those say that bounds are naturals, sets
are finite where a cardinality is taken, and `None` is no metric and no value; of the
relay's ring that it orders the destinations that are up, and all of them, and of its rules
that they name a destination once (`RelayAssumption`); of the records of the graph area
that they are finitely many numbers (`IdsAssumption`). No theorem has a hypothesis of its
own: what holds of one router only says so in the property. TLC evaluates the assumptions
on the instances of the runs. Each inductive invariant below was checked by TLC on the
instance of its run before it was proved, but for the composer's, which speaks of all texts.

**MetricCacheProofs.** The inductive invariant `IInv` is `TypeOK`, the two
thread invariants `ReactorInv` and `WriterInv` (who holds the lock where; a new
point being inserted is still absent; the dictionary fetched is the cache's
unless a duplicate is overwritten), `ChosenIsCached`, `SizeWithinLimit` and
`CountNeverOverstates`. The size properties are not inductive alone: that a
counted point is not there yet needs the lock, and the lock's discipline needs
the places of both threads. One lemma per thread and conjunct leads to
`Invariance`; `ShedsOnlyWhenFull` and `AcceptedPointsLand` are action
properties from it. `Refinement` shows `Spec => Ledger!Spec`: each step of
`store` and `pop` is a step of `CacheLedger` or leaves its state alone.

**WriterProofs, the bucket.** `RateBounded` compares the bucket with an ideal one of
the same capacity and rate: `Behind` bounds the difference at each step of a call,
through the case where a full bucket keeps an old time stamp; it is about the bucket as it
was configured, before the shutdown. `LevelBounded` has no premise: it says by how much
the level may pass the capacity, and when. `LevelInv` is inductive with `Configured`,
which says how far the reactor is: `Ceiling` is the most that the level, or a level that
one of the two threads has read and not written back yet, may be at that place, and it is
above the capacity only inside the reconfiguration or after an overlap (`raced`).

**WriterProofs, the read path.** The invariant of the daemon says where points are: a pending
point has its entry; nothing is taken or handed outside of `pop()`; the writer
holds points only between `pop()` and the end of `update_many`; after a pass
what is pending is late; what was accepted and not written is pending, handed, in
the writer's hands or given up. `LeavesOnlyLate` is read off it. For a fetch it is
combined with `FetchInv`: what was accepted before the fetch began is in what was
read of the file, still in the cache, or went through the writer's hands since;
that points leave the cache to those hands only keeps it.
`MissesOnlyInHand` is its value when the fetch returns. The specification of
`ReadPath` includes every step of `CarbonWriter`, so one invariant (`ReadInv`) serves both.

**ReceivingProofs, the receivers.** `StraysBounded` counts, so that it needs to be said at every
place of the two walks what is still to be counted. While the writer resumes, the
connections that do not produce, or are about to be paused for an old flag
(`Unread`), are no more than `strays` but for those that the walk has before it
(`Ahead`); while the reactor pauses, only those before its walk produce. What
a removal does to a walk is `RemoveHandler`: the walk loses the handler that is removed
and one more, which moves up past it. That argument needs that a connection is in the
list once, that both lists are the same, and what the flag is where the threads
do not overlap (`HandlersListed`, `FlagsAgree`). TLC checked `ReceiversInv` on the
instance of the run first.

**ReceivingProofs, the aggregator.** `OneTask` and `WindowAlwaysComplete`. The second is not
inductive: that a fresh interval buffer may start at one needs that nothing
was seen for an interval of the window without a buffer, and that a buffer's
count grows with what came needs `Counted`. `PerAggregate` splits `IInv` into what
holds of each aggregate and interval.

**CarbonClientProofs.** The invariant `ClientInv` is types, `SendScheduled`, and of the
queue (`QueueInv`) what makes keeping and order inductive: apart from the daemon's own
datapoints it grows from left to right (`Ordered`), all of it is later than anything
that was sent (`Beyond`), and what was accepted is sent or queued. `Taking` says what
`takeSomeFromQueue` does to such a queue: the message and the rest are
both in order, and the rest is beyond the message. `KeptUntilSent` and `MessagesInOrder`
follow, the second as an action property. That a send is always to come
(`WaitingIsScheduled`) is a matter of flags and inductive by itself.

**CarbonRelayProofs.** `FlowInv` is about queues, buffer, drops and what was sent: each
point that came is in one of them or `Lost` in one of the two ways that `PointsKept` names,
and with a hashing router and without replication in one only (`Once`: the queues, the
buffer and what was sent have nothing in common and nothing twice). Between the copy of a
queue and its clearing this is false, so that the proof goes through the re-injection:
`ReinjectTrace` unfolds the fold into the flows after each of its points, `Reinjecting` and
`ReinjectingOnce` say by induction along them that every re-injected point is kept beside
the old queue, or lost by name, and once, and clearing the queue then leaves each in its new
place. That routing raises only in a stopping relay, or in a fast ring, needs `Running`: while
the service runs no client is forgotten. That only relay rules lose points with the buffer
is that a hashing router with a destination yields one. `StopsAfterClients` needs
`StopInv`: a client that is neither flushing nor in the router has nothing to send, as long
as no connection was lost and `stopAllClients` did not raise, and those that are flushing are
waited for.

**DashboardGraphsProofs.** `ClicksOpenMenus`: `swallowed`, one for a
`justClosedGraph` left behind and one for a menu that is only active on paper are two
together at most, and while a menu is shown all are nought. Only the part of each
handler that concerns the menu is used.

The other three theorems share `AreaInv`. `Shows` says that the store has each record
once and that the nodes are those a refresh would make of it; `Numbered` that the
indices are no less than the places and rise along them; and the records that are kept are
those in use, so that a menu or an answer that is still to come finds its record. A lemma
for each of Ext's operations says what it does to these (`StoreInserts`,
`StoreRemoves`, `Updating`, `Refreshing`), lemmas for `Toggle`, `Merge` and the edits
follow from them, and each handler is a composition of these. `ViewCorrect` is
`Shows`. `CloseCorrect` is `Numbered`: an index that is too great removes a later graph or
none, and two that differ never the same one. For the
keys, `Extends` says of a step of a handler what is transitive: a record whose key is its
targets keeps it so; a load, whose records may bring other keys, leaves the records that
were there alone. `KeysCorrect` collects that over the handlers; the one
that does not satisfy it, "Remove Outer Call", changes the selected record only.

**PageProofs, auto-refresh.** `OneRefreshTask` says that the task is in the runner's list
once more than in the queue of removals exactly while the button is pressed,
that `running` agrees with the button, and that the timer is set while the list
is not empty; with the types it is inductive (`RefreshInv`). Each handler is a
composition of `startTask`, `stopTask` and `ToggleTo`, and the proof follows that:
what they do to a runner for which the equation holds. `NoRefreshAfterRelease`
follows: a turn that refreshes has taken the removals out before, so that what
is left is there because the button is pressed. The ranges and images do not enter.

**PageProofs, sessions.** `NamesAgree` is not inductive alone: a name comes to be
stored by a save that was sent, whose state comes from the window's name, which
comes from an answer that was read from the store. The invariant `SessionInv` ties them
together through the requests (`SentUnderItsName`):
a save that is on its way carries the name of its URL, a share that is on its
way carries none, and the answer of a share is a temporary name. That `doShare`
sends only while there is no name is what keeps it. `SaveButtonRight` stands
alone. Neither needs an assumption on the constants.

**PageProofs, the composer.** Targets are texts of any length here: `ComposerInv` says
that the list holds texts over the tokens, a set that joining, calling and the scanner's
cutting do not leave, and that the selection holds places of the list, each once. It
needs nothing of the scanner but that: whether a text is cut well, badly or not at all,
what comes out of it takes the place of the target once. It follows the handlers
through their folds, which are unfolded like the relay's (`Iterates`, `Steps`).
`SelectionStaysInList` is read off it. That each selected target is acted on once is not
about places, since a value may be found at another place than the one selected,
but about numbers: `HowOften` a value occurs. The values that a handler reads when it begins
are no more than the list has of each (`ValuesEnough`); one turn of its loop takes one
of the value it looks up and adds what replaces it (`Exchanged`), so that the values still to
come are still there, also when the function makes one of them (`Exchanging`). At the
end the selected values have given way to the new ones and the number of every other is as
before (`Became`), which is `EachActedOnOnce`.

**SequenceLemmas.** `Induct` is induction over the naturals for a set, from
the library's theorem that a well-founded relation has minimal elements. The other
lemmas are what insertion, removal, flattening and counting do to a sequence and to its
elements.

Checked by TLC only: liveness, since the prover has no rule for fairness and
`ENABLED`: `SpaceIsNoticed`, `StopCompletes`, `BufferDrains`, `PointsAggregated`,
`BuffersReleased`, `RulesFollowFile`, `CachedPointDrained`, `PointPersisted`,
`NewMetricCreated`, `WriterStops` and `RangeShown`. No module of a theorem declares a
`RECURSIVE` operator, and no proof cites a theorem with an operator parameter: induction over
data is `Induct` with a set, and recursion a fold or a recursive function.

## 5. Where code and documentation disagree

With a run that shows it (`PROJECT.json`, findings):

- `cache_stall`: the resume of the writer's thread overtakes the pause of the
  reactor's, and receivers stay paused over a cache with space, against
  `carbon.conf.example:128`. Without the daemon's own statistics, or with ones
  that do not pass the watermark, nothing resumes them.

Met while modelling; the steps are in the models and the properties stated so
that they allow them by name:

- An overwrite of a duplicate goes into the dictionary `pop()` has read
  (`cache.py:205`); the last value is lost, against `writer.py:124`.
- With relay rules, re-injection of the buffer clears points that went back into
  it (`client.py:458`), against `client.py:432`.
- `size` falls behind when a duplicate is re-entered after its metric was popped
  (`cache.py:204-205`), so the cache can hold more than `MAX_CACHE_SIZE`.
- The writer ends with points in memory that came while it slept
  (`writer.py:147`), and after an exception of the database, against
  `carbon.conf.example:163`; `LeavesOnlyLate` says which.
- A file is created for a metric whose points were all shed, since the
  duplicate test enters the metric (`cache.py:194-195`).
- `setCapacityAndFillRate` takes no lock (`util.py:258-262`): between its assignments, and
  after a refill or a `-=` of the writer overlapped them, the level passes the capacity
  (`util.py:231`), by at most its change.
- A fetch reads the file, then the cache (`readers/whisper.py:63`): points
  written in between, or in the writer's hands, are in neither, against the
  FAQ's real-time claim (`docs/faq.rst:28`).
- A walk of `resumeHandlers` misses a receiver when the list changes
  (`events.py:18`); a connection that reads the flag just before it is cleared
  stays paused until the next resume (`protocols.py:101`).
- The low watermark is compared with the size before the send (`client.py:118-120`),
  against `carbon.conf.example:420-421`: with a watermark no greater than a message, one
  message can empty a full queue without the event, and nothing is sent after it.
- `destinationUp` adds a destination again that was stopped while connecting
  (`client.py:355`), and its client is forgotten by then (`client.py:531`): points for
  it raise `KeyError` (`client.py:554`), which the event logs (`events.py:19-22`), and are
  lost while the service stops.
- With fast-hashing and no destination up, routing divides by zero (`routers.py:223`): the
  buffer that is there "to avoid loosing points" (`client.py:432-433`) is never used, and
  the queue of the last destination to leave is lost.
- The relay does not pause when no destination was ever up (`client.py:369`
  against the comment at 438), nor when a send queue is full
  (`service.py:210` against `carbon.conf.example:419`).
- With a dynamic router, `stopAllClients` raises at the first destination that
  is down, so the service stops without waiting for the others
  (`routers.py:91`, against `tests/test_client.py:140`); `raised` marks it.
- One bad or half-written line ends the re-reading of aggregation rules for
  good (`aggregator/rules.py:79`), and a file moved back with its old time stays
  unread (`rules.py:50`), against `aggregation-rules.conf.example:43`.
- A point older than the window is aggregated alone, and replaces the complete
  value downstream (`aggregator/buffers.py:71`, against
  `carbon.conf.example:532-534`).
- `is_available` of CarbonLink is inverted (`graphite/carbonlink.py:73`, against
  `local_settings.py.example:342`), and the request in flight is registered
  under another key than the one looked up (`graphite/readers/remote.py:143`).

In the pages:

- A graph that is toggled off or broken out leaves the indices of the graphs after
  it as they are: until the next refresh, their close buttons remove a later graph
  or none (`js/dashboard.js:993`, `384`), against `docs/dashboard.rst:60`.
- *Remove Outer Call* of a graph's menu leaves its key (`js/dashboard.js:3278`): the
  graph is toggled and cloned by what it was.
- A graph's own `from` and `until` are laid over the dashboard's
  (`js/dashboard.js:1064-1066`), so that a graph that is imported or loaded with a range
  shows another one than the rest, until the range of the dashboard is changed, against
  `docs/dashboard.rst:6` and `102-103`; and mailing a graph (`js/dashboard.js:2164`)
  changes the range of the record itself. `RangeShown` names this exception.
- A breakout keeps one target for each path expression (`js/dashboard.js:2124`):
  of two targets on the same metric one is lost, against `docs/dashboard.rst:245`;
  and its answer discards the edits made since.
- A graph that leaves the area while it is dragged is inserted again by the drop,
  and the clone of one that left goes to the front.
- `applyChanges` (`js/dashboard.js:1799`) is attached to nothing.
- The field of the refresh interval lets zero and negative numbers through its
  `change` event (`js/dashboard.js:701`), against `docs/releases/0_9_14.rst`,
  "Dashboard should only refresh on positive values".
- `currently_setting_hash` stays set when the hash does not change, so that the
  user's next change of it is ignored; of two changes of the page's own before
  the event, the second reloads the page, and edits are lost (`js/dashboard.js:37`).
- A page of one dashboard with the hash of another shows the first: its own state
  is applied, which sets the hash, before the hash is read (`js/dashboard.js:774`).
- The answer of *Share* saves the state that is shown by then under the new name,
  also when the user opened another dashboard meanwhile (`js/dashboard.js:1718`).
- The answer of a save refers to `newURL`, which does not exist
  (`js/dashboard.js:2568`), and the keyboard's save does not ask for permission.
- `replaceTarget` of the composer looks up an undefined record instead of the new
  target (`graphite/templates/composer.html:66`), so that a list can hold a target
  twice; saved and loaded again, the two toggle each other off.
- *Remove Outer Call* of the composer does not know quotes, as its comment says for
  parentheses (`js/composer_widgets.js:751-753`): a quoted comma cuts a string into fragments
  that become targets, a quoted parenthesis makes the call malformed, so that it stays, or hides a
  comma; and `-5` becomes a target, since the pattern for numbers has no sign
  (`js/composer_widgets.js:785`). `SelectionActedOnOnce` says of such a target what the scanner
  makes of it, and of the others of the selection that they are not affected.
- Moving several adjacent targets down moves others (`js/composer_widgets.js:992`).
- Two saves of a new graph name create two rows, and the name can be neither saved
  nor deleted from then on (`graphite/composer/views.py:66`); the page reports
  success for every answer, also "Failed to save".

## 6. What is not modelled

- *Wire formats*: line, pickle, protobuf and AMQP decoding, one call each; a
  decoded datapoint is an input.
- *Whisper and Ceres files, storage and aggregation schemas*: database calls
  succeed or raise. *Configuration, logging, manhole, start-up wiring*: run once.
- *Rendering*: functions over float series, drawing, the target grammar.
- *Django views* other than those of dashboards: one query or update each; the race
  of two saves of a graph is a hazard without a property.
- *Ext JS*, which is most of the JavaScript here by lines, is a vendored library:
  only the operations of `Store`, `DataView`, `Button`, `MenuMgr` and `TaskRunner`
  that the pages depend on are modelled, with the pages. The lines the models
  stand for are therefore a small part of the tree.
- *Notes, images*, the calendar, the option menus and the lists of the finder:
  widgets without state of their own beyond one request.
- In the dashboard: templates (a hash with a "/"), the mail itself, and the parameters of a
  graph other than its targets and its time range.
- In the relay: the aggregated-hashing routers, `DIVERSE_REPLICAS`, and rules that name a
  destination twice. In the composer: single quotes and whitespace in a target.
- Inside modelled parts: the reload of schemas by the writer, the consolidation
  of cached points per step in the reader, rule patterns, and clients started
  at run time, which nothing does after start-up.

## 7. Plan

Done: the modules above, in the order cache, writer, bucket, reader, receivers,
client, relay, aggregator, graph area, auto-refresh, composer, sessions; theorems for
every safety property of their runs, and the refinement of the ledger.

Next, most important first:

1. `CarbonLinkPool`: request threads, pooled sockets with an answer pending,
   failure memory, query to all hosts. Properties: a socket in the pool has no
   answer pending; a response is of its own query; one failed host does not
   fail the others (a disagreement), nor are failed hosts preferred (another).
2. `RemoteFetch`: finder, thread pool, deadline, requests in flight. Abstract
   specification: each request gets each store's answer at most once, or none
   after the deadline.
3. `HashRing`: operators for `add_node`, `remove_node` and `get_nodes` checked
   against a reference definition over small rings; then a theorem that
   `get_nodes` returns no node twice.
4. `RuleFile`: the read task of aggregation rules, rewrite rules and regex
   lists as one module with the file, used by `Aggregator`; `Instrumentation`
   for lost counts; `Whitelist`.
5. An abstract `Delivery` specification (accepted, in transit, delivered or
   given up) that `CarbonWriter` and `CarbonRelay` both implement.
6. Theorems of the modules above as they come: of a pool's sockets, and that
   `CarbonWriter` and `CarbonRelay` implement `Delivery`.
7. `MyGraph`: the rows of saved graphs under concurrent requests.
