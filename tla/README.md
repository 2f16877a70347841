# TLA+ models of A11 Agentic SOC

Formal models, model-checking runs and machine-checked proofs for this
repository: the alert pipeline with its parsers, triage and correlation, response
decisions, every way events come in, the event bus, the tickets and the dashboard
behind them, and the scripts that measure the system and its classifier. Line
numbers below are those of the files under `src/`.

    tlasany M.tla                          # parse
    tlc -config PipelineSqliteWebhook.cfg MCAlertPipeline
    tlapm AlertPipeline_proofs.tla         # proofs

## 1. Inventory of the system

The application is one FastAPI process (uvicorn, one worker), one asyncio event
loop and one SQL database: SQLite by default, PostgreSQL under docker-compose.
Coroutine handlers run on the loop, plain `def` handlers on a thread pool. The
database driver is synchronous: a statement that waits for a lock stops
whichever of the two it runs on.

| Component | State | Operations | Hard behaviour | What makes it correct |
|---|---|---|---|---|
| Alert pipeline, `app/pipeline.py` | tables `alerts`, `security_events`, `incidents`, `response_actions`; the transaction of a call | `process`, `_ensure_incident`, `_ensure_actions`; the status update of `main.py` 333-359 | it awaits the LLM and a webhook between reading an alert and writing it; row locks, write locks, crashes | count, severity and triage agree with the evidence; one incident and one successful notification per high alert; correlation within the window; every event settles |
| Parsers and fingerprints, `app/parsers.py`; enrichment, `agents/enrichment.py` | assets, indicators read at start | `normalize_event`, `fingerprint`, `run` | several branches may claim a record; what is left out of the fingerprint is merged | noise never raises an alert |
| Triage, `agents/triage.py`; proposals, `agents/response.py` | none (pure) | `run`, `max_severity`, `propose_actions` | volume rules count over the life of the alert, not over the window | severity follows the evidence; every target is proposed, and proposed once |
| Response decisions, `main.py` 414-460, `response_executor.py` | `response_actions.status`, `audit_logs`; the request in flight | propose, reject, approve, execute by simulation, webhook or OPNsense | the check is made before, the commit after a call of up to 20 s; timeouts, late delivery, failed commits, crashes | nothing is executed without approval or more often than approved, everything executed is audited |
| Syslog collector, `syslog.py` | bounded queue, worker tasks, four counters | bind, receive, process, fail, close, cancel | overflow, failing datagrams, cancellation during processing | every datagram is counted once, processed at most once, taken in order |
| Ingestion API, `main.py` 181-247 | none of its own | `/ingest`, HEC event and raw | one commit per event of a batch of up to 500; a failure in the middle leaves the first part committed | success means that everything taken is stored |
| Log shipper, `scripts/ship_apache_access.py` | inode, position, the line in hand | `follow`, `send_with_retry` | rotation, truncation, repetition, uncaught exceptions | order, at-least-once, copies only after a doubtful answer |
| Splunk poller, `splunk_poller.py` | none: the search looks back 90 s of event time every 60 s | `poll_once`, forward, sleep; restarted by docker-compose | overlapping windows, failed or late cycles, events indexed late, restarts, more results than the limit | a result is stored at most twice, plus once per restart; none is missed while its delay and the time between two complete cycles fit into the window |
| Flow replay, sample events | rows sent | one request per row | the first failure ends it | what it counts as sent is stored, once |
| Event bus, `event_bus.py`, stream `main.py` 594-609 | set of subscriber queues of 100 | subscribe, publish, deliver, heartbeat, leave | slow readers | a stream has no gaps; queues are bounded; what is queued arrives |
| Stream tickets, `main.py` 581-592, `auth.py` 26-38 | `app.state.stream_tickets` | issue, admit, refuse | threads of the pool replace and extend one dict without a lock | an issued ticket is usable until it expires and not afterwards |
| Dashboard, `static/app.js` | token, stream, retry timer, refresh in flight, lists | login, logout, connect, reconnect, refresh | connects overlap at their await, late errors, stale answers, 15 s timeout, a hidden tab | it never stays without a stream, and catches up while its tab is visible |
| Live measurement, `scripts/measure_live_http_trial.py`, `summarize_live_trials.py` | `live_trials.jsonl` | declare, poll, settle, read, grade, summarize | the evidence it looks for is overwritten; several reads of a moving target, each of which may fail | grades agree with the system at some time |
| Flow classifier, `agents/flow_features.py`, `agents/ml_detector.py`, training and benchmark scripts | counts of the model, reservoirs, samples | read, sample, fit, predict, gate | duplicates and labels across the split, empty denominators, exhausted classes | no row is fitted and evaluated; a model that knows nothing does not pass |
| LLM agent, `agents/llm.py` | none | `analyze` | slow; malformed answers | failure never loses an event |
| Configuration, RAG, report, health, audit listing, diagrams, deployment | - | - | - | see section 5 |

Interactions: collector, ingestion API, shipper, poller and replay all end in
`process()`; `process()` calls parser, enrichment, ML, triage, RAG, LLM and the executor's
notification, commits, and only then publishes on the event bus; the
dashboard obtains a ticket, opens the stream and refreshes by REST on each
event; analysts close alerts and decide actions while `process()` is running;
the measurement script reads the same REST API between all of them.
The hazards that follow from this are listed, each at its line, in
`PROJECT.json`.

## 2. Modules

| Module | Models | Uses |
|---|---|---|
| `AlertPipeline` | `process()` with its helpers and the status update, cut at every suspension and lock, for any backend, with or without LLM and webhook | |
| `AlertPipelineInv` | the inductive invariant of `AlertPipeline` | `AlertPipeline` |
| `CorrelationStore` | the abstract specification: an event joins, in one step, the alert it belongs to, or opens one | |
| `Telemetry` | `normalize_event`, `fingerprint`, `EnrichmentAgent` as operators | |
| `Triage` | the rules of `triage_event`, `propose_actions` | `Telemetry` |
| `AlertWindow` | `process()` with the real triage, in one step or cut at its wait, status changes, the clock, the demo | `Triage` |
| `LiveTrial` | live trials and their summary beside that system | `AlertWindow` |
| `ActionDecision` | the response actions of one alert: `_ensure_actions`, `decide_action`, `ResponseExecutor` | |
| `SyslogCollector` | `SyslogProtocol` between the two ends of the application's lifespan | |
| `Ingestion` | the endpoints that take events in, with failure and restart inside a request | |
| `Delivery` | shipper, poller, HEC client, replay against that server | `Ingestion` |
| `EventBus` | `EventBus` and the generator behind `/api/v1/stream` | |
| `StreamTickets` | `stream_ticket` and `require_stream_ticket` as threads interleave them | |
| `Console` | the dashboard, composed with bus and tickets | `EventBus`, `INSTANCE StreamTickets` |
| `FlowModel` | labels, features, partition and naive Bayes as operators | |
| `Benchmark` | training and benchmark of the flow classifier | `FlowModel` |
| `MC*` | instances for TLC | |
| `*_proofs` | theorems and proofs | |

### AlertPipeline

*Atomicity.* A coroutine keeps the loop between two real suspensions, so every
stretch between suspensions could be one action. It is cut further where a
statement may wait for a lock: `Receive` (71-84), `Select` (the correlation
query, then triage up to the LLM), `Apply` (115-215 up to the webhook),
`Notified`, `Commit` (230-245). The variable `loop` says who has the event
loop. A task whose statement waits for a row lock keeps `loop`, which is how
the model can hang where the program hangs. Only two awaits suspend, and only
when configured: the LLM request (before `Apply`) and the notification webhook
(before `Commit`). The other awaits of `process()` never suspend.

*Databases.* PostgreSQL: `SELECT ... FOR UPDATE` waits for, and takes, the locks
of the rows that match (`held`). SQLite: `FOR UPDATE` is ignored, the first flush
takes the write lock until the transaction ends, and another writer fails with
"database is locked" (`Abort`, `StatusBusy`). A read of SQLite holds nothing.

*Columns.* Commit writes the columns that changed with respect to what the
SELECT loaded (`Written`), as SQLAlchemy's unit of work does. That matters: a
status set meanwhile survives a commit that did not touch the status.

*Abstractions.* An alert's key is the number of the event that opened it. An
event is a fingerprint, the severity triage gives it, and its arrival time. The
stored triage is represented by its severity. Evidence is the number of raw
events and the peak severity. Of the response actions only `notify_soc` is here,
which `process()` carries out itself (`notified` counts the rows recorded as
executed). Those that need an approval are added after the last await and stored by
the same COMMIT; nothing in `process()` depends on them but their own duplicate check, by
kind and target. `AlertWindow` has which are proposed, for alerts with any number of
hosts and sources; `ActionDecision` has what becomes of them, for an alert of one host
and one source, where a kind has one target.
What the LLM answers decides nothing in the code and is not represented.
The events of one request share an SQLAlchemy session, while here every event has
its own. The session keeps an object only while someone holds it, and nothing
suspends between a commit and the next SELECT of an alert still held, so no
attribute older than that SELECT is used. `autoflush=False` is why only the explicit
flushes (new alert, incident, action) and COMMIT take SQLite's write lock.

### CorrelationStore

What correlation promises, without suspensions: `Open` only where no active alert
of the fingerprint was seen within the window, `Add` to the one seen last,
`last` never moving backwards, an incident exactly from the severity High. The
mapping takes the committed rows: a call takes effect at its COMMIT
(`ImplementsStore` in `AlertPipeline`). It holds where calls are serial, that is
without any suspension, or on SQLite with the webhook but without the LLM. With the
LLM two calls interleave, and the store is not implemented: see section 3.

### Telemetry, Triage, AlertWindow, LiveTrial

A raw record is what the code looks at: the formats its text matches, its keys and
source words, what the patterns find in it (`means`), and the fields the parsers
copy. `Dispatch` is the order in which `normalize_event` lets its branches
claim a record; `Fingerprint` leaves out protocol, direction, action and host, as
the code does. Each rule of `triage_event` is a predicate on event, context and
count; the severity is the highest that fires, raised by a sensor's own severity, an
indicator and a critical asset. `Vol` holds the thresholds (`CodeVol` those of
the code).

`AlertWindow` feeds records to that triage. A call of `process()` is one step
(`Process`) where nothing in it suspends; otherwise it is a `Suspend`, which makes the
SELECT and locks the rows it finds, and a `Resume`, which makes the COMMIT, or an
`Abandon` after an exception or a crash. Between the two come other calls, status changes and the
clock, but nothing that needs a locked row. So two first events of a fingerprint may be in flight at
once and each open an alert: `overlapped` remembers it. This is `process()` on PostgreSQL,
with the LLM too, and on SQLite without the LLM, where a waiting call keeps all other
writers out; on SQLite with the LLM calls overwrite each other
(`pipeline_sqlite_lost_count`), and only `AlertPipeline` has that. The
fields `triage` and `described` say which event's triage is stored, since a weaker event
leaves it alone and its own source and host are then proposed by the stored
one.

`LiveTrial` adds the script: `Start` prints the command, requests `Arrive` in
any order and perhaps never, `Poll` searches the marker where `find_alert`
does. `ReadAlert`, `ReadIncidents`, `ReadActions` and `Grade` (after the audit log) are
steps of their own because they are requests of their own, between which everything
else goes on. `RequestFails`: each of the four raises an error that nothing catches, and the
script ends without a record.

Worth knowing, and a consequence of the code that the model shows: the requests of
one trial alone never make an alert high, so a positive result always rests on
what the alert had collected before (`PositiveNeedsHistory`); requests answered
200 stay low whatever their number below the volume of `web.access`; a scan over many ports has
as many fingerprints as ports, and none of them counts up; counts of the firewall mix
protocols and directions; the host of a weak event is proposed for isolation
when its alert is already critical; the demo's address 203.0.113.66 is in a
documentation range, so it is never a target.

### ActionDecision

`MayDecide` is the check of lines 420-424. `Reject` and `ApproveAtOnce` are
decisions without an external call; each is one step. `Approve` ends where
the adapter is awaited; `Succeed`, `Fail` and `CommitFails` are what may follow.
`Perform` and `Late` are the outside world: the request is carried out while the
handler waits, or after it gave up. A request that was sent survives its handler
(`late`), whether that timed out, failed to commit or died with the process.
`CommitFails` also stands for an answer that is JSON but no object, which raises
an error `execute()` does not catch. `effects`, `asked` and `contested` are history
variables; a row is *contested* once it was decided while a handler still waited on
it, or left by a handler that did not record its decision.

### Ingestion, Delivery

A request is its values and how many of them are done; each value is committed on
its own. `FailValue` and `Restart` end a request after a prefix; a client that stops
waiting (`GivesUp`) does not stop the server. `Delivery` has one client per
deployment, because they share nothing but the store:

- *shipper*: the log as inodes, renamed (the web server keeps writing the old inode
  until `Reopen`) or truncated in place; `follow()` as `Open`, `ReadLine`, `Stat`;
  `send_with_retry` as `PostLine`, `LineSent`, `PostFails`. A closed connection
  raises what line 59 does not catch: `Dies`, and systemd starts a process that
  opens the log at its end. Lines are lost at a rotation and by such a death.
- *poller*: `PollOnce` searches what is indexed and *happened* up to `Earliest` ago
  (`earliest=-90s` is about the time of the event, which Splunk knows only after the
  event's `Lag`), and forwards at most `Limit` of it, newest first; the interval starts
  when the cycle ends. `PollerRestarts`: the container ends in the middle of anything,
  docker-compose starts it again, and `main()` polls at once; a request that was on its
  way goes on at the server. `covered` and `longest` are history variables: when the last
  search was made that was then forwarded in full, and the longest time from one such to the next.
- *HEC client*: repeats a whole batch. *Replay*: row after row until a failure.

### SyslogCollector, EventBus, StreamTickets, Console

One action per callback or stretch between suspensions. In `StreamTickets` a
step ends where CPython may switch threads: within the comprehension, before
the attribute is assigned, and before the entry is stored. The lookup of an
attribute and the store into the dict it holds are taken as one step, and
looking up a ticket and comparing its expiry as well; a finer cut adds
interleavings of the same kind.

In `Console` the events with a number in `Alerts` are of type `alert`, which a message
shows at once; of any other type (`incident`) it shows nothing, but starts a refresh.
`Interval` is the timer of `startDashboard`, which does nothing while the tab is hidden
(`Visibility` turns it); `RefreshAll` stands for the other callers. A client of
the bus and a thread of the tickets are one call of
`connectStream()`. Calls overlap because the function awaits its ticket and looks at
nothing afterwards; `source` is `state.stream`, which a later call overwrites
while the earlier stream stays open. Failures come in as `TicketLost`,
`Refused`, `Dropped`, `RefreshFails` and `BodyStalls` (the timeout ends with the
headers of an answer, so a body that never comes leaves the refresh in flight).
Two consequences of the code are visible in the model and no run asks for the
contrary: a subscriber that was full once is off the bus while its stream stays
open with heartbeats only, and only the interval's refresh shows what comes
then; a ticket issued while another request is at work may be lost. A page that
was logged out while a call was waiting still opens that call's stream.

### FlowModel, Benchmark

A raw row is an identifier the features leave out, one literal and one numeric
feature, and the words of its label. `Partition` hashes the raw row, as
`holdout_partition` does, so rows that differ only in what the features drop may be
fitted and evaluated: `HeldOut` is about raw rows and promises no more. Scores are
exact fractions where the code adds logarithms. Reservoirs, shuffles and the hash
are free choices. A row the model knows nothing of is `unclassified`, which the
metrics count as an attack, so a blind model has a TPR of one.

## 3. Runs

| Run | Question |
|---|---|
| `pipeline_postgres_llm` | PostgreSQL, LLM and webhook: does the row lock held across both awaits protect existing alerts? Count, severity, incident, notification and closed alerts stay right, although handlers may hang. |
| `pipeline_sqlite_webhook` | SQLite and webhook, no LLM: do the steps implement `CorrelationStore`, is an alert opened only where none matches, and does every event and every status change end? |
| `decision_two_analysts` | Two concurrent decisions, timeouts, late deliveries, failed commits, crashes: one effect per approval always; once, audited, final and without a duplicate where no decision was contested. |
| `syslog_two_workers` | Counters, uniqueness, order and progress under overflow, failure and shutdown. |
| `console` | One page, overlapping connects, lost tickets, failures: streams have no gaps, tickets are refused for a reason only, the page never gives up, and catches up while its tab is visible. |
| `delivery` | Each client against a server that fails, restarts and answers late: order, copies, gaps, and what success means. |
| `measurement` | Traffic of a small lab through parser, triage and correlation with an analyst and live trials: noise stays low, targets are proposed, alerts split only where one was reopened or two calls overlapped, grades mean something. |
| `benchmark` | Every hash, split, cap, size and random choice: nothing is fitted and evaluated, samples are fair, a blind model fails every FPR gate below one. |

With the shipped defaults (neither LLM nor webhook, `dry_run`) nothing suspends
between check and commit. Those configurations have fewer behaviours than
the ones above, and the theorems of section 4 cover them.

Each run below checks one statement that the repository makes of itself, and TLC
finds it violated by what the code does:

| Run | Statement | What happens |
|---|---|---|
| `pipeline_postgres_hang` | README 122: the system goes on working when the LLM is off or fails | while one event awaits the LLM with its alert locked, the statement of another handler for that alert (a second event's SELECT, or, in this run, the analyst's status change) waits for the lock on the only event loop, and the first is never resumed |
| `pipeline_sqlite_lost_count` | `tests/test_api.py` 73: two events, `event_count == 2` | an increment is computed before and written after the LLM request |
| `decision_rejected` | `knowledge/soc_operating_policy.md` 16: "A rejected action must never be executed." | a rejection commits while an approval waits for the adapter |
| `triage_window` | README 117-118: only 100 flows of a fingerprint within the configured window raise a web flow | the rule compares the count of the alert's whole life, and a trickle keeps the alert open |

The first two need `OLLAMA_ENABLED=true`. The same roots have other consequences,
which TLC shows when a property of a passing run is asked of another instance:

| Property | Instance in which it is violated | Meaning |
|---|---|---|
| `OpensOnlyWhenNoneMatches`, `ImplementsStore` | PostgreSQL or SQLite with the LLM, two tasks | two first events of a fingerprint open two alerts: `FOR UPDATE` locks no row that does not exist yet. `TwinsNeedCause` counts this among the two causes of twins |
| `SeverityMatchesEvidence` | SQLite with the LLM, three severities | a weaker event committed late lowers the severity |

The script gives a trial without evidence the reason that no event with its marker
reached A11 (`measure_live_http_trial.py` 211-214, and `docs/measured-demo.md` 99-100 says
the same). It cannot know: `find_alert` sees the last event of each alert only, so a request
that arrived and was then correlated with is not found either. No run states this; what
the model shows is that such a trial is counted in no rate (`Summary`).

`docs/measured-demo.md` 26-28 starts the shipper with options that its argument parser does
not define; that is a matter of text and no run is about it.

### Bounds, and why they are enough

- Pipeline: two tasks, because each hazard is between one call and one other
  actor; three events, because it takes one to create an alert and two to
  interleave on it; clock 0..2 with a window of 1, so that an alert can be
  exactly at the cutoff and beyond it; severities low, high and critical, so
  that there is a step below the incident threshold and one above; one crash
  (none in the run with liveness, where it would only be a smaller database).
  One fingerprint, since alerts of different fingerprints share nothing but
  SQLite's write lock, which a second event of the same fingerprint meets too;
  the theorems are about any set of fingerprints. The violations have fewer
  events or a stopped clock: a smaller counterexample is a better one.
- Decisions: two handlers, three rows of two kinds, two decisions per row and a
  crash in a live mode: a kind can be proposed again after a failure or a rejection
  while the other handler is still waiting. The alert has one host and one source, so
  that a kind has one target.
- Syslog: a queue of two and six datagrams, so that it overflows while
  workers are busy.
- Console: two overlapping calls. `Budgets` are five small allowances of logins,
  events, ticks, switches of the tab and one fault, so that there is a second login with an event, a
  queue of one that overflows, tickets that expire before and after they are
  used, and a tab that is hidden and shown again around an event, without the product of all of
  them. The first event is an alert, the second is not.
- Delivery: three lines or events, a limit of two, five requests, two faults (one for the
  poller, where a restart is a fault, too), one
  rotation or truncation; interval 2 and reach 3, so that windows overlap as 60 and
  90 s do, one event that is indexed a second late, and clock 0..4, so that three polls could find one event.
- Measurement: a feed per kind of source; the volumes keep the order of
  the code's with two events for medium and three or four for high; four
  events, window 1 and clock 0..2. `MaxChanges` allows two status changes or waiting
  calls, `Slots` one waiting call at a time for each of three feeds (further calls pass it in
  one step, so two first events overlap; a second waiting call adds the same again). The
  trials are one of a kind beside traffic that shares their fingerprint, or two in a row
  without any, each with a burst
  of two, below the high thresholds as the script's five are below the code's.
- Benchmark: files of a few rows with duplicates, of attacks of two labels and
  benign rows, one that differs from an attack only in what the features drop;
  a hash of three values, caps of one and two, samples of none and three.

All names with `Max`, `Budgets` and `Slots`, are bounds of the models and not of the program
(`QueueMax` and `Limit` are the code's own 100 or 1000, and 500); the theorems hold for all their
values.

Deadlock is checked wherever the system may not stop. `CHECK_DEADLOCK FALSE` is
used with PostgreSQL and the LLM, because there the program really may
stop (`pipeline_postgres_hang` is about just that), and in the runs whose system ends: console, delivery, measurement
and benchmark stop when their bounds are used up. Elsewhere the steps `Quiet`
and `Stopped` stand for a system in which nothing is outstanding within the bounds;
a task that still holds the loop disables `Quiet`, so a hang is a deadlock.

### Fairness

- `AlertPipeline`: strong fairness of each task's steps. asyncio resumes ready
  coroutines in FIFO order, and both external calls have a timeout of the HTTP
  client, so a task that can run again and again does. Weak fairness of the
  status update that has the loop. None for new events, analysts, clock, crash.
- `ActionDecision`: none; its properties are safety. That a handler's wait ends is the
  client's timeout, which would be an assumption and not a result.
- `SyslogCollector`: weak fairness of each worker; it includes that
  `process()` ends, which `pipeline_sqlite_webhook` shows for SQLite and
  `pipeline_postgres_hang` refutes for PostgreSQL with the LLM.
- `EventBus`, `Console`: the browser reads its open streams and, while its tab is
  visible, runs its interval of five seconds; the server answers a refresh and ends closed
  streams. Nobody needs to log in or out, to look at the tab or to cause a refresh, and no
  failure is fair. `PageCatchesUp` therefore speaks of pages whose tab is visible from some time on.
- `Delivery`: the server goes on with a request it runs, and the shipper's loop
  never pauses for good. Nothing of faults, rotations, or the other clients.

## 4. Proofs

All theorems hold for every value of the constants that satisfies the module's
assumptions.

**`AlertPipeline_proofs`.** The invariant has two layers.

`AnyInv` is inductive in every configuration, also where two calls overwrite each
other's alert. It says who has the loop (`LoopInv`), that an alert to be opened
does not exist yet and has no rows (`NumberInv`, `AbsentInv`), which rows are locked
by whom (`SelectionInv`), that what a task flushed (incident, notification) is still missing
from the committed database (`WorkInv`), and that what a task has loaded never exceeds
the evidence kept since (`SeenInv`). From it follow, without any assumption,
`NotificationIsUnique`, `HighHasItsIncident` and `NothingOverstated`: interleavings lose
events and severity, but no alert claims more than its evidence and none has two
notifications that succeeded. `LoopIsNeverBlocked` assumes `Unlocked` (SQLite, or nothing that suspends):
then no statement ever waits for a row lock on the event loop. It is the counterpart
of `pipeline_postgres_hang`, which shows that the assumption is needed.

`IInv` adds `SnapshotInv` (the attributes a task loaded are still those of the committed
row) and `RowsInv` (the properties themselves). It is inductive under
`Exclusive == Backend = "postgres" \/ ~LLMEnabled`, the condition under which two
tasks cannot work on one existing alert: either row locks keep them apart, or the
loop is given up only with SQLite's write lock held. (`pipeline_sqlite_lost_count`
shows that it is needed.) On PostgreSQL `SnapshotInv` follows from `SelectionInv` (a
selected row is locked by that task alone), on SQLite from `LoopInv` and the write
lock: while one task is between SELECT and COMMIT, no other can commit
(`CommitAlone`). `CountIsExact`, `SeverityIsExact`, `TriageIsExact`,
`IncidentIsUnique` rest on it; so does `ClosedIsQuiet`, an action property, with the
preservation of `IInv`.

**`CorrelationStore_proofs`.** Under `Serial`, which is stronger than `Exclusive`,
`PipelineIsStore` proves the refinement: every step of `AlertPipeline` maps to a step
of `CorrelationStore` or a stutter. On top of `IInv` it needs `SightInv`: what a task in flight found
in its SELECT is what the committed rows would still give it. `OpensOnlyAlone` and
`LastSeenGrows` come from the same invariant.

**`ActionDecision_proofs`.** `OneEffectPerApproval` counts tickets: for each row,
effects, late requests and handlers that wait with a request not yet carried out
are together at most the approvals; each approval makes one ticket and no
other step makes any: a timeout, a failed commit or a crash only turns tickets
held by handlers into late ones. From it `ApprovalGate` follows. The theorems whose
names end in `IfUncontested` are about rows nobody decided while a handler waited:
then at most one handler is on the row, and the row's status, its audit records and its effects
determine each other. `NoContestAtOnce` adds that without an external adapter every row is such a row,
`NoContestSingly` that with one every row is, too, if decisions are made one at a time and none is lost
in a crash or a failed COMMIT (`OneAtATime`). Under either, `RejectedIsHonoured`: no
rejected action is executed, the statement that `decision_rejected` refutes without them.

**`SyslogCollector_proofs`.** `Conservation` by counting, with the cardinality of
the set of busy workers; `NothingTwice` and `TakenInOrder` with the strengthening
that no name in queue, hands or finished exceeds `received`. `LoneWorkerInOrder`
adds, for the default of one worker, that datagrams are also finished in order;
with two they need not be, so no run asks for it.

**`Console_proofs`.** Of the event bus by itself, `NoGap` is inductive together
with `TypeOK`; the lemmas are about the positions of a sequence's head, tail and
append. `ConsoleIsBus`: the composition implements `EventBus`, so
`NoGap` carries over to the streams of a page (`ConsoleHasNoGap`).
`PageNeverGivesUp` is inductive with the types of the page's variables.
`RefusedForCause` is about threads. `FreshInv` says that a request at work has a ticket
of its own, not yet answered, and a dict that nobody else uses until it is assigned;
`CleanInv` that tickets issued alone and not yet expired are in the dict in use, in the
one a request copies from, and in the copy it is about to assign.

**`LiveTrial_proofs`.** Of traffic, analysts and trials in any order, for any feed,
volume and window. `Shape` says what an alert and a waiting call look like: a call holds the rows it selected
from, no two calls hold the same, and of two calls on no row yet with one fingerprint one
has seen the other. `Steps` reduces all of
`Next` to an alert opened, continued or changed in status, a call that begins or is
dropped, or to nothing. `TwinsInv`
(two alerts of a fingerprint, neither reopened nor opened beside a call, are more than a window
apart, and no waiting call will change that) is
the strengthening of `TwinsNeedCause`; `EvidenceInv` carries
`NoiseStaysLow` and `EveryTargetIsAsked`, with `NoiseRatesLow` about the rules.

`TrafficUsesTheStore` is the second refinement of `CorrelationStore`, under the assumption
`Serial` that no call waits (`Slots` is empty): whatever the
records, the alerts that real parsing and triage make of them are those of the abstract
store, with the severities of `Triage` and the fingerprints of `Telemetry` for the
store's. The lemma behind it is `CoversIsMatching`: the store covers an event where the
query of `process()` finds a row; `RoomInv` provides a name for each alert. So the two
models of `process()`, the one with tasks, locks and failures (where its calls are serial) and the one with
the rules, promise the same.

`FloodIsGradual` says what remains of the statement that `triage_window` refutes: unless an
indicator or a severity stated by the sender raised it, a high alert of flows has as many as
the rule asks for, each within a window of the one before (`Gradual`), so n flows within
n - 1 windows, and within one window where the alert is no older than that.

Of the trials, `GradesStandUp` needs `TogetherInv` (severity, incident and actions of an
alert rise in one commit) and `ReadInv` (request by request, what was read is no more than
what the alert is now rated, and once a high severity was read the incident and the
notification are read as well). `PositiveHasHistory`
is about the volumes: `MarksInv` counts for every alert that holds nothing but
one trial's requests what it has and what is still on the way or in a waiting call, together at most the burst
(`Few`), and a lemma says that such a request below the volumes is never rated high.
`TrialAssumption` says that markers differ, occur in no other traffic, and suffice
for the plan; `BurstAssumption` says what the script's request is: it matches no attack
path, names no indicator and no critical asset, and the burst (5) is below the volumes (20 and
100). An indicator would make one request high, a critical asset one that is medium.
`TypeCorrect` rests on `CountInv`, that no alert has more events than were processed.

**`Delivery_proofs`.** For any lines, events, batches, rotations, faults and
restarts, from `DeliveryAssumption` alone: the clients' events are finitely many, a
batch holds an event once, and the search looks back at least one interval.
`StoredTwiceAndPerRestart` assumes in addition `Earliest < 2 * Interval` (90 s and 60 s
in the code); `NoSilentGap` assumes nothing of the events' delays.

- The server: `ServerInv` ties each event's count to the requests that stored it
  (`Counts`) and each request to what it has done (`Sound`, `Proper`), whoever sent it.
  `SuccessIsStored` follows, and every other theorem reduces copies to requests.
- The poller: `TwiceInv` counts how often an event was sent against the time it happened: a
  second time only an interval after, and beyond that once for each restart, one of which may
  not have been used yet (`Unused`). `GapInv`: what was indexed before the last search
  forwarded in full is in a request that stored it, or was too old when it could be seen first;
  of what was indexed since, the request under way has what its search had to find.
- The shipper: `FilesInv` orders the lines over all inodes of the log, `ReachInv`
  says that a line once read lies behind the reader's place in them, `GivenInv`
  that it is stored or in hand, and `CopiesInv` counts the copies of each line
  against its doubtful attempts. `WholeInv` adds that without a rotation nothing
  before the reader's position was skipped.
- The others: `HecInv` counts for a batch as `CopiesInv` does for a line, `ReplayInv`
  relates the rows sent to the requests.

`Whole` is their conjunction. It is needed as a whole for the shipper: a line's copies
depend on which line is in hand, that on the place in the file, and that on the
files.

**`Benchmark_proofs`.** From `BenchmarkAssumption`: files of rows, a hash of at
least one value, split percentages within it, positive caps, gates that are fractions.

- `ReservoirInv` says of each reservoir that it has as many rows as were seen of its
  label, up to the cap, all different, of that label and of the split that was asked for;
  random replacement preserves it (`ReservoirsAreSamples`).
- `SplitInv` remembers that training rows and evaluated rows came out of such
  reservoirs, so complementary splits have no row in common (`EvaluationIsHeldOut`);
  duplicates do no harm because the hash is of the row's content.
- `AllotInv` is about the round-robin allocation: within a round, what each label
  has is the lesser of its reservoir and the number of rounds it has had its turn in
  (`Rounds`). When it ends, two labels differ by more than one only if the lesser is
  exhausted. `FairInv` carries that from the allocation to the sample, whose rows
  a bijection counts (`SampleIsEven`).
- `BlindIsGated`: a model fitted to no flow calls every flow an attack, so its
  FPR is one (none at all without benign rows, which is no pass either), and no FPR
  gate below one lets it pass, whatever the TPR gate is.

Only model-checked: the liveness properties `EventSettles`, `AnalystAnswered`,
`QueuedIsFinished`, `QueuedIsDelivered`, `PageCatchesUp` and
`AheadIsStored`, which need fairness. Every safety invariant and action property of a
passing run is stated by a theorem. What the recursive sums and the fractions of the
metrics yield for a fitted model is not stated at all.

## 5. Not modelled, and why

- RAG and the incident report: text ranking and formatting, which decide nothing.
- The text level of parsing: a record stands for what the patterns find in it.
- Confidence, titles, MITRE tags, and the predictions of the ML models for sources
  other than flows: no rule's severity depends on them.
- The gates for accuracy and macro-F1 (exit codes 2 and 3), report files, several
  CSV files at once: the same reading and counting again.
- The page limits of lists: the trial's script sees the latest 500 alerts, incidents,
  actions and audit records.
- The reason text of a trial without evidence (section 3).
- Copies of a trial's request that the shipper makes after a doubtful answer: in `LiveTrial`
  a request arrives once. `Delivery` has the copies.
- Of the benchmark: labels outside the mapping, which become "other", the numbers of the exit codes, and the
  rounding of the rates.
- A line of the log that is read before its end is written.
- Rendering, filters and decisions in the dashboard; the decisions' server side is
  `ActionDecision`.
- Configuration, health, statistics, audit listing and automation audit: constants,
  reads and single inserts.
- Diagram and report generators under `work/` and `scripts/`: drawing.
- More than one application process: the event bus, the tickets and the
  collector are in memory, and the deployment runs one.
- SQLAlchemy's connection pool: the instances have fewer tasks than connections.

## 6. Plan

Done: the core (`AlertPipeline`, `ActionDecision`, `SyslogCollector`, `EventBus`,
`StreamTickets`) with its proofs; the abstract store and its refinement; parser,
triage and correlation over time; every source of events; the dashboard composed with
bus and tickets; trials and benchmark.

Proved: all safety properties of the runs, the two refinements of
`CorrelationStore` and that of `EventBus`.

Next, most important first:

1. Proofs: the types of the tickets by themselves; `Normalize` and `Fingerprint` (which records share an alert).
2. The decisions of the dashboard composed with `ActionDecision`: what the analyst
   sees, and decides again, after the timeout of 15 s.
3. The models of the other sources in `FlowModel`, and the fallbacks of the loader.
4. The connection pool: suspended calls against pooled connections.
