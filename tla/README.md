# A TLA+ model of Sniff4Hound

Sniff4Hound captures packets with raw sockets, runs them through detection
rules, stores alerts in SQLite and shows them in a web interface. Capturing
needs privileges and serving HTTP does not, so the program is two processes: a
web process, and a privileged capture process that it supervises and talks to
over a local socket. This project models the parts of it where threads, processes
and failures meet, checks them with TLC on small instances, and proves the
central ones for every instance with TLAPS: the job queue, the limiter and the phones in
front of the API; the capture link, the engine, the supervisor, the packet pipeline with the
alarms, the honeypot; the delivery of events; and what the program keeps (catalog, packets,
history, certificates, log files).

Paths below are relative to `src/sniff4hound/`.

    tlc -workers 2 -config JobQueueSafety.cfg JobQueue     # one run
    tlapm ApiProofs.tla                                    # the proofs about one component

The pairs of module and configuration are listed under "Runs". `PROJECT.json`
maps every definition to the lines it models.

## 1. Inventory

```
      web process                                  capture process (root)
 HTTP threads --> JobQueue --> IpcClient  ====>  IpcServer --> RuntimeController
     |              |             ^  socket          |           |        |
 WebSocketHub <-----+-------------+-- events --------+        Sniffer  Honeypot
 RealtimeSession                                     ^           |        |
     |                                         ResourceGuard ----+        |
     |                                                      PacketPipeline|
     +-------------- SQLite (store.py), shared by both ---------+---------+
```

| Component | State | Operations | Hard because | Correct when |
|---|---|---|---|---|
| Job queue (`jobs.py`) | registry, queue, pool, jobs table | submit, work loop, watchdog, reaper, shutdown, restart | request, worker, watchdog and reaper threads race over each job; handlers never return; the process dies | each job is settled once, the pool keeps its size, the table never lies |
| Capture engine (`sniffer.py`) | running flag, stop event, threads, readiness, packet cache | start, stop, restart, capture workers | stop() is four steps, one of them locked; workers outlive their join | running means captured; readiness belongs to a live worker |
| Runtime controller (`runtime_controller.py`) | selection, its stored copy, last report | start, stop, set_engines, set_sniffer_interfaces | a restart can fail and so can its rollback | what is stored was verified |
| Resource guard (`resource_guard.py`) | counts over the limit, paused flag | sample, trip, resume | it calls the engine without the controller's lock | it only undoes what it did |
| Packet pipeline (`packet_pipeline.py`, `sniffer.py`, `store.py`) | bounded cache, batches, counters, transactions | put, get_many, evaluate, flush, retry, reset | eviction races consumption; a batch is retried; one connection is shared | every packet is counted once and stored at most once |
| Capture link (`ipc.py`) | socket, generation, pending calls, sessions | call, reconnect, reader, close, dispatch, publish | the link, or the process at its end, dies at any point of a call | a call runs at most once and always returns |
| Supervisor (`manage.py`, `capture_service.py`, `process_control.py`) | child handle, token file, restart budget | spawn, monitor, restart, shut down | shutdown races restart; the token races a slow child | one privileged child, none after shutdown |
| Event delivery (`embedded_capture.py`, `app.py`) | bounded queues, clients, feeds, pusher | publish, deliver, subscribe, close | slow consumers at the queue limit, lists used after their lock | order kept, no gap, one close, no blocked producer |
| Honeypot (`honeypot.py`) | listeners, stop event, slots, event queue, two databases | start, stop, toggle, accept, write | two runs share one stop event; the writer fails in the middle of a batch | no listener out of reach, no event in two places |
| Its conversations | replies, recorded bytes | one function per service | clients stall, reset and hang up anywhere | what was said is what is recorded |
| History recorder (`history_recorder.py`, `history_store.py`, `history.py`) | aggregates, retry buffer, tables | observe, flush, prune, clear, reconfigure | failed flushes are kept up to a bound; memory is lost and tables stay | every observation once, an event announced once |
| Authentication (`auth.py`, `app.py`) | failure table, lockouts, tickets | check, fail, succeed, evict, issue, consume | each call has a lock of its own; eviction at the table's limit | guesses are bounded, a ticket works once |
| Mobile stream (`mobile_stream.py`) | pairings, sessions, streams, log follower | pair, approve, verify, revoke, follow | revocation races an open stream; files rotate under the reader | access was granted and is not revoked; lines meet |
| Catalog (`store.py`, `monitors.py`, `sniffer.py`) | monitors, blacklist and mirror, stamp, cache, index | edit, toggle, seed, refresh, match | two processes, separate commits, a stamp in seconds | decisions stay, the mirror and the cache agree with the tables |
| Retention (`store.py`, `app.py`) | packets, tags, sessions, whitelist | write, sweep, review, clear, purge | ids are read in one step and used in another | tags belong to their packet, alerts outlive the rest |
| Detection (`monitors.py`, `anomaly.py`, `ahocorasick.py`, `rulesets.py`) | throttle, windows, trie | evaluate, record, search | no lock between two jobs; boundaries of windows | what is held back was alerted; every pattern is found |
| Decoding (`sniffer.py`) | none | parse | lengths and pointers come from the wire | no read past the bytes, fields come from headers |
| TLS material (`tls.py`, `desktop_prepare.py`) | CA, keys, certificates | ensure, renew, sign | a launch dies between two commands or meets another | a phone that trusted the CA still can |
| Logging (`log_setup.py`) | files by number and age | rotate, prune, reconfigure | a rotation is cut short; settings change meanwhile | no line is lost before its time |
| HTTP/3, mDNS, consoles, AI runtime, settings, export, desktop shell, frontend | sockets, terminals, files | serve, format | input and output | not modelled, section 8 |

`PROJECT.json` has the status of each, and the hazards, line by line, that the
properties are for.

## 2. Plan

1. Job queue, with proofs of its safety. *Done.*
2. Engine, controller and guard composed in `Capture`. *Done.*
3. Packet pipeline with its transactions. *Done.*
4. Capture link, with death and respawn of the capture process. *Done.*
5. Supervisor, and the abstract lease it implements. *Done.*
6. Event delivery: sink, hub, sessions, pusher, shutdown. *Done.*
7. Honeypot: its threads, its writer, its conversations. *Done; of the controller's
   modes, what they do to the sniffer is in `Capture`.*
8. What the program keeps: history, catalog, retention, certificates, logs. *Done.*
9. What reaches it: decoding, search, authentication, phones. *Done.*
10. Proofs of the safety of the link, the engine, the supervisor with its refinement, the
    pipeline and the honeypot. *Done.*
11. Proofs about what the database keeps: `TagsBelong` and `AlertsOutlive` of retention, `DecisionsStay`,
    `MirrorInStep` and `CacheIsHonest` of the catalog. *Done.*
12. Proofs about files, watchers and clients: `TrustSurvives` and `LogsAreKept`, `HoldingBackIsSafe`,
    `EntryIsEarned`, `AccessIsGranted`, `LinesMeet`, `ClientsMissNothing`, `HistoryIsTrue`. *Done.*

## 3. The modules

### JobQueue (`jobs.py`)

The web process runs every API request as a job. One variable per job says where
its request thread stands in `submit()` (`req`), another where the worker
holding it stands in `_work_loop()` (`wk`); `outcome`, `fin` and `finBy` are
`_settle()` and `_finish()`; `queue` and `unfinished` are the `queue.Queue` and its
counter, which `discard()` edits by hand; `registry` is `_jobs`, `rows` the jobs
table; `surplus` and `threads` are the pool. `looping`, `getting` and `leaving`
count the threads that hold no job.

- `Submit`, `AnswerInline`, `Claim`, `ClaimSnapshot`, `ClaimWrite` are the path of
  a write that may be deferred; `ReadTimesOut` ... `ReadForgets` that of a read,
  which is never deferred. The claim is three steps because `submit()` releases the lock
  between claiming the job and writing its row.
- `LoopTest` ... `Leave` are the worker, one step per lock region.
- `AbandonOverdue` is the watchdog, `ReapRows` and `ReapRegistry` the reaper.
- `Shutdown` ... `FinalDrain` are `shutdown()`; `Restart` is the end of the process
  at any point, and `__init__` of the next, which marks orphaned rows.

Time is asynchronous: the inline window, a deadline or the TTL may pass between
any two steps.

### Sniffer, Capture, CaptureHistory (`sniffer.py`, `runtime_controller.py`, `resource_guard.py`)

`Sniffer` is the engine. A capture thread is named by the start that made it and
its interface; `worker` is its place in `_capture_worker()`. Two callers use the
engine, the controller for an operator and the guard, and `at` is where each
stands in `start()` or `stop()`; `RaiseStop`, `MarkStopped`, `JoinCapture` and
`CloseCache` are the four parts of `stop()`. `JoinCapture` may leave workers behind (at most
`MaxLate`), as a `join` with a timeout does.

`Capture` extends it with the controller, which changes the selection, verifies the restart
and rolls it back, and with the guard, whose measurements are an arbitrary level
for each limit. `Crash` keeps only what is stored. `CaptureHistory` adds one
history variable, whether the last thing the operator asked for was a stop.

### PacketPipeline (`packet_pipeline.py`, `sniffer.py`, `store.py`)

Packets are numbered in the order of capture. `fate` is a history variable: what
became of each. The cache (`items`, `limit`, `closed`, `cached`) drops its oldest;
a job takes a batch, evaluates it packet by packet with an arbitrary verdict, and flushes what
it deferred in one transaction, which may be found locked and tried again, or
fail. Capture threads that find no open cache evaluate and write in line. `txn` is
the open transaction of the shared connection and `rows` what is committed.
`Reset` and `ResetCache` are the operator's reset, in its two lock regions.

### CaptureLink (`ipc.py`)

A link is one connection, numbered by `_generation`. On the client, `place` is where
a caller stands in `call()`, `via` the link of its attempt, `event` what its
`_PendingCall` was set to; on the server, `session`, `active` and `work`. Frames
in flight are sets (`requests`, `replies`): the only order the code relies on is that
of a request and its reply. `ChildDies` takes the server with all it had, `Respawn` brings another,
with the same token or a new one, and `DialRejected` latches the client off.
The connect and handshake is one step, since `_connect_lock` is held throughout; the
reconnect cooldown is one of the reasons of `EnsureRaises`; a send may fail at any time.

### Supervisor, ChildLease (`manage.py`, `capture_service.py`)

`main` is where main() stands, from writing the token file to leaving its finally
clause; `sup` where the supervisor thread stands in `_run()` and `_restart()`; `child`
the life of each process launched, and `childToken` the secret it came up with. The
token file is written, found, missed and removed in steps of their own, so a slow child may come
to it too late and make up its own secret; that latches the client off (`latched`).
`ChildLease` is what supervision promises: never a second capture process while one lives, and
at most `MaxRestarts` replacements in any `Window`. `LeaseKept` is the refinement: `alive` is the set of
children that live, `restarts` the times of the attempts.

### Alarms (`monitors.py`, `anomaly.py`)

The state that the evaluations of two jobs share without a lock: the throttle of
monitor alerts, a flood detector, a detector with a cooldown, and the ARP watch.
Each access is a step. The clock may tick between two packets of a job but stands still inside
one detector call, which takes microseconds against windows of seconds.

### Realtime (`embedded_capture.py`, `app.py`)

From the engine's `broadcast()` through the sink's bounded queue and thread to the hub,
and from the hub into each client's session. A client uses a websocket or a
server-sent stream. `hub.in` are the registered clients with their feeds, `session` their queues;
`pusher` holds the list of due feeds it collected under the lock and uses after it.
`ShutdownSignals`, `SinkCloses`, `HubCloses` are the end, in that order. `stale` counts the snapshots a client got of
a feed it had left, since it last chose one: a first version that counted them over the whole session
held in the run, whose queues are of two, and its proof failed, since with longer queues a client may leave two feeds.

### Honeypot, Conversation (`honeypot.py`)

`Honeypot` has the callers (start, stop, the toggles of one listener), the starter thread of
each run, one thread per listener, the connection slots, and the event writer with
its database and the store. Threads of two runs may live side by side, since `start()` clears the
event that the old ones are to see. `Conversation` is each service as a function from what a client
does (commands, chunks, close, stall, reset) to what is sent and recorded, and the
rate limit of UDP answers.

### Decode, Search, MCWire (`sniffer.py`, `ahocorasick.py`)

`Decode` has the layers of a frame, the names and records of DNS, the options of DHCP, the
recognition of TLS and HTTP, and the memory of TLS flows. A frame is a stack of headers with
sizes and a number of captured bytes; a payload a sequence of cells. `Search` is
the Aho-Corasick automaton: trie, failure links, search. `MCWire` builds the inputs, one act, byte, cell
or segment per step, and compares each function with a definition of what it should return.

### Access (`auth.py`, `app.py`)

Request threads in the guard: authenticate, check, register the failure, each
its own hold of the limiter's lock. `tickets` are those for websockets and favicons. A credential is
the security code, a JWT that may expire or be revoked, or wrong.

### MobileStream (`mobile_stream.py`)

The listener an operator opens on one interface, the pairing of a device (knock, approval,
verification), sessions, their event streams with bounded queues, and the thread that follows
the rotating log file while some stream wants it. A log line is its number; what waits in a queue is such a number, or
`Data`, or `Revoked`. `ReadOf(log)` is the last line read, `got`, `from`, `spilt` and `lost` are ghosts: what a phone received,
where its subscription began, whether its queue overflowed, and the lines that went with a rotated file.

### History (`history_recorder.py`, `history_store.py`, `history.py`)

`pending` and `retry` are the two buffers, `flight` what a flush is writing, `tables` what is stored,
`memory` which ARP pairs the recorder knows. Rows are oldest by `last_seen`, then by `id` (`Before`), for the pairs a new
recorder loads and the rows a cap deletes. Flushes fail, operators clear and reconfigure, the process restarts.
`forgot` and `gone` are ghosts: the bindings whose record was given up, and per name the observations that were.

### Catalog (`store.py`, `monitors.py`, `rulesets.py`, `sniffer.py`)

Monitors with what operators did to them, blacklist entries with the monitors that mirror
them (two commits), the seeding of a release that read the catalog before others changed it, the stamp (count
and latest second) by which the sniffer decides to reload, its cache, and the
index that a thread of its own completes. Of the criteria of a rule, one on text and one
on ports stand for the others; a release's monitors ask one thing. One refresh runs at a time.

### Retention (`store.py`, `sniffer.py`, `honeypot.py`, `app.py`)

Packets, tags and sessions by id, with SQLite's sequences. Capture and honeypot write,
the sweep ages and caps table by table, operators delete, review, clear, purge and whitelist. Each commit is a step.
`uid` is a ghost that tells a packet from a later one with its id. Payloads, flows, domains and paths
go by the statements of the tags; the policy does not change during a behaviour.

### Certificates, Logs (`tls.py`, `desktop_prepare.py`, `log_setup.py`)

`Certificates`: launches work on the files of one family (runtime or mobile) one openssl
command at a time, may die between two or inside one, and may overlap. Names in
certificates and serial files are left out. `Logs`: rotation and pruning, one rename or removal per step, each
of which may fail or be the last before the process dies, with settings that change. A
file is found full at any time; the hole that a rotation cut short leaves counts as a file.

### Lists

What several modules say of a Python list: its elements, the list without its first items, and
what a comprehension with a condition keeps of it.

### The MC modules

`MCPipeline` and `MCLink` add symmetry. `MCWatchers`, `MCBoundary` and `MCStore` put
parts that share no state into one run: `part` is chosen in the initial state and each
behaviour explores one of them, so no product of their states is built.

## 4. Runs

All configurations say `CHECK_DEADLOCK FALSE`: the numbers of jobs, starts, packets, links and
acts are bounded, and a system that has used them up may stop. That nobody
waits for ever is stated as properties instead.

| Run | Configuration, module | Properties | Shows |
|---|---|---|---|
| job_queue_safety | `JobQueueSafety`, `JobQueue` | `PoolIsWhole`, `TasksAddUp`, `AnsweredLeavesNothing`, `RowsAreTrue`, `NoJobDropped`, `SettledOnce` | the pool neither loses nor leaks a worker, tasks add up, one outcome per job, rows say what happened, shutdown drops nothing |
| job_queue_live | `JobQueueLive`, `JobQueue` | `ReadsAreAnswered`, `RunningIsSettled` | reads are answered and running jobs settled, even if no handler returns |
| capture_rollback | `CaptureRollback`, `Capture` | `ReadyIsAlive`, `SelectionIsStored`, `ReportIsVerified` | readiness belongs to a live worker; a selection is stored and reported only when verified |
| capture_guard | `CaptureGuard`, `Capture` | `RunningIsSound`, `StopIsComplete` | unless operator and guard overlap, running is sound and stop complete |
| pipeline_safety | `PipelineSafety`, `MCPipeline` | `EveryPacketCounts`, `StoredOnce` | newest survive, both sets of counters add up, stored at most once |
| link_safety | `LinkSafety`, `MCLink` | `AtMostOnce`, `NobodyStranded`, `OthersUnharmed` | at most once, nobody stranded, a retiring link harms only its own calls |
| watchers | `Watchers`, `MCWatchers` | `NoOrphan`, `TokenHandover`, `LeaseKept`, `HoldingBackIsSafe` | no child or secret outlives main() unless shutdown met a restart; supervision implements its lease; nothing is silenced without a recent alert and no flood or scan goes unreported |
| honeypot | `Honeypot`, `Honeypot` | `NobodyEscapes`, `RunIsAccounted` | who still answers is in reach of the next toggle or stop; no event in two places; the status is true |
| boundary | `Boundary`, `MCBoundary` | `RecordsWhatWasSaid`, `DecodingIsSound`, `FindsAll`, `EntryIsEarned`, `AccessIsGranted`, `LinesMeet` | conversations, frames and texts of every shape within the bounds; guesses are bounded and tickets work once; phones have the access they were granted and get the lines in order |
| realtime | `Realtime`, `Realtime` | `ClientsMissNothing`, `ForgottenEnds` | no gap until the client is dropped, no event lost uncounted, at most one stale snapshot; a client the hub forgot ends |
| store | `Store`, `MCStore` | `HistoryIsTrue`, `DecisionsStay`, `MirrorInStep`, `CacheIsHonest`, `TagsBelong`, `AlertsOutlive`, `TrustSurvives`, `LogsAreKept` | what is kept stays true through failures, restarts, other processes and operators |
| capture_manual_stop | `CaptureManualStop`, `CaptureHistory` | `ManualStopHolds` | a violation, section 5 |

Several of these are conjunctions of parts that are named in their modules:
`EveryPacketCounts` (`NewestSurvive`, `CacheAddsUp`, `PipelineAddsUp`), `HistoryIsTrue` (`AnnouncedOnce`,
`HistoryAddsUp`), `EntryIsEarned` (`AttemptsBounded`, `TicketsAdmitOnce`), `ClientsMissNothing`
(`NoGaps`, `SinkAddsUp`, `OneStaleSnapshot`), `TrustSurvives` (`LaunchesRecover`, `TrustIsStable`,
`HandedOutVerifies`), `LogsAreKept` (`NoLogIsLost`, `LogsAreInOrder`), and those of `MCWire`. Every property of a
passing run has a mutant in `PROJECT.json`: a plausible slip in one definition that breaks it.

Bounds, and why the interesting cases happen within them:

- `JobQueueSafety`: a pool of one, so that a single stuck handler exhausts it and
  its replacement spends the whole budget; one read and one write, so both
  paths compete for the worker; one restart, one job old enough to be reaped, a
  store that may fail at each write.
- `CaptureRollback`: two interfaces and three starts are a first start, a restart
  and a rollback; one late worker is enough to meet its successor on the same
  interface. `CaptureGuard`: one interface, both callers, a guard that trips after
  `TRIP_SAMPLES` samples and resumes, two late workers, a crash.
- `PipelineSafety`: a cache of one or two under three packets evicts, and shrinks with
  more than one packet to evict; two jobs and a capture thread compete; a batch of two can be
  written in part; two attempts are a retry and giving up. Jobs are symmetric.
- `LinkSafety`: two links are a call's first attempt and its retry, or a link
  and its replacement; two calls, so that one can be harmed by the other's; one
  death. Calls are symmetric.
- `Watchers`: four children are a first and three replacements, one more than the budget of
  two allows in a window of two ticks out of three, so the budget is spent and renewed. Two
  jobs and three packets of one host reach the flood's threshold of three and, with two ports, the
  scan's of two, with one packet more than a window of two keeps.
- `Honeypot`: one TLS and one UDP listener, one of them an operator's; two starts, so that
  threads of the first run meet the second; one slot and three pieces of work fill the slot and a batch of two.
- `Boundary`: scripts of five acts exceed the rounds (two); six cells hold a name, two pointers and a loop;
  patterns of three and texts of five characters over two letters have every overlap of
  suffix and prefix. A threshold of two, a table of one and two sources reach lockout and eviction; two
  phones, operators and interfaces meet over two pairings, with queues of two. What is interchangeable is symmetric.
- `Realtime`: one client on either channel with a queue of two and a sink of one: both overflow.
- `Store`: buffers of one kept twice over drop their oldest at the third observation; two operators and one
  seeding process interleave over one built-in, one custom monitor and one entry within two seconds. A packet limit of one under two
  packets trims; two days of alerts against one of others; three launches by two launchers, with one certificate due; up to three
  older files, four generations.

**Fairness.** `JobQueue`: threads that can go on do, timers that are due fire, and the
store answers: weak fairness of the request, worker and finishing steps and of the
watchdog. A handler owes no return (`HandlerReturns` has no fairness), and nothing
obliges a client to submit, an operator to shut down or a process to restart. `Realtime`:
weak fairness of the sink's thread, of the pusher, of shutdown once it began, and of each client's own
handler thread; clients, engines and operators owe nothing.

## 5. Where the code and its documents disagree

`capture_manual_stop` is a run: `ManualStopHolds` is what `resource_guard.py:5` says of the guard
("never over a manual stop"), and a stop asked for during a guard pause is undone by the resume.

The others are properties that are stated in the modules and that TLC refutes; the first five have a
configuration of their own.

- `AnnouncedIsDurable` (`JobQueueStaleRow`, `jobs.py:230`): the claim of a slow write takes its snapshot and
  writes it after the lock is released, so it can overwrite the final row. After a
  restart a job announced as done reads as interrupted.
- `AcceptedIsSettled` (`JobQueueStuck`, `jobs.py:347`): once the replacement budget is spent on stuck handlers, a
  queued write is not failed at its deadline; only running jobs are.
- `RunningIsBacked` (`CaptureUnbacked`, `sniffer.py:921`): two workers that fail together each count the
  other as alive, and the engine stays "running".
- `NoTornPacket` (`PipelineTorn`, `store.py:5870`): in line, a failure that is not recoverable leaves
  the packet's first rows in the open transaction, and the next commit keeps them.
- `LostMeansLost` (`LinkStaleLoss`, `ipc.py:622`): both attempts of a call share one event; the second can
  return the loss of the first's link, although its request is being run.
- `NobodyOrphaned` (`Supervisor`, `manage.py:900`): shutdown that reads the handle in the middle of a restart leaves
  the new child alive; `NoOrphan` is the property without that race.
- `NeverDrifts`, `StampAlwaysTells` (`Catalog`, `store.py:3307`, `3684`): two calls inside one blacklist entry, or a
  death inside one, can leave entry and mirror apart (`MirrorInStep` is the rest), and two changes in one second escape the stamp.
- `CapSparesAlerts`, `ForgottenIsGone`, `TrapSessionIsOwn` (`Retention`, `store.py:6289`, `app.py:3080`, `store.py:6413`): the row cap takes the lowest
  ids, flagged or not; a packet being evaluated, or the honeypot, still stores an address after it was whitelisted
  and purged; after a purge the honeypot's remembered session number may be an operator's.

## 6. What is proved

Every theorem is proved for all values of the constants, from the assumptions that the modules name; TLC
evaluates those on every run. A component has one inductive invariant (`IInv`; `RetentionInv` and `CatalogInv` in
`StoreProofs`), which contains the type invariant; a lemma per conjunct of it has one step per action, and the theorems
follow from `Spec => []IInv`. TLC checked each of these invariants under the constants of the component's run before it was proved.

### ApiProofs

The job queue, for every set of jobs, pool size and bound, from
`JobsAssumption` (jobs are finite sets, reads and writes are disjoint, the sentinel is not a job)
and `BoundsAssumption` (the pool has at least one worker, bounds are numbers):

    TypeCorrect         Spec => []TypeOK
    PoolCorrect         Spec => []PoolIsWhole
    TasksCorrect        Spec => []TasksAddUp
    AnsweredCorrect     Spec => []AnsweredLeavesNothing
    RowsCorrect         Spec => []RowsAreTrue
    DrainCorrect        Spec => []NoJobDropped
    SettledOnceCorrect  Spec => SettledOnce

The argument is one inductive invariant, `IInv`, the conjunction of `TypeOK`,
`PoolIsWhole`, `TasksAddUp` and three strengthenings:

- `QueueInv`: no job is queued twice, a queued job is in no worker's hands, and after
  the first drain only sentinels are. Without it `GetJob` could take a job that
  another worker holds, and neither count would add up; `NoJobDropped` is its last part.
- `FlowInv`: how the request, the worker and the registry agree. A job past its
  expiry is settled, an abandoned one too, an answered one has left the
  registry. `AnsweredLeavesNothing` needs it, as a worker may finish long after the answer.
- `RowInv`: a snapshot or a row that names an outcome names the real one, and only
  claimed jobs have rows. A snapshot is written later than it is taken, so `RowsAreTrue`
  is not inductive without a condition on `snap`.

The lemmas come in three layers: what `Append`, `Tail` and removal do to a queue; what
a step adds to or takes from a counted set of jobs; then, for each conjunct of
`IInv`, one lemma with a step per action. `SettledOnce` follows from `IInv` at each step.

The limiter and the tickets, for any sources, thresholds, windows and lockouts and any finite set of requests:

    AccessInductive       AccessSpec => []AccessInv
    EntryIsEarnedCorrect  AccessSpec => []EntryIsEarned

`EntryIsEarned` bounds the failures in any span; an entry, though, forgets failures when it locks the source out and
when they leave the window, and request threads pass `check()` before they fail. `LimiterInv` therefore says what an
entry still knows (every failure in the window and later than its last lockout, `LedgerAt`) and counts those that are
about to fail with those that did (`PendingAt`). `TicketInv` says that one request at most holds a ticket, and that it is off the list.

The phones, for any devices, operators, interfaces, queues and rings, from the assumption that `""`, the absence of an interface
or an operator, is neither:

    MobileInductive         MobileSpec => []MobileInv
    AccessIsGrantedCorrect  MobileSpec => []AccessIsGranted

`OpeningInv` says that who is about to listen has the life-cycle lock and found nothing listening, `PairingInv` that the desktop shows
who knocked and an approved pairing is vouched for, `CutInv` that a phone's token is of no open pairing, so that no new session
revives it, and that a phone that got an event after the end of its session is about to notice.

    LinesInductive    MobileSpec => []LinesInv
    LinesMeetCorrect  MobileSpec => []LinesMeet

The log feed, for any sizes of queue, ring and backlog, and any number of lines. `LinesMeet` speaks of the phones that follow the log;
what a phone subscribing in the middle is owed comes from the ring, so the invariant accounts for the ring as well: `LogOK` says that the file
holds the last lines written, `RingOK` that the ring rises and has no gap up to the last line read, `KeepsUp` that a stream that is
logged and subscribed has the same of what it got, its backlog and its queue in a row (`Meets`), that a follower then runs, and that a stream
not yet subscribed has nothing (`StreamOK`). `Covers` is the same claim for a ring, a backlog and a stream: no line is missing
from the first one on, so dropping the oldest (`NewestKeeps`) and choosing a level (`KeptKeeps`) keep it.

### CaptureLinkProofs

    TypeCorrect            Spec => []TypeOK
    AtMostOnceCorrect      Spec => []AtMostOnce
    NobodyStrandedCorrect  Spec => []NobodyStranded
    OthersUnharmedCorrect  Spec => []OthersUnharmed

For any calls, links, servers and deaths. What makes them inductive is how a call, its frame and the link agree:
`CurrentInv`, the link in use is the last one made and has a reader; `CallerInv`, a call that waits without an event is
registered on a link that is being read; `FrameInv`, the frame of a call is in one place at a time, is gone
once its handler ran, and is nowhere as long as the caller has not sent it or was told that nobody was
reached; `LossInv`, on its first attempt a call is told of a loss only by a link that is not, and will not be,
the one in use.

### CaptureProofs

    TypeCorrect               Spec => []TypeOK
    ReadyIsAliveCorrect       Spec => []ReadyIsAlive
    SelectionIsStoredCorrect  Spec => []SelectionIsStored
    RunningIsSoundCorrect     Spec => []RunningIsSound
    StopIsCompleteCorrect     Spec => []StopIsComplete
    ReportIsVerifiedCorrect   Spec => ReportIsVerified
    ReadinessKeptCorrect      Spec => ReadinessKept

For any interfaces, requests, late workers and crashes. `WorkerInv` says that no worker is of a start yet
to come, `RequestInv` where a request stands, `StoredInv` that the database holds the selection or, while a change
is tried, the one it will be rolled back to (`SelectionIsStored` speaks of the time between requests and
holds because of what holds inside one), `SoleInv` how far a stop() has come that nobody met, and
`ChangeInv` that an engine started during a change was started on what is selected now.

Event delivery (`Realtime`), for any clients, queue limits and acts:

    RealtimeInductive          RealtimeSpec => []RealtimeInv
    ClientsMissNothingCorrect  RealtimeSpec => []ClientsMissNothing

What a client has read and what waits for it are one list that is in order (`Orderly`) and, while the hub feeds it,
complete (`UpToDate`). `OneStaleSnapshot` needs `PusherInv`: the pusher's list names a client once, and a client that has
left the feed it is listed with, and is not closed, has had no stale snapshot yet.

### SupervisorProofs

    TypeCorrect           SupervisorSpec => []TypeOK
    NoOrphanCorrect       SupervisorSpec => []NoOrphan
    TokenHandoverCorrect  SupervisorSpec => []TokenHandover
    LeaseKeptCorrect      SupervisorSpec => LeaseKept

For any bounds on restarts, deaths and time. `LeaseKept` is the refinement of `ChildLease`: the initial states
map to initial states and each step to a step or a stutter. It needs that at most one child lives (`OneInv`),
the one that whoever launched last knows of (`ChildInv`), where main() and the supervisor can be together (`StageInv`), what is
left on the way down (`DownInv`, for `NoOrphan`), that the secret is on disk from before a launch until after the
connection (`TokenInv`), and that the supervisor's list is the end of all attempts, those it forgot being
older than the window (`BudgetInv`).

The alarms, for any hosts, jobs, windows and thresholds:

    AlarmsInductive           AlarmsSpec => []AlarmsInv
    HoldingBackIsSafeCorrect  AlarmsSpec => []HoldingBackIsSafe

`ThrottleInv` says that a job about to silence a hit saw an alert less than a window old. `DetectorsAt` accounts, per host, for
what a detector holds (its events in order, and of the window all that came since it was re-armed) and for every window that has
been judged: if it reached the threshold, something was said within it. While an event is recorded and not
judged, that is claimed only of the windows that ended before it (`Judged`), which is where the invariant differs from the property.
`MovesAt` says that a change of owner is held back only behind one that was told.

### PipelineProofs

    TypeCorrect               Spec => []TypeOK
    StoredOnceCorrect         Spec => []StoredOnce
    EveryPacketCountsCorrect  Spec => []EveryPacketCounts

For any number of packets, jobs, batch and cache sizes. `CacheInv` says that the cache holds the packets
that wait, once each, and is how the log of those accepted ends; `JobInv` and `OwnInv` what a job has of a batch and that no
packet is two jobs' business; `LogInv` and `RowInv` how the fate of a packet goes with the log and
with its rows; `TallyInv` what the cache counted over any number of resets. `PipelineAddsUp`, a part of
`EveryPacketCounts`, is inductive with these. The counters of the jobs enter it as a sum over the set of jobs: its lemmas
(`SumChanges`) say what one job's step does to it.

### HoneypotProofs

    TypeCorrect            Spec => []TypeOK
    NobodyEscapesCorrect   Spec => []NobodyEscapes
    RunIsAccountedCorrect  Spec => []RunIsAccounted

For any listeners, threads, slots, writers and events. `RosterInv` strengthens `NobodyEscapes` to threads
that are not bound yet, and adds that there is one starter at a time and that whoever is about to register a
thread finds the place free and the listener on; `NameInv` says whose thread each is. `VerdictInv` adds to the
status that a starter is at work only in a run that was told to stop or still runs. `EventInv` says that no
event is in two places of queue, batches, store and given up, and that each was seen, and `SlotInv` that the slots taken
are the others. The joined list of `RunIsAccounted` and the sum of the slots are folds over sets: their value is shown by
induction over the size of the set.

### StoreProofs

    RetentionTypeCorrect  RetentionSpec => []RetentionTypeOK
    TagsBelongCorrect     RetentionSpec => []TagsBelong
    AlertsOutliveCorrect  RetentionSpec => []AlertsOutlive
    CatalogTypeCorrect    CatalogSpec => []CatalogTypeOK
    DecisionsStayCorrect  CatalogSpec => []DecisionsStay
    MirrorInStepCorrect   CatalogSpec => []MirrorInStep
    CacheIsHonestCorrect  CatalogSpec => []CacheIsHonest

For any addresses, limits, operators, releases, entries and bounds. `RetentionSpec` and `CatalogSpec` are what the run `store`
does while `part` is the one or the other.

Retention: `IdInv` says that no row, tag or pending label has an id the sequence has not given out, which is why a
deleted packet's tags never come to a new one; `OwnerInv` that a tag or a label about to be written names the
packet it was made for, if that is still there; `AlertInv` that a flagged packet has its tag, unless an operator
cleaned it or the cap on tags took it (`excused`). `AlertsOutlive` is the last conjunct.

Catalog: from `CatalogAssumption`, that a release ships finitely many monitors and that an entry's
id, a fresh uuid, is no shipped or written monitor's. The sets of operators, custom monitors and entries may be infinite, tables are finite.

- `DecisionInv` adds to `DecisionsStay` who wrote a row: a switched monitor is still a shipped one, an
  operator's is still custom, the row of an entry a mirror. Seeding touches only rows that were shipped when it read and when it writes.
- `InsideInv`: in an entry that was not crossed there is at most one call, which finds the entry as it left it.
- `StampInv` is what `StampTellsChanges` needs through a reload. `Follows(rows)` says that there is a second after
  which every row that differs from `rows` was written, so that equal stamps (count and latest second) mean equal rows:
  `StampTells` is that lemma, about the cardinality of finite tables and the maximum of their seconds. A list read later than its
  stamp is torn, and then `Outrun`: the catalog holds a row later than the stamp, or fewer rows than it counted. Deletions
  preserve `Follows` but not `Outrun`, which is why a deletion under a torn list counts among the cases excluded (`blurred`).
- `IndexInv`: the index is of the list published, or of the one about to be; its automaton is of that list or being built. With the
  types, every monitor that matches is then among the candidates (`TheIndexCovers`).

    CertificatesInductive  CertificatesSpec => []CertInv
    TrustSurvivesCorrect   CertificatesSpec => []TrustSurvives

Certificates, for any launchers and keys: `PreparedInv` says what the files hold at each command of a launch that has them to itself (`AloneInv`),
whatever an earlier one left; `KnownInv` that, until a CA is due or launches overlap, what clients were given is what the files
hold and no launch is making a CA; `ServedInv` that until the next launch begins they are as the one that serves left them.

    LogsInductive       LogsSpec => []LogsInv
    LogsAreKeptCorrect  LogsSpec => []LogsAreKept

Log files, for any ages to choose from and any finite, nonempty set of numbers of backups: `GenInv` numbers the files by age, `OwedInv` says that what the
settings entitled to stay is still let stay, `ShiftInv` that no rename of a rotation overwrites such a file, `PruneInv`
that none is on the list of those to be removed.

    HistoryInductive      HistorySpec => []HistoryInv
    HistoryIsTrueCorrect  HistorySpec => []HistoryIsTrue

History, for any names, addresses and limits. `AnnouncedOnce` speaks of announcements only and is not inductive: a flush that fails, a restart
that reloads the pairs from the table or a cap could separate an announcement from its binding. `Sound` therefore relates the four
places (tables, running flush, rows kept for a retry, pending rows) to the recorder's memory: a place that announces a binding has it
too, or it was given up (`Recorded`); a recorder that loaded its memory knows every binding anywhere that was not given up, one that
has not yet has none on its way. A binding is announced only if the recorder does not know it, so it was then announced
nowhere. `HistoryAddsUp` needs that a table and the pending rows have a key once (`Distinct`), or a merge would count twice,
and `FlightInv`, that nothing waits for a retry while a flush runs, which could overwrite it. What rows count (`Tally`) and a merge
of rows (`Merged`) are recursive functions: their lemmas (`TallyConcat`, `MergedFacts`) go by induction over the number of rows.

### ListProofs

The facts about lists that the others cite: what `Append`, `Tail`, `Drop`, concatenation and `Kept` do to the elements, the order
and the absence of duplicates, of what is kept of two lists in a row, and of a list without its first item or one in the middle. `SetInduction` is induction over the numbers, from the well-foundedness of their
order; each use names the set of numbers for which a claim holds, so no operator is passed.

## 7. What is only model-checked

- Liveness under fairness (`ReadsAreAnswered`, `RunningIsSettled`, `ForgottenEnds`) is out of the prover's
  reach.
- What a definition by recursion over the input computes (`FindsAll`, `DecodingIsSound`, `RecordsWhatWasSaid`) is
  compared by TLC with a definition of what it should be, on every input within the bounds.

## 8. Not modelled

- Contents: packets, rules, payloads, SQL and frames are data; a verdict, a measurement or a
  handler's result is any of the values that the code tells apart.
- Overlap of operator and guard inside the engine is in the model, and `RunningIsSound` and
  `StopIsComplete` are claimed only without it: `stop()` is not atomic and the guard
  does not take the controller's lock, so neither holds with it.
- Store failures in `Capture`, and unserialisable or oversized events in
  `CaptureLink`, are not modelled; the hazards say so.
- The forwarding of listener requests by the controller; the retention policy, the
  exclusion filters and the declared location, which are plain stored settings.
- Listings, statistics and snapshots of `store.py` and `app.py` (a large part of both): queries over what
  the modelled operations write. Schema migrations and page reclaiming run before or beside them and change no row they tell apart.
- The other application decoders, the registries and device profiles, `regex_safety.py`: lookup tables and pure functions of text.
- HTTP/3, mDNS, terminals, the AI runtime, settings and export: input and output
  around the API, without shared state to check. The desktop shell and the frontend are clients of it.
