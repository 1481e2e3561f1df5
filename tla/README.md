# A verification of networking_software

TLA+ models of the two programs of this repository, `go-sniffer` (pcap files to
TimescaleDB, REST API) and `live-sniffer` (`nls`, live capture to TimescaleDB),
checked with TLC, and theorems about them checked with TLAPS.

* [The system](#the-system): inventory of components
* [The modules](#the-modules): what models what, and how to read it
* [The runs](#the-runs): what TLC checks, bounds, fairness
* [The proofs](#the-proofs): what holds for every value of the constants
* [Where the code and its documents
  disagree](#where-the-code-and-its-documents-disagree)
* [Not modelled](#not-modelled), [Plan](#plan)

Paths are relative to the repository; line numbers are those of this commit.

## The system

```
 POST/DELETE /jobs ──> api.Server ── Launch ──> worker.ProcessWithPool
      │ rate limiter      │ Jobs map               │ PreChecks ─ Readers ─ Savers
      │                   ▼                        ▼
      │              job_tracking            source_files      packet_logs
      │                                                          ▲      ▲
 GET /packets ──────────── cursor pages ─────────────────────────┘      │
                                                                        │ COPY
 nls ─ unix socket ─> daemon ─ Launcher ─> listener ─ Kafka ─> savers ──┘
                          │ Sessions map
                          ▼
                     capture_sessions
```

| Component | State it keeps | Operations | What is hard about it |
|---|---|---|---|
| Extraction pipeline (`go-sniffer/internal/worker`) | three channels, a context, counters; one set per job | the goroutines `CheckAndInsertSourceFile`, `PcapWorker`, `PacketSaverWorker`, two closers, `ProcessWithPool` | interleaving of 3 worker pools, close of channels, cancel at any moment, statements that take effect after they failed, full channel |
| Tables `job_tracking`, `source_files`, `packet_logs` (`go-sniffer/internal/storage`, `shared/storage`, migrations under `live-sniffer`) | rows | INSERT of a job, of a checksum; COPY; progress and status updates; `DeleteJob`; migrations | UNIQUE races, ambiguous failures, statements that do not fit the schema they meet |
| Job routes (`go-sniffer/internal/api/jobs.go`, `cmd/sniffer/main.go`) | map from job id to cancel function | POST, DELETE, end of a job, exit, restart | a row, a map entry and a goroutine that appear and vanish at different moments |
| Rate limiter (`rate_limiter.go`) | tokens, time of the last update | `Allow` | overlapping calls, two readings of the clock |
| Packet listing (`packets.go`) | none on the server; the cursor travels with the client | a page, the next page | rows inserted between pages, ties, fractions of a second |
| Daemon and sessions (`live-sniffer/internal/daemon`, `pipeline`, `storage`) | map from session id to cancel function, `capture_sessions` | start, stop, list, shutdown, kill, restart | concurrent handlers, savers that fail, sessions that are taken over after a crash |
| Capture workers (`live-sniffer/internal/network`, `workers`) | batch, producer queue, Kafka topic, consumer group and offsets | listen, produce, read, COPY, pause | batches lost, duplicated or left behind; captures that share one group |
| `nls` command, configuration (`cmd/nls`, `internal/config`, `daemon/client.go`) | one YAML file, the path of one socket | set, migrate, start, stop | processes that overlap or are killed between two steps |
| Pcap generator (`internal/pcap`, `cmd/pcap-gen`) | a folder of files | generate, delete | one goroutine for each file, calls that fail, runs that overlap |
| Health endpoint, packet decoding (`shared/ingestion`) | none | sequential code | which packets a table accepts |
| Chat service (`mcp`), Streamlit page (`python-ui`) | none between requests | agent loop, display | termination depends on a language model |

What makes each of them correct:

* **Pipeline.** No packet is stored twice; no file disappears without a reason
  from a job that was left alone; progress counts only what was read; of the
  files with one checksum one is taken, and none that an earlier job took; after
  COMPLETED a job asks for nothing more, and one that was left alone has nothing
  outstanding; a job ends, and a cancelled job ends even if a disk does not.
* **Job routes.** A job that runs can be cancelled; no cancel function stays in
  the map; packets belong to a job that has a row; no job stays PROCESSING.
* **Rate limiter.** No window of time passes more than burst and rate allow;
  whoever waits a token's time is served.
* **Listing.** What a listing may miss and may repeat is known exactly, and it ends.
* **Daemon.** A capture that runs can be stopped by its session id; a stopped
  capture's savers leave; shutdown ends the daemon.
* **Capture workers.** A stop loses nothing that was captured; what is lost or
  stored twice has a known cause; a capture is not ended by packets that the
  listener should have held back; the group comes past everything that was sent.
* **`nls`.** What was set stays set; a database is named only with its tables;
  a daemon can be reached; no command waits for ever.
* **Pcap generator.** Never more files than asked for, no file overwritten or cut
  off unless something failed or overlapped; a run ends.

The hazards behind these properties are listed in `PROJECT.json`, each at its line.

## The modules

| Module | Models | Extended by |
|---|---|---|
| `JobPipeline` | one job: `workerpools.go`, `ingestion.go`, `saver.go`, `CheckAndInsertSourceFile`, the updates of `job_tracking` | `MCJobPipeline`, `JobPipelineProofs` |
| `ExtractionJob` | the abstract job that `JobPipeline` implements | (instantiated by `JobPipeline`) |
| `JobServer` | POST and DELETE of jobs, the `Jobs` map, the tables, migrations, exit and restart | `MCJobServer`, `JobServerProofs` |
| `RateLimiter` | `NewRateLimit`, `Allow` | `MCRateLimiter`, `RateLimiterProofs` |
| `PacketPaging` | `parseListPacketsParams` to `QueryPackets`, as a client's listing | `MCPacketPaging`, `PacketPagingProofs` |
| `CaptureSessions` | daemon, launcher, sessions, life of savers and listeners | `MCCaptureSessions`, `CaptureSessionsProofs` |
| `CaptureStream` | `listener.go`, the producer, Kafka's topic and group as the code uses them, the loop of `workers/saver.go` | `MCCaptureStream`, `CaptureStreamProofs` |
| `NlsCommands` | `config set`, `daemon start`, `daemon stop` as processes: `cmd/nls/main.go`, `config.go`, `client.go`, `migrations.go`, the socket in `daemon.go` | `MCNlsCommands`, `NlsCommandsProofs` |
| `PcapGenerator` | `GenerateFiles`, `Generate`, `RemoveFiles` as runs of `pcap-gen` | `MCPcapGenerator`, `PcapGeneratorProofs` |

`JobServer` contains the pipeline of each job as what its pre-checks and savers have
in flight; `JobPipeline` is the inside of one such pipeline. That the reduction
leaves nothing out is `StepsOfServer` of `JobPipeline`: whatever the goroutines do to
the tables and to the context is a step of `JobServer!Pipeline`, and a statement of
theirs that is executed late a step of `JobServer!Lands`. So only recorded files are
copied, and COMPLETED is the last statement that is sent but for an INSERT of a
pre-check. That the savers leave is `JobEnds`.

`CaptureSessions` decides when a capture starts and stops, `CaptureStream` takes a
start once and a stop at any moment, and looks at what becomes of the packets.
What `CaptureStream` shows of a saver that fails (it leaves and cancels its
capture) is the `CopyFails`, `CancelCapture` of `CaptureSessions`, where the
report to the table comes in between. `NlsCommands` looks at the same daemon
from outside: its processes are the daemons and the clients, and a request is
what makes a daemon leave.

### Conventions

* **One action per step between two points at which another goroutine or the
  database can be seen.** A database call is two steps: it is issued (the
  goroutine moves to the `pc` named after the call) and it is answered.
* **A statement that fails may be executed all the same, and later.** pgx returns
  as soon as the context of a call is cancelled, and whenever its connection is
  lost, but the server may go on with what it was sent. So a call that is broken
  off leaves its statement with the server, which executes it at once, after the
  goroutine has left, after COMPLETED was written through another connection, or
  never: the variables `late...` of `JobPipeline`, `late` of `JobServer`, `holding`
  of a saver that has left in `CaptureStream`. The server owes such a statement
  nothing: no fairness. A statement issued on a context that is already done
  reaches no server.
* **Errors the code ignores stay ignored.** `UpdateJobProgress` and
  `UpdateJobStatus` may fail with no other effect.
* **A process that ends** takes its goroutines and its maps; the statements and the
  produce requests it has sent may be carried out afterwards, or never.
* **Where a late statement changes nothing, it is left out.** In `CaptureSessions`
  the statements that touch `capture_sessions`, and in `NlsCommands` the migrations,
  take effect while their call is open, or never. A session can be taken over only
  when a report has made its row `crashed`, and each report is one statement: it
  opens the row to one more start at most, however late it is executed, and no other
  statement writes `crashed`, so `Stoppable` does not depend on the moment. Late
  migrations only add tables, and `config set` names a database only after the
  call has succeeded.
* Variables marked *observation* are read by properties only.
* A definition whose comment begins with *Mutant* is a plausible wrong version
  of the definition after it. No specification uses it; it is there to show
  that a property notices the difference.

### JobPipeline

`files`, `validFiles`, `packetStream` are the channels of `ProcessWithPool`
(lines 44-47), `ctxDone` its context. `prePc`, `rdPc`, `svPc`, `mainPc` say where
each goroutine is; `rdPos` is the reader's place in its file, `rdBatch` and
`svBatch` the batches in hand. A batch is a set of packets, a packet is a file
and a position. `Content[f]` lists what each `ReadPacketData` returns: a good
packet, one without IP layer (`nonip`), one whose protocol name is longer than
`VARCHAR(10)` (`longname`), a corrupt record that is skipped, or an error that
does not move the file position (`ioerr`). The read loop between two looks at
the context or sends is one action, `ReaderFill`. `sources` are the checksums in
`source_files`, `earlier` those that were there before the job, `own` those in rows
that carry this job's id. `copies` counts the rows of a
packet in `packet_logs`, which has no key; `fate` observes each file. `lateSums`,
`lateCounts`, `lateCopies`, `lateFails` and `lateEnd` are the statements that were
broken off and that the server may still execute (`Land`). Each is there once, as
the INSERT for a path, the count of a file, the COPY of a batch, the FAILED update
of a saver and the COMPLETED update are sent once. The pause
of a saver after a slow write keeps its two exits and loses its length. The
model assumes at least one worker of each kind, which the defaults give.

### ExtractionJob

What a client of the API can rely on, in eight variables and ten actions: rows are
stored once, by batches; files are counted when read; a job that was not
stopped is over only when all it has read is stored; COMPLETED only when over. A
stopped job may leave batches (`left`) and a FAILED update (`failing`) with the
database, before it is over, and these alone may come afterwards (`StoreLate`,
`FailLate`), a batch once. `JobPipeline` maps `over` to "`ProcessWithPool` has received
all counts", `stopped` to "the context is done or a saver has seen a COPY fail",
`left` to `lateCopies` and `failing` to "`lateFails` is not empty".

### JobServer

`handles` is `Server.Jobs`; `creator`, `pipe` and `del` are the goroutines of
POST, of a job and of DELETE; `doing` the pre-checks and savers of a job that have an
INSERT, a COPY or a FAILED update in flight or are about to cancel; `late` the
statements whose call was broken off, by the job's context, a lost connection or the
end of the process (`Exit`), and which the server may still execute (`Lands`) or
refuse, by the schema and the rows it finds then. `version` is
the last migration applied: `CreateRuns`, `RecordRuns`, `CopyRuns` and
`DeleteRuns` say at which versions the SQL of `go-sniffer` is accepted (COPY
names `source_id`, which exists from migration 6 on; `DeleteJob` names
`job_id`, which is gone from then on, and is refused by the foreign key of
`source_files` for a job that recorded a file). `Spellings` are the ways a
DELETE may write an id: only the canonical one is found in the map.

### RateLimiter

Tokens and time have one unit: a tick of the clock earns one unit and a request
costs `Cost`. The two clock readings of `Allow` (lines 29 and 30) are two
actions. `OpenWindow` lets an observer start counting at any moment.

### PacketPaging

`at` gives each row its time, `Second` ticks make a second, `RFC3339` drops the
fraction, and a row whose time was not selected has time zero. A page is *any*
set of rows that `ORDER BY time LIMIT n` may return: rows with equal times come
in any order. `Insert` is any saver's COPY between two pages.

`Args` are the arguments of the query in their order: a cursor if there is one, the
filters' values, the limit. `Matching` and `IsPage` take them by the number that
`ArgIdx` writes into the query (`argIdx`, which a cursor moves by one), while
`Passes` in the properties takes a filter's value as the client has written it.
`Length` stands for the column a filter may name.

### CaptureSessions

`handles` is `Launcher.Sessions`, `status` and `iface` the table; `starter`,
`saver`, `listener` are the goroutines of a capture; `req` the stop and
shutdown requests. `Reuse` and `InsertSession` are the two statements of
`StartSession`; the UPDATE of the first changes every crashed session of the
interface and returns one of them. `Close` is `Daemon.cancel`; `Return` is the
end of `Daemon.Start`, which waits for no handler; `Kill` may come at any time.
A request names any session id, in any spelling.

### CaptureStream

`batch` is in the listener's hands, `queue` in the producer's, `log` is the topic, one
message for each batch. `Deliver` puts a batch into the topic; `GiveUp` is what
librdkafka does when `message.timeout.ms` passes or the broker refuses the batch for
good: the batch leaves the queue with a delivery report and nothing else
(`listener.go:29` asks for no report of its own). It is then `adrift`, as are the
batches in the queue of a process that is killed: a request that was sent may still
reach the topic (`ArriveLate`), or never. A message keeps its place in the queue until
its delivery report is in a channel of `ReportRoom` reports, which nobody reads:
`QueueFull` counts both. The group is what librdkafka and the broker make of
`group.id` and the defaults: `position` of the owner, `committed` by a timer
(`Commit`) or when a rebalance takes the partition back (`Rejoin`), whatever became of
the batch. `Join`, `Rejoin` and `Read` happen inside `ReadMessage(100 ms)`. A saver
that has left never polls, and `Expire` takes its membership; `Evict` takes that of
one that is only slow. These definitions are external in `PROJECT.json`. `NonIP`
packets have no addresses and are held back by the listener; `LongName` packets have a
protocol name that `VARCHAR(10)` does not hold. A COPY that fails leaves `holding` as
it is: the server may store the batch after its saver has left (`StoreLate`).

### NlsCommands

Each process runs one command, in steps between which another process may come:
read the file, migrate, truncate, write; read, connect, remove the path, bind,
serve, close, exit; dial, wait. `os.WriteFile` truncates before it writes, so an
empty file, which parses, is seen in between, and two writes may leave the end of
the longer one behind (`garbled`). The listener's `Close` unlinks the path of its
socket, whoever has bound it since. `want`, `raced`, `read` and `met` observe
what was set, whether commands overlapped, and which daemons met.

### PcapGenerator

`files` is what the folder has under each number, `job` what the goroutine for
each number does. A generating run counts once (`Matches`) and takes the numbers
after the count. `os.Create` truncates; two writers on one file leave it `mixed`;
a file that is removed under its writer is `unlinked`. `marred` observes that a
call failed, a run was killed or two runs were at work together. `Default` is the
count that `--count 0` stands for, three in the code and two in the run.

## The runs

TLC 2 workers; states are distinct states.

| Run | Instance | States | Properties |
|---|---|---|---|
| `pipeline_safety` | 3 files (a full and a short batch; a refused batch before a read that fails for ever; one that begins like the first and has its checksum, which an earlier job may have recorded), 2 pre-checks, 2 readers, 2 savers, batches of 2, channel of 1, statements that come late | 1,865,005 | `TypeOK` `AtMostOnce` `NoSilentLoss` `ProgressHonest` `OnePerChecksum` `CompletedIsLast` |
| `pipeline_live` | 2 files (a full batch and one that COPY refuses; a read that fails for ever with a row in hand), 1 pre-check, 2 readers, 2 savers, statements that come late | 385,844 | `JobEnds` `CancelEndsJob` `ImplementsJob` `StepsOfServer` |
| `limiter` | 2 overlapping requests, bucket of 4 units, 2 a request, 7 ticks | 127,586 | `TypeOK` `BurstBound` `PatientIsServed` |
| `paging` | 4 rows, 2 seconds of 2 ticks, every assignment of times, any rows inserted on the way, six kinds of listing, one of them with two filters that three rows pass | 933,720 | `TypeOK` `MissedOnlyTies` `RepeatsOnlyFractions` `ListingEnds` |
| `server_safety` | 1 job with 2 pre-checks and 2 savers, 2 DELETEs at a time, migrations 1 to 6, statements that fail or come late, exits and restarts | 603,902 | `TypeOK` `RunningIsCancellable` `PacketsBelong` |
| `server_live` | 1 job with 2 pre-checks and 2 savers, 2 DELETEs at a time, migrations 4 to 6; duplicate files and refused batches, statements that come late after a cancel or an exit, but no statement that fails for reasons of its own | 267,821 | `HandlesDrain` `JobsSettle` |
| `capture_safety` | 2 start requests for 1 interface with 1 or 2 savers, 2 session ids, 1 stop or shutdown, failing statements | 2,310,907 | `Stoppable` |
| `capture_live` | 1 capture with 2 savers, 2 requests | 179,587 | `SaversLeave` `ShutdownEnds` |
| `stream` | 2 captures with 1 saver each; 3 packets of the first, the last of which no COPY takes, and 1 of the second without addresses; batches of 2, a queue of 1, no room for reports; 1 message sent twice or 1 membership lost; stops, kills, batches that the producer gives up, COPYs and requests that come late | 421,270 | `TypeOK` `NothingLeftBehind` `LossNeedsAnEnd` `StoredTwiceHasCause` `CancelHasCause` `Drains` |
| `nls` | 3 processes, 2 databases, 1 interface, every configuration to begin with, kills | 480,880 | `TypeOK` `ConfigIsKept` `MigratedFirst` `ReachableAlone` `CommandsEnd` |
| `pcapgen` | 3 runs on one folder, counts of 1 and 2, with and without a file of somebody else, failing calls, kills | 207,296 | `TypeOK` `NeverTooMany` `CountReached` `RunsEnd` |

One more run, `claim_FailedIsFinal`, looks for a behaviour that contradicts the
documents, and finds it (below).

What the properties say, beyond their names:

* `NoSilentLoss`: when an uncancelled job reports, every file was a duplicate,
  could not be hashed, recorded or opened, or has all its rows stored; and the
  server has no COPY and no FAILED update of it left, so this COMPLETED is the last
  word. It is what the order "readers done, close, drain, counts, COMPLETED" is for.
* `OnePerChecksum`: of the files with one checksum at most one goes on to a reader,
  and none if the checksum was in `source_files` when the job began, though the
  INSERTs race, fail, and are executed after their pre-check has dropped its path.
* `ProgressHonest`: `files_read` never exceeds the files that were read to their
  end, so `progress_pct` never exceeds 100.
* `CompletedIsLast`: once COMPLETED can be seen, the job sends no COPY and no FAILED
  update any more. A row or a FAILED may still come, from a statement that was broken
  off before and is with the server by then, each of them once. (That *nothing*
  comes after COMPLETED is not true of a job that was cancelled or failed: pgx
  returns at once, `ProcessWithPool` reports on another connection, and the server
  may be slower.) A report before the last count would break it.
* `StepsOfServer`: seen from `JobServer`, with one job, the latest schema and no
  DELETE of its row, every step of a goroutine is a step of `Pipeline`, every late
  statement a step of `Lands`; the rest are calls of the cancel function, or no step
  at all. A file that were copied without a row of
  the job in `source_files`, a statement issued on a done context or a report
  before the last saver has gone would break it.
* `JobEnds`: unless some read keeps failing, all goroutines of a job end, also
  when a saver has left and the channel is full. `CancelEndsJob`: after a cancel
  `ProcessWithPool` returns even if a reader never does.
* `RunningIsCancellable`: POST, DELETE and the end of a job change the map at
  different moments, and still a job that may issue a statement has its entry.
* `PacketsBelong`: no COPY that commits while a DELETE runs, or long after its job was
  cancelled or its process died, leaves rows behind, in any schema, though the foreign
  key of `packet_logs` goes with migration 6.
* `Stoppable`: a capture that goes on is in the map under its session id, with
  one exception that the property names: an earlier capture of the same session
  had *two* savers fail.
* `NothingLeftBehind`: until its process ends, a packet that a capture took is in its
  batch, in its producer's queue or in the topic, unless a full queue refused it,
  which is logged, or the producer gave its batch up, which is not. `Drains`: what is
  on its way is passed by the group, also when the consumer that owns the partition
  has left without a word.
* `LossNeedsAnEnd`: an offset that is committed and not stored was read by a
  saver whose capture has ended. The capture that ended need not be the one the
  packets came from.
* `StoredTwiceHasCause`: rows come twice only after a message was sent twice or a
  consumer lost the partition with reads it had not committed; a COPY or a produce
  request that is carried out after it was given up is no cause, since nobody
  repeats it.
* `CancelHasCause`: a capture ends without a stop only when its database failed
  or when it read a batch with a protocol name too long for the table.
* `ConfigIsKept`: unless commands overlap or a write was cut short, the file has
  every value that was set and a daemon serves the database set when it started.
  `MigratedFirst` and `CommandsEnd` hold however they overlap.
* `ReachableAlone`: a daemon that never had another one beside it owns the
  socket's path, also after a daemon that was killed or is still on its way out.
* `NeverTooMany`: whatever overlaps or fails, the folder has no more files than
  some run was asked for. `CountReached`: the number, the names and the contents are
  right as long as nothing was marred.
* `MissedOnlyTies`, `RepeatsOnlyFractions`: an ascending listing misses only rows
  that share a whole-second time with a row it gave, and repeats only rows with
  a fraction of a second.

**Bounds and why they are enough.** Nothing in the pipeline counts beyond "room or
none", "another worker or none", "full or short batch": two workers of each kind, a
channel of one and batches of two meet every such case, and the runs fire every
action. Late statements multiply the states, so the properties that are costly to
check have two files and one pre-check (`pipeline_live`), the invariants three files
and two of everything. One job is enough in the runs of `JobServer`: every entry of
the map, every row and every statement belongs to one job and no action looks at two,
and the proofs hold for any number. `capture_safety` needs two captures of one session
and two savers for the exception in `Stoppable` and for everything short of it; the
type invariant of `CaptureSessions` is proved and is not among the properties of the
run. `stream` has a full and a short batch, a queue that reports have filled, batches
given up at any moment, a saver that reads the other capture's batches and is ended by
one of them, and one fault of Kafka's; the counts of packets bound `log`. Only the
first capture has anything to send: the producers share nothing but the topic, and the
second capture's part is that of a consumer of the group. Three processes of `nls` are
a daemon, a second one or a `config set`, and a client. Three runs of `pcap-gen` are
two that overlap and one that finds what they left; with two names a gap is possible.
`paging` covers ties of whole seconds, ties with fractions, pages that split a tie and
pages that do not, and the second page of a filtered listing, where the cursor moves
the placeholders. In `limiter` the clock stops at 7, more than two refills of the
bucket. What the bounds leave open is what the proofs are for. `pipeline_safety`,
`limiter`, `server_safety`, `capture_safety` use symmetry of the model values, which
no specification tells apart and no property names; runs with temporal properties use
none.

**Fairness.** Weak fairness of every goroutine: the Go scheduler runs what can
run, channel operations that stay possible happen, timers fire, and the pool of
pgx answers every statement, if only with an error. To a statement or a request that
was broken off nobody owes anything: `Land`, `Lands`, `ArriveLate` and `StoreLate`
have no fairness. Beyond that:

* Nobody has to post, delete, cancel, kill, restart, migrate or insert. No COPY
  has to fail and no packet has to arrive (`ListenerLeaves` has no fairness).
* `ReadMessage(100 ms)` returns, so a saver of a capture looks at its context again
  and again (`SaverLeaves`).
* `JobServer` assumes that a job issues finitely many statements (`RunsOut`): its
  files come to an end. This is `JobEnds` of `JobPipeline`, for files whose reads do
  not fail for ever, seen from outside; the model does not count statements.
* In `stream`, packets come on the interface of a stopped capture (a listener looks at
  its context only then), and `ReadMessage` gives a message that waits to a later call
  if not to this one: *strong* fairness of `Poll`, since each call may time out.
  Kafka's timers fire (`Commit`, `Expire`), its broker answers (`Assign`), and a batch
  in a producer's queue is delivered or given up (`Deliver(c) \/ GiveUp(c)`):
  librdkafka does not keep it beyond `message.timeout.ms`. Nobody need start or stop a
  capture, and no consumer need lose its membership while it polls.
* In `nls` and `pcapgen` a process that was started runs; nobody need start or
  kill one.
* In `paging` the client asks for the next page until there is none.

## The proofs

TLAPS checks these for every value of the constants that satisfies the
`ASSUME` of the module: any number of files, workers, jobs, rows, captures, savers,
commands and runs, any batch size and any capacity of a channel or a queue. Every
safety invariant and every action property that a run checks is proved, and so
is the refinement.

| Theorem | Statement | Rests on |
|---|---|---|
| `JobPipelineProofs!TypeCorrect` | `[]TypeOK`, with `Len(packetStream) <= StreamCap` | `HandsOK` |
| `RowsAtMostOnce` | `[]AtMostOnce` | `Route`, `BatchesOK`, `Fresh`, `Apart` |
| `NothingLostSilently` | `[]NoSilentLoss` | `Kept`, `Ending` |
| `OneFilePerChecksum` | `[]OnePerChecksum` | `Unique` |
| `NothingAfterCompleted` | `CompletedIsLast` | `Ending` |
| `ProgressNeverOverstates` | `[]ProgressHonest` | `Counted`, `Route` |
| `PipelineImplementsJob` | `ImplementsJob`, which is `Job!Spec` | `Inv`, `Counted`, `NoSilentLoss` |
| `PipelineStepsOfServer` | `StepsOfServer` | `Filled`, `Unique`, `Fresh`, `Ending` |
| `PreChecksNeverWait` | `[]` of: a pre-check that sends finds room in `validFiles` | `Route`, `ShorterThanFiles` |
| `NobodyWaits` | `[]NobodyWaitsForNobody` | `Inv`, `ReturnCancels`, `ReadLoopPauses`, `PreChecksNeverWait` |
| `ReadLoopPauses` | for every file and position, `PausesAt` holds of exactly one position | `HasLeast`, `RowsGrow` |
| `RateLimiterProofs!LimiterTypeCorrect`, `BurstIsBounded`, `PatienceIsServed` | `[]TypeOK`, `[]BurstBound`, `[]PatientIsServed` | `OneHolder`, `Budget` |
| `PacketPagingProofs!ListingTypeCorrect`, `ListingMissesOnlyTies`, `ListingRepeatsOnlyFractions` | `[]TypeOK`, `[]MissedOnlyTies`, `[]RepeatsOnlyFractions` | `Ahead`, `Behind`, five lemmas on `RFC3339`, and `Placeholders`: each number in the query names its argument |
| `JobServerProofs!ServerTypeCorrect`, `RunningJobsCanBeCancelled`, `PacketsBelongToJobs` | `[]TypeOK`, `[]RunningIsCancellable`, `[]PacketsBelong` | `NotYet`, `Registered`, `RecordsBelong`, `CopiesRecorded` |
| `CaptureSessionsProofs!SessionTypeCorrect`, `CapturesCanBeStopped` | `[]TypeOK`, `[]Stoppable` | `HasSession`, `NamesRow`, `RowsExist`, `CrashWritten`, `OneFresh`, `Held` |
| `CaptureStreamProofs!StreamTypeCorrect` | `[]TypeOK` | `Batches`, `QueueFits`, `Lives` |
| `StopLeavesNothingBehind` | `[]NothingLeftBehind` | itself, `Lives`, `Batches` |
| `OnlyAnEndLoses` | `[]LossNeedsAnEnd` | `Passed`, `ReadersOK` |
| `OnlyResendsAndLostOffsetsStoreTwice` | `[]StoredTwiceHasCause` | `ReadOnce`, `Apart` |
| `CancelNeedsACause` | `[]CancelHasCause` | itself, `Batches`, `ReadersOK` |
| `NlsCommandsProofs!CommandsTypeCorrect`, `NoDaemonWithoutTables` | `[]TypeOK`, `[]MigratedFirst` | `Types`, `Migrated` |
| `ClientsWaitForDaemons` | `[]HasDaemon` | itself |
| `SettingsAreKept`, `LoneDaemonIsReachable` | `[]ConfigIsKept`, `[]ReachableAlone` | `OneSetter`; `PathKept` |
| `PcapGeneratorProofs!GeneratorTypeCorrect`, `GeneratorNeverWritesTooMany` | `[]TypeOK`, `[]NeverTooMany` | `NumbersOK` |
| `LoneRunReachesItsCount` | `CountReached` | `Unmarred` |

All follow one argument: an invariant `Inv` that the initial states satisfy, that
every action keeps (one lemma per part, one step per action), and that implies
the property; temporal logic combines the three. No property is inductive by
itself:

* *AtMostOnce.* That a COPY does not hit rows that are there needs to know where
  every packet can be. `Route` says that a path is in exactly one place (the first
  channel, a pre-check, the second channel, a reader); `Fresh` and `BatchesOK`
  that a reader's packets lie beyond what it has sent; `Apart` that the batches
  in hands, in the channel, left with the server and in the table are disjoint.
* *NoSilentLoss.* `KeptRows` accounts for every row of a file, read up to a
  position, as stored, queued or in a hand, as long as nothing has failed or
  been cancelled; `ShortIsLast` knows that a short batch ends its file; `Ending`
  ties the closes to the ends of the pools, so that when the counts are in,
  nothing is queued. `Kept` also knows that no COPY and no FAILED update is left with
  the server before something has failed or been cancelled.
* *OnePerChecksum.* `Unique`: a file that passed the pre-check has its checksum in
  `source_files`, in a row of this job and not among the earlier ones, and the two
  INSERTs of two files with one checksum cannot both be the first. An INSERT that
  comes late only makes a checksum known whose file was dropped.
* *CompletedIsLast.* `Ending`: when COMPLETED is in the table, or left to be executed,
  all counts are in. So no saver is at a COPY or an update that it could leave with
  the server, and what changes is `LandCopy` or `LandFail`.
* *BurstBound.* `Budget`: units in the bucket and units spent in the window are
  covered by a full bucket and the time the bucket has been credited for, which
  in the middle of `Allow` is not the time of `lastUpdate`.
* *MissedOnlyTies.* `Behind`: every row not after the cursor was given, or ties
  with a row that was; `Ahead`: what was given does not lie after the cursor's
  second.
* *PacketsBelong.* Nothing in `packet_logs` protects it after migration 6.
  `CopiesRecorded` and `RecordsBelong` show what does: only recorded files are
  copied, and `source_files` keeps `DeleteJob` from a job that recorded one.
* *Stoppable.* A capture may take a session over only when it is crashed. Unless
  some capture reported twice, a crashed session's captures have all reported
  (`CrashWritten`), so of two captures of one session one has (`OneFresh`), and
  the one that has not holds the entry (`Held`).

* *ProgressHonest.* Between the end of a file and the answer of its UPDATE the file
  is read and not counted. `Accounted` are the files that are read and have no
  UPDATE to come; `Counted` bounds `files_read` by their number, and knows that two
  readers never count the same file, since a path is with one reader only.
* *NothingLeftBehind* and *CancelHasCause* are kept by every step once it is known
  which batches exist (`Batches`: packets of one capture, up to those it took, none
  that `Sendable` refuses) and that a capture that has not begun, or whose process
  is gone, has nobody at work (`Lives`).
* The two also have to follow what was given up: `Handed` are the batches that a
  producer was given and may still put into the topic, those in its queue and those
  adrift, and `Apart` keeps both disjoint from each other and from the topic.
* *LossNeedsAnEnd.* The offsets below `committed` are among those the owner has come
  past. `Passed` follows each of these from the saver that read it: it is stored,
  in that saver's hands, or that saver's capture has ended. The timer's commit runs
  ahead of the COPY, but not of the position, so `Passed` covers all it commits.
* *StoredTwiceHasCause.* `ReadOnce`: an offset that no owner has lost has at most
  one reader, none before it is its turn, and a row count of one only when nobody
  has its COPY in hand, be it a saver that has left and whose COPY may come late.
  `Apart`: two batches in different places share no packet, unless one is the other,
  sent again.
* *MigratedFirst.* `Migrated` carries what `config set` has migrated through its write
  of the file into what `daemon start` reads: a truncated file names no URL, and one
  that two writes leave the URL of the last.
* *ConfigIsKept.* `OneSetter`: while nothing has overlapped one `config set` is at
  work at most, and it holds exactly what is wanted with its own change in it.
* *ReachableAlone.* `PathKept`: two daemons that use the path have met, so a daemon
  that has met nobody finds the path as it left it, from the removal to the bind
  and from the bind to its end.
* *NeverTooMany.* `NumbersOK`: every file has a number above those of the files of
  others and not above the count of some run. With the greatest of these numbers
  at hand, the files are a subset of an interval, and `Max` bounds its length.
* *CountReached.* `Unmarred` tells what the one active run has made of each number:
  ready, in the middle of writing, or returned and whole, and below them the files
  that it had counted.

**The refinement.** `PipelineImplementsJob` maps every step of a goroutine to a step
of `ExtractionJob` or to a stutter, with the state mapped as described under
[ExtractionJob](#extractionjob). `FileSteps` sorts the steps by what they do to the
files: a reader finishes one (`FileRead`), its UPDATE answers or comes late
(`CountFile`, or nothing), or neither. A COPY that succeeds is `Store`, one that is
refused or broken off `BreakOff`, and `LandCopy` is `StoreLate`: that the job is not
over when a saver answers is `Ending`, that the rows are not yet there is
`SaversApart` and, for the late ones, `LateApart`. The FAILED update is `Fail`,
`LandFail` is `FailLate`; `MainReport` and `LandEnd` are `Complete`. `MainCollect` is
`End`, and the condition of `End`, that all that was read is stored, is `NoSilentLoss`
in the state after it.

**The reduction in `JobServer`.** `PipelineStepsOfServer` takes the steps one by one: a
pre-check or a saver that starts on a call is `Issue`, the answers are `Recorded`,
`Copied` and `Failed`, `cancel()` is `Aborts`; `MainCollect` is `SaversGone`,
`MainReport` is `Ends`, `Land` is `Lands`, readers and closers are stutters. A call that
is broken off adds its kind of statement to `late`, for which one member stands for
all alike (`LeavesLate`). Three facts make it so. A
goroutine that issues a statement with the context not done finds the job running,
since an uncancelled job collects counts until every goroutine is gone (`Ending`). A
batch on its way is not empty (`Filled`), so its file has come past the pre-check
(`Fresh`) and its checksum is in a row of this job (`Unique`); that is what
`CopiesRecorded` of `JobServerProofs` rests on. And a COPY that commits does leave
rows (`Filled` again). DELETE of the row, an older schema and other jobs are
`JobServer`'s own part and are not in the mapping.

**The read loop.** `ReaderFill` lets a reader go to a position at which its loop
pauses. `ReadLoopPauses` shows that there is one, whatever the file holds, and only
one: the action is enabled wherever the code runs on, and adds no choice of its own.

**Who waits for whom.** The safety half of `JobEnds` and `CancelEndsJob`, for every
capacity and number of goroutines. `NobodyWaitsForNobody` says that the job is over,
or a reader of a job that is not cancelled is caught in a read that fails for ever
(`Caught`), or one of the goroutines has a next step; `...CanMove` writes out what
lets each of them take it. `CancelJob` is not among the steps, although it keeps
TLC's check for deadlock from noticing a job that waits to be cancelled. The
argument follows the channels: `validFiles` has room for every path
(`PreChecksNeverWait`, by counting the files that are queued or held); so the
pre-checks end and the first closer runs; a reader inside a file has a pause to go
to (`ReadLoopPauses`) or waits at a full `packetStream`, which a saver can empty; if
all savers have left, the counts are in, `ProcessWithPool` moves or has cancelled the
context (`ReturnCancels`), and the reader gives up. Of `nls`, where only a client
waits for another process, `HasDaemon` says the same: what it waits for can still
take the request, is on its way out, or is gone.

**Only model-checked:** all liveness, namely `JobEnds`, `CancelEndsJob`,
`HandlesDrain`, `JobsSettle`, `ListingEnds`, `SaversLeave`, `ShutdownEnds`, `Drains`,
`CommandsEnd` and `RunsEnd`. Liveness under fairness and `ENABLED` are out of reach of
the provers at hand, and so are theorems by induction that take the statement to
prove as a parameter. Where a fact about finite sets needs induction all the same
(`HasGreatest` of `PcapGeneratorProofs`, `HasLeast` of `JobPipelineProofs`: a finite
set of numbers has a greatest and a least one), it is proved from a smallest
counterexample, which needs no parameter. The
models use no recursive operator.

## Where the code and its documents disagree

Shown by a run of its own, with TLC's shortest behaviour:

* `claim_FailedIsFinal`. `go-sniffer/README.md:191` lists `FAILED` among the
  statuses and `saver.go:57` sets it; `workerpools.go:89` then writes `COMPLETED`
  over it. A failed job is seen to have failed only if its FAILED update was broken off
  and executed after that.

The following are behaviours of the models as well, but no run is spent on them;
where a property excepts them, the property is named:

* `go-sniffer/README.md:158`: `next_cursor` is null on the last page. With the
  default order a listing reaches null and has passed over rows with the time of a
  page's last row (`packets.go:193`; `MissedOnlyTies`).
* `jobs.go:144`: DELETE "cancels a running job and removes it". Between
  `jobs.go:108` and `:117` the row is there and the cancel function is not: DELETE
  is answered, the pipeline starts. `PacketsBelong` shows that it stores nothing
  for a job without a row.
* `live-sniffer/README.md:72`: the returned id stops the pipeline. Two savers of one
  capture fail, other starts take the session over in between, and the entry of a
  running capture is overwritten (`pipeline.go:61`; the exception of `Stoppable`).
* `live-sniffer/README.md:9` has "multiple capture pipelines" that run
  simultaneously, and `:82` stops a specific one. They share one consumer group: a
  capture that is stopped while its saver waits in `ReadMessage` copies what it
  then reads with a context that is done (`saver.go:59`), and the batch it loses
  may be another capture's (`LossNeedsAnEnd` asks for an end, not for the end of
  the capture that took the packets).
* An IPv6 packet with a hop-by-hop header has addresses and the protocol name
  `IPv6HopByHop`, which `VARCHAR(10)` refuses: it ends the capture of whichever
  saver reads its batch (`shared/ingestion/ingestion.go:30`; `CancelHasCause`).
* A job that was cancelled or failed may get rows, or turn FAILED, after it was
  COMPLETED: the server executes what its savers broke off (`saver.go:55,57`,
  `workerpools.go:89`; `CompletedIsLast` names the statements). Whoever polls until
  COMPLETED and then counts rows can count too few. The COMPLETED of a job that was
  left alone is final (`NoSilentLoss`).
* A batch that the producer gives up, after `message.timeout.ms` or because the broker
  refuses it, is lost without a line in the log: `sendBatch` has no delivery channel
  and nobody reads `Events()` (`listener.go:29-32`; `adrift` in `NothingLeftBehind`).
* Nobody reads the producer's delivery reports: when the channel is full, delivered
  messages keep their places in the queue and `Produce` refuses every batch, which
  the listener only logs (`listener.go:61`; `refused` in `NothingLeftBehind`).
* `nls config set` reads the file, truncates it and writes it (`config.go:64`): two
  at a time lose a value, a kill in between empties the file, and a daemon that
  reads it then serves the default database of pgx (`ConfigIsKept`).
* A second `nls daemon start` takes the path of a daemon that runs on unreachable;
  when that one ends, it unlinks the path of the other (`daemon.go:23,32`;
  `ReachableAlone`). `nls daemon stop` may be told of an error by a daemon that it
  has stopped: the process may end before its answer is sent.
* `pcap-gen generate` counts every `.pcap` file and numbers from the count
  (`packageGenerator.go:210,234`): after a file could not be made, the next run
  overwrites a whole file and ends one short, and says that all are ready
  (`CountReached`).
* `DeleteJob` names `packet_logs.job_id` (`job_tracking.go:162`), which migration
  20260703000001 renames: at the latest schema every DELETE answers 500, where
  `go-sniffer/README.md:239` promises to delete. Before it, a job that recorded a
  file is held by the foreign key of `source_files` and DELETE answers 500 too.
* `filter=job_id:eq:...` (`go-sniffer/README.md:254`) asks for the same column,
  which does not exist in any schema in which COPY succeeds.
* A DELETE, or an `nls stop`, that spells the id in upper case or without dashes is
  valid for `pgtype.UUID` but not a key of the map (`jobs.go:154`,
  `pipeline.go:95`): nothing is cancelled.
* A packet without IP layer is not skipped (`ingestion.go:101`): `"invalid IP"` is
  refused by the INET columns, and the job is aborted.
* The checksum covers 64 KiB: a file that was never seen can be "seen"
  (`database.go:38`); and it is recorded before the file is read, so a file of a
  failed job is never read again (`database.go:47`). `go-sniffer/README.md:283`
  still says that there is no such check.
* A reader whose reads fail without moving on, with a started batch in hand, never
  looks at the context again (`ingestion.go:55,76`). The job ends, the goroutine
  does not.
* A listing with `order=desc`, or without the `time` field, does not go on: the
  cursor asks for later rows (`packets.go:193`), or is the year 1 (`:308`). A last
  page that is exactly full has a cursor (`:307`).
* Jobs and captures of a process that ends stay PROCESSING, `running` or `starting`
  for good; so does a capture that is being started during `nls daemon stop`.
* `CreateJob` is commented as inserting PENDING and inserts PROCESSING
  (`job_tracking.go:64,76`). `StartSession` looks for the status `stopped`, which
  is written `finished` (`sessions.go:25`).
* A capture whose second consumer cannot be made is answered with an error and
  its first saver stays (`pipeline.go:75`). A crash that is reported before
  `pipeline.go:82` is overwritten by `running`. A listener leaves only when a
  packet comes (`listener.go:39`).
* `ended_at` and `packets_saved` (`live-sniffer/README.md:8`) are never written, and
  `-i` has no default from the configuration (`live-sniffer/README.md:69`).

## Not modelled

* The contents of packets and what is decoded of them: no state depends on them, but
  for the kinds of row that COPY refuses and the one column that filters compare.
* Kafka beyond what the code asks of it: more than one partition (each would have
  an owner of its own), brokers that lose what they acknowledged, messages that
  do not decode. In `CaptureSessions` a saver reads until a COPY fails or its
  context ends.
* The limit of ten connections of the pgx pool: every goroutine holds a connection
  only during a statement and none while it waits for another.
* GET handlers, `nls list`, health endpoint: they change nothing. Requests refused
  for their parameters, middlewares, logging, JSON.
* The bytes of a request or an answer. A request of `nls` other than `daemon stop` has
  its effects in `CaptureSessions`.
* Files that somebody removes or adds while `pcap-gen` is used.
* The chat service keeps no state and its loop ends when the language model asks for
  no more tools; Streamlit page, containers: see the components in `PROJECT.json`.

## Plan

Done, in this order: `JobPipeline` and its abstraction; its proofs; `RateLimiter`;
`PacketPaging`; `JobServer`; `CaptureSessions`; the proofs of each;
`CaptureStream`; `NlsCommands`; `PcapGenerator`; the proofs of these three;
`ProgressHonest` and the refinement of `ExtractionJob`; the workers of a job in
`JobServer` one by one, and the proof that the steps of `JobPipeline` are steps of
its reduced pipeline; the pauses of the read loop; who waits for whom in a job and
between the commands of `nls`.

Next, most important first:

1. An abstract specification of `CaptureStream`, a capture as a client of the
   database sees it: which packets may be lost and which stored twice. `Passed`
   and `ReadOnce` are what its proof would rest on.
2. The safety half of the other liveness properties: in `CaptureStream` that a batch
   on its way has a consumer that can move towards it.
3. `JobServer` with the pipelines of `JobPipeline` in place of the reduced ones, one
   instance for each job. The proof has the step of one pipeline; what is missing is
   a `JobPipeline` whose row a DELETE may take away.
