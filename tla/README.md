# A verification project for cdc-pipeline

cdc-pipeline takes orders over HTTP, writes them to Postgres, and lets Debezium
turn the write-ahead log into Avro records of one Kafka topic. Three consumers
read the topic: one indexes orders in Elasticsearch, one keeps a cache in
Redis, one mails customers. All of them log to Logstash, and Python scripts turn
the logs into a Kibana dashboard and the charts of the benchmark report. This
directory models the consumers and what feeds them, the order API and its load
generator, and the way from log lines to panels in TLA+, checks the models with
TLC and proves the central properties with TLAPS.

Paths below are relative to the repository.

## Inventory

| Part | State | Operations | Talks to |
| --- | --- | --- | --- |
| Consumer loop, `consumers/src/kafka_consumer_base.cpp` | the librdkafka consumer (assignment, position, committed offset), `running_`, the dead letter producer and its queue | construct and subscribe, `Run` (consume, decode, retry loop, dead letter, `commitSync`), `RouteToDLQ`, `Stop` | Kafka; `ProcessRecord` of a subclass |
| `AvroDeserializer` | libserdes' schema cache, shared by the three consumers | `Deserialize` | schema registry |
| `RedisUpdater` | Redis connection; in Redis `order:<id>` and `order:<id>:lsn` | `ProcessRecord`: one Lua script for upserts, one for deletes | Redis |
| `Notifier` | Redis connection; in Redis `email_sent:<id>:<status>` | `ProcessRecord`: `SET NX`, then the mail (a log line) | Redis |
| `ESIndexer` | none of its own; the documents in Elasticsearch | `ProcessRecord`: PUT or DELETE of `/orders/_doc/<id>` | Elasticsearch |
| Consumer process, `consumers/src/main.cpp` | `g_shutdown_requested`, the consumers, their threads | startup loop, launch, wait, stop, join | operator, Docker |
| API server, `api/src/api_server.cpp`, `database_client.cpp`, `redis_client.cpp`, `uuid_util.h` | `conn_` behind `db_mutex_`, `context_` behind `redis_mutex_`, one random generator behind nothing, each shared by all handlers | POST, PATCH and GET of orders | Postgres, Redis |
| API process, `api/src/main.cpp` | the two clients, the server, the load generator | startup loop, signal handler | operator, Docker |
| Load generator, `load_generator.cpp` | `running_`, worker threads, `created_ids` of each | POST and PATCH, time-outs, `Stop` | API server, in the same process |
| Logging, both `logger.cpp`, `logstash/logstash.conf` | the sinks of each process' logger | `Init`, log lines, routing into three indices | Logstash, Elasticsearch |
| Kibana scripts, `setup_kibana.py`, `build_full_kibana_dashboard.py`, `update_kibana_dashboard.py` | saved objects: data views, visualizations, one dashboard | create or overwrite them one by one | Kibana |
| Charts and soak report, `generate_benchmark_charts.py`, `check_soak_status.py` | nine files in `docs/benchmarks` | query, draw, save, chart by chart; print totals | Elasticsearch |
| Deployment and operator's tools, `docker-compose.yml`, `register-connector.sh`, `push_repo.py`, `test_*.py` | which services restart, which keep data | run once, by hand | |

What is hard in it, and what makes each part correct:

* The loop runs in one thread while `Stop` comes from another, librdkafka takes
  and loses the partition by itself (no rebalance callback is set), and the
  dead letter producer delivers or drops in the background. Correct means:
  the committed offset never passes a record that was not dealt with, records
  are dealt with in order, and all of them are in the end.
* A call to a sink may time out and yet have been executed, or be executed
  later, after the retry or after newer records. Debezium repeats changes after
  a restart, Kafka repeats records after a failed commit, a crash or a
  re-join. Correct means: a cache that never goes back, one mail per notice,
  an index that converges.
* Starting and stopping: a signal may come at any moment, also before the
  threads have entered `Run`, and in the API on a worker thread.
* All handlers of the API queue for one connection, and no statement has a
  timeout. A connection that breaks leaves a write in doubt and is opened again
  by libpqxx when the next transaction begins, so that it can break again;
  Postgres may refuse a statement on a sound connection; Redis is lost for good
  after one slow reply; ids may be drawn twice; clients give up while their
  handlers go on. Correct means: what a client is told of an order is true of
  it, each loss leaves at most one write in doubt, and a cache that is away or
  behind costs freshness and no more.
* The C++ code names the fields and events of its lines, Logstash routes by a
  list of events, the panels query by field and index, and nothing compares the
  three. A script may die between any two requests or files; a logger that
  does not find Logstash gives up, or ends its process. Correct means: a
  dashboard that refers to what exists and shows what is logged, files that do
  not contradict each other, and lines that come back.

Every hazard is listed at its line in `PROJECT.json`, with the properties
that watch it; those without a property name the reason.

## Modules

| Module | Models |
| --- | --- |
| `AtLeastOnceDelivery` | the abstract consumer: what is settled, and a frontier that stays over settled offsets |
| `KafkaConsumerBase` | the loop on one partition, with `ProcessRecord` abstract |
| `OrdersFeed` | the orders table, its log and Debezium's records, on top of the loop; shared by the sinks |
| `RedisUpdater`, `Notifier`, `ESIndexer` | each sink's `ProcessRecord` and the service behind it, composed with `OrdersFeed` |
| `ConsumerMain` | the process of the consumers |
| `OrderCache` | the contract between the API and the cache updater: what is cached of an order is a version it has had |
| `OrderStore` | the abstract order API: a register per order, open calls, writes in doubt |
| `ApiServer` | the API process: main, handlers, the two shared connections, the load generator |
| `KibanaContent` | who logs what, where Logstash puts it, which panel counts it |
| `Observability` | the scripts step by step, the loggers and Logstash, on top of `KibanaContent` |
| `MC...` | instances for TLC |
| `..._proofs` | theorems and their proofs |

### State and actions

**KafkaConsumerBase.** `topic` is the partition, offsets count from 1.
`committed` is the group's offset at the broker (0: none yet), `assigned` and
`position` belong to librdkafka, `pc`, `msg` and `attempt` to the thread in
`Run`. There is one action per step between two points at which another thread
or process can act: `LoopTest`, `ConsumeMessage`/`ConsumeNothing`,
`DecodeSucceeds`/`DecodeFails`, `BeginAttempt`,
`ProcessReturns`/`ProcessThrows`, `RetriesExhausted`, `Abandon` (stopped
between attempts: neither branch after the retry loop is taken),
`CommitSync`/`CommitFails` and `ExitLoop`. `RouteToDLQ` is an operator with
the outcomes the function has: an exception from `dump()`, nothing sent,
delivered during `flush(1000)`, or still queued. `Stop`, `Crash`, `Assign`,
`LoseAssignment`, `DlqDelivered` and `DlqExpires` are the other threads and the
world. A `Stop` that arrives before `Run` has set `running_` has no effect on
the loop and is modelled in `ConsumerMain`. Since `running_` is tested once per
iteration, what `ProcessRecord` does is not interrupted.

`Settled` collects the offsets the loop is through with. `sunk` and `dropped`
are history: what `ProcessRecord` returned from, and which dead letters were
lost. `faults` counts crashes, `Stop` calls, lost assignments and failed
commits.

**OrdersFeed.** `row` is the table, `wal` the committed changes in order; the
LSN of a change is its index. `Emit` publishes the next one, `EmitTombstone`
the tombstone after a delete, `ConnectorRestarts` moves Debezium back to an
earlier place. The API only inserts and updates; deletes, which the consumers
handle, are part of the model.

**RedisUpdater.** `Eval` is the effect of either script, in one step, as Redis
executes them. `EvalTimesOut` covers the three things a missing reply can
mean: executed, not executed, or executed later by `LateEval`. `connected` is
`redis_ctx_`: after a timeout the next attempt connects again or throws.
`Expire` removes both keys, which one script wrote with one TTL. For
`OrderCache` the version of an order is the number of its changes in the log,
and the version cached is the one at the watermark, provided that the cached
status is what that change left.

**Notifier.** `SET NX` and the mail are two steps, so that a crash can come
between them (`CrashNotifier`). `orphaned` is history: keys set by a call whose
reply nobody saw.

**ESIndexer.** `Execute` writes without looking at what is there. `docLsn` and
`overtaken` are history: the change a document was last written from, and the
orders whose document a late request wrote.

**ConsumerMain.** `mainPc` follows main, `next` is the consumer it is at,
`thread` what has become of each thread.

**ApiServer.** `process` and `attempt` follow main: `Start`, `ConnectDb`,
`ConnectRedis`, `AttemptFails`, `GiveUp`, then `Signal` (on the main thread:
clear `running_`, join the workers) and `Exit`. `late` counts the workers that
had passed the test of `running_` before: each sends once more
(`WorkerSends`), or meets no thread that takes its request (`LateSendFails`).
A signal on a worker thread
makes `Stop` join the thread it runs on and ends the process like `Crash`. A
request moves through the places its handler can wait at: `cache` (GET only:
`CacheHit`, or `FallBack`, which may close the Redis connection), `mutex`
(`TakeLock`; on a broken connection `Reopens`, or `FailsFast` when it cannot be
opened), `exec` (the statement is with Postgres: `Commits`, `WritesNothing`,
`Selects`, or `Rejects`: an id that is no UUID, an amount too large for its
column, a full disk), `reply` (`Returns`), and
`answer` (`Respond`). `Throws` is what a broken connection does to the request
that holds the mutex. `dbConn` goes from `open` to `hung` or `broken`
(`ConnectionChanges`); `api/Dockerfile` installs the libpqxx 6.4 of Ubuntu
22.04, which activates a broken connection when the next transaction begins
(`Reopens`). `limbo` counts the
writes Postgres has got and may or may not commit after the process has stopped
waiting (`ResolveLimbo`); since the connection may be lost again, several may be
under way, even two of one kind. The content of an order is its version; `CacheChanges`
is all that others do to the cache: some version the order has had, or none,
the step `Refresh` of `OrderCache`.
`Accept` takes the requests of the workers, who send PATCHes for `known` ids
only, and of anybody else, who sends anything; the id of a POST is any id,
since the generator is shared without a lock. `orphans` is history: the writes
in doubt since the connection was last opened.

**OrderStore** has calls instead of threads: `Open`, `TakeEffect`, `Answer`,
`Close`, `Die`. `Justified` says what a call may be told. `stray` counts writes
whose callers got "error" or nothing; they may still take effect, each once.

**KibanaContent.** A line is its event, its process, the consumer it names and
the fields the panels use. `Lines` lists what the services write, `LogType` and
`Index` are Logstash's filter and outputs, `Panels` what each visualization
reads (a set of records, one for each panel), `Counts` whether it counts a
line. A panel that shows a count beside an average counts all the lines of its
query. `Garbled` is a line whose error text contains a quote: the code puts it
into JSON without escaping it.

**Observability.** `script` and `pos` are the script that runs and its next
request or file; `Dies` ends it anywhere. `views`, `vis` and `board` are the
saved objects (the dashboards of `build_full_kibana_dashboard.py` and
`update_kibana_dashboard.py` have the same id), `chart` the run each file was
written by. `StartApi` needs Logstash, `StartConsumers` does not and then keeps
`console`; `NewElasticsearch` is a new container, which has no volume.

## Runs

| Run | Shows | Bounds |
| --- | --- | --- |
| `ConsumerSafety` | `CommittedIsSettled`, `HandledInOrder`, `NoRedeliveryWithoutFaults`, `RewindNeedsTwoFaults`, `EveryRecordIsSettled`, refinement of `AtLeastOnceDelivery` | 2 records of 5 kinds, 2 attempts, 3 faults |
| `DlqLoss`, `PoisonPill`, `RegistryDown` | what the documentation says and the code does not do | 1 record, no fault |
| `RedisSafety` | `CacheMatchesWatermark`, `ProcessedIsCached`, `NoStaleOverwrite`, `CacheShowsTable`, `ChangesReachCache`, refinement of `OrderCache` | 1 order, 2 changes, 3 records, 1 attempt, 1 fault, 1 connector restart, 1 late EVAL |
| `NotifierSafety` | `MailedAtMostOnce`, `ProcessedIsMailed`, `NoNoticeIsForgotten` | the same, 2 attempts |
| `MailLoss` | a notice that is never mailed, without any fault | 1 order, 2 changes |
| `ESSafety` | `RegressionIsRepaired`, `IndexShowsTable` | 1 order, 2 statuses, 2 changes, 3 records, 1 attempt, 2 faults, 1 connector restart, 1 late request |
| `ESLateWrite` | a document that stays stale | 1 order, 2 changes, no fault |
| `ConsumerMain` | `NoThreadOutlivesMain`, `FullRunLosesNoStop`, `ShutdownCompletes`, `ShutdownUnlessStopLost` | 3 consumers, 3 passes of the startup loop |
| `ApiServer` | `OneWriteInDoubtPerLoss`, `RedisOutageIsInvisible`, `WorkersPatchExistingOrders`, `EveryRequestIsAnswered`, `SignalEndsProcess`, refinement of `OrderStore` | 1 order, 2 handler threads, 1 worker with 1 known id, 2 writes, 2 passes of the startup loop |
| `Observability` | `DashboardResolves`, `OnlyTheDlqCardIsBlind`, `TotalsCountTwice`, `LaterChartsAreNoNewer`, `TelemetryReturns` | 2 script runs, 2 faults |

**Why the bounds are enough.** What can go wrong in the loop relates a record
to its predecessor: two records suffice to commit past, skip or reorder one.
A rewind of the committed offset takes two faults, so three go one beyond.
Two attempts are the least with a retry. A stale write needs two changes of one
order and a third place in the topic for the repetition of the first; orders do
not share keys or documents, and what the runs show for one the proofs show for
any number of them (for the loop and for all three sinks). With one attempt per
record, a script of the Redis updater is repeated by redelivery after a fault
instead of by the retry loop; the proofs cover any number of attempts.

Two handlers are the least that meet at the mutex, and one order makes every
request meet every other. Two writes are a creation and a change; with one id
every second POST draws an id that exists. Postgres may hang or break at any
point and any number of times over the process' restarts, which are not
bounded, and over the connections libpqxx opens within one. Two runs suffice
for a script to die and be followed by itself or by any other; two faults for a
stopped Logstash and an emptied Elasticsearch.

**Deadlock** is not checked: a stopped consumer, a dead thread, an exhausted
bound, a process that has exited and a Kibana nobody runs a script on are ends
the system really has.

**Fairness.** The thread in `Run` is scheduled, and every call it makes has a
timeout: `consume(1000)`, one second for Redis, five for Elasticsearch, the
session timeouts of `commitSync`. The loop's fairness is on the disjunction of
its steps, so nothing obliges a sink ever to succeed, or a registry to be
reachable. `consume(1000)` may time out at any time, also while a record is
there; `ConsumeMessage` is fair in the strong sense, so that a member that asks
again and again is given the record in the end. `Construct` is fair after a
crash (`restart: unless-stopped`), not after a stop. `Assign` is fair: a member
that has lost its group re-joins. For the sinks, Debezium keeps emitting; for
`ESLateWrite`, Elasticsearch gets round to what it received. Nothing is assumed
of `Stop`, `Crash`, `LoseAssignment`, signals, dead letters or late calls to
Redis.

In the API a handler that can step does, a worker's read timeout of five
seconds expires, also when no thread takes its last request, and `Exit` follows
the last join. That a broken connection can be opened again is not assumed:
`FailsFast` is as good. `db_mutex_` is fair in the
strong sense: a thread that waits for it and is again and again able to take it
gets it. Nothing is assumed of Postgres, which may hang for ever. Docker starts
the services again, so `StartApi` and `StartConsumers` are fair, and a running
service has something to log; Logstash has no restart policy
(`docker-compose.yml:95`) and no script has to be run, so neither is fair.

**Mutants.** Next to a definition stands, where a property depends on it, the
form it would have with a plausible bug ("Mutant of ..."). They are not part
of any specification; a property is kept when such a bug violates it.

### What the runs found

* `DlqLoss`: the result of `RouteToDLQ` is ignored and the offset advances past
  a record that is in no sink and in no dead letter topic.
* `PoisonPill`: a payload that is not UTF-8 makes `dump()` throw out of `Run`.
  The thread dies, main goes on waiting, and after a restart the record kills
  the thread again.
* `RegistryDown`: with the schema registry unreachable and the schema not yet
  cached, good records are taken for unparseable and their offset is committed;
  the consumer does not crash. In the run the dead letter producer could not be
  created, which the code only warns about, and the record is nowhere; with a
  producer it is dead-lettered, or, if its bytes are not UTF-8, it kills the
  thread as in `PoisonPill`, and nothing is committed.
* `MailLoss`: `SET NX` executed, reply lost: the retry takes its own key for a
  duplicate.
* `ESLateWrite`: a PUT that timed out is executed after its successors.

What the models state as it is; the repository promises otherwise of the
first only:

* `OnlyTheDlqCardIsBlind`: the dead letter card queries `cdc-system-logs` for
  `routed_to_dlq` (`build_full_kibana_dashboard.py:250`), which Logstash routes
  to `cdc-consumer-logs` (`logstash/logstash.conf:38`). It shows 0 whatever
  happens. `README.md:97` counts "zero Dead Letter Queue faults" among what the
  cards surface, and the text panel of `update_kibana_dashboard.py:49-50` links
  to the same index "to observe quarantined payloads, retry loops, and
  exponential backoff telemetry"; `routed_to_dlq` and
  `record_processing_failed` are both in the other one.
* `TotalsCountTwice`: a request of the load generator and its handler write one
  line each, and so do a sink and the loop. The totals of the dashboard, its
  figures 1, 2 and 4, the operations per sink of figure 3
  (`build_full_kibana_dashboard.py:574`) and the rate of `check_soak_status.py`
  count both.
* `LaterChartsAreNoNewer`: charts are written one by one, and percentiles of an
  event without lines end the script between two of them. Charts 3 to 5 draw
  numbers that stand in the script (`generate_benchmark_charts.py:242`, `:267`,
  `:297`).
* `DashboardResolves` says nothing of the dashboard that
  `update_kibana_dashboard.py` saves over the other one: three text panels.
* `TelemetryReturns`: consumers that start without Logstash log to the console
  for the rest of their life.
* `EveryRequestIsAnswered` excepts a Postgres that hangs: it keeps `db_mutex_`
  taken, and every handler that needs the database waits behind it.
* `OneWriteInDoubtPerLoss` speaks of one loss of the connection. libpqxx opens
  it again, and with each further loss one more POST may be answered with 500
  whose order exists. A handler that finds it broken, and cannot open it, is
  answered with 500 without a statement having been sent.
* `RedisOutageIsInvisible` says what else than Redis fails a GET: a lost
  connection, or Postgres refusing the statement, as it does for an id that is
  no UUID (`postgres/init.sql:2`): `api_server.cpp:117` answers 500, not 404.

What an operator who sees a lag of 0 may conclude differs from sink to sink.
`CacheShowsTable`: the cache shows the table, but for expired keys and orders
whose last change was dead-lettered. `NoNoticeIsForgotten`: every change worth a
mail was mailed, dead-lettered, or lost with a reply of `SET`. `IndexShowsTable`
needs more: that the position, too, is at the end and no record is in hand, for
nothing guards the PUTs of a loop that has re-joined and reads old records
again behind the group's offset; and it excepts documents that a late request
wrote.

`RegressionIsRepaired` is stated for fewer than three faults. With three, a
re-join can move the position, the loop can commit a record it was holding from
before, and a document stays behind until the next resume.
`ShutdownUnlessStopLost` names the one way a shutdown hangs: a signal during
the startup loop leads to `Stop` calls right after launch, and a `Stop` that
overtakes its thread is undone by `running_ = true`.

## Proofs

Proved for all values of the constants, from the named assumptions in the
modules (types of constants; a feed whose records are those of `FeedMessages`):

* `KafkaConsumerBase_proofs`: `TypeCorrect`, `CommitIsSafe`, `OrderIsKept`,
  `DeliveryIsImplemented`. `CommittedIsSettled` is not inductive: a commit is
  safe because the record in hand follows a settled prefix, and it does because
  the position does. `DeliveryInv` therefore adds that everything before the
  record in hand (`HeldInOrder`) and before the position (`PositionInOrder`) is
  settled, and `HandledInOrder` itself. The position may be reset at any time;
  it is reset to the committed offset, which closes the circle. The refinement
  maps each step to a publication, a settlement, a move of the frontier or a
  stutter. `RedeliveryNeedsAFault` and `OneFaultDoesNotRewind` rest on
  `RewindInv`: how far the committed offset may be behind the position and the
  record in hand after no fault and after one.
* `OrdersFeed_proofs`: what the topic holds, in terms of the log, whatever the
  connector repeats: every record stems from a change (`TopicFromWal`), every
  change that was emitted is in the topic (`TopicHoldsEmitted`), and the table is
  what the last change of each order left (`RowIsLatest`). `NoLagSettlesAll`
  derives from `CommitIsSafe` that a lag of 0 means that all of it is settled.
* `RedisUpdater_proofs`: `RedisTypeCorrect`, `PairIsKept`,
  `ProcessedIsNeverLost`, `CacheMovesForward`. The invariant needs that every
  record in the topic and every EVAL on its way stems from a change in the log,
  and that keys do not expire under an EVAL on its way. `UpdaterIsConsumer`
  shows that the composition implements the loop, so that `UpdaterCommitIsSafe`
  and `UpdaterDelivers` follow from the theorems on the loop with no new
  induction. `NoLagMeansCacheShowsTable` puts the parts together: without lag
  the record of an order's last change is settled; if it was processed, the
  watermark is at least there, nothing later of that order exists, and the pair
  of keys is kept, so the cache shows the row. `UpdaterKeepsContract` is the
  refinement of `OrderCache`: a committed change is `Write`, an EVAL or the TTL
  is `Refresh`, everything else a stutter. That the version at the watermark is
  one the order has had needs `CacheMatchesWatermark`, and lemmas on what
  appending to a log does to the number of changes in it.
* `Notifier_proofs`: `NotifierTypeCorrect`, `OneMailPerNotice`,
  `MailsAreLostByRepliesOnly`. The invariant accounts for every key: mailed,
  orphaned, or set by the reply the thread is about to act on.
  `NotifierIsConsumer` carries `CommitIsSafe` and the refinement over
  (`NotifierCommitIsSafe`, `NotifierDelivers`). `NoLagMeansNoNoticeForgotten`
  follows a change through the feed: it is in the topic, it is settled, and if
  it was processed it was mailed or its key orphaned.
* `ESIndexer_proofs`: `ESTypeCorrect`, `RegressionsAreRepaired`,
  `IndexerIsConsumer`, `IndexerDelivers`. A document that is behind must still
  have a record to come. Two facts give it one: the topic repeats changes
  completely, so that behind each record all later changes of its order follow
  (`EmissionIsComplete`), and with fewer than three faults the position and the
  committed offset stay close to the record in hand (`TwoFaultInv`).
  `ServedInv` ties each document to the record it was written from: whatever
  the loop passed since was dead-lettered. `NothingLeftMeansIndexShowsTable`
  adds `DocMatchesLsn`, that a document no late request wrote is what its change
  left: when nothing is to come, a document that is behind cannot exist.
* `ConsumerMain_proofs`: `MainTypeCorrect`, `ScopeOutlivesThreads`,
  `EveryStopIsHeard`. The invariant says for each stage of main what the threads
  may be: none during startup, none unfinished behind `next` during join.
  `StopInv` adds, for a signal that found all threads in `Run` or dead, that no
  thread is on its way into `Run` from then on and that those behind `next` have
  had their Stop; this is the safety part of `ShutdownCompletes`.
* `ApiServer_proofs`: `ApiTypeCorrect`, `DoubtIsBounded`, `ReadsOutliveRedis`,
  `WorkersKnowTheirOrders`, `StoreIsImplemented`. `ApiInv` says that a request
  at the database is the one that holds the mutex (`LockIsExclusive`), that
  what a request has been told agrees with what it did and with the version of
  the table (`RequestsConsistent`, `RequestsDone`, `RequestsInTable`), that a
  write in doubt has released the mutex and nobody takes it before the
  connection is open again (`DoubtIsSettled`), that the cache
  holds versions the order has had (`CacheBehind`), and that ids a worker keeps
  exist (`KnownExist`). The refinement maps `Accept` to `Open`, `Commits` to
  `TakeEffect`, the step that determines a result to `Answer`, `Respond` to
  `Close`, an end of the process to `Die`, `ResolveLimbo` to `ResolveStray`,
  and everything else to a stutter; a process that ends leaves in `limbo` at
  most the one statement that held the mutex. `ReadsOutliveRedis` is an action
  property: of all steps only `Rejects`, `Throws` and `FailsFast` give a GET an
  error, the first two in the thread that holds the mutex.
  `ApiKeepsContract` shows that the table and the cache take only steps of
  `OrderCache`. On the side of the cache it holds because `CacheChanges` is
  that module's `Refresh`: this is what the API assumes of its cache, and
  `UpdaterKeepsContract` is the proof that the updater guarantees it. A new
  Redis that starts empty, or from an old snapshot, is within the contract and
  in `CacheChanges`, but not in `RedisUpdater`.
* `Observability_proofs`: `ObsTypeCorrect`, `DashboardHasNoHoles` (while the
  build runs, all it has saved is there, unless Elasticsearch was emptied under
  it) and `ChartsAreInOrder` (how far the present run has come bounds which file
  carries its number), for any number of runs, deaths and faults.
  `OnlyTheDlqCardStaysEmpty` and `OnlyTotalsCountTwice` go through the tables of
  `KibanaContent`: for each panel with a query a line is exhibited that it
  counts, or, for the dead letter card, it is shown that Logstash puts no such
  line into its index; and two lines of one request or record that meet in one
  panel, or why there are none. Both speak of the states in which everything is
  saved and every kind of line has arrived (`Complete`).

Every invariant and every refinement the passing runs check is thereby proved.
Only model-checked: liveness, since fairness and `ENABLED` are out of the
prover's reach (`EveryRecordIsSettled`, `ChangesReachCache`,
`ShutdownCompletes`, `ShutdownUnlessStopLost`, `EveryRequestIsAnswered`,
`SignalEndsProcess`, `TelemetryReturns`). The properties of the runs that find a
violation do not hold, so there is nothing to prove.
No module uses `RECURSIVE`, and no property speaks of
a function computed by recursion, so nothing rests on induction over data.

## Not modelled, and the plan

* Tools an operator runs once, by hand, that keep no state the system reads:
  `push_repo.py`, `test_metrics.py`, `test_matplotlib.py`,
  `register-connector.sh`. They are the component that is not modelled.
* Several partitions and several members of a group: one process per group is
  deployed, and the topic has one partition by default.
* Back-off and pacing times, the contents of orders, the layout of panels and
  the drawing of charts, the wording of log lines.
* The extraction of ids and LSNs from the JSON of a record: three copies of one
  unwrapping, over a shape that never varies with Debezium's Postgres connector.
  So is the millisecond timestamp that stands in for a missing `source.lsn`
  (`redis_updater.cpp:62`), which that connector always sends.
  With it, the null document the deserializer returns when libavro's JSON does
  not parse; `AvroDeserializer` is therefore only partly modelled.
* Redis restarting from an old snapshot, on the consumers' side. On the API's
  side `CacheChanges` includes it.

Left of the plan: `RecordFields`, the unwrapping and `ExtractLSN` as operators
over the shapes `avro_value_to_json` produces; the restarted Redis in
`RedisUpdater` and `Notifier`. The API is not composed with `OrdersFeed` in one
model; `OrderCache` joins them by proof instead.
