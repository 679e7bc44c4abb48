# A TLA+ verification of the log-filter pipeline

This directory is a verification project for the program under `src/logfilter`: a
pipeline that takes syslog events into Kafka, archives them in Elasticsearch,
scores them with machine-learning models behind an HTTP API, and forwards them to
QRadar. The modules model the parts in which events can be lost, repeated or
stuck; TLC checks them on small instances and TLAPS proves the most important
properties for all values of the constants.

Line numbers refer to the files under `src/logfilter` unless a path is given.

## 1. The system and its parts

    syslog clients -> collector -> Kafka raw-logs -+-> archive consumer -> Elasticsearch
                        |   |                      |
                        |   spool file             +-> router -> scoring API (archiver, scorer)
                        |                               |-> QRadar (LEEF)
                        |                               |-> Kafka scored-logs
                        |                               +-> Kafka DLQ -> DLQ replay -> raw-logs
                        +-> prometheus

| Part | State it keeps | Operations | Talks to | Hard behaviour | What makes it correct |
| --- | --- | --- | --- | --- | --- |
| Circuit breaker (`utils/circuit_breaker.py`) | state, two counters, time of the last failure, under an RLock | call | the protected service, its callers' threads | outcomes recorded after the state they were admitted in is gone | trips on a run of failures, probes only after the timeout, closes on evidence, never refuses for ever |
| Archive consumer (`kafka/consumer.py`) | fetch position, batch, committed offset (in the broker) | poll, bulk, commit, dead-letter | Kafka, Elasticsearch through a breaker, DLQ | crashes and rebalances between steps; partly applied bulk requests; failing commits; records that end the process | nothing committed is lost; the log drains through any outage |
| Router (`kafka_router.py`) | as above, plus the scored-logs producer's buffer; several replicas | poll, score, forward, flush, commit, dead-letter | Kafka, scoring API through a breaker, QRadar, DLQ | replicas that work on a batch they no longer own; deliveries nobody waits for; records that end the process | nothing committed is lost; forwarding leaves no gaps; no record is left in a buffer |
| Syslog collector (`collector.py`) | spool file, spool lock, stop event, per-thread event | publish, spool write, drain, stop | syslog clients, Kafka | publishers against the drain; rewrites cut short; sends with an unknown outcome; events the Kafka client refuses; exit with work in hand | an event is published, spooled or accounted for; few duplicates; the spool empties |
| TCP framing (`collector.py:255-433`) | buffers, connection slots | accept, recv, frame, publish | syslog clients | arbitrary chunks, two framings in one stream, limits, threads that do not start | a frame is published once and whole; slots come back |
| Kafka producer (`kafka/producer.py`) | client and its buffer | send, send_dlq, send_batch, close | Kafka | time-outs after which the record is delivered all the same | retried until acknowledged or raised |
| DLQ replay (`kafka_router.py:286-371`) | position, processed count | poll, replay, commit | DLQ, raw-logs | stops inside a batch; unread futures; poison records that come back | nothing skipped; the cycle ends |
| Scorer consumer (`kafka/consumer.py:197-331`) | as the archive consumer | poll, score, commit | Kafka | as the archive consumer | as the archive consumer |
| Scoring API (`api/app.py`) | configuration, scorer, enricher, archiver, of each worker process | score, batch, health, reload | archiver, scorer, Redis | reload under running requests; caches filled by the first ones | a reload is whole; a request is answered, by models that were in place while it ran |
| Rate limiter (`api/security.py`, `app.py:610`) | sliding window in memory or in Redis | enforce | Redis | Redis fails between requests, for one worker or for all, loses its data, or does not answer | at most the limit in any window, and how much more when Redis fails or forgets |
| Raw log archive (`pipeline/archive.py`) | none (documents in Elasticsearch) | write_with_id, write_bulk, get | Elasticsearch | conflicts that mean "already there" | a reference in a forwarded event resolves |
| Scoring pipeline (`pipeline/scorer.py`) | caches, lazily loaded models | score, score_batch | models, dedup, detectors | a failing stage must not fail the batch; threads | the fallback is all or nothing; alarms keep their routing |
| Deduplication (`models/biencoder.py:235-371`) | index and time-stamped entries | check, add, prune, rebuild | scorer | threads without a lock; an index older than the pruning | duplicates are of the window, and the index agrees with the entries |
| Drift and novelty detectors (`monitoring/`) | baseline, window, flags | record, check, reset | scorer | concurrent recording; reset during a check | fallback follows the last verdict |
| Model registry (`monitoring/model_registry.py`, `scripts/promote_model.py`) | JSON files, file lock | register, promote, archive, metrics | the file system | several processes; crashes between steps | one production model for a name; no update lost |
| SyslogSender, LogRouter (`pipeline/router.py`) | socket | send, close | QRadar | reconnect and retry; a dead connection that still takes frames | sent or raised |
| Normalizer, enricher, redaction, allowlist, models, configuration, telemetry, training, scripts | none, or numeric | pure functions | | | |

## 2. Modules

| Module | What it is |
| --- | --- |
| `BreakerState` | The breaker's guarded state as a record and each locked section as an operator on it. Shared by the three modules below that use a breaker. |
| `CircuitBreaker` | Threads that call through one breaker: enter, body, record. |
| `AtLeastOnce` | The abstract specification of a consumer group: offsets are settled, and the committed offset moves forward over settled offsets only. |
| `ArchiveConsumer` | `ArchiveConsumer.run` with its breaker, crashes, rebalances and failing calls. Implements `AtLeastOnce`. |
| `Router` | Several `KafkaQRadarRouter.run` processes in one group. Implements `AtLeastOnce`. |
| `Collector` | Publisher threads, the drain thread, the spool and its file, stop and exit. |
| `DLQReplay` | `DLQReplay.run` and the cycle it closes with the groups that dead-letter what it replays. |
| `AtomicRegistry` | The abstract model registry: operations one after the other on a list of runs. |
| `ModelRegistry` | Processes that use `model_registry.py` and `promote_model.py` on the same files. Implements `AtomicRegistry`. |
| `Scorer` | Threads of the API in `LogScorer.score_batch` and in the deduplication they share. |
| `TcpFraming` | The TCP listener, its connection slots, and the cutting of each byte stream into messages. |
| `RateWindow` | The two sliding windows of the rate limiter as operators. |
| `ScoringApi` | Workers of the API: admission with the rate limit, batches on the thread pool, the feature tables, `/admin/reload`. Uses `RateWindow`. |
| `Pipeline` | Archive consumer, router, API and QRadar connection composed over one partition, in fewer steps than the modules above. Its router implements `AtLeastOnce`. |
| `*_proofs` | Theorems about the module of that name; those about `CircuitBreaker` are in `ArchiveConsumer_proofs`, those about `TcpFraming` in `Collector_proofs`. |
| `MC*` | The instances TLC checks, with one `.cfg` for each run. |

Definitions whose comment begins "Mutated form" are not part of a specification.
Each is the change a plausible bug would make to the definition after it, and
there is one property or more that finds it.

### How the state and the actions correspond to the code

**BreakerState, CircuitBreaker.** A breaker is the record of `_state`,
`_failure_count`, `_success_count` and `elapsed`, the ticks since
`_last_failure_time`, saturated at `recovery_timeout` because the code only
compares the difference with it. `_protect` is three steps of a thread: `Enter`
(lines 116-124, under the lock), `RunBody` (the body, no lock), and
`RecordFailure`, `RecordSuccess` or `Escape` (128-144, under the lock). A late
failure recorded while OPEN counts, refreshes the clock and may open the breaker
anew, as in the code. `fail_streak` and `ok_streak` are history variables.

**ArchiveConsumer.** One process, one partition, offsets `1..LogEnd`. `position`
is the client's fetch position, which `poll()` advances and which is what
`commit()` commits; `committed` is the broker's. `OnException` is the except
branch (171-190): dead-letter from the first record of the batch and commit, or,
without a DLQ producer, only log. The bulk call through the breaker has four
outcomes: refused by the breaker, all indexed, some indexed with an error
response (which the breaker counts as a success), and raised, with any part of
the batch applied. A document id is a function of the offset, so indexing again
changes nothing and `archived` is a set. An exception in the except branch leaves
`run()`: the process is down until restarted. So does `PollRaises`, a record of `Odd` in
the batch: one that is not JSON makes the deserializer of line 95 raise in `poll()`, one whose JSON is
not an object `payload.get` at line 127, both outside the try block. `NoLetter` are the records that `send_dlq` can
never write, because the Kafka client refuses their dead letter for its size; they may be indexed, and end
the process whenever they are in a batch to be dead-lettered (`DeadLetterRaises`).

**Router.** As above for each replica `r`, with `owner`, the replica the group
coordinator has given the partition to. A replica that loses it goes on with its
batch, and its commit raises (`Fenced`), which in the code leads to the except
branch like any other exception. `buffered[r]` is what `producer.send` accepted
and the client's sender thread has not yet delivered (`Deliver`) or given up
(`GiveUp`): `flush()` waits for it to be empty and does not report failures
(208). `forwarded` are the events handed to `SyslogSender.send`. A poll that returns a record of `Unreadable`,
one that is not JSON, raises in the deserializer (103) outside the try block, and `run()` ends
(`PollRaises`); a value that is not an object is sent on as text. `NoLetter` is as above. Which records a poll
deserializes depends on the client: kafka-python since 2.1 (`uv.lock` pins 3.0.2) unpacks those it returns, earlier
versions (`pyproject.toml` takes 2.0.2) a whole response of the broker. The model has the former; the latter only
meets the same record earlier.

**Collector.** `publish()` is `Receive` (its checks and the start of the send),
one step for each attempt of `LogProducer.send`, and, when the last attempt
raises, `WriteBegin` and `Write` under the spool lock. An attempt succeeds, is refused (the broker is away, or the event
is one of `Huge`, which the client never sends: the collector takes lines of up to 1 MiB, line 60, and the JSON around them
puts the largest over the client's default `max_request_size`), or times out with an unknown outcome. `drain()` holds the lock
from `DrainBegin` to `Write` and sends every line that parses in between. The
file is a sequence of lines; a line is the set of events whose text it holds and
three facts: does it parse, does it end in a newline, does it decode. The
last two can be false of the last line only, after a rewrite that was cut short
(`CutShort`) by a crash, by the end of the process (`Exit`), or by an I/O error
(`WriteFails`): the code truncates the file and then writes it. `Glued` is what
`writelines` does with such a line: the next record continues it, and the joint
line does not parse. A file that ends inside a character cannot be read at all
(`WriteRefused`, and `DrainBegin` is disabled, the loop only logs). `stop` is
`stop_event`; `Exit` may come while threads are at work because `join` has a
time-out and TCP client threads are not joined (478-486). The process restarts at
once, since nothing changes in between but events lost by the senders.

**DLQReplay.** A record of either topic is the `_dlq_replay_count` of its event, the
only field `_replay` decides by: `send_dlq` stores the event as it was, so the
count comes back with it. `Consume` is one group (the archive consumer and the router
are two) settling its next record in its sink or in the DLQ; `LetterTimesOut` is an attempt of `send_dlq` that
times out on a dead letter that is written all the same (`producer.py:142-189`), so that one read makes two of them. `run()` is `Start`,
`Poll` or `EmptyPoll`, for each record `Expire` (at the limit), `Publish`,
`PublishLost` (the future nobody reads) or `PublishRaises`, then `Commit`.
`StopInBatch` is the break of lines 353-355; the commit after it still stores the
position, the end of the batch. The run ends by itself after `max_empty_polls`
empty polls, and whoever operates the system starts it again, with a `max_messages` of their choice
(`Limits`).

**AtomicRegistry, ModelRegistry.** A run is its model type, status and metrics, and
is known by its place in the list, since runs are only appended. An operation
of the code is `Acquire`, `Read`, `WriteTmp`, `Replace`, `Unlock`, with `Raise` for a
run that is not there. `data[p]` is what process `p` has read and then what it has
written to `registry.json.tmp`. The rest of `promote_model.py` lists the production
directory (`EnterDirectory`), removes what it listed and copies the run's artifacts,
one file at a time and without the lock. `prod` says which run each file of the
directory is from. `alone` and `spoiled` are history variables that say whether
a script had the directory to itself and ran to its end.

**Scorer.** `threads[t]` is a call of `score_batch`: its stage, its batch and the
`ScoredEvent`s it fills in, as far as the score depends on them. The models are
functions of an event, which carries their answers; scores are whole percents, and
`ComputeScore` is in units of 1/10000, with the weights and boosts of
`config/config.yaml`. `Classify` is `_apply_classifier` with the fallback of each
tier, and `ScoringRaises` an exception of a type that those, or the one around sigma (776), do not catch: it
leaves `score_batch`, as an exception of tier 3 never does. `Encode` to `Retrieve` is the dedup loop of `models/biencoder.py`: the pool's
threads run it on one deque and one index without a lock, so `check_dedup` is cut
where the interpreter may switch threads and another thread's step matters:
between the test and the pop of the pruning loop (`Prune`, `Pop`, `PopRaises`),
before the search, before the append, and inside the rebuild, which assigns an empty
index, iterates over the deque, reads the index and assigns the longer matrix
(`Rebuild`, `Collect`, `CollectRaises`, `AddReads`, `AddWrites`). The last two are
`_NumpyIndexFlatIP.add`, the fallback of a host without FAISS; with FAISS they are one
step, and those behaviours are among the modelled ones. `disturbed` says that an object this
thread is using was changed under it. A stage that raises is `ModelRaises`, and
`Fallback` is `_apply_tier3_neutral_fallback`. `Novelty` and its raise are there for
configurations with a detector; `record_score` and the tier-2 override of the drift
detector are not. Similarity is an arbitrary relation on texts.

**TcpFraming.** A client's `script` is the sequence of messages it sends, and their bytes that are
not received yet are on `wire`. A connection is `open` while its thread is in `recv` and `cutting` while it is in the loop
of lines 319-356 that cuts its buffer. `Recv` takes any number of bytes; `CutFrame` and `CutLine` are one turn of the
loop each, for the two framings, in the order of the tests of the code (`OctetHeader` is lines 320-327); `Drop` are the
three returns for what is too long (329-335, 349-355, 358-366); `KeepReading` goes back to `recv`. `EndOfStream`,
`Reset` and `Stopped` are the ways out of the outer loop, and all publish what is left
(`Remainder`), also when it is the beginning of a message. `Accept`, `Reject` and
`ThreadNotStarted` are `_start_tcp_client_if_slot_available`. A byte is a digit, a space, a newline or a member of `Text`:
these are what the code tells apart. What a client may send (`Sendable`) is external: a counted message has its
length in front, and a line holds no newline and does not begin like an octet count, since the collector could not
tell it from one.

**RateWindow, ScoringApi.** A window is the sequence of the ages of the requests it has
counted, the oldest first, and pruning drops requests from its front (`Younger`). `shared` are the workers whose limiter is Redis, and `opened` counts the
windows that were begun afresh: by a worker of its own, at its start or when Redis failed, or by a Redis that lost what it
had counted (`RedisForgets`: a restart without its data or a failover to a replica that lags behind; redis-py connects and
loads the script again, so no exception says so). The event
loop of a worker runs a handler up to its `await`: `Accept`, `RefuseBody`, `RefuseRate`
and `Respond` are such pieces. The limiter's call of Redis is synchronous, so the first three begin with `AskRedis`, after
which the loop does nothing else (`LoopIdle`) until Redis answers or the call raises. They are disabled (`Loop`) too while `/admin/reload` runs, which
has no `await` and is cut into `ReloadBegin` and the three assignments, because pool threads read
between them. A pool thread reads the scorer (`ReadScorer`), gets the feature table
(`CompareNames`, then `ReadTokens` or `SetNames` and `SetTokens`) and reads the enricher
(`Enrich`). A table is known by its worker and the reload its scorer came with. The
two tables of the code, for the two classifiers, are alike, and one stands for both.

**Pipeline.** `Archive` is a batch of the archive consumer. `Score` is the request of the
router for a batch: for each event the API computes a reference and writes the
document, or cannot (`unwritten`), and then scores. The reference is a hash of the record and its
time stamp; a record in `Unstamped` gets the time of day, a new reference for each scoring, which `scorings`
numbers. `Taken` has the limits of the API. After an exception `DeadLetter` and `CommitDead` are two steps, with room
for a crash between them. `Send` and `SendRaises` are an attempt of
`SyslogSender.send`; `sock = "dying"` is a connection that the other side has reset
and the sender still writes to. `Unreadable` and `NoLetter` are as in `Router`; `Archive` stops at the first too, and leaves
what the second do to the archive consumer to `ArchiveConsumer`.

## 3. What the runs check

Every passing run explores its whole state space. Deadlock is checked except in
`framing`, which ends when all clients are served, and in `pipeline`, which ends when all
records are settled and delivered.

| Run | Module | Bounds | States |
| --- | --- | --- | --- |
| `breaker` | `MCCircuitBreaker` | 3 threads, threshold 3, timeout 2 ticks, 2 probes | 17 086 |
| `archive` | `MCArchiveConsumer` | 6 records, of which the fifth cannot be dead-lettered and the last is odd, batches of up to 2, threshold 2, 2 faults | 46 848 |
| `router` | `MCRouter` | 2 replicas, 4 records, of which the third cannot be dead-lettered and the last is not JSON, batches of up to 2, threshold 1, 1 fault | 1 524 990 |
| `collector` | `MCCollector` | 2 publishers and the drain, 3 events, of which the second has size 2 and is too large for the client, 2 attempts, a file of 3 units, 2 faults | 812 700 |
| `dlq_replay` | `MCDLQReplay` | 2 groups, 1 event, replay limit 1, batches of up to 2, runs with and without `max_messages`, 1 fault | 106 807 |
| `registry` | `MCModelRegistry` | 2 processes, 2 runs of 2 types with different artifacts, 1 metric, 1 fault | 756 295 |
| `scorer` | `MCScorer` | 2 threads, 3 events submitted in batches of 1 and 2, a window of 0 ticks, 1 tick, 1 exception | 383 382 |
| `framing` | `MCTcpFraming` | 2 clients with up to 3 messages each, lines of up to 3 bytes, 1 slot, 1 failure | 85 659 |
| `api` | `MCScoringApi` | 2 workers, one with a pool of 2 threads, limit 1 in a window of 1 tick, 1 reload, 1 fault | 436 985 |
| `pipeline` | `MCPipeline` | 5 records, the second without time stamp, the third and fourth too long, the fourth without a dead letter either, the last not JSON; polls of up to 3, batches of up to 2, 2 attempts, 2 faults | 2 754 080 |
| `first_requests`, `duplicates_recent` | `MCScoringApi`, `MCScorer` | see section 5 | violated |

**breaker.** `StreakTrips`: `failure_threshold` failures recorded in a row never
leave the breaker CLOSED, whatever calls they belong to. `ProbesAfterQuiet`: while
probing, the last recorded failure, a late one included, is a timeout old (a
late failure recorded while OPEN pushes the probing out, one recorded while
HALF_OPEN opens again). `ClosesOnEvidence`: closing completes a row of
`half_open_max_calls` successes with no failure among them. `Recovers`: once the
service stays up the breaker ends CLOSED and stays so.

**archive.** `NothingLost`: every offset up to the committed one has a document
or a DLQ message. `ImplementsAtLeastOnce`: refinement of `AtLeastOnce` with
`settled <- archived \cup dead`, which adds that the committed offset never goes
back. `Drains`: the log is committed in the end, even if no bulk call ever
succeeds, as far as the last batch that cannot hold a record of `Odd` or `NoLetter` (`Reach`). `NeverPastOdd`: the
committed offset stays below every odd record for ever, whatever is restarted; so it
is not lost, and everything after it waits.

**router.** The same (`Drains` as far as a batch that cannot hold a record of `Unreadable` or `NoLetter`; the
other properties hold beyond it, while processes end there and start again), and `NoGaps`: an event is forwarded only when every earlier
one of the partition was forwarded or dead-lettered, also when two replicas work
on overlapping batches; `CommittedIsAccounted`: a committed event is on
scored-logs or dead-lettered, unless the client gave up on it. The exception is
real: a delivery that fails after `send` is in a future that nobody reads.

**collector.** `NothingLost`: an event `publish()` is done with is on the topic,
in the spool, in the `.bad` file, or was dropped by the byte bound, by a rewrite
cut short or by a file that no longer decodes; so no interleaving of publishers
and drain loses one. `FewDuplicates`: an event is on the topic at most once more
than there were faults (sends with an unknown outcome, crashes, stops, disk
errors). `SpoolBounded`: the file never exceeds `max_spool_bytes`. `Drains`: once the broker stays reachable the spool empties,
if it decodes, of all but the lines the client refuses for their size; neither a malformed line nor one of those keeps
the others in it.

**dlq_replay.** `NothingSkipped`: every dead letter below the committed offset was
written back, has used up its replays, was given up by the client, or was left in a
batch that `max_messages` cut short (`cut`, a history variable; section 5).
`CopiesBounded`: both groups dead-letter their own copy of an event and both read
each replay, so copies double with each round; their number stays within that of
the full tree of replays, plus one batch of such trees for each fault.
`Quiesces`: in the end both topics have been read and everything is committed, so an
event that no group can handle does not cycle for ever.

**registry.** `ImplementsAtomicRegistry`: refinement of `AtomicRegistry` with `runs`
what the file holds, so no interleaving loses an update and no crash leaves half
of one. `WholeDirectory`: once the last script that worked on the production
directory had it to itself and ran to its end, the directory holds the artifacts of
one run, all and only those, whatever interrupted scripts had left.

**scorer.** `DuplicatesAreJustified`: when an event becomes a duplicate, a similar one
has entered the window before, whatever the threads that empty and fill the
index at the same time do. `IndexCoversWindow`: as long as no two calls have met in
the deduplication, the index holds the whole window whenever no call is in it, also
after calls that failed half way. `FailureIsUniform`: after a tier-3 failure no event
of the batch keeps the evidence of an earlier stage, and all say that they are
degraded. `AlarmsAreForwarded`: a sigma match is HIGH and an attack tool is never
INFO, whatever raised and whatever is a duplicate. `Finishes`: every call returns or
raises.

**framing.** `FramesExact`: what a connection that was read to its end has published is
what the client sent, in order, each message once and whole, up to the first that is too long, which
ends the connection; what a connection that was cut has published is a prefix of it
and at most one piece of the next message. `EveryClientServed`: every client is read to
its end, or cut, or dropped, as long as the collector is not stopped and the
listener lives, so no slot is lost on any of the ways out of a client thread.
`FramingTypeOK` has the account of the slots (free or serving a connection, and one short once a thread could not be
started) and the bound of a buffer between two reads, `MaxLine` bytes and the digits of an octet count.

**api.** `RateBounded`: within a window all workers together admit at most the limit,
and at most the limit once more for every window that a worker began of its own, whether Redis
failed before or after it ran the script, and for every time Redis lost any of what it had counted; and a window is full only when so many were admitted, so that
refused requests keep nobody out. `ReloadIsWhole`: when no reload is
running, configuration, scorer and enricher are of one generation, also after a reload that
failed; a request is served by generations that were in place between its admission
and its end. `GapIsOneThread`: a thread that finds the names of a table without its
tokens does so only while another is between the two assignments. `Answers`: every admitted request is
answered, across reloads that keep the event loop to themselves and calls of Redis that hold it, unless the worker crashes or
waits for Redis for ever.

**pipeline.** `NothingVanishes`: a committed record has an event at QRadar or under way, or
is dead-lettered, or its event was written to a connection that had died.
`RefsResolve`: the reference of every event sent leads to a document the API wrote, or failed
to write at that very scoring; redelivery after a crash never sends an event with the reference
of another scoring. `ImplementsAtLeastOnce`: with a record settled once an event of it was sent or it is dead-lettered,
the router is a group of `AtLeastOnce`, also with the API's limits and the socket that `Router` leaves out: the
committed offset only moves forward, over settled records, and nothing settled is taken back. `Drains`: the partition is
committed, whatever is refused, as far as a batch that cannot hold a record of `Unreadable` or `NoLetter`.

### Bounds and why they are enough

`MaxFaults` bounds crashes, rebalances, failing commits and dead-letter sends,
time-outs with an unknown outcome, disk errors and stops; failures of
Elasticsearch, the API, QRadar and the broker are not bounded. Two faults in
`archive` and `collector` let one fault meet the recovery from another (a crash
during the re-processing a crash caused, a quarantine that fails on a line a
crash tore). In `router` one fault is enough to move the partition from a live
replica, which goes on with its batch, and four records make two batches, the second with what ends the process; in the three
runs with such records some come before them, so that `Drains` asks for a commit and is not true at once. Thresholds
and timeouts are the smallest at which every state and counter of the breaker
is reached: 3 failures and 2 ticks in `breaker`, fewer where the breaker is only a
part. Three threads let one call be late while two others open and probe. In
`collector` the file takes a small event and the large one, so the third event has the bound
drop a line, and the large one is in the spool with lines before it and after it. In
`dlq_replay` the limit is 1 where the code has 3: a record is then fresh, replayed or
expired, which are the cases `_replay` tells apart; one event read by two groups
already makes four dead letters, two batches, and more with the fault. `registry`
has the two types that may be in production together, with artifacts of which one
name is shared and one is not; two processes, since what one script sees of any
number of others is a lock held or a directory changed. `scorer` has one event of each
kind that the score tells apart (a recognised attack, which tier 2 sees; an attack
tool that no model recognises; a sigma match), two of them near-duplicates of each other, and
a tick that makes an entry stale; two threads, because a thread only sees
that its objects were changed, not by how many. `framing` has scripts that mix the
framings, with a newline or a whole frame inside a frame, frames that end in a newline of their own,
lines that look like a length, blank lines, a last line without its newline, a count of two digits, and messages that are too long;
one slot, so that a lost one is missed. In
`api` a worker without threads stands for the rest of the cluster, which only matters
through Redis; limit and window are the smallest that tell "one more" from "one too many" and
"old" from "gone". In `pipeline` the first three records make a batch the API refuses for its size,
one it refuses for its content and one it takes, and the last two batches that end the router in either way.

### Fairness

* `CircuitBreaker`: the clock ticks and each thread keeps calling. The breaker
  has no timer; recovery needs callers, and its callers are polling loops.
* `ArchiveConsumer`, `Router`: the process is restarted by its supervisor (the
  manifests set a restart policy) and its loop is scheduled, and polls of a partition that has records do not come back
  empty for ever; in `Router` a free
  partition is assigned, and the client's sender thread resolves every buffered
  record (its `delivery.timeout`). No fairness is assumed of any outcome: the API
  and Elasticsearch may fail every call.
* `DLQReplay`: the groups keep reading, the replay is started again whenever it has
  ended (it is a job that an operator or a schedule runs), and polls of a topic that
  has records do not all come back empty (strong fairness of `Poll`, since an empty poll
  is always possible too). `ModelRegistry` has safety properties only.
* `Scorer`: a thread that is in a call is scheduled (`WF_vars(ScoreBatch(t))`); nothing is assumed of
  submissions, and the stages have no waits.
* `TcpFraming`: threads are scheduled; a client that was rejected tries again, and closes
  when it has sent all. A client that stays silent keeps its slot for ever: time-outs of
  `recv` are not counted.
* `ScoringApi`: threads of the pool are scheduled, and a reload comes to its end, since the
  loading of models does. The event loop runs its callbacks in the order in which they became ready, so a request that has been
  scored is not put off for ever by others that are admitted (strong fairness of `Respond`, which is disabled whenever
  the loop waits for Redis). Nothing is assumed of the clock, of new requests, or of Redis, which need not even answer.
* `Pipeline`: both processes are restarted and scheduled, and TCP delivers what is on a
  connection that lives. Nothing is assumed of Elasticsearch, the API or QRadar.
* `Collector`: threads are scheduled, the drain interval passes, and a process
  that was told to stop ends. The lock is not fair, and the broker comes back
  only by the premise of `Drains`.

## 4. What is proved

TLAPS checks every proof with no bound on the number of threads, replicas, groups, workers, records,
events or faults. The assumptions are those the modules name, the ranges of the constants:
`BreakerAssumption`, `ArchiveAssumption`, `RouterAssumption`, `CollectorAssumption`, `ReplayAssumption`,
`RegistryAssumption`, `ScorerAssumption`, `RateAssumption`, `ApiAssumption`, `PipelineAssumption`,
`FramingAssumption` (the clients send what `Sendable` says).
Some theorems assume more, because without it they are false:

* `AlarmsGoOut` uses `FloorAssumption`, that the floor of an attack tool reaches the lowest threshold, as
  the default of `config/config.yaml` does (0.35 * 0.60 against 0.20, which `LOGFILTER_SCORE_LOW` overrides).
* The theorems on losing nothing in `ArchiveConsumer` and `Router` assume `HasDLQ = TRUE` (section 5).
* `CollectorLosesNothing` assumes `HasSpool`: without a spool `publish()` drops an event whose send failed.
* `UnlimitedReplaysAll` assumes that no run is given `max_messages` (section 5).

A property is seldom inductive: each theorem below is about the strengthening that is, which TLC has
also checked on a small instance.

* **ArchiveConsumer_proofs, the breaker.** `TypeCorrect`, then `BreakerInvariant`: both counters
  stay below the limit that would have changed the state, the success count is
  zero outside HALF_OPEN and equals the recorded row of successes inside, and the
  recorded run of failures is at most the failure count while CLOSED. The last
  part is why `StreakTripsBreaker` holds: a success takes one from the count but ends
  the run. `ProbingIsQuiet` and `ClosingNeedsEvidence` follow from the same invariant.
* **ArchiveConsumer_proofs, the consumer.** `NothingLost` is not inductive: a commit stores
  `position`, so the proof needs that everything up to `position` is settled when
  the code commits, which `ArchiveInv` says for every point of the loop (at `poll`,
  all up to the position; inside a batch, all up to `lo`, and the part of the
  batch already dealt with). `ArchiveImplementsAtLeastOnce` adds that a commit does
  not move back, because `committed <= lo` inside a batch. `ArchiveStopsAtOdd` needs only
  that a live process has not fetched past an odd record.
* **Router_proofs.** The same invariant for each replica, with the parts about
  `owner`: only the owner's position is known to be at or past the committed
  offset, so a replica that lost the partition may be behind and its commit must be
  fenced. A step of one replica disturbs the others only through the sinks, which
  grow, and through `owner` and `committed` (`OthersStep`, `GroupStep`).
* **Collector_proofs.** Four invariants, on a base that says that the state is typed, that only the thread
  with the lock is between reading and writing the file (`LockInv`), and that a line that parses is the text of
  one event (`WholeInv`), which a line glued to an unfinished one is not. `CollectorLosesNothing` adds what the drain owes: while
  it replays, all that is in the file is in its hands, on the topic or quarantined, and when it writes, in the
  buffer, in the `.bad` file or on the topic (`DrainAccount`). Without the lock a publisher would append between
  the two. `CollectorFewDuplicates` says that an event is in one place, the hands of one publisher or one line
  (`PlaceInv`), and that its copies and its place are paid for by the one event and the faults (`CopiesInv`): a copy
  costs a place or a fault. `CollectorSpoolBounded` needs that the drain has no more bytes in its hands than the file
  holds (`BytesInv`), since it writes back without applying the bound. They rest on lemmas about what appending a line, taking
  the first, dropping the oldest, glueing and cutting short do to the events and the bytes of a file.
* **Collector_proofs, the framing.** `FramesExact` alone is not inductive: it says nothing of the bytes that are
  buffered. The invariant adds `ProgressInv`: for some `k` a thread has published the first `k` messages, its buffer
  and the wire together are the bytes of the others, and when the thread is in `recv` no message in its buffer is
  complete. So the argument is about one buffer that starts with a beginning of `Wire(msg)`. `FrontOctet` and
  `FrontText` say what `Find`, `OctetHeader` and `FrameLen` find there, for each framing and each length of the
  buffer; a count other than 0 has at most as many digits as the length it stands for (`NumberAtLeast`), which keeps a
  count cut off by the end of a chunk below the bound. From them follow `TakeFrame` and `TakeLine` (a turn takes exactly
  the next message), `DropOk` (a connection is dropped only for a message that is too long, which needs that a
  buffer over the bound is the beginning of one), and `LeftOver` (what the stream ends with is the whole last message or,
  when it was reset or stopped, a piece of it). `FramingTypes` counts the slots, and takes the bound of a buffer
  from the same invariant. `Number`, `Rest` and `Payloads` are recursive functions; that each exists and obeys
  its equation is `RecursionExists` and `RecursionAgrees`, proved once for a function that follows a given step.
* **DLQReplay_proofs.** The strengthening of `NothingSkipped` says that the records
  of a batch before `next` are dealt with, and all of them when the code commits.
  `UnlimitedReplaysAll` is the case in which no run is given `max_messages`: then
  nothing is cut off, and every dead letter is replayed. `CopiesAreBounded` counts what may still come: a dead
  letter that is not replayed yet weighs as many records as can descend from it, a record that a group has not read
  weighs as much for each such group, and with the records there are these come to no more than the bound (`CopiesInv`). A
  read moves weight from a record to its dead letter, a replay turns it into a record and what that record weighs, and a
  fault brings back at most a batch, since neither a group nor a run is further than one batch past what is committed
  (`AtMostABatch`).
* **ModelRegistry_proofs.** What a process has read is still the file when it writes
  (`Exclusive`): only the process inside the lock replaces the file, and a process is inside
  exactly when it holds the lock. From this the file's steps are steps of the
  atomic registry. For the directory, a script that is alone in it knows what it
  holds at every point of its two loops (`Knowing`). The lemmas on
  `Registered`, `Promoted`, `Archived` and `Measured` say that runs stay where they
  are with their types, so the artifacts of a run never change.
* **Scorer_proofs.** `ScorerTypeCorrect` is proved with one step for each action. `NoFalseDuplicates`
  strengthens the property to "every text in the window, in the index, or in the
  hands of a thread that rebuilds it belongs to an entry that was added", which every
  outcome of the unlocked race preserves. `IndexIsComplete` needs to know, while
  no two calls have overlapped, how far the one call in the deduplication has got:
  before its rebuild the index covers the window, after `Collect` the snapshot
  does, and an exception cannot come between. `FallbackIsUniform` and `AlarmsGoOut`
  carry what a failed call and a sigma match look like through the remaining stages; the
  latter rests on a lower bound of `ComputeScore` over all scores and penalties.
* **ScoringApi_proofs.** `ReloadInv` says how far a reload has come at each of its points
  (`Staged`) and, for each request, that nothing it may still read is older than its admission
  (`Served`): this holds because a request is admitted on the event loop, never in the middle
  of a reload, and because generations only grow until a crash, which ends the
  worker's requests too. `TableInv` gives every table with names and no tokens its thread.
  `RateBounded` counts requests of the last minute only, which is not inductive: the clock moves requests out of
  it, and a limiter counts by its own window. `Admitted` says of every age that the
  requests admitted since are in Redis's window, in the window of a worker on its own, or
  were counted in a window that is gone, of which there are as many as were opened and are no more; a Redis that forgets
  ends its window and opens the next, of which it may keep a beginning (`PrefixCounts`). To add up the windows of
  any number of workers without a recursion over sets, the requests in them are the cells of a table with a column
  for each worker (`Columns`), and the lemmas are about the cardinality of such tables.
* **Pipeline_proofs.** `PipelineInv` adds to `NothingVanishes` and `RefsResolve` what holds while a batch is sent: the events
  before `next` are at QRadar, under way or lost with a connection, so the commit after the last one may cover
  them, and the events of the batch have their documents already. The second part lasts because a batch is not
  scored again before the router has left it. After an exception the batch is dead-lettered when it is committed.
  `PipelineImplementsAtLeastOnce` follows: a commit is of what `NothingVanishes` says after it, and the other steps
  move events between connection, QRadar and the lost ones (`SettledGrows`).

Sums over sequences are recursive functions of the naturals, and the library's induction is not in a form the provers
can use. The modules that need it prove their own: that a set of naturals has a least element (`LeastNatural`), from the
well-foundedness of the strict inclusion of finite sets, and then that a set with 0 and every successor is all of them
(`SetInduction`).

The inductive invariants and type invariants are theorems, and the runs do not check them again but where a type
invariant is a property of the run. Only model-checked are:

* the liveness properties (`Recovers`, `Drains`, `Quiesces`, `Finishes`, `EveryClientServed`, `Answers`), which
  are out of the prover's reach with their fairness and `ENABLED`;
* the counterexamples of section 5.

## 5. Where code and documentation disagree

Two runs end with a counterexample and stay in the project, because each is a state that the code reaches
with nothing failing:

* `first_requests` (`FeaturesComplete`): `_prepared_classifier_features` publishes the names of its
  table before the tokens (`scorer.py:1057-1058`; its twin, 1036-1037), the table is filled by the first
  request and not by the preloading of the models, and the API scores in a pool of threads. A second first
  request that comes between the two assignments finds the names it looks for and takes the empty table: its
  feature vector is all zeros and its score is that of a text without features.
  `scorer.py:492` says "Thread-safe.", and `/admin/reload`, which installs a scorer with empty tables,
  promises that concurrent requests never see "a partially initialised one" (`app.py:881-882`).
  This is what the language allows. In a stock CPython the interpreter has no point between the two stores at which it gives
  up its global lock, so there the gap needs a free-threaded build or a later change that puts anything between them;
  the order of the stores is what makes the code depend on that.
* `duplicates_recent` (`DuplicatesAreRecent`): `check_dedup` is to find "a near-duplicate of a recent event"
  and "prunes stale entries from the dedup window before checking"
  (`biencoder.py:237-238`), but it searches an index that is rebuilt only when an
  entry is added. After a quiet period the first event is compared with entries of
  any age.

Five more have a configuration, which TLC ends with a counterexample when it is run by hand
(`tlc -config <file> <module>`):

* `MCArchiveNoDLQ.cfg` of `MCArchiveConsumer`: without a DLQ topic the loop logs "offsets not committed"
  (`consumer.py:188`) but polls on from the advanced position, and the next
  successful commit covers the batch that failed, against `NothingLost`. The router does the same
  (`kafka_router.py:270-273`).
* `MCReplayMaxMessages.cfg` of `MCDLQReplay`: a replay that `max_messages` stops inside a batch commits the
  position, which is the end of the batch (`kafka_router.py:365`), and the rest of
  the batch is never replayed (`AllReplayed`).
* `MCPromotionServes.cfg` of `MCModelRegistry`: `promote_model.py:80` empties the production directory whatever
  the model type of the run it promotes, so the production run of another type loses
  its files although the registry keeps it in production (`ProductionServed`);
  `model_registry.py:145-146` says that each tier "can have its own production run
  concurrently".
* `MCThreadSafe.cfg` of `MCScorer`: a thread that pops the last stale entry of the deduplication window between
  another's test and pop, or appends while another iterates, makes it raise, and the scorer
  then degrades the whole batch of the other thread (`ThreadSafe`, again `scorer.py:492`).
* `MCArchiveFirst.cfg` of `MCPipeline`: "ALL raw logs have already been archived to Elasticsearch by the
  archive consumer BEFORE scoring" (`pipeline/router.py:11-12`); the two are consumer groups
  that do not wait for each other (`ArchivedBeforeScored`).

Seen while modelling, on the event path:

* A poll of the router returns up to `max_poll_records: 500` (`config/config.yaml:13`), the API takes
  `max_batch_size: 200` (line 120, and `schemas.py:54`): under load the API refuses the batch
  and the router dead-letters all of it. The same happens to a batch with one record that is empty or longer than
  65536 (`schemas.py:17`), although the collector takes up to 1 MiB; `Pipeline` has both. The limit
  of 60 requests a minute (line 124) is for each client address, and the router is one.
* A record that is not JSON ends the router and the archive consumer at every start: the deserializers
  (`kafka_router.py:103`, `consumer.py:95`) raise in `poll()`, outside the try block and before anything could be
  dead-lettered, so everything after it on the partition waits until the offset is moved by hand. The collector writes JSON
  only, but `raw-logs` is open to other producers. A JSON value that is not an object stops only the archive consumer
  (`NeverPastOdd`); the router scores it as text (`kafka_router.py:235`).
* A record whose dead letter is over the client's `max_request_size` (`producer.py:60-71` leaves the default of 1 MiB),
  because the record is nearly as large itself, or whose `host` is not a string (the key of line 185 cannot be encoded then), makes
  `send_dlq` raise for ever: once its batch is to be dead-lettered, the consumer ends at it at every start (`NoLetter`).
  A record over 65536 characters is refused by the API, so the router meets the first case whatever else works.
* In the same way a line near the collector's bound is accepted, never sent, spooled, tried at every drain and kept
  (`collector.py:150-151`); it takes its part of the spool until the bound drops it.
* The limiter calls Redis on the event loop, with a client that has no time-out (`app.py:132`, 610-627): a Redis that accepts
  the connection and does not answer stops every request of the worker, `/health` included, which pings Redis on the loop
  too (line 237); `app.py:447-448` says that the loop is never blocked by synchronous I/O. Such a worker is the exception in `Answers`.
* A Redis that loses its data admits another full limit, and no worker notices (`RedisForgets`); only its exceptions lead to
  the windows of the workers.
* The fallbacks of the classifiers catch `ValueError`, `IndexError`, `TypeError` and `RuntimeError` (`scorer.py:911`, 945), and
  the one around sigma four types as well (776): any other exception fails the whole batch with a 500, where tier 3 catches all
  (`ScoringRaises`).
* `consumer.py:82-84` names the index by the day of the write, where `archive.py:94-103` insists on the
  ingest time: a batch repeated after midnight is indexed twice, since a document id is unique in its index only.
* A reference in a forwarded event leads to the document the API wrote, never to the one of the archive consumer,
  whose ids are computed differently; a record without a time stamp gets a new reference, and a new
  document, for each scoring.
* Frames that `SyslogSender` writes to a connection the other side has reset are lost without an error
  until the first that raises (`sock = "dying"` in `Pipeline`).
* What a client had sent of its last message when it was reset or the collector stopped is published as an
  event, the digits of an unfinished octet count included (`Remainder`).
* If `thread.start()` fails (`collector.py:409`), the slot is not returned and the exception ends the listener's
  thread: the process lives on without TCP. A client that stays connected and silent holds its slot for ever.
* A spool rewrite that is cut short inside a
  character (the spool is not ASCII) leaves a file that `readlines()` cannot read, and every
  later event whose send fails is dropped (`WriteRefused`) although the spool is "for failed producer sends"
  (`collector.py:92`). After any rewrite cut short the next record is
  written onto the unfinished line, against "one JSON object per line"
  (`collector.py:94`), and both are quarantined. Replayed events follow newer events
  of their host, against "ordered processing per source host" (`producer.py:96`). No
  compose file or manifest sets `SYSLOG_SPOOL_PATH`, so the spool of the repository's `README.md:21`
  is off in all of them.

And elsewhere:

* The breaker's HALF_OPEN guard (`circuit_breaker.py:123`) counts probes that have succeeded, not probes
  admitted, so with several threads more than `half_open_max_calls` probes are in flight, against
  `tests/integration/test_resilience.py:137`. `failure_threshold` is documented as a number of consecutive
  failures (line 49), but a success only takes one from the count. A success
  of a call admitted while CLOSED and recorded while HALF_OPEN counts as one of the
  "successful probe calls" of line 53.
* A client over its limit gets 429 from the limiter in memory, but 500 from the one in Redis: `AccessDenied` is raised
  as it is (`app.py:628-629`) and nothing turns it into a response.
* `/admin/reload` reaches one worker process; with several, the others keep their models.
* The baseline of the drift detector is of tier-2 scores; during the fallback it records the tier-1 scores
  that replace them and compares those, so a drift may keep itself alive.
* `dedup_penalty` never lowers a score, since a duplicate is not
  seen by the cross encoder and the penalty counts only with a cross encoder score
  (`scorer.py:1067-1070`, against `scorer.py:16`).
* Two promotions at the same time mix their files in the production directory, and a script that finds
  a file already removed stops half-way.

## 6. Not modelled

* More than one partition in a batch: partitions are independent in the code
  except that a batch mixes them, and a batch is committed or dead-lettered as a
  whole.
* The orderly stop of the consumers, a special case of a crash after a commit.
* UDP: one datagram is one call of `publish()`, which `Collector` has. Events that `publish()` drops at its
  door (blank, source not allowed).
* The order of events: `Collector` keeps what is on the topic as a count for each event, because replays from the spool
  break the order anyway (section 5).
* The contents of events, metrics, logging and tracing; `/health` and `/metrics`, which only read.
* Inference: models and embeddings are numeric; `Scorer` takes their answers as given. So do normalizer,
  enricher, redaction and the network allowlist, which are functions of one event with no state.
* The drift and novelty detectors: their verdict is a statistic of a window of scores or embeddings, and the
  drift detector's state is all under one lock, with its callback outside of it. What is hard about it is which scores it
  is given (section 5), which is a question of numbers. `Scorer` has the verdict of the novelty detector as an
  input, and not the tier-2 override of the drift detector.
* The loading of models, which are loaded before the first request.
* The scorer consumer (`kafka/consumer.py:197-331`), `LogRouter`, `send_batch` and `write_bulk`: no entry point,
  compose file or manifest of the repository runs or calls them on the event path. The loop of the scorer consumer
  is the archive consumer's, with another sink.
* Training, evaluation, notebooks and operational scripts, which are most of the repository's lines: they run from start
  to end, alone, and their results are judged by numbers. Of `scripts/` only
  `promote_model.py` shares state with another process, and it is modelled.

The package `logfilter` is about 8 100 of the 26 200 lines of code in the repository; what this project maps is the part
of it that keeps state between two events, or that several threads or processes touch.

## 7. Plan

Done: the event path from the collector's sockets to QRadar, in parts and composed; the dead-letter cycle; the
model registry; the scoring of a batch with its deduplication; admission, reload and feature tables of the API.
What would come next, in this order:

1. A theorem that the generations of a worker only grow between two crashes, as an action property.
2. The drift detector as a threaded record of scores and a reset, with its verdict an arbitrary function of the window.
3. The scorer consumer, once something runs it.
