# Apexio: TLA+ verification project

Apexio ingests logs. A *gateway* accepts them over REST, OTLP/HTTP and OTLP/gRPC
and publishes them to a Redpanda topic; a group of *writers* consumes the topic,
inserts batches into a ClickHouse table and commits the offsets. This directory
holds TLA+ models of both services, of the broker library between them and of the
whole path from a client to the table, TLC configurations that check them on small
instances, and TLAPS proofs of their safety properties.

## 1. Inventory

| Component | State it keeps | Operations | What is hard about it |
|---|---|---|---|
| writer loop (`cmd/writer/consumer.go`, `main.go`) | the slices `events`/`msgs`, the ticker, the signal context | fetch, decode, flush, commit, shutdown, restart | a crash between insert and commit; a rebalance with a batch buffered; shutdown on a cancelled context; the tick that is seen only after a fetch deadline |
| batch processor (`cmd/writer/batch.go`) | configuration, counters | `flush`, `writeWithRetry` | retry bound; which error ends the process |
| ClickHouse store (`pkg/store/clickhouse.go`) | connection, `closed` | ping loop, `WriteBatch`, `Close` | an error does not say that nothing was written |
| REST, OTLP/HTTP and OTLP/gRPC handlers (`cmd/gateway`) | none of their own; counters | decode, map, validate, publish, reply | several records per request; a client that leaves, or that stalls while its body is read; shutdown meanwhile |
| gateway `main` | the HTTP and gRPC servers, deferred calls | signal, `Shutdown` (10 s), `GracefulStop`, `Close` | order of the deferred calls; handlers that outlive the timeout; a `GracefulStop` without a deadline |
| API-key middleware (`pkg/auth`) | the key | authorise or answer 401 | applies to HTTP only |
| Redpanda broker (`pkg/broker/redpanda.go`) | mutex, `closed`, Kafka writer | `Publish`, `Subscribe`, `Close` | state read under the mutex and used after it; `Close` holding the mutex; fan-in of goroutines with one error channel |
| memory broker (`pkg/broker/memory.go`) | topics, handlers, `closed` | `Publish`, `Subscribe`, `Close` | snapshots taken under the mutex and used after it |
| event schema (`pkg/schema`) | none | mapping, validation, encoding | integer widths, values that do not encode |
| memory store (`pkg/store/memory.go`) | mutex, `events`, `closed` | `WriteBatch`, `Close` | closed under handlers that still deliver |
| sample client (`examples/sample-client`) | the exit status | `sendREST`, `sendOTLP` | the second of two sends fails; an answer lost after the publish; no timeout |
| metrics text, Grafana, manifests, scripts, sample service | | | not core logic |

Interactions: the gateway's handlers share one `Redpanda` value; gateway and
writers share only the topic; writers share the consumer group and the table.
The correctness properties that matter are: a success answer means the events are
on the topic; an offset is committed only over rows that are in the table; nothing
falls in between; duplicates come only from faults; every shutdown ends; nobody
waits for ever. `PROJECT.json` lists the hazards line by line, with the properties
that address each.

## 2. Modules

| Module | Models | Used by |
|---|---|---|
| `AtLeastOnce` | the promise of the writers: store before commit, nothing removed | refinement target of `Writer` |
| `Writer` | `cmd/writer`, `pkg/store/clickhouse.go`, and as external parties the topic, the consumer group and the table | `MCWriter`, `WriterProofs` |
| `WriterProofs` | theorems about `Writer` | |
| `Gateway` | `cmd/gateway`, `pkg/auth`, `Redpanda.Publish` and `Close` | `MCGateway`, `GatewayProofs` |
| `GatewayProofs` | theorems about `Gateway` | |
| `RedpandaSubscribe` | `Redpanda.Subscribe`, `consumeTopic` | `MCRedpandaSubscribe`, `RedpandaSubscribeProofs` |
| `RedpandaSubscribeProofs` | theorems about `RedpandaSubscribe` | |
| `Schema` | `pkg/schema`: mapping, validation, encoding | `MCSchema`, `SchemaProofs` |
| `SchemaProofs` | theorems about `Schema` | |
| `MemoryBroker` | `pkg/broker/memory.go` | `MCMemoryBroker`, `MemoryPipeline` |
| `MemoryPipeline` | `pkg/store/memory.go`, fed by `MemoryBroker` | `MCMemoryPipeline`, `MemoryPipelineProofs` |
| `MemoryPipelineProofs` | theorems about `MemoryBroker` and `MemoryPipeline` | |
| `FlushTimer` | the fetch loop of `consumer.go` in discrete time, and its configuration | `MCFlushTimer`, `FlushTimerProofs` |
| `FlushTimerProofs` | theorems about `FlushTimer` | |
| `Pipeline` | the sample client, composed with `Gateway` and `Writer` over the topic | `MCPipeline`, `PipelineProofs` |
| `PipelineProofs` | theorems about `Pipeline`, from those about `Gateway` and `Writer` | |
| `FoldInduction` | induction over data and the laws of folds, sums and powers of two | instantiated by `WriterProofs`, `PipelineProofs` and `SchemaProofs` |

The inductive invariants are defined in the proof modules, next to the argument that needs
them, except for `IndInv` and `TimerInv`, which runs check.

An operator whose comment begins with "Mutant" is not part of a model: it is a
plausible wrong version of the definition that follows it, used to confirm that a
property really depends on the code being as it is.

### Writer

One process per writer. `pc[w]` names where it is: `ping` (the loop in
`NewClickHouse`), `fetch` (in `FetchMessage`), `check` (the `ctx.Err()` test after a
deadline), `write` (about to call `WriteBatch`), `send` (past its `ctx.Err()` test),
`commit` (in `CommitMessages`), or one of three ends: `down` (died), `done` (main
returned), `fatal` (`log.Fatalf`). `buf[w]` is the pair of slices `events` and `msgs`;
they always change together. `why[w]` records which of the four calls of `flush` is
running: after a full batch, on a tick, or one of the two `return flush()`.
`attempt[w]` is the counter of the ping loop or the retry loop.

A message is a partition and an offset; its payload is `event`, `garbage` (what
`UnmarshalEvent` rejects) or `refused` (what decodes but `batch.Append` rejects, because
a column cannot hold it). `rows[m]` counts the rows of the table that hold `m`. A batch
with a refused event never reaches `batch.Send`, so that none of it is inserted
(`AppendRefused`, `Sendable`) and every attempt fails alike.

External and modelled from its use: partitions are assigned and revoked one at a
time, which covers whole-group rebalances as sequences of steps; a reader that is
assigned a partition resumes at the committed offset; `CommitMessages` commits the
highest offset of each partition in the batch, and is applied even if the member
has meanwhile lost the partition or the group has committed further (the client
commits under its current generation). A failed insert may have written any part
of the batch, and a failed commit may have reached any of the partitions.

A restart (`Start`) begins with the code's initial state. What a dead process had
buffered stays visible in `buf` after `done` and `fatal` only so that properties can
refer to it; no action reads it before `Start` clears it.

### Gateway

One process per request plus `main`. A request's content is chosen at the start
(`Inputs`): protocol, whether the key is right, whether the body decodes, and for
each record whether it is `good`, `invalid` (rejected by `Validate`) or `unencodable`
(valid, but `json.Marshal` fails). `pc[r]` follows the handler: `auth`, `read` (waits for
the body, or for the message of an RPC), `handle`, `publish` (at the `ctx.Err()` of
`Publish`), `lock` (waits for the broker's mutex), `encode` (after the mutex was released),
`send` (in `WriteMessages`).

A handler in `read` waits for its client, and nothing limits the wait: the HTTP server sets
`ReadHeaderTimeout` only, and `GracefulStop` waits for RPCs without a deadline. The body may
arrive (`BodyArrives`) or never; when the client leaves in the middle, the read fails
(`ReadFails`), which is a 400 over HTTP, while an RPC ends before `Export` is called, uncounted
(`aborted`).

The Kafka writer is external. `InFlight` is what it has and does not know the fate of: the
messages of calls under way, and those given up because the client left, which stay with it
(`orphans`) and may land later. A message whose ack is lost is sent again (`Resend`), each time at
the cost of a fault, as often as the budget allows; the last attempt of a failed call may
have landed as well. Its `Close` waits for calls and messages under way and rejects new ones.

`phase` follows `main` from the signal through `srv.Shutdown` (which returns when no HTTP
handler is active, or when its 10 s have passed, at any time as far as the model is
concerned), `GracefulStop` and `bus.Close` to the exit. A crash may leave any of the messages
in flight on the topic.

### RedpandaSubscribe

One process per topic goroutine plus the `select` of `Subscribe`; the caller may call
again, cancel, let a deadline pass, or close the broker. `Ends` is the test in the
goroutine: an error that is nil or wraps `context.Canceled` is not reported. A fetch
error that wraps `DeadlineExceeded` makes `consumeTopic` return `ctx.Err()`, which is
nil while the context is live: both ways a topic ends silently, and the model has
them (`HandlerErrors`, `FetchErrors`).

### MemoryBroker

Every message stands for the `Publish` call that carries it and every handler for the
`Subscribe` call that passes it. The critical sections of `Publish` and `Close` are one step
each. That of `Subscribe` is a loop over the topics, one step per topic (`Register`) between
`Lock` and `Unlock`; meanwhile the mutex is held, so that every other critical section waits
(`Unlocked`), while handlers are called without it. The loops over the snapshots take one
step per handler call.

### Schema

The conversions of `pkg/schema` as operators of the same names, applied to one event on
its way: mapped from a REST payload or an OTLP record, encoded by the gateway, decoded by
the writer. Texts are reduced to forms (`empty`, `blank`, `word`, `bytes` that are not
UTF-8, `number`, `nan`); a level is a word that may be dressed in lower case or white
space. A time counts nanoseconds, `NanosPerMilli` (10^6) to the millisecond: `time.UnixMilli`
multiplies (`TimeUnixMilli`), the method `UnixMilli` of a time divides and rounds down, and
`time.Now()` has a fraction of a millisecond. The integers keep their wrap-around at scaled
widths: `TimeBits` for the milliseconds of REST (which reach beyond the years JSON can
encode), `NanoBits` for the nanoseconds of OTLP (which do not), `StatusBits` for `uint16`. Only
the order of the special times matters (year 0, the zero time, the epoch, the present, year
9999), and the instance keeps it, with two nanoseconds to the millisecond and an odd `Now`.
Every value of the scaled widths is tried. (OTLP severity numbers 1 to 4, TRACE, map
to INFO, above DEBUG: the model follows the code.)

### FlushTimer

`Writer` lets the ticker have fired or not at every deadline. `FlushTimer` counts time: the
current `FetchMessage` has waited for `waited`, the ticker fires in `untilTick` and its
channel holds `ticks` (at most one), the oldest buffered event has been there for `oldest`
and the latest for `quiet`. `Elapse` cannot pass a deadline or leave a message at hand
unfetched; a flush takes any time, during which the ticker goes on. The ages stand still
while a flush is under way: they measure the wait *for* a flush. `inbox` only says whether
another message is at hand. The configuration goes through `FromEnv` (`envInt`,
`envDuration`) and the normalisation of `newBatchProcessor`. What a flush writes, and what
ends the process, is the subject of `Writer`.

### MemoryPipeline

`MemoryBroker` with handlers that write each message to the memory store, as
`pkg/broker/pipeline_test.go` does to mirror "the gateway→writer handoff". A handler's call
and its `WriteBatch` are one step: `WriteBatch` meets other calls only inside its mutex. The
store may be closed at any time without the broker's knowledge, and a context may end; both
are the handler's error, at which the delivery or the replay stops. What the property
`NothingSilentlyLost` asks for depends on the call that hands the message over, `Publish` for a
handler that was registered at the time and `Subscribe` otherwise: while this call runs, a
missing row is one it still has to write; once it has returned, a missing row, be it of the
message that failed or of one the loop left behind it, must be its error. `failures` is bounded by
the number of calls, each of which can see one error at most, so that the bound takes no
behaviour away.

### Pipeline

The client's process (`cpc`) calls `sendREST` and `sendOTLP` in the order its mode asks for
and exits with a status. The gateway and the writers are instances of `Gateway` and
`Writer`, whose actions are used unchanged; they share the budget of faults. The gateway's
`topic[r]` counts the copies of a request's event that landed, and `Land` appends each copy
to the `log` of some partition, one per step, with `origin` recording whose it is; `Writer`'s own
`Produce` is not used. This client writes its whole body at once (`SendBody`, which is fair here
as it is not in `Gateway`). The client sends no API key, so that with a key configured all of
its requests are refused; the runs have none.

## 3. Runs

| Run | Instance | States | Shows |
|---|---|---|---|
| `writer_group` | 2 writers, 1 partition, 3 messages, batches of 2, 2 attempts, 2 faults, 1 revocation | 790 k | the safety properties and the refinement with competing owners |
| `writer_parts` | 1 writer, 2 partitions, batches of 3, 2 attempts, 2 pings, refused events | 1.26 M | batches that span partitions, partial commits, events the table refuses; `IndInv` |
| `writer_live` | 2 writers, 2 messages, 1 fault, 1 revocation, fairness | 36 k | every message is stored and committed; shutdown ends |
| `writer_shutdown` | 1 writer, 3 attempts, 1 fault | | **violated**: `ShutdownFlushes` |
| `gateway` | 2 requests of 12 kinds, 2 records, 2 faults, key required, fairness | 383 k | durability, rejection, prefixes, counters, draining; requests and shutdown end unless a client stalls |
| `subscribe` | 2 topics, 2 messages, 2 calls, 2 faults of every kind, fairness | 238 k | commits, silence after return, results; cancellation and failure end Subscribe; topics are served |
| `subscribe_nil` | 1 topic | | **violated**: `UntilCancelled` |
| `schema` | every timestamp of 4 and 3 bits, statuses around the limit, 6 levels, attribute lists of up to 3 pairs | 352 k | wire format, encodability, precedence, round trip |
| `memory` | 2 publishes, 2 subscriptions (of 3 kinds), 2 topics, a store that may be closed, errors of any handler | 997 k | each message once, and into the store unless the call that hands it over returns an error |
| `memory_replay` | 2 publishes, 1 subscription | | **violated**: `ReplayFirst` |
| `flush_timer` | deadline 3; intervals unset, malformed, -1, 0, 1, 3, 5, 7 (default 12); batches unset, malformed, -1 to 4 (default 6) | 87 k | how long an event can wait; `TimerInv` |
| `pipeline` | 4 modes, 1 writer, 1 partition, batches of 2, 2 attempts, 2 faults, fairness | 184 k | what is reported as sent is not lost and reaches the table; order of the two sends; rows per event; the client ends |

Why the bounds are enough: a batch of 2 with 3 messages has a full batch and a rest
that only the ticker flushes; two faults allow a lost answer followed by a crash, or
a signal followed by an error; one revocation is enough for a former owner to commit
behind a new one. Two attempts reach both branches of the retry loop. In the gateway
two records reach a failure behind a success, and two requests reach every way in
which one handler holds or waits for what the other and `Close` need; two faults send a
message twice more. Two topics fail together. The intervals of `flush_timer` lie below, at,
and above the deadline, once and twice, and most are not multiples of it, so that the ticker fires at every point of a fetch. In
`pipeline` two faults are enough for two lost acknowledgements at the gateway, or one there and
a lost answer at the writer, to meet on one event. Symmetry is used only in runs without liveness properties.

`CHECK_DEADLOCK FALSE` is set for the two brokers and the schema: when
all calls have returned, a library has nothing to do. The services are checked for deadlock.

### What the violated runs show

* `ShutdownFlushes`: "Shutdown flushes the in-flight batch before exit."
  (`deploy/README.md:142`). Both `return flush()` statements run when the signal context
  is cancelled, and `WriteBatch` begins with `ctx.Err()`; the retries fail one after
  another and the process exits with the batch unwritten. Nothing is lost
  (`CommittedIsStored`): the next process reads it again.
* `UntilCancelled`: "Subscribe consumes topics in a loop until ctx is cancelled."
  (`redpanda.go:79`). A failing last topic makes `errCh` and `done` ready together; the
  select may take `done` and return nil, which drops the error.
* `ReplayFirst`: "messages already buffered on the topic are replayed, then the handler
  receives future Publish calls." (`memory.go:58`). The replay happens after the mutex is
  released; a concurrent `Publish` may come first.

### Two remarks

* The flush interval is not a bound on how long an event waits. The ticker's channel is read
  only after a fetch has timed out, and a message within every 250 ms keeps the loop from it
  until the batch is full. What holds, and is proved, is `WaitBounded`: the interval plus one
  deadline for every further event the batch has room for, 1 s + 49 * 250 ms with the
  defaults; and `QuietFlushed`: the interval plus one deadline once messages stop.
* The goroutine of a topic takes every error that wraps `context.Canceled` for the caller's
  cancellation, a handler's own too (and `consumeTopic` does the same with
  `DeadlineExceeded` in a fetch): the topic is read no further, and neither the caller nor
  the other topics hear of it. `TopicsServed` says that nothing else leaves a topic behind.

### Fairness

* `Writer`: weak fairness of a process's own steps (a running goroutine runs), of
  assignment (the coordinator assigns free partitions) and of `Start` (`restart` policies
  of the manifests). Strong fairness of `FetchMessage` and of `TimeoutTick`: a fetch
  deadline may come first any finite number of times, but a message that is available is
  delivered in the end, and the ticker has fired by some deadline. That a batch always
  comes to its flush, also under an endless trickle of messages, is what `FlushTimer`
  proves in terms of time (`WaitBounded`). Faults and revocations are bounded by
  `MaxFaults` and `MaxRevokes` and never fair.
* `EventuallyStored` excludes topics that hold an undecodable or a refused message
  (`Poisoned`): the writer stops there for good, and with it the events before it in the
  same batch, as `NeverSkipsPoison`, `consumer.go:57` and `clickhouse.go:150` say. `EventuallyCommitted` also
  excludes revocations, after which a former owner may move the offset back.
* `Gateway`: weak fairness of handlers (a call of `WriteMessages` ends, by success or
  error), of the Kafka writer and of `main`; none of clients and signals, so that a body may
  never arrive. `EveryRequestEnds` therefore leaves out a handler that waits for its own client,
  and `ShutdownCompletes` a `GracefulStop` that waits for an RPC whose message does not come.
  A stalled HTTP client delays the exit by no more than the 10 s of `srv.Shutdown`, and neither
  kind keeps another request from its answer.
* `RedpandaSubscribe`: weak fairness of goroutines; a handler returns.
* `Pipeline`: weak fairness of the client, its body included, and the fairness of `Gateway` and `Writer`.

## 4. Proofs

`WriterProofs` proves, for all sets of writers and partitions and all values of the
other constants, under the assumptions named in `Writer` (`NoWriter` is not a writer,
there are finitely many writers and partitions, payloads are of the three kinds, the
configured values are integers, the bounds are naturals):

| Theorem | Statement |
|---|---|
| `IndInvHolds` | `Spec => []IndInv` |
| `TypeCorrect` | `Spec => []TypeOK` |
| `AtLeastOnceDelivery` | `Spec => []CommittedIsStored` |
| `NothingForgotten` | `Spec => []InFlightAccounted` |
| `BatchesBounded` | `Spec => []BatchBounded` |
| `PoisonStops` | `Spec => []NeverSkipsPoison` |
| `RefinesAtLeastOnce` | `Spec => ImplementsAtLeastOnce` |
| `DuplicatesAreBounded` | `Spec => []DuplicatesBounded` |
| `MetricsAreHonest` | `Spec => []MetricsHonest` |
| `CommitsAreMonotone` | `Spec => CommitMonotone` |

The argument. `CommittedIsStored` is not inductive: a commit moves the offset to the
*highest* buffered one, so one must know that every lower message is stored or buffered
as well (`BufferClosed`), which in turn needs that what lies behind a fetch position is
stored or buffered (`InFlightAccounted`) because an append extends the buffer by the
message at that position, and that the whole batch is stored when `pc` is `commit`
(in `ControlOf`). `NeverSkipsPoison` needs that everything a writer can reach lies behind
decodable messages only (`DecodedPrefix`), and for the refused ones that what is stored
lies behind accepted messages only (`AcceptedPrefix`). `BatchBounded` needs that a buffer is strictly
smaller than the batch size when the loop fetches. Together with the types these form
`IndInv == TypeOK /\ DataInv /\ ControlInv`, which run `writer_parts` checks as well.

The induction step is organised by effect and not only by action. Most actions have
one of a few effects on the data (nothing; rows grow; an offset moves to a buffered and
stored message; a buffer is emptied; partitions are given up), so `SettlesKeepsData`
proves `DataInv'` once for all of them, and only `Produce`, `Assign` and `FetchEvent` have
proofs of their own; `LocalKeepsControl` does the same for `ControlInv` of a step by one
writer. The refinement maps `stored` to the set of messages with a row: a step either
grows it or moves offsets or appends to the topic or stutters (`OneEffect`,
`StepRefines`), and `CommittedIsStored'` gives the guard of the abstract commit.

`CommitMonotone` is an action property and needs a second invariant, `SoleOwner`:
as long as no partition was taken from a live writer, what is buffered belongs to its
owner and lies between the committed offset and the owner's position, so that a commit
moves the offset forward. It is proved together with `IndInv`.

`DuplicatesBounded` says what a fault can cost: with `n` faults and revocations a message has at
most `2 ^ n` rows, and none twice without them. Rows alone are not inductive, since those
a fault leads to come later, from another writer. The invariant `WeightInv` therefore bounds a
potential: `Weight(m)` is the number of rows of `m`, plus for each writer how often it may still
insert `m` (`Share`), plus one if the group will hand `m` out again (`ToFetch`). A share counts
the places of `m` in a batch that can still be sent; one more if a commit of this writer can
move the offset back behind `m` (`MayRewind`); and one for a signalled process, which may leave its
batch behind for the next owner. A step that counts neither a fault nor a revocation never raises a weight: a fetch
trades the `ToFetch` for a place in a batch, an insert trades places for rows, a commit
clears the batch. A failure or a revocation may raise it by the share of one writer or by one,
and a weight is never zero, so that it is doubled at most. There is one lemma per group
of actions (`StartupLoad`, `FetchLoad`, `LoopLoad`, `FlushLoad`, `EnvironmentLoad`), about the
part of the weight that a step of one writer can change; `SumChanges` lifts it to the sum.

`MetricsHonest` compares two sums, over the writers' counters and over the rows. They are
taken apart the same way: an insert adds at least the batch to the rows, and only the
writer that did it counts the batch, once; a restart zeroes a counter.

`FlushTimerProofs` proves, for every deadline, every default and every setting of the
environment variables (`TimerAssumption`: the deadline and the defaults are positive, and
settings are unset, malformed or integers):

| Theorem | Statement |
|---|---|
| `TimerInvHolds` | `Spec => []TimerInv` |
| `WaitIsBounded` | `Spec => []WaitBounded` |
| `QuietIsFlushed` | `Spec => []QuietFlushed` |

Neither bound is inductive. `TimerInv` distinguishes whether a tick is pending. Without one,
the oldest event arrived after the ticker last fired, so its age and the time left until the
next tick add up to no more than the interval. With one, the next deadline flushes: the age
exceeds the interval by what the current fetch has waited and by at most one deadline for
each event that cut an earlier fetch short, which is `(n - 1) * Deadline + waited`, and
`quiet` exceeds it by `waited` only. A fetch adds an event and resets `waited`, which keeps
the first sum; the loop fetches only with room in the batch, which gives `WaitBounded`.

`GatewayProofs` proves, for every set of requests and of inputs, any number of records and
of faults, with and without a key (`InputsAssumption`: a REST request is one record, and
an RPC whose message does not decode never calls `Export`; `GatewayAssumption`: types):

| Theorem | Statement |
|---|---|
| `GatewayInvariant` | `Spec => []GatewayInv` |
| `AckIsDurableHolds` | `Spec => []AckIsDurable` |
| `RejectedLeavesNoTraceHolds` | `Spec => []RejectedLeavesNoTrace` |
| `PublishedPrefixHolds` | `Spec => []PublishedPrefix` |
| `DrainedBeforeCloseHolds` | `Spec => []DrainedBeforeClose` |
| `ClosedBusIsQuietHolds` | `Spec => ClosedBusIsQuiet` |
| `MetricsMatchRepliesHolds` | `Spec => []MetricsMatchReplies` |

`GatewayInv` says of one request (`RequestInv`) that `publishEvents` is at event `next[r]`: the
ones before it are on the topic, those behind it have left no trace, neither a row nor a
message still with the Kafka writer, and an answer ends the handler. The rejections follow
because they are given before `next[r]` leaves 0, and a message in flight is the one at
`next[r]`, so that neither resends nor a crash can put any other on the topic; the prefix
follows because an event is begun only when the one before it is on the topic. `ShutdownInv` ties the phase of `main` to what may
still run: `DrainedBeforeClose` alone is not inductive, since that no handler is active
must be known from `srv.Shutdown` and `GracefulStop` on and survive until `Close`. The counters
are compared with cardinalities of sets of answered requests and acknowledged records; each
answer adds its request to one of these sets and one to the counter that belongs to it.
The requests may be infinitely many, so the invariant for this theorem (`MetricsInv`) also
says that finitely many have been answered.

`RedpandaSubscribeProofs` proves, for every finite non-empty set of topics and any number of
calls, messages and faults (`SubscribeAssumption`):

| Theorem | Statement |
|---|---|
| `SubscribeInvariant` | `Spec => []SubscribeInv` |
| `CommittedIsHandledHolds` | `Spec => []CommittedIsHandled` |
| `QuietAfterReturnHolds` | `Spec => []QuietAfterReturn` |
| `ResultIsGenuineHolds` | `Spec => []ResultIsGenuine` |
| `SendNeverBlocksHolds` | `Spec => []SendNeverBlocks` |

A commit is safe because everything behind a reader has been handled, committed or not
(`ReaderInv`). The errors in `errCh` are counted against the goroutines that have nothing more
to send (`Settled`): a goroutine that is about to report is not among them, so there is room
for its error, and `Subscribe` can wait for `done` without receiving (`SendNeverBlocks`). The
errors in the channel, and the one `Subscribe` is going to return, are always those of a
settled goroutine of this call (`FromTopic`) or of the context.

`MemoryPipelineProofs` proves, for all finite sets of calls and all lists of topics, those with
repetitions too (`MemoryAssumption`):

| Theorem | Statement |
|---|---|
| `EachMessageOnceHolds` | `Spec => []EachMessageOnce` |
| `PipelineImplementsBroker` | `PipeSpec => Spec` |
| `PipelineInvariant` | `PipeSpec => [](BrokerInv /\ CallerInv /\ StoreInv)` |
| `NothingSilentlyLostHolds` | `PipeSpec => []NothingSilentlyLost` |

`EachMessageOnce` counts occurrences in sequences. It is inductive together with two facts
(`BrokerInv`): a message is on one topic and there once (`AppendedOnce`), and loops deal with
messages of the topics only (`FromTopics`). The lemmas on `Occurrences` say what `Append`,
concatenation and `Tail` do to the count. The store is added by refinement: a step of the
pipeline is a step of the broker in which the store has chosen the handler's outcome, so
that the broker's invariant carries over. `CallerInv` adds that a handler gets a message from one
of the two calls only, since it is registered and the backlog is copied under one hold of the
mutex, and that a call that returned with something left to do returned an error; `StoreInv`
adds that a delivery without a row was an error of the very call that made it.

`PipelineProofs` proves for the composition, for all writers, partitions, modes and budgets
(`ServicesAssumption`):

| Theorem | Statement |
|---|---|
| `PipelineInvariant` | `Spec => []PipelineInv` |
| `TypeOKHolds` | `Spec => []TypeOK` |
| `SentIsNotLostHolds` | `Spec => []SentIsNotLost` |
| `OTLPNeedsRESTHolds` | `Spec => []OTLPNeedsREST` |
| `RowsPerEventHolds` | `Spec => []RowsPerEvent` |

The two services are not proved again: `GatewayProofs` and `WriterProofs` are instantiated with the
composition's variables, after the assumptions on their constants have been shown for the
values they have here (`GatewayInstanceAssumptions`, `WriterInstanceAssumptions`), and their
induction steps are cited. What is new is what joins them. `LandingInv` bounds the copies by
the faults, so that a partition always has room for what lands; `TopicInv` says that the messages
with origin `r` are as many as the gateway counts; `ClientInv` follows the client's answers.
`SentIsNotLost` then is a chain: exit 0 means that all answers asked for were `ok`, `AckIsDurable` gives a
copy, `TopicInv` finds it on a partition, and `CommittedIsStored` says that it is in the table
if the offset has passed it.

`RowsPerEvent` adds up the rows of all copies of an event, of which resends may land any number.
`LandingInv` bounds the copies together with the one that may still land (`Pending`): only a
resend raises their sum, and it is a fault. `OneInFlight` says that the Kafka writer never has
both events at a time, so that a step lands one copy at most. `RowsInv` says the bound of
weights, and not only of the copies that are there but of every set they may become with the
next landing (`MayHave`): a landing that is no fault only realises what was counted before. A
writer's fault at most doubles the weight of each copy and so their sum (`SumBound`); a resend
adds one copy of weight one, and a sum that is bounded by `2 ^ n` is then bounded by `2 ^ (n + 1)`.

`SchemaProofs` proves, for every set of inputs and all widths of the integers that keep the
order of the special times (`SchemaAssumption`, which also says that the years 0 to 9999 lie
within the signed range of milliseconds, as they do in 64 bits, and that the present is at
least a millisecond after the epoch; `InputsAssumption`: what
arrives fits its width, attributes are finite lists of pairs, and JSON has no NaN):

| Theorem | Statement |
|---|---|
| `SchemaInvariant` | `Spec => []SchemaInv` |
| `WireFaithfulHolds` | `Spec => []WireFaithful` |
| `UnencodableCauseHolds` | `Spec => []UnencodableCause` |
| `RESTRoundTripHolds` | `Spec => []RESTRoundTrip` |
| `AttributePrecedenceHolds` | `Spec => []AttributePrecedence` |

The key is that the writer's validation and normalisation, which are done again on the
decoded event, do nothing to an event that has been through the gateway's: its level is
already normal and JSON turns no text into a blank one (`MappedEvent`).

`RESTRoundTrip` is about wrap-around in both directions: a timestamp that was read from an
unsigned field into a signed one is written back to the unsigned field, and `Wrap` undoes the
remainder; dividing undoes the multiplication (`DivideBack`), so that a time the client gave comes
back as it was. A payload without a timestamp gets the present, whose fraction of a
millisecond `UnixMilli` cuts off (`DivideRounds`): the event comes back with a time that is less
than a millisecond earlier, and this is what the property says. The assumption on the widths
is needed for this case: the present must be below the point where it would wrap, and must
not round down to 0, which would stand for "no timestamp" again.

`UnencodableCause` names the inputs themselves. A timestamp either keeps its value or loses
`2 ^ TimeBits` (`WrapIs`), and in either case the product with `NanosPerMilli` is monotonic
(`TimesMonotonic`). By the assumption on the widths the reading that was not taken is outside the
years that encode anyway, so that both are when the event does not encode. On the side of OTLP no timestamp is to blame
(`NanoBits`), and a NaN is traced through `FloatOfTwo` and `MergedLookup` back to the attribute.

`AttributePrecedence` states for lists of any length what the loops of `keyValuesToMap` and
`mergeAttrs` compute: the value of the *last* pair with a key. `MapKeepsLast` goes through the fold
position by position, with the invariant of the loop (`MapOf`: the map has exactly the keys
seen so far, each with the value at its last position); `ConcatAt` then places the record's pairs
behind those of its resource, and `MergedLookup` and `FirstOfTwo` follow the two calls above.

`FoldInduction` supplies what these proofs need by induction. The induction theorems of the
library quantify over an operator, which the provers cannot instantiate. A least counterexample
needs no such parameter: `WFMin`, applied to the set of naturals or of finite subsets for
which a statement fails, gives one, and the failing statement is refuted there. In this way the
module shows that the recursive function behind the community modules' folds exists and is
unique, hence the equation of a fold, that of a sum (`SumOut`: any summand can be taken out first),
and that powers of two double.

Only model-checked are the liveness properties, since fairness and `ENABLED` are out of the
prover's reach: `EventuallyStored`, `EventuallyCommitted` and `ShutdownCompletes` of the
writers, `ShutdownCompletes` and `EveryRequestEnds` of the gateway, `EndsWhenCancelled`,
`FailureStopsAll` and `TopicsServed` of `Subscribe`, `SentIsStored` and `ClientEnds` of the pipeline.
Every invariant and every action property that a passing run checks is a theorem.

The inductive invariants `GatewayInv`, `SubscribeInv`, `BrokerInv`, `CallerInv`, `StoreInv`, `PipelineInv`,
`RowsInv`, `SchemaInv`, `SoleOwner` and `WeightInv` hold on the instances of the runs as well. The
runs do not list them, since their properties are the consequences that say something about
the code.

## 5. Not modelled

* The text of log lines, `/metrics` and error bodies; Grafana, manifests, scripts, and
  the sample service, which posts random logs.
* The way of an answer to its client: answers are small, and leave when they are given.
* The Kafka writer's limit of attempts (`MaxAttempts`, 10 by default): the model sends again as
  often as there are faults, which is more than the code does once the budget exceeds the limit.
* Durations outside `FlushTimer`: back-off and the 10 s timeouts appear as "may expire now".
* What becomes of an OTLP/HTTP body beyond 8 MiB: it is cut there, and the records are
  those that the rest decodes to.
* An insert that takes effect after its process has died and another has started; the
  effect of a request under way at a crash is part of the crash step.
* Handlers of the memory broker that call the broker again.
* The fields of an event that are merely copied, one by one; what Go's scanning of a
  number does with trailing text.

## 6. Plan

The safety properties are proved. What could be added:

* liveness, should the prover come to support `ENABLED`: the weight of `DuplicatesBounded` and the
  sums of `TimerInv` already measure the progress of a batch;
* a size of OTLP/HTTP bodies in `Gateway`, once it is decided what the gateway promises about bodies
  beyond 8 MiB;
* inserts that take effect after the death of their process, in `Writer`.
