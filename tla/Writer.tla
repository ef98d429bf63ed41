------------------------------- MODULE Writer -------------------------------
(***************************************************************************)
(* The writer service (cmd/writer): every writer process fetches log       *)
(* events from the topic's partitions, buffers them, inserts a batch into  *)
(* ClickHouse with retries, and only then commits the offsets of the batch *)
(* to its consumer group (runConsumer in cmd/writer/consumer.go,           *)
(* batchProcessor in cmd/writer/batch.go, ClickHouse in                    *)
(* pkg/store/clickhouse.go).                                               *)
(*                                                                         *)
(* The group coordinator, the topic and the table are external: they are   *)
(* modelled from how the writer uses them.  Offsets count from 1, so       *)
(* committed[p] = n says that the first n messages of p are committed (the *)
(* broker would answer n as the next offset to read).  Time is abstracted: *)
(* a 250 ms fetch deadline may expire at any fetch, and a tick of the      *)
(* flush ticker may or may not be pending when it does.                    *)
(***************************************************************************)
EXTENDS Integers, Sequences, FiniteSets, Functions

CONSTANTS
    Writers,       \* writer processes of the consumer group
    NoWriter,      \* "no owner", a value that is not a writer
    Partitions,    \* partitions of the topic
    Payloads,      \* kinds of message on the topic: "garbage" does not decode, and
                   \* "refused" decodes but no column of the table takes it
    BatchSize,     \* WRITER_BATCH_SIZE as configured
    MaxRetries,    \* WRITER_MAX_RETRIES as configured
    PingAttempts,  \* ClickHouseConfig.PingAttempts as configured
    MaxOffset,     \* bound: messages produced on each partition
    MaxFaults,     \* bound: crashes, signals and errors together
    MaxRevokes     \* bound: partitions taken from a live owner by a rebalance

ASSUME WritersAssumption == NoWriter \notin Writers
ASSUME FinitenessAssumption == IsFiniteSet(Writers) /\ IsFiniteSet(Partitions)
ASSUME PayloadsAssumption == Payloads \subseteq {"event", "garbage", "refused"}
ASSUME ConfigAssumption ==
    BatchSize \in Int /\ MaxRetries \in Int /\ PingAttempts \in Int
ASSUME BoundsAssumption == MaxOffset \in Nat /\ MaxFaults \in Nat /\ MaxRevokes \in Nat

VARIABLES
    log,        \* log[p]: the messages of partition p, append only
    committed,  \* committed[p]: number of messages of p the group has committed
    owner,      \* owner[p]: the writer p is assigned to, or NoWriter
    pos,        \* pos[p]: number of messages of p its owner has fetched up to
    rows,       \* rows[m]: rows of ClickHouse's table that hold message m
    pc,         \* pc[w]: where the process is, see Phases
    buf,        \* buf[w]: the slices events and msgs, which grow and shrink together
    attempt,    \* attempt[w]: loop counter of the ping or the retry loop, 0 outside
    why,        \* why[w]: which call of flush is running
    cancelled,  \* cancelled[w]: SIGINT or SIGTERM was received, ctx is cancelled
    metrics,    \* metrics[w]: the process's counters
    faults,     \* faults used so far
    revokes     \* partitions revoked so far

kafkaVars == <<log, committed, owner, pos, revokes>>
flushVars == <<attempt, why>>
vars == <<log, committed, owner, pos, rows, pc, buf, attempt, why, cancelled,
          metrics, faults, revokes>>

-----------------------------------------------------------------------------
(* Configuration, as newBatchProcessor and NewClickHouse normalise it. *)

EffBatchSize == IF BatchSize < 1 THEN 1 ELSE BatchSize

EffRetries == IF MaxRetries < 1 THEN 3 ELSE MaxRetries

EffPings == IF PingAttempts < 1 THEN 30 ELSE PingAttempts

-----------------------------------------------------------------------------
(* Data. *)

Offsets == 1..MaxOffset

Message == [part : Partitions, offset : Offsets]

\* A batch holds a partition's messages up to and including offset o.
HighestBuffered(w, p, o) ==
    /\ \E i \in DOMAIN buf[w] : buf[w][i] = [part |-> p, offset |-> o]
    /\ \A i \in DOMAIN buf[w] : buf[w][i].part = p => buf[w][i].offset <= o

BufferedParts(w) == {m.part : m \in Range(buf[w])}

Phases == {"down", "ping", "fetch", "check", "write", "send", "commit",
           "done", "fatal"}

\* runConsumer is running and SIGTERM is caught (signal.NotifyContext).
Consuming(w) == pc[w] \in {"fetch", "check", "write", "send", "commit"}

Counters == {"eventsWritten", "batchesFlush", "decodeErrors", "writeErrors"}

ZeroMetrics == [c \in Counters |-> 0]

Inc(w, c) ==
    LET counted == [metrics[w] EXCEPT ![c] = @ + 1]
    IN  metrics' = [metrics EXCEPT ![w] = counted]

Init ==
    /\ log = [p \in Partitions |-> <<>>]
    /\ committed = [p \in Partitions |-> 0]
    /\ owner = [p \in Partitions |-> NoWriter]
    /\ pos = [p \in Partitions |-> 0]
    /\ rows = [m \in Message |-> 0]
    /\ pc = [w \in Writers |-> "down"]
    /\ buf = [w \in Writers |-> <<>>]
    /\ attempt = [w \in Writers |-> 0]
    /\ why = [w \in Writers |-> "none"]
    /\ cancelled = [w \in Writers |-> FALSE]
    /\ metrics = [w \in Writers |-> ZeroMetrics]
    /\ faults = 0
    /\ revokes = 0

Fault == faults < MaxFaults /\ faults' = faults + 1

\* An error a cancelled context explains is no fault of its own.
FaultUnlessCancelled(w) == IF cancelled[w] THEN UNCHANGED faults ELSE Fault

-----------------------------------------------------------------------------
(* External: the topic, its consumer group and the table. *)

\* The gateway (or another producer) appends a message to a partition.
Produce(p, payload) ==
    /\ Len(log[p]) < MaxOffset
    /\ log' = [log EXCEPT ![p] = Append(@, payload)]
    /\ UNCHANGED <<committed, owner, pos, rows, pc, buf, flushVars, cancelled,
                   metrics, faults, revokes>>

\* Mutant: a reader that always starts at FirstOffset.
FirstPosition(p) == 0

\* StartOffset FirstOffset only matters while the group has committed nothing.
StartPosition(p) == committed[p]

\* The group assigns an unowned partition to a member, which resumes after
\* the committed offset whatever it fetched from the partition before.
Assign(p, w) ==
    /\ owner[p] = NoWriter
    /\ Consuming(w)
    /\ owner' = [owner EXCEPT ![p] = w]
    /\ pos' = [pos EXCEPT ![p] = StartPosition(p)]
    /\ UNCHANGED <<log, committed, rows, pc, buf, flushVars, cancelled, metrics,
                   faults, revokes>>

\* A rebalance takes the partition from its owner, whose buffer stays as it is.
Revoke(p) ==
    /\ owner[p] # NoWriter
    /\ revokes < MaxRevokes
    /\ revokes' = revokes + 1
    /\ owner' = [owner EXCEPT ![p] = NoWriter]
    /\ pos' = [pos EXCEPT ![p] = 0]
    /\ UNCHANGED <<log, committed, rows, pc, buf, flushVars, cancelled, metrics, faults>>

\* The group member leaves (reader.Close) or its session expires.
Release(w) ==
    /\ owner' = [p \in Partitions |-> IF owner[p] = w THEN NoWriter ELSE owner[p]]
    /\ pos' = [p \in Partitions |-> IF owner[p] = w THEN 0 ELSE pos[p]]

\* CommitMessages applied to the partitions in P: the highest offset of each
\* partition in the batch, even when the group has already committed more or
\* has assigned the partition to another member.
CommitUpTo(w, P) ==
    committed' \in {c \in [Partitions -> 0..MaxOffset] : \A p \in Partitions :
        IF p \in P \cap BufferedParts(w)
        THEN HighestBuffered(w, p, c[p])
        ELSE c[p] = committed[p]}

\* The table gains a row for each event of the batch whose index is in I.
Insert(w, I) ==
    rows' = [m \in Message |-> rows[m] + Cardinality({i \in I : buf[w][i] = m})]

-----------------------------------------------------------------------------
(* Start-up: main connects to ClickHouse before it consumes. *)

Start(w) ==
    /\ pc[w] \in {"down", "done", "fatal"}
    /\ pc' = [pc EXCEPT ![w] = "ping"]
    /\ buf' = [buf EXCEPT ![w] = <<>>]
    /\ attempt' = [attempt EXCEPT ![w] = 1]
    /\ cancelled' = [cancelled EXCEPT ![w] = FALSE]
    /\ metrics' = [metrics EXCEPT ![w] = ZeroMetrics]
    /\ UNCHANGED <<kafkaVars, rows, why, faults>>

PingOK(w) ==
    /\ pc[w] = "ping"
    /\ pc' = [pc EXCEPT ![w] = "fetch"]
    /\ attempt' = [attempt EXCEPT ![w] = 0]
    /\ UNCHANGED <<kafkaVars, rows, buf, why, cancelled, metrics, faults>>

PingErr(w) ==
    /\ pc[w] = "ping"
    /\ Fault
    /\ \/ /\ attempt[w] < EffPings
          /\ attempt' = [attempt EXCEPT ![w] = @ + 1]
          /\ UNCHANGED pc
       \/ /\ attempt[w] >= EffPings
          /\ attempt' = [attempt EXCEPT ![w] = 0]
          /\ pc' = [pc EXCEPT ![w] = "fatal"]
    /\ UNCHANGED <<kafkaVars, rows, buf, why, cancelled, metrics>>

-----------------------------------------------------------------------------
(* runConsumer: the fetch loop. *)

\* runConsumer returns and main ends: the reader is closed, and log.Fatalf is
\* called unless the error is nil or context.Canceled.  What the buffer still
\* held is kept until the next Start only to state properties about it.
Exit(w, status) ==
    /\ pc' = [pc EXCEPT ![w] = status]
    /\ Release(w)
    /\ attempt' = [attempt EXCEPT ![w] = 0]
    /\ why' = [why EXCEPT ![w] = "none"]

\* A call of flush with events in the buffer.
BeginFlush(w, reason) ==
    /\ pc' = [pc EXCEPT ![w] = "write"]
    /\ attempt' = [attempt EXCEPT ![w] = 1]
    /\ why' = [why EXCEPT ![w] = reason]

BatchFull(events) == Len(events) >= EffBatchSize

\* FetchMessage returns the next message of p and it decodes.
FetchEvent(w, p) ==
    /\ pc[w] = "fetch"
    /\ owner[p] = w
    /\ pos[p] < Len(log[p])
    /\ log[p][pos[p] + 1] # "garbage"
    /\ pos' = [pos EXCEPT ![p] = @ + 1]
    /\ buf' = [buf EXCEPT ![w] = Append(@, [part |-> p, offset |-> pos[p] + 1])]
    /\ \/ /\ BatchFull(buf'[w])
          /\ BeginFlush(w, "full")
       \/ /\ ~BatchFull(buf'[w])
          /\ UNCHANGED <<pc, flushVars>>
    /\ UNCHANGED <<log, committed, owner, rows, cancelled, metrics, faults, revokes>>

\* Mutant: count the undecodable message and go on with the next one.
SkipGarbage(w, p) ==
    /\ pc[w] = "fetch"
    /\ owner[p] = w
    /\ pos[p] < Len(log[p])
    /\ log[p][pos[p] + 1] = "garbage"
    /\ Inc(w, "decodeErrors")
    /\ pos' = [pos EXCEPT ![p] = @ + 1]
    /\ UNCHANGED <<log, committed, owner, rows, pc, buf, flushVars, cancelled, faults, revokes>>

\* FetchMessage returns the next message of p and UnmarshalEvent rejects it.
FetchGarbage(w, p) ==
    /\ pc[w] = "fetch"
    /\ owner[p] = w
    /\ pos[p] < Len(log[p])
    /\ log[p][pos[p] + 1] = "garbage"
    /\ Inc(w, "decodeErrors")
    /\ Exit(w, "fatal")
    /\ UNCHANGED <<log, committed, rows, buf, cancelled, faults, revokes>>

\* Mutant: the pending tick is consumed without flushing.
IgnoreTick(w) ==
    /\ pc[w] = "fetch"
    /\ pc' = [pc EXCEPT ![w] = "check"]
    /\ UNCHANGED <<kafkaVars, rows, buf, flushVars, cancelled, metrics, faults>>

\* The fetch deadline expires and a tick is pending: flush if there is
\* anything to flush.
TimeoutTick(w) ==
    /\ pc[w] = "fetch"
    /\ \/ /\ buf[w] # <<>>
          /\ BeginFlush(w, "tick")
       \/ /\ buf[w] = <<>>
          /\ pc' = [pc EXCEPT ![w] = "check"]
          /\ UNCHANGED flushVars
    /\ UNCHANGED <<kafkaVars, rows, buf, cancelled, metrics, faults>>

\* The fetch deadline expires and no tick is pending.
TimeoutIdle(w) ==
    /\ pc[w] = "fetch"
    /\ pc' = [pc EXCEPT ![w] = "check"]
    /\ UNCHANGED <<kafkaVars, rows, buf, flushVars, cancelled, metrics, faults>>

\* Mutant: flush on cancellation but stay in the loop.
FlushAndContinue(w) ==
    \/ /\ buf[w] # <<>>
       /\ BeginFlush(w, "tick")
       /\ UNCHANGED <<owner, pos>>
    \/ /\ buf[w] = <<>>
       /\ pc' = [pc EXCEPT ![w] = "fetch"]
       /\ UNCHANGED <<owner, pos, flushVars>>

\* return flush()
ReturnFlush(w) ==
    \/ /\ buf[w] # <<>>
       /\ BeginFlush(w, "exit")
       /\ UNCHANGED <<owner, pos>>
    \/ /\ buf[w] = <<>>
       /\ Exit(w, "done")

\* After a deadline (and the tick's flush) ctx.Err() is consulted.
CheckCancelled(w) ==
    /\ pc[w] = "check"
    /\ \/ /\ cancelled[w]
          /\ ReturnFlush(w)
       \/ /\ ~cancelled[w]
          /\ pc' = [pc EXCEPT ![w] = "fetch"]
          /\ UNCHANGED <<owner, pos, flushVars>>
    /\ UNCHANGED <<log, committed, rows, buf, cancelled, metrics, faults, revokes>>

\* FetchMessage returns context.Canceled.
FetchCanceled(w) ==
    /\ pc[w] = "fetch"
    /\ cancelled[w]
    /\ ReturnFlush(w)
    /\ UNCHANGED <<log, committed, rows, buf, cancelled, metrics, faults, revokes>>

\* FetchMessage returns any other error.
FetchError(w) ==
    /\ pc[w] = "fetch"
    /\ Fault
    /\ Exit(w, "fatal")
    /\ UNCHANGED <<log, committed, rows, buf, cancelled, metrics, revokes>>

-----------------------------------------------------------------------------
(* batchProcessor.flush, writeWithRetry and ClickHouse.WriteBatch. *)

MayRetry(w) == attempt[w] < EffRetries

\* Mutant: go on as if the batch had been written.
SwallowWriteError(w, isCanceled) ==
    /\ Inc(w, "writeErrors")
    /\ pc' = [pc EXCEPT ![w] = "commit"]
    /\ attempt' = [attempt EXCEPT ![w] = 0]
    /\ UNCHANGED <<owner, pos, why, buf>>

\* Mutant: drop the batch that could not be written and fetch on.
DropBatch(w, isCanceled) ==
    /\ Inc(w, "writeErrors")
    /\ pc' = [pc EXCEPT ![w] = "fetch"]
    /\ attempt' = [attempt EXCEPT ![w] = 0]
    /\ buf' = [buf EXCEPT ![w] = <<>>]
    /\ UNCHANGED <<owner, pos, why>>

\* The retries are exhausted: flush counts the error and every caller returns it.
GiveUp(w, isCanceled) ==
    /\ Inc(w, "writeErrors")
    /\ Exit(w, IF isCanceled THEN "done" ELSE "fatal")
    /\ UNCHANGED buf

\* WriteBatch returned an error: back off and try again, or give up.
AttemptFailed(w, isCanceled) ==
    \/ /\ MayRetry(w)
       /\ pc' = [pc EXCEPT ![w] = "write"]
       /\ attempt' = [attempt EXCEPT ![w] = @ + 1]
       /\ UNCHANGED <<owner, pos, why, buf, metrics>>
    \/ /\ ~MayRetry(w)
       /\ GiveUp(w, isCanceled)

\* batch.Append takes every event of the batch.
Accepted(w) == \A m \in Range(buf[w]) : log[m.part][m.offset] = "event"

\* The events of a batch that can come to be in the table: those of a batch that
\* reaches batch.Send.
Sendable(w) == IF Accepted(w) THEN DOMAIN buf[w] ELSE {}

\* WriteBatch looks at ctx.Err() first; the batch is prepared and appended to
\* only when the context is live.
WriteBatchStart(w) ==
    /\ pc[w] = "write"
    /\ ~cancelled[w]
    /\ pc' = [pc EXCEPT ![w] = "send"]
    /\ UNCHANGED <<kafkaVars, rows, buf, flushVars, cancelled, metrics, faults>>

WriteBatchCanceled(w) ==
    /\ pc[w] = "write"
    /\ cancelled[w]
    /\ AttemptFailed(w, TRUE)
    /\ UNCHANGED <<log, committed, rows, cancelled, faults, revokes>>

\* Mutant: count the batch again for every retry it needed.
CountAttempts(w) ==
    [metrics[w] EXCEPT !["eventsWritten"] = @ + attempt[w] * Len(buf[w]),
                       !["batchesFlush"] = @ + 1]

\* incEventsWritten(len(events)) and incBatchesFlushed.
CountFlush(w) ==
    [metrics[w] EXCEPT !["eventsWritten"] = @ + Len(buf[w]),
                       !["batchesFlush"] = @ + 1]

SendOK(w) ==
    /\ pc[w] = "send"
    /\ Accepted(w)
    /\ Insert(w, DOMAIN buf[w])
    /\ metrics' = [metrics EXCEPT ![w] = CountFlush(w)]
    /\ attempt' = [attempt EXCEPT ![w] = 0]
    /\ pc' = [pc EXCEPT ![w] = "commit"]
    /\ UNCHANGED <<kafkaVars, buf, why, cancelled, faults>>

\* PrepareBatch, Append or Send fails.  The answer may be lost after the rows
\* were written, and a batch that spans days is inserted part by part, so any
\* part of it may be in the table.
SendErr(w) ==
    /\ pc[w] = "send"
    /\ FaultUnlessCancelled(w)
    /\ \E I \in SUBSET Sendable(w) : Insert(w, I)
    /\ \E isCanceled \in {FALSE, cancelled[w]} : AttemptFailed(w, isCanceled)
    /\ UNCHANGED <<log, committed, cancelled, revokes>>

\* Mutant: the events the table refuses are left out of the batch.
SendTheRest(w) ==
    /\ pc[w] = "send"
    /\ ~Accepted(w)
    /\ Insert(w, {i \in DOMAIN buf[w] : log[buf[w][i].part][buf[w][i].offset] = "event"})
    /\ attempt' = [attempt EXCEPT ![w] = 0]
    /\ pc' = [pc EXCEPT ![w] = "commit"]
    /\ UNCHANGED <<kafkaVars, buf, why, cancelled, metrics, faults>>

\* batch.Append fails for one event, at every attempt: nothing is sent.
AppendRefused(w) ==
    /\ pc[w] = "send"
    /\ ~Accepted(w)
    /\ AttemptFailed(w, FALSE)
    /\ UNCHANGED <<log, committed, rows, cancelled, faults, revokes>>

-----------------------------------------------------------------------------
(* CommitMessages and the end of flush. *)

\* Mutant: the slices are not truncated after the commit.
KeepBatch(w) == buf[w]

\* events = events[:0]; msgs = msgs[:0]
ClearedBatch(w) == <<>>

\* Where runConsumer goes when this call of flush returns nil.
AfterFlush(w) == [full |-> "fetch", tick |-> "check", exit |-> "done"][why[w]]

\* Mutant: flush clears the batch without committing it.
SkipCommit(w) ==
    /\ pc[w] = "commit"
    /\ buf' = [buf EXCEPT ![w] = ClearedBatch(w)]
    /\ pc' = [pc EXCEPT ![w] = AfterFlush(w)]
    /\ why' = [why EXCEPT ![w] = "none"]
    /\ IF AfterFlush(w) = "done" THEN Release(w) ELSE UNCHANGED <<owner, pos>>
    /\ UNCHANGED <<log, committed, rows, attempt, cancelled, metrics, faults, revokes>>

CommitOK(w) ==
    /\ pc[w] = "commit"
    /\ CommitUpTo(w, Partitions)
    /\ buf' = [buf EXCEPT ![w] = ClearedBatch(w)]
    /\ pc' = [pc EXCEPT ![w] = AfterFlush(w)]
    /\ why' = [why EXCEPT ![w] = "none"]
    /\ IF AfterFlush(w) = "done" THEN Release(w) ELSE UNCHANGED <<owner, pos>>
    /\ UNCHANGED <<log, rows, attempt, cancelled, metrics, faults, revokes>>

\* The commit fails, or the context ends while it is under way: any of the
\* partitions may have been committed.
CommitErr(w) ==
    /\ pc[w] = "commit"
    /\ FaultUnlessCancelled(w)
    /\ \E P \in SUBSET Partitions : CommitUpTo(w, P)
    /\ \E isCanceled \in {FALSE, cancelled[w]} :
            Exit(w, IF isCanceled THEN "done" ELSE "fatal")
    /\ UNCHANGED <<log, rows, buf, cancelled, metrics, revokes>>

-----------------------------------------------------------------------------
(* Signals and crashes. *)

\* SIGINT or SIGTERM while NotifyContext is in force.
Cancel(w) ==
    /\ Consuming(w)
    /\ ~cancelled[w]
    /\ Fault
    /\ cancelled' = [cancelled EXCEPT ![w] = TRUE]
    /\ UNCHANGED <<kafkaVars, rows, pc, buf, flushVars, metrics>>

\* The process dies (a signal before NotifyContext, SIGKILL, log.Fatalf of the
\* health server's goroutine).  A request under way may still take effect.
Crash(w) ==
    /\ Consuming(w) \/ pc[w] = "ping"
    /\ Fault
    /\ \E I \in (IF pc[w] = "send" THEN SUBSET Sendable(w) ELSE {{}}) : Insert(w, I)
    /\ \E P \in (IF pc[w] = "commit" THEN SUBSET Partitions ELSE {{}}) : CommitUpTo(w, P)
    /\ Exit(w, "down")
    /\ buf' = [buf EXCEPT ![w] = <<>>]
    /\ UNCHANGED <<log, cancelled, metrics, revokes>>

-----------------------------------------------------------------------------
Topic == \E p \in Partitions : \E payload \in Payloads : Produce(p, payload)

Group == \E p \in Partitions : Revoke(p) \/ \E w \in Writers : Assign(p, w)

FetchMessage(w) == \E p \in Partitions : FetchEvent(w, p) \/ FetchGarbage(w, p)

Startup(w) == Start(w) \/ PingOK(w) \/ PingErr(w)

Loop(w) ==
    \/ TimeoutTick(w) \/ TimeoutIdle(w) \/ CheckCancelled(w)
    \/ FetchCanceled(w) \/ FetchError(w)

Flush(w) ==
    \/ WriteBatchStart(w) \/ WriteBatchCanceled(w)
    \/ SendOK(w) \/ SendErr(w) \/ AppendRefused(w)
    \/ CommitOK(w) \/ CommitErr(w)

Environment(w) == Cancel(w) \/ Crash(w)

Process(w) == Startup(w) \/ FetchMessage(w) \/ Loop(w) \/ Flush(w) \/ Environment(w)

Next == Topic \/ Group \/ \E w \in Writers : Process(w)

Spec == Init /\ [][Next]_vars

\* The broker delivers what is on a partition and the ticker fires, however
\* often an idle deadline comes first (strong fairness); the group assigns free
\* partitions, the orchestrator restarts a writer that ended, and a process
\* that can take a step of its own takes one (weak fairness).
Fairness ==
    /\ WF_vars(\E p \in Partitions, w \in Writers : Assign(p, w))
    /\ \A w \in Writers : /\ WF_vars(Startup(w))
                         /\ WF_vars(Loop(w))
                         /\ WF_vars(Flush(w))
                         /\ SF_vars(FetchMessage(w))
                         /\ SF_vars(TimeoutTick(w))

FairSpec == Spec /\ Fairness

-----------------------------------------------------------------------------
(* Invariants. *)

VarTypes ==
    /\ log \in [Partitions -> Seq(Payloads)]
    /\ committed \in [Partitions -> 0..MaxOffset]
    /\ owner \in [Partitions -> Writers \cup {NoWriter}]
    /\ pos \in [Partitions -> 0..MaxOffset]
    /\ rows \in [Message -> Nat]
    /\ pc \in [Writers -> Phases]
    /\ buf \in [Writers -> Seq(Message)]
    /\ attempt \in [Writers -> Nat]
    /\ why \in [Writers -> {"none", "full", "tick", "exit"}]
    /\ cancelled \in [Writers -> BOOLEAN]
    /\ metrics \in [Writers -> [Counters -> Nat]]
    /\ faults \in 0..MaxFaults
    /\ revokes \in 0..MaxRevokes

\* The ping loop and the retry loop stay within their bounds.
AttemptBounded ==
    \A w \in Writers :
        /\ pc[w] = "ping" => attempt[w] <= EffPings
        /\ pc[w] # "ping" => attempt[w] <= EffRetries

\* The types of the variables, and of the loop counters of NewClickHouse and
\* writeWithRetry in particular.
TypeOK == VarTypes /\ AttemptBounded

Stored(m) == rows[m] > 0

\* At-least-once delivery (pkg/broker/README.md:35): an offset is committed
\* only over messages that are in the table, whatever crashes, lost answers,
\* rebalances and commits of former owners came before (consumer.go:35-48).
CommittedIsStored ==
    \A m \in Message : m.offset <= committed[m.part] => Stored(m)

\* Nothing the group has handed out is forgotten: a message behind its owner's
\* fetch position is in the table or in that owner's buffer, so no message
\* falls between the buffer, the retries and the position.
InFlightAccounted ==
    \A m \in Message :
        LET w == owner[m.part] IN
        w # NoWriter /\ m.offset <= pos[m.part] => Stored(m) \/ m \in Range(buf[w])

\* A message that does not decode, or that the table refuses, is never stored
\* and never committed, nor is anything behind it: the writer returns before the
\* offset can be part of a batch (consumer.go:56-60), or before the batch it is
\* part of is sent (clickhouse.go:133-153), in this process and in every later
\* one, whatever batches of other partitions and former owners do meanwhile.
NeverSkipsPoison ==
    \A p \in Partitions, n \in Offsets :
        n <= Len(log[p]) /\ log[p][n] # "event" =>
            /\ committed[p] < n
            /\ \A m \in Message : m.part = p /\ m.offset >= n => ~Stored(m)

\* "Max events per ClickHouse flush" (deploy/README.md:137): no batch grows past
\* the configured size although flushes also come from the ticker.
BatchBounded == \A w \in Writers : Len(buf[w]) <= EffBatchSize

\* Every fault (crash, signal, error) and every revocation at most doubles the
\* rows of a message, so that without them delivery is exactly once.  (A
\* rebalance may put a message into the same batch twice, and a lost answer
\* writes both again.)
DuplicatesBounded == \A m \in Message : rows[m] <= 2 ^ (faults + revokes)

\* The counters the running processes export never claim more events than the
\* table received ("Events persisted to ClickHouse", metrics.go:24), and a
\* process that counted a failed write or decode has stopped.
MetricsHonest ==
    /\ SumFunction([w \in Writers |-> metrics[w]["eventsWritten"]]) <= SumFunction(rows)
    /\ \A w \in Writers :
          /\ metrics[w]["batchesFlush"] <= metrics[w]["eventsWritten"]
          /\ metrics[w]["decodeErrors"] + metrics[w]["writeErrors"] > 0 =>
                pc[w] \in {"done", "fatal"}

-----------------------------------------------------------------------------
(* The inductive strengthening of the invariants above. *)

\* A buffer has no hole the table does not fill, so committing its highest
\* offset commits nothing that was never stored.
BufferClosed ==
    \A w \in Writers : \A m \in Range(buf[w]) : \A k \in Message :
        k.part = m.part /\ k.offset <= m.offset => Stored(k) \/ k \in Range(buf[w])

\* The first n messages of p are on the topic and decode.
DecodedUpTo(p, n) ==
    /\ n <= Len(log[p])
    /\ \A k \in 1..n : log[p][k] # "garbage"

\* Writers reach a message only over messages that decode.
DecodedPrefix ==
    /\ \A p \in Partitions : owner[p] # NoWriter => DecodedUpTo(p, pos[p])
    /\ \A m \in Message :
         Stored(m) \/ (\E w \in Writers : m \in Range(buf[w])) =>
            DecodedUpTo(m.part, m.offset)

\* What is in the table has behind it only what the table accepts.
AcceptedPrefix ==
    \A m \in Message : Stored(m) => \A k \in 1..m.offset : log[m.part][k] = "event"

LogBounded == \A p \in Partitions : Len(log[p]) <= MaxOffset

\* What relates the topic, the group, the buffers and the table.
DataInv ==
    /\ LogBounded
    /\ CommittedIsStored
    /\ InFlightAccounted
    /\ BufferClosed
    /\ DecodedPrefix
    /\ AcceptedPrefix

\* What the control state of a process says about its buffer.
ControlOf(w) ==
    /\ pc[w] = "ping" => buf[w] = <<>>
    /\ pc[w] \in {"fetch", "check"} => Len(buf[w]) < EffBatchSize
    /\ Len(buf[w]) <= EffBatchSize
    /\ pc[w] \in {"write", "send", "commit"} => why[w] # "none"
    /\ pc[w] = "commit" => \A m \in Range(buf[w]) : Stored(m)

ControlInv ==
    /\ \A p \in Partitions : owner[p] # NoWriter => Consuming(owner[p])
    /\ \A w \in Writers : ControlOf(w)

\* The inductive invariant: every step of a writer, of its group and of its
\* environment preserves it, and it implies the safety invariants.
IndInv == TypeOK /\ DataInv /\ ControlInv

-----------------------------------------------------------------------------
(* Action and temporal properties. *)

\* Only a rebalance that takes a partition from a live writer can move a
\* committed offset back (its buffer is committed later, over what the next
\* owner committed); crashes, failed writes and failed commits never do.
CommitMonotone ==
    [][revokes = 0 => \A p \in Partitions : committed'[p] >= committed[p]]_vars

Poisoned == \E p \in Partitions : \E n \in DOMAIN log[p] : log[p][n] # "event"

\* Every message of a topic without poison reaches the table, although writers
\* crash, retry and lose partitions on the way, and although a batch that is
\* never filled is flushed by the ticker only.
EventuallyStored ==
    \A m \in Message : m.offset <= Len(log[m.part]) ~> Stored(m) \/ Poisoned

\* Unless partitions are taken from live writers, it is also committed, and
\* stays so.
EventuallyCommitted ==
    \A m \in Message :
        m.offset <= Len(log[m.part]) ~>
            [](m.offset <= committed[m.part]) \/ Poisoned \/ revokes > 0

\* A signalled writer stops: neither a retry loop nor a flush nor the fetch loop
\* keeps it (consumer.go:71-87).
ShutdownCompletes ==
    \A w \in Writers : cancelled[w] /\ Consuming(w) ~> ~Consuming(w)

\* "Shutdown flushes the in-flight batch before exit." (deploy/README.md:142):
\* a writer that ended on a signal holds no event it did not write.
ShutdownFlushes ==
    \A w \in Writers : pc[w] = "done" => \A m \in Range(buf[w]) : Stored(m)

-----------------------------------------------------------------------------
(* Refinement. *)

StoredMessages == {m \in Message : Stored(m)}

Delivery == INSTANCE AtLeastOnce WITH stored <- StoredMessages

\* The writers, with their batches, retries, crashes and rebalances, implement
\* at-least-once delivery: only events on the topic enter the table, none is
\* removed, and every move of an offset stays behind what the table holds.
ImplementsAtLeastOnce == Delivery!Spec
=============================================================================
