----------------------------- MODULE FlushTimer -----------------------------
(***************************************************************************)
(* How long an event waits in the writer's buffer: the fetch loop of       *)
(* runConsumer (cmd/writer/consumer.go) in discrete time, with its fetch   *)
(* deadline, its ticker and its batch size, whatever the environment       *)
(* variables say (envInt, envDuration, newBatchProcessor).                 *)
(*                                                                         *)
(* The loop looks at the ticker only when a fetch has timed out.  The      *)
(* channel of a Go ticker holds one tick; further ticks are dropped.  What *)
(* the loop does besides waiting takes no time, except for a flush, which  *)
(* takes any.  What a flush writes and commits is the subject of Writer,   *)
(* as are the errors and signals that end the process, here one action.    *)
(***************************************************************************)
EXTENDS Integers

CONSTANTS
    Deadline,          \* the fetch deadline (250 ms), in units of time
    DefaultInterval,   \* the interval used when none, or no usable one, is set (1 s)
    DefaultBatch,      \* the batch size used when none is set (50)
    IntervalSettings,  \* what WRITER_FLUSH_INTERVAL may be
    BatchSettings      \* what WRITER_BATCH_SIZE may be

\* An environment variable: not set, not a number, or a number.
Setting == [form : {"unset", "malformed", "number"}, value : Int]

ASSUME TimerAssumption ==
    /\ Deadline \in Nat \ {0} /\ DefaultInterval \in Nat \ {0} /\ DefaultBatch \in Nat \ {0}
    /\ IntervalSettings \subseteq Setting /\ BatchSettings \subseteq Setting

VARIABLES
    batchSize,  \* proc.cfg.BatchSize
    interval,   \* proc.cfg.FlushInterval
    pc,         \* fetch (in FetchMessage), flush, or down
    n,          \* len(events)
    oldest,     \* how long the oldest of them has waited for a flush
    quiet,      \* how long ago the latest of them was fetched
    waited,     \* how long the current FetchMessage has waited
    untilTick,  \* time until the ticker fires
    ticks,      \* ticks in the ticker's channel, at most one
    inbox       \* messages the Kafka reader has at hand, none or some (1)

config == <<batchSize, interval>>
buffer == <<n, oldest, quiet>>
ticker == <<untilTick, ticks>>
vars == <<batchSize, interval, pc, n, oldest, quiet, waited, untilTick, ticks, inbox>>

-----------------------------------------------------------------------------
(* Configuration. *)

\* envInt and envDuration.
FromEnv(setting, fallback) ==
    IF setting.form = "number" THEN setting.value ELSE fallback

EffBatchSize(setting) ==
    LET size == FromEnv(setting, DefaultBatch) IN IF size < 1 THEN 1 ELSE size

\* Mutant: an interval of zero reaches the ticker.
RawInterval(setting) == FromEnv(setting, DefaultInterval)

\* time.NewTicker panics unless its interval is positive.
EffInterval(setting) ==
    LET d == FromEnv(setting, DefaultInterval) IN IF d <= 0 THEN DefaultInterval ELSE d

-----------------------------------------------------------------------------
(* The loop. *)

Init ==
    /\ batchSize \in {EffBatchSize(s) : s \in BatchSettings}
    /\ interval \in {EffInterval(s) : s \in IntervalSettings}
    /\ pc = "fetch"
    /\ n = 0 /\ oldest = 0 /\ quiet = 0 /\ waited = 0
    /\ untilTick = interval /\ ticks = 0
    /\ inbox = 0

EmptyBuffer == n' = 0 /\ oldest' = 0 /\ quiet' = 0

\* A message arrives at the reader.
Arrive ==
    /\ pc # "down"
    /\ inbox = 0
    /\ inbox' = 1
    /\ UNCHANGED <<config, pc, buffer, waited, ticker>>

\* Mutant: a tick nobody is waiting for is lost.
UnbufferedTick == 0

\* The ticker fires into its channel, which holds one tick.
BufferedTick == IF untilTick = 1 THEN 1 ELSE ticks

\* A unit of time passes.  FetchMessage returns when a message is at hand and
\* no later than at its deadline.
Elapse ==
    /\ pc = "fetch" => inbox = 0 /\ waited < Deadline
    /\ pc # "down"
    /\ ticks' = BufferedTick
    /\ untilTick' = IF untilTick = 1 THEN interval ELSE untilTick - 1
    /\ \/ /\ pc = "fetch"
          /\ waited' = waited + 1
          /\ IF n > 0 THEN oldest' = oldest + 1 /\ quiet' = quiet + 1
                      ELSE UNCHANGED <<oldest, quiet>>
       \/ /\ pc = "flush"
          /\ UNCHANGED <<waited, oldest, quiet>>
    /\ UNCHANGED <<config, pc, n, inbox>>

\* FetchMessage returns a message, which is buffered; another may be at hand.
FetchOK ==
    /\ pc = "fetch"
    /\ inbox = 1
    /\ n' = n + 1
    /\ quiet' = 0
    /\ waited' = 0
    /\ inbox' \in 0..1
    /\ pc' = IF n' >= batchSize THEN "flush" ELSE "fetch"
    /\ UNCHANGED <<config, oldest, ticker>>

\* Mutant: the tick is taken from the channel, but only a full batch is flushed.
TakeTick == ticks' = 0 /\ UNCHANGED pc

\* case <-ticker.C: flush, which returns at once when there is nothing to flush.
TickBranch == ticks' = 0 /\ pc' = IF n > 0 THEN "flush" ELSE "fetch"

\* FetchMessage returns DeadlineExceeded.
Timeout ==
    /\ pc = "fetch"
    /\ waited = Deadline
    /\ waited' = 0
    /\ \/ ticks = 1 /\ TickBranch
       \/ ticks = 0 /\ UNCHANGED <<ticks, pc>>
    /\ UNCHANGED <<config, buffer, untilTick, inbox>>

FlushReturns ==
    /\ pc = "flush"
    /\ pc' = "fetch"
    /\ EmptyBuffer
    /\ waited' = 0
    /\ UNCHANGED <<config, ticker, inbox>>

\* An error or a signal ends the process.
Ends ==
    /\ pc # "down"
    /\ pc' = "down"
    /\ UNCHANGED <<config, buffer, waited, ticker, inbox>>

\* The next process has the same configuration and a new ticker.
Restart ==
    /\ pc = "down"
    /\ pc' = "fetch"
    /\ EmptyBuffer
    /\ waited' = 0
    /\ untilTick' = interval /\ ticks' = 0
    /\ inbox' = 0
    /\ UNCHANGED config

-----------------------------------------------------------------------------
Next ==
    \/ Arrive \/ Elapse
    \/ FetchOK \/ Timeout \/ FlushReturns
    \/ Ends \/ Restart

Spec == Init /\ [][Next]_vars

-----------------------------------------------------------------------------
(* Properties. *)

\* The types of the variables, and the ticker's positive interval.
TypeOK ==
    /\ batchSize \in Nat \ {0} /\ interval \in Nat \ {0}
    /\ pc \in {"fetch", "flush", "down"}
    /\ n \in 0..batchSize
    /\ oldest \in Nat /\ quiet \in Nat /\ waited \in 0..Deadline
    /\ untilTick \in 1..interval
    /\ ticks \in 0..1 /\ inbox \in 0..1

\* However messages arrive, an event waits for its flush at most the interval
\* and one deadline for every further event the batch has room for: a tick is
\* pending after the interval, and from then on each deadline that does not
\* flush has been cut short by another event (consumer.go:50-83).
WaitBounded == oldest <= interval + (batchSize - 1) * Deadline

\* Once messages stop arriving the batch is flushed within the interval and one
\* deadline, however much room it has left.
QuietFlushed == quiet <= interval + Deadline

\* The strengthening of the two bounds: without a pending tick the oldest event
\* came after the last one; with it, every event but the first has used up at
\* most one deadline since.
TimerInv ==
    /\ TypeOK
    /\ n = 0 => oldest = 0 /\ quiet = 0
    /\ quiet <= oldest
    /\ pc = "fetch" => n < batchSize
    /\ pc = "fetch" /\ n > 0 /\ ticks = 0 => oldest + untilTick <= interval
    /\ pc = "fetch" /\ n > 0 /\ ticks = 1 =>
          /\ oldest <= interval + (n - 1) * Deadline + waited
          /\ quiet <= interval + waited
    /\ WaitBounded
    /\ QuietFlushed
=============================================================================
