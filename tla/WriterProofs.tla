---------------------------- MODULE WriterProofs ----------------------------
(***************************************************************************)
(* Proofs about Writer for any number of writers and partitions, any       *)
(* configuration and any bounds: its invariants hold and it implements     *)
(* AtLeastOnce.                                                            *)
(***************************************************************************)
EXTENDS Writer, FiniteSetTheorems, TLAPS

-----------------------------------------------------------------------------
(* Lemmas about the operators. *)

\* The normalised configuration is usable: newBatchProcessor and NewClickHouse
\* never leave a batch size or a number of attempts below one.
LEMMA EffPositive ==
    /\ EffBatchSize \in Nat \ {0}
    /\ EffRetries \in Nat \ {0}
    /\ EffPings \in Nat \ {0}
BY ConfigAssumption DEF EffBatchSize, EffRetries, EffPings

\* Insert keeps the table's type and every row, adds rows only for messages of
\* the batch, and adds one for each of them when the whole batch is sent.
LEMMA InsertFacts ==
    ASSUME TypeOK, NEW w \in Writers, NEW I \in SUBSET (DOMAIN buf[w]), Insert(w, I)
    PROVE  /\ rows' \in [Message -> Nat]
           /\ \A m \in Message : Stored(m) => Stored(m)'
           /\ \A m \in Message : Stored(m)' => Stored(m) \/ (m \in Range(buf[w]) /\ I # {})
           /\ I = DOMAIN buf[w] => \A m \in Range(buf[w]) : Stored(m)'
<1> DEFINE Copies(m) == {i \in I : buf[w][i] = m}
<1>1. IsFiniteSet(I)
  <2>1. DOMAIN buf[w] = 1..Len(buf[w]) /\ Len(buf[w]) \in Nat
    BY DEF TypeOK, VarTypes, AttemptBounded
  <2>2. IsFiniteSet(DOMAIN buf[w])
    BY <2>1, FS_Interval
  <2> QED  BY <2>2, FS_Subset
<1>2. \A m : IsFiniteSet(Copies(m))
  BY <1>1, FS_Subset
<1>3. \A m : Cardinality(Copies(m)) \in Nat
  BY <1>2, FS_CardinalityType
<1>4. \A m : Cardinality(Copies(m)) = 0 <=> Copies(m) = {}
  BY <1>2, FS_EmptySet
<1>5. rows' = [m \in Message |-> rows[m] + Cardinality(Copies(m))]
  BY DEF Insert
<1>6. rows \in [Message -> Nat]
  BY DEF TypeOK, VarTypes, AttemptBounded
<1> HIDE DEF Copies
<1>7. rows' \in [Message -> Nat]
  BY <1>3, <1>5, <1>6
<1>8. \A m \in Message : Stored(m) => Stored(m)'
  BY <1>3, <1>5, <1>6 DEF Stored
<1>9. ASSUME NEW m \in Message, Stored(m)'
      PROVE  Stored(m) \/ (m \in Range(buf[w]) /\ I # {})
  <2>1. CASE Copies(m) = {}
    BY <2>1, <1>4, <1>5, <1>6, <1>9 DEF Stored
  <2>2. CASE Copies(m) # {}
    BY <2>2 DEF Copies, Range
  <2> QED  BY <2>1, <2>2
<1>10. ASSUME I = DOMAIN buf[w], NEW m \in Range(buf[w])
       PROVE  Stored(m)'
  <2>1. m \in Message
    BY DEF TypeOK, VarTypes, AttemptBounded, Range
  <2>2. Copies(m) # {}
    BY <1>10 DEF Copies, Range
  <2>3. Cardinality(Copies(m)) > 0
    BY <2>2, <1>3, <1>4
  <2> QED  BY <2>1, <2>3, <1>3, <1>5, <1>6 DEF Stored
<1> QED  BY <1>7, <1>8, <1>9, <1>10

\* Only batches the table accepts are sent.
LEMMA SendableFacts ==
    ASSUME NEW w \in Writers, NEW I \in SUBSET Sendable(w)
    PROVE  I \in SUBSET (DOMAIN buf[w]) /\ (I # {} => Accepted(w))
BY DEF Sendable

\* A commit keeps the offsets' type and moves a partition's offset only to
\* that of a message of the batch.
LEMMA CommitFacts ==
    ASSUME TypeOK, NEW w \in Writers, NEW P \in SUBSET Partitions, CommitUpTo(w, P)
    PROVE  /\ committed' \in [Partitions -> 0..MaxOffset]
           /\ \A p \in Partitions :
                \/ committed'[p] = committed[p]
                \/ [part |-> p, offset |-> committed'[p]] \in Range(buf[w])
BY DEF CommitUpTo, HighestBuffered, Range

\* Where a flush returns to is a phase, and a consuming one unless it ended.
LEMMA AfterFlushFacts ==
    ASSUME TypeOK, NEW w \in Writers, why[w] # "none"
    PROVE  AfterFlush(w) \in {"fetch", "check", "done"}
BY DEF TypeOK, VarTypes, AttemptBounded, AfterFlush

-----------------------------------------------------------------------------
(* Type correctness. *)

\* Type correctness holds initially.
LEMMA InitType == Init => TypeOK
BY EffPositive, BoundsAssumption
DEF Init, TypeOK, VarTypes, AttemptBounded, Message, Offsets, Phases, Counters, ZeroMetrics

\* Steps of the topic and of the group keep the types.
LEMMA ExternalType ==
    ASSUME TypeOK, LogBounded, Topic \/ Group
    PROVE  TypeOK'
<1> USE DEF TypeOK, VarTypes, AttemptBounded
<1>1. ASSUME NEW p \in Partitions, NEW payload \in Payloads, Produce(p, payload)
      PROVE  TypeOK'
  BY <1>1 DEF Produce, flushVars
<1>2. ASSUME NEW p \in Partitions, Revoke(p)
      PROVE  TypeOK'
  BY <1>2, BoundsAssumption DEF Revoke, flushVars
<1>3. ASSUME NEW p \in Partitions, NEW w \in Writers, Assign(p, w)
      PROVE  TypeOK'
  BY <1>3 DEF Assign, StartPosition, flushVars
<1> QED  BY <1>1, <1>2, <1>3 DEF Topic, Group

\* Counting keeps the counters' type.
LEMMA IncType ==
    ASSUME TypeOK, NEW w \in Writers, NEW c \in Counters, Inc(w, c)
    PROVE  metrics' \in [Writers -> [Counters -> Nat]]
<1> DEFINE counted == [metrics[w] EXCEPT ![c] = @ + 1]
<1>1. metrics \in [Writers -> [Counters -> Nat]]
  BY DEF TypeOK, VarTypes
<1>2. counted \in [Counters -> Nat]
  BY <1>1
<1>3. metrics' = [metrics EXCEPT ![w] = counted]
  BY DEF Inc
<1> HIDE DEF counted
<1> QED  BY <1>1, <1>2, <1>3

\* A fault is counted within its bound.
LEMMA FaultType ==
    ASSUME TypeOK, NEW w \in Writers, Fault \/ FaultUnlessCancelled(w)
    PROVE  faults' \in 0..MaxFaults
BY BoundsAssumption DEF TypeOK, VarTypes, Fault, FaultUnlessCancelled

\* Leaving the group keeps the types of what it changes.
LEMMA ReleaseType ==
    ASSUME TypeOK, NEW w \in Writers, Release(w)
    PROVE  /\ owner' \in [Partitions -> Writers \cup {NoWriter}]
           /\ pos' \in [Partitions -> 0..MaxOffset]
BY BoundsAssumption DEF TypeOK, VarTypes, Release

\* So does the end of the process.
LEMMA ExitType ==
    ASSUME TypeOK, NEW w \in Writers, NEW status \in {"done", "fatal", "down"},
           Exit(w, status)
    PROVE  /\ owner' \in [Partitions -> Writers \cup {NoWriter}]
           /\ pos' \in [Partitions -> 0..MaxOffset]
           /\ pc' \in [Writers -> Phases]
           /\ attempt' \in [Writers -> Nat]
           /\ AttemptBounded'
           /\ why' \in [Writers -> {"none", "full", "tick", "exit"}]
BY ReleaseType, EffPositive DEF TypeOK, VarTypes, AttemptBounded, Exit, Phases

\* And the start of a flush.
LEMMA BeginFlushType ==
    ASSUME TypeOK, NEW w \in Writers, NEW reason \in {"full", "tick", "exit"},
           BeginFlush(w, reason)
    PROVE  /\ pc' \in [Writers -> Phases]
           /\ attempt' \in [Writers -> Nat]
           /\ AttemptBounded'
           /\ why' \in [Writers -> {"none", "full", "tick", "exit"}]
BY EffPositive DEF TypeOK, VarTypes, AttemptBounded, BeginFlush, Phases

\* A move of w to another phase that leaves its loop counter alone.
LEMMA MoveType ==
    ASSUME TypeOK, NEW w \in Writers, NEW phase \in Phases \ {"ping"},
           pc[w] # "ping", pc' = [pc EXCEPT ![w] = phase], UNCHANGED attempt
    PROVE  pc' \in [Writers -> Phases] /\ AttemptBounded'
BY DEF TypeOK, VarTypes, AttemptBounded

\* Steps of a process keep the types.
LEMMA StartupType ==
    ASSUME TypeOK, NEW w \in Writers, Startup(w)
    PROVE  TypeOK'
<1> USE EffPositive, BoundsAssumption DEF TypeOK, VarTypes, AttemptBounded, kafkaVars, Phases
<1>1. CASE Start(w)
  BY <1>1 DEF Start, Counters, ZeroMetrics
<1>2. CASE PingOK(w)
  BY <1>2 DEF PingOK
<1>3. CASE PingErr(w)
  <2>1. faults' \in 0..MaxFaults
    BY <1>3, FaultType DEF PingErr
  <2>2. CASE attempt[w] < EffPings /\ attempt' = [attempt EXCEPT ![w] = @ + 1] /\ UNCHANGED pc
    <3>1. VarTypes'
      BY <1>3, <2>1, <2>2 DEF PingErr
    <3>2. AttemptBounded'
      BY <1>3, <2>2 DEF PingErr
    <3> QED  BY <3>1, <3>2
  <2>3. CASE attempt' = [attempt EXCEPT ![w] = 0] /\ pc' = [pc EXCEPT ![w] = "fatal"]
    <3>1. VarTypes'
      BY <1>3, <2>1, <2>3 DEF PingErr
    <3>2. AttemptBounded'
      BY <1>3, <2>3 DEF PingErr
    <3> QED  BY <3>1, <3>2
  <2> QED  BY <1>3, <2>2, <2>3 DEF PingErr
<1> QED  BY <1>1, <1>2, <1>3 DEF Startup

\* Fetching a message preserves type correctness.
LEMMA FetchType ==
    ASSUME TypeOK, LogBounded, NEW w \in Writers, FetchMessage(w)
    PROVE  TypeOK'
<1>1. ASSUME NEW p \in Partitions, FetchEvent(w, p)
      PROVE  TypeOK'
  <2>1. pos[p] + 1 \in Offsets
    <3>1. log[p] \in Seq(Payloads) /\ pos[p] \in 0..MaxOffset
      BY DEF TypeOK, VarTypes
    <3>2. Len(log[p]) \in Nat
      BY <3>1
    <3> QED  BY <1>1, <3>1, <3>2, BoundsAssumption DEF FetchEvent, LogBounded, Offsets
  <2>2. [part |-> p, offset |-> pos[p] + 1] \in Message
    BY <2>1 DEF Message
  <2>3. buf' \in [Writers -> Seq(Message)]
    BY <1>1, <2>2 DEF TypeOK, VarTypes, FetchEvent
  <2>4. pos' \in [Partitions -> 0..MaxOffset]
    BY <1>1, <2>1, BoundsAssumption DEF TypeOK, VarTypes, FetchEvent, Offsets
  <2>5. CASE BeginFlush(w, "full")
    BY <1>1, <2>3, <2>4, <2>5, BeginFlushType DEF TypeOK, VarTypes, FetchEvent
  <2>6. CASE UNCHANGED <<pc, attempt, why>>
    BY <1>1, <2>3, <2>4, <2>6 DEF TypeOK, VarTypes, AttemptBounded, FetchEvent
  <2> QED  BY <1>1, <2>5, <2>6 DEF FetchEvent, flushVars
<1>2. ASSUME NEW p \in Partitions, FetchGarbage(w, p)
      PROVE  TypeOK'
  <2>1. metrics' \in [Writers -> [Counters -> Nat]]
    BY <1>2, IncType DEF FetchGarbage, Counters
  <2> QED  BY <1>2, <2>1, ExitType DEF TypeOK, VarTypes, FetchGarbage
<1> QED  BY <1>1, <1>2 DEF FetchMessage

\* The rest of the fetch loop preserves type correctness.
LEMMA LoopType ==
    ASSUME TypeOK, NEW w \in Writers, Loop(w)
    PROVE  TypeOK'
<1> USE DEF kafkaVars, flushVars
<1>1. ASSUME BeginFlush(w, "tick") \/ BeginFlush(w, "exit"),
             UNCHANGED <<kafkaVars, rows, buf, cancelled, metrics, faults>>
      PROVE  TypeOK'
  BY <1>1, BeginFlushType DEF TypeOK, VarTypes
<1>2. ASSUME NEW phase \in Phases \ {"ping"}, pc[w] # "ping",
             pc' = [pc EXCEPT ![w] = phase],
             UNCHANGED <<kafkaVars, rows, buf, flushVars, cancelled, metrics, faults>>
      PROVE  TypeOK'
  BY <1>2, MoveType DEF TypeOK, VarTypes
<1>3. ASSUME NEW status \in {"done", "fatal"}, Exit(w, status),
             faults' \in 0..MaxFaults,
             UNCHANGED <<log, committed, rows, buf, cancelled, metrics, revokes>>
      PROVE  TypeOK'
  BY <1>3, ExitType DEF TypeOK, VarTypes
<1>4. CASE TimeoutTick(w)
  BY <1>1, <1>2, <1>4 DEF TimeoutTick, Phases
<1>5. CASE TimeoutIdle(w)
  BY <1>2, <1>5 DEF TimeoutIdle, Phases
<1>6. faults' = faults => faults' \in 0..MaxFaults
  BY DEF TypeOK, VarTypes
<1>7. CASE CheckCancelled(w)
  BY <1>1, <1>2, <1>3, <1>6, <1>7 DEF CheckCancelled, ReturnFlush, Phases
<1>8. CASE FetchCanceled(w)
  BY <1>1, <1>3, <1>6, <1>8 DEF FetchCanceled, ReturnFlush
<1>9. CASE FetchError(w)
  BY <1>3, <1>9, FaultType DEF FetchError
<1> QED  BY <1>4, <1>5, <1>7, <1>8, <1>9 DEF Loop

\* The steps of flush, writes, retries and commits, preserve type correctness.
LEMMA FlushType ==
    ASSUME TypeOK, ControlInv, NEW w \in Writers, Flush(w)
    PROVE  TypeOK'
<1> USE DEF kafkaVars, flushVars
<1>1. ASSUME NEW isCanceled \in BOOLEAN, pc[w] # "ping", AttemptFailed(w, isCanceled),
             rows' \in [Message -> Nat], faults' \in 0..MaxFaults,
             UNCHANGED <<log, committed, cancelled, revokes>>
      PROVE  TypeOK'
  <2>1. CASE MayRetry(w) /\ pc' = [pc EXCEPT ![w] = "write"]
             /\ attempt' = [attempt EXCEPT ![w] = @ + 1]
             /\ UNCHANGED <<owner, pos, why, buf, metrics>>
    <3>1. VarTypes'
      BY <1>1, <2>1 DEF TypeOK, VarTypes, Phases
    <3>2. AttemptBounded'
      BY <1>1, <2>1, EffPositive DEF TypeOK, VarTypes, AttemptBounded, MayRetry
    <3> QED  BY <3>1, <3>2 DEF TypeOK
  <2>2. CASE GiveUp(w, isCanceled)
    <3>1. metrics' \in [Writers -> [Counters -> Nat]]
      BY <2>2, IncType DEF GiveUp, Counters
    <3>2. PICK status \in {"done", "fatal", "down"} : Exit(w, status)
      BY <2>2 DEF GiveUp
    <3> QED  BY <1>1, <2>2, <3>1, <3>2, ExitType DEF GiveUp, TypeOK, VarTypes
  <2> QED  BY <1>1, <2>1, <2>2 DEF AttemptFailed
<1>2. CASE WriteBatchStart(w)
  BY <1>2, MoveType DEF WriteBatchStart, TypeOK, VarTypes, Phases
<1>3. CASE WriteBatchCanceled(w)
  <2>1. rows' \in [Message -> Nat] /\ faults' \in 0..MaxFaults
    BY <1>3 DEF WriteBatchCanceled, TypeOK, VarTypes
  <2> QED  BY <1>1, <1>3, <2>1 DEF WriteBatchCanceled
<1>4. CASE SendOK(w)
  <2>1. rows' \in [Message -> Nat]
    BY <1>4, InsertFacts DEF SendOK
  <2> DEFINE counted == CountFlush(w)
  <2>2. counted \in [Counters -> Nat]
    <3>1. metrics[w] \in [Counters -> Nat] /\ buf[w] \in Seq(Message)
      BY DEF TypeOK, VarTypes
    <3>2. Len(buf[w]) \in Nat
      BY <3>1
    <3> QED  BY <3>1, <3>2 DEF CountFlush, Counters
  <2>3. metrics' = [metrics EXCEPT ![w] = counted]
    BY <1>4 DEF SendOK
  <2> HIDE DEF counted
  <2>4. metrics' \in [Writers -> [Counters -> Nat]]
    BY <2>2, <2>3 DEF TypeOK, VarTypes
  <2>5. VarTypes'
    BY <1>4, <2>1, <2>4 DEF SendOK, TypeOK, VarTypes, Phases
  <2>6. AttemptBounded'
    BY <1>4, EffPositive DEF SendOK, TypeOK, VarTypes, AttemptBounded
  <2> QED  BY <2>5, <2>6 DEF TypeOK
<1>5. CASE SendErr(w)
  <2>1. rows' \in [Message -> Nat]
    BY <1>5, InsertFacts, SendableFacts DEF SendErr
  <2>2. faults' \in 0..MaxFaults
    BY <1>5, FaultType DEF SendErr
  <2>3. PICK isCanceled \in BOOLEAN : AttemptFailed(w, isCanceled)
    BY <1>5 DEF SendErr, TypeOK, VarTypes
  <2> QED  BY <1>1, <1>5, <2>1, <2>2, <2>3 DEF SendErr
<1>6. CASE CommitOK(w)
  <2>1. committed' \in [Partitions -> 0..MaxOffset]
    BY <1>6, CommitFacts DEF CommitOK
  <2>2. AfterFlush(w) \in {"fetch", "check", "done"}
    BY <1>6, AfterFlushFacts DEF CommitOK, ControlInv, ControlOf
  <2>3. /\ owner' \in [Partitions -> Writers \cup {NoWriter}]
        /\ pos' \in [Partitions -> 0..MaxOffset]
    BY <1>6, ReleaseType DEF CommitOK, TypeOK, VarTypes
  <2>4. pc' \in [Writers -> Phases] /\ AttemptBounded'
    BY <1>6, <2>2, MoveType DEF CommitOK, Phases
  <2> QED  BY <1>6, <2>1, <2>3, <2>4 DEF CommitOK, ClearedBatch, TypeOK, VarTypes
<1>7. CASE CommitErr(w)
  <2>1. committed' \in [Partitions -> 0..MaxOffset]
    BY <1>7, CommitFacts DEF CommitErr
  <2>2. faults' \in 0..MaxFaults
    BY <1>7, FaultType DEF CommitErr
  <2>3. PICK status \in {"done", "fatal", "down"} : Exit(w, status)
    BY <1>7 DEF CommitErr
  <2> QED  BY <1>7, <2>1, <2>2, <2>3, ExitType DEF CommitErr, TypeOK, VarTypes
<1>8. CASE AppendRefused(w)
  <2>1. rows' \in [Message -> Nat] /\ faults' \in 0..MaxFaults
    BY <1>8 DEF AppendRefused, TypeOK, VarTypes
  <2> QED  BY <1>1, <1>8, <2>1 DEF AppendRefused
<1> QED  BY <1>2, <1>3, <1>4, <1>5, <1>6, <1>7, <1>8 DEF Flush

\* Signals and crashes preserve type correctness.
LEMMA EnvironmentType ==
    ASSUME TypeOK, NEW w \in Writers, Environment(w)
    PROVE  TypeOK'
<1>1. CASE Cancel(w)
  BY <1>1, FaultType
  DEF Cancel, TypeOK, VarTypes, AttemptBounded, kafkaVars, flushVars
<1>2. CASE Crash(w)
  <2>1. rows' \in [Message -> Nat]
    BY <1>2, InsertFacts, SendableFacts DEF Crash
  <2>2. committed' \in [Partitions -> 0..MaxOffset]
    BY <1>2, CommitFacts DEF Crash
  <2>3. faults' \in 0..MaxFaults
    BY <1>2, FaultType DEF Crash
  <2> QED  BY <1>2, <2>1, <2>2, <2>3, ExitType DEF Crash, TypeOK, VarTypes
<1> QED  BY <1>1, <1>2 DEF Environment

-----------------------------------------------------------------------------
(* The data invariant. *)

\* What all steps but Produce, Assign and FetchEvent have in common: the table
\* gains only messages of accepted batches, an offset moves only to a buffered message of
\* a batch that is in the table, a buffer is emptied only by a writer that owns
\* nothing or has stored it, and a partition is kept as it is or given up.
Settles ==
    /\ UNCHANGED log
    /\ \A m \in Message : Stored(m) => Stored(m)'
    /\ \A m \in Message :
          Stored(m)' => Stored(m) \/ \E v \in Writers : m \in Range(buf[v]) /\ Accepted(v)
    /\ \A p \in Partitions :
          \/ committed'[p] = committed[p]
          \/ \E v \in Writers :
                /\ [part |-> p, offset |-> committed'[p]] \in Range(buf[v])
                /\ \A m \in Range(buf[v]) : Stored(m)
    /\ \A v \in Writers :
          \/ buf'[v] = buf[v]
          \/ /\ buf'[v] = <<>>
             /\ \/ \A p \in Partitions : owner'[p] # v
                \/ \A m \in Range(buf[v]) : Stored(m)
    /\ \A p \in Partitions :
          owner'[p] = NoWriter \/ (owner'[p] = owner[p] /\ pos'[p] = pos[p])

\* An empty buffer holds no message.
LEMMA EmptyRange == Range(<<>>) = {}
BY DEF Range

\* What a buffer holds are messages.
LEMMA BufferedMessages ==
    ASSUME TypeOK, NEW w \in Writers
    PROVE  Range(buf[w]) \subseteq Message
BY DEF TypeOK, VarTypes, Range

\* A step that only stores, commits what is stored, shrinks buffers or gives
\* partitions back preserves the data part of the invariant.
LEMMA SettlesKeepsData ==
    ASSUME TypeOK, TypeOK', DataInv, Settles
    PROVE  DataInv'
<1>1. LogBounded'
  BY DEF DataInv, Settles, LogBounded
<1>2. CommittedIsStored'
  <2> SUFFICES ASSUME NEW m \in Message, m.offset <= committed'[m.part]
               PROVE  Stored(m)'
    BY DEF CommittedIsStored
  <2>1. m.part \in Partitions
    BY DEF Message
  <2>2. CASE committed'[m.part] = committed[m.part]
    BY <2>2 DEF DataInv, CommittedIsStored, Settles
  <2>3. CASE committed'[m.part] # committed[m.part]
    <3>1. PICK v \in Writers :
             /\ [part |-> m.part, offset |-> committed'[m.part]] \in Range(buf[v])
             /\ \A k \in Range(buf[v]) : Stored(k)
      BY <2>1, <2>3 DEF Settles
    <3>2. Stored(m) \/ m \in Range(buf[v])
      BY <3>1 DEF DataInv, BufferClosed
    <3> QED  BY <3>1, <3>2 DEF Settles
  <2> QED  BY <2>2, <2>3
<1>3. InFlightAccounted'
  <2> SUFFICES ASSUME NEW m \in Message, owner'[m.part] # NoWriter,
                      m.offset <= pos'[m.part]
               PROVE  Stored(m)' \/ m \in Range(buf'[owner'[m.part]])
    BY DEF InFlightAccounted
  <2>1. m.part \in Partitions
    BY DEF Message
  <2>2. owner'[m.part] = owner[m.part] /\ pos'[m.part] = pos[m.part]
    BY <2>1 DEF Settles
  <2>3. Stored(m) \/ m \in Range(buf[owner[m.part]])
    BY <2>2 DEF DataInv, InFlightAccounted
  <2>4. owner[m.part] \in Writers
    BY <2>1, <2>2 DEF TypeOK, VarTypes
  <2> QED  BY <2>1, <2>2, <2>3, <2>4 DEF Settles
<1>4. BufferClosed'
  <2> SUFFICES ASSUME NEW w \in Writers, NEW m \in Range(buf'[w]), NEW k \in Message,
                      k.part = m.part, k.offset <= m.offset
               PROVE  Stored(k)' \/ k \in Range(buf'[w])
    BY DEF BufferClosed
  <2>1. buf'[w] = buf[w]
    BY EmptyRange DEF Settles
  <2> QED  BY <2>1 DEF DataInv, BufferClosed, Settles
<1>5. DecodedPrefix'
  <2>1. \A p, n : DecodedUpTo(p, n) => DecodedUpTo(p, n)'
    BY DEF DecodedUpTo, Settles
  <2>2. ASSUME NEW p \in Partitions, owner'[p] # NoWriter
        PROVE  DecodedUpTo(p, pos[p])'
    <3>1. owner'[p] = owner[p] /\ pos'[p] = pos[p]
      BY <2>2 DEF Settles
    <3>2. DecodedUpTo(p, pos[p])
      BY <2>2, <3>1 DEF DataInv, DecodedPrefix
    <3> QED  BY <3>1, <3>2 DEF DecodedUpTo, Settles
  <2>3. ASSUME NEW m \in Message,
               Stored(m)' \/ (\E w \in Writers : m \in Range(buf'[w]))
        PROVE  DecodedUpTo(m.part, m.offset)'
    <3>1. Stored(m) \/ (\E w \in Writers : m \in Range(buf[w]))
      BY <2>3, EmptyRange DEF Settles
    <3> QED  BY <2>1, <3>1 DEF DataInv, DecodedPrefix
  <2> QED  BY <2>2, <2>3 DEF DecodedPrefix
<1>6. AcceptedPrefix'
  <2> SUFFICES ASSUME NEW m \in Message, Stored(m)', NEW k \in 1..m.offset
               PROVE  log[m.part][k] = "event"
    BY DEF AcceptedPrefix, Settles
  <2>1. CASE Stored(m)
    BY <2>1 DEF DataInv, AcceptedPrefix
  <2>2. ASSUME NEW v \in Writers, m \in Range(buf[v]), Accepted(v)
        PROVE  log[m.part][k] = "event"
    <3> DEFINE earlier == [part |-> m.part, offset |-> k]
    <3>1. /\ earlier \in Message /\ earlier.part = m.part
          /\ earlier.offset = k /\ k <= m.offset /\ k \in 1..earlier.offset
      BY BoundsAssumption DEF Message, Offsets
    <3> HIDE DEF earlier
    <3>2. Stored(earlier) \/ earlier \in Range(buf[v])
      BY <2>2, <3>1 DEF DataInv, BufferClosed
    <3>3. CASE Stored(earlier)
      BY <3>1, <3>3 DEF DataInv, AcceptedPrefix
    <3>4. CASE earlier \in Range(buf[v])
      BY <2>2, <3>1, <3>4 DEF Accepted
    <3> QED  BY <3>2, <3>3, <3>4
  <2> QED  BY <2>1, <2>2 DEF Settles
<1> QED  BY <1>1, <1>2, <1>3, <1>4, <1>5, <1>6 DEF DataInv

\* Messages are only added to the partitions, each behind those that are there.
LogGrows ==
    /\ log' \in [Partitions -> Seq(Payloads)]
    /\ \A q \in Partitions :
         /\ Len(log[q]) <= Len(log'[q]) /\ Len(log'[q]) <= MaxOffset
         /\ \A k \in 1..Len(log[q]) : log'[q][k] = log[q][k]

\* The topic grows at its end, so nothing read from it changes.
LEMMA GrowthKeepsData ==
    ASSUME TypeOK, DataInv, LogGrows, UNCHANGED <<committed, owner, pos, rows, buf>>
    PROVE  DataInv'
<1>1. LogBounded'
  BY DEF LogGrows, LogBounded
<1>2. \A q \in Partitions : Len(log[q]) \in Nat /\ Len(log'[q]) \in Nat
  BY DEF LogGrows, TypeOK, VarTypes
<1>3. ASSUME NEW q \in Partitions, NEW n \in Nat, DecodedUpTo(q, n)
      PROVE  DecodedUpTo(q, n)'
  <2>1. n <= Len(log'[q])
    BY <1>2, <1>3 DEF LogGrows, DecodedUpTo
  <2>2. ASSUME NEW k \in 1..n PROVE log'[q][k] # "garbage"
    <3>1. k \in 1..Len(log[q])
      BY <1>2, <1>3 DEF DecodedUpTo
    <3> QED  BY <1>3, <3>1 DEF LogGrows, DecodedUpTo
  <2> QED  BY <2>1, <2>2 DEF DecodedUpTo
<1>4. CommittedIsStored' /\ InFlightAccounted' /\ BufferClosed'
  BY DEF DataInv, CommittedIsStored, InFlightAccounted, BufferClosed, Stored
<1>5. DecodedPrefix'
  <2>1. ASSUME NEW q \in Partitions, owner'[q] # NoWriter
        PROVE  DecodedUpTo(q, pos[q])'
    <3>1. pos[q] \in Nat /\ pos' = pos
      BY BoundsAssumption DEF TypeOK, VarTypes
    <3>2. DecodedUpTo(q, pos[q])
      BY <2>1 DEF DataInv, DecodedPrefix
    <3>3. \A n \in Nat : DecodedUpTo(q, n) => DecodedUpTo(q, n)'
      BY <1>3
    <3> QED  BY <3>1, <3>2, <3>3 DEF DecodedUpTo
  <2>2. ASSUME NEW m \in Message,
               Stored(m)' \/ (\E w \in Writers : m \in Range(buf'[w]))
        PROVE  DecodedUpTo(m.part, m.offset)'
    <3>1. m.part \in Partitions /\ m.offset \in Nat
      BY BoundsAssumption DEF Message, Offsets
    <3>2. DecodedUpTo(m.part, m.offset)
      BY <2>2 DEF DataInv, DecodedPrefix, Stored
    <3> QED  BY <1>3, <3>1, <3>2
  <2> QED  BY <2>1, <2>2 DEF DecodedPrefix
<1>6. AcceptedPrefix'
  <2> SUFFICES ASSUME NEW m \in Message, Stored(m), NEW k \in 1..m.offset
               PROVE  log'[m.part][k] = "event"
    BY DEF AcceptedPrefix, Stored
  <2>1. m.part \in Partitions /\ m.offset \in Nat
    BY BoundsAssumption DEF Message, Offsets
  <2>2. m.offset <= Len(log[m.part]) /\ log[m.part][k] = "event"
    BY DEF DataInv, DecodedPrefix, DecodedUpTo, AcceptedPrefix
  <2>3. k \in 1..Len(log[m.part])
    BY <1>2, <2>1, <2>2
  <2> QED  BY <2>1, <2>2, <2>3 DEF LogGrows
<1> QED  BY <1>1, <1>4, <1>5, <1>6 DEF DataInv

\* A message appended to a partition is a growth of the topic.
LEMMA ProduceGrows ==
    ASSUME TypeOK, DataInv, NEW p \in Partitions, NEW payload \in Payloads,
           Produce(p, payload)
    PROVE  LogGrows
<1>1. log \in [Partitions -> Seq(Payloads)] /\ log[p] \in Seq(Payloads)
  BY DEF TypeOK, VarTypes
<1>2. log'[p] = Append(log[p], payload) /\ \A q \in Partitions : q # p => log'[q] = log[q]
  BY <1>1 DEF Produce
<1>3. log' \in [Partitions -> Seq(Payloads)]
  <2>1. Append(log[p], payload) \in Seq(Payloads)
    BY <1>1
  <2> QED  BY <1>1, <2>1 DEF Produce
<1>4. ASSUME NEW q \in Partitions
      PROVE  /\ Len(log[q]) <= Len(log'[q]) /\ Len(log'[q]) <= MaxOffset
             /\ \A k \in 1..Len(log[q]) : log'[q][k] = log[q][k]
  <2>1. CASE q = p
    BY <1>1, <1>2, <2>1, BoundsAssumption DEF Produce
  <2>2. CASE q # p
    BY <1>1, <1>2, <2>2 DEF DataInv, LogBounded
  <2> QED  BY <2>1, <2>2
<1> QED  BY <1>3, <1>4 DEF LogGrows

\* A new owner resumes behind the committed offset, where all is stored.
LEMMA AssignKeepsData ==
    ASSUME TypeOK, DataInv, NEW p \in Partitions, NEW w \in Writers, Assign(p, w)
    PROVE  DataInv'
<1>1. UNCHANGED <<log, committed, rows, buf>>
  BY DEF Assign
<1>2. \A q \in Partitions :
         \/ q = p /\ owner'[q] = w /\ pos'[q] = committed[q]
         \/ q # p /\ owner'[q] = owner[q] /\ pos'[q] = pos[q]
  BY DEF Assign, StartPosition, TypeOK, VarTypes
<1>3. LogBounded' /\ CommittedIsStored' /\ BufferClosed' /\ AcceptedPrefix'
  BY <1>1 DEF DataInv, LogBounded, CommittedIsStored, BufferClosed, AcceptedPrefix, Stored
<1>4. InFlightAccounted'
  <2> SUFFICES ASSUME NEW m \in Message, owner'[m.part] # NoWriter,
                      m.offset <= pos'[m.part]
               PROVE  Stored(m)' \/ m \in Range(buf'[owner'[m.part]])
    BY DEF InFlightAccounted
  <2>1. m.part \in Partitions
    BY DEF Message
  <2>2. CASE m.part = p
    BY <1>1, <1>2, <2>1, <2>2 DEF DataInv, CommittedIsStored, Stored
  <2>3. CASE m.part # p
    BY <1>1, <1>2, <2>1, <2>3 DEF DataInv, InFlightAccounted, Stored
  <2> QED  BY <2>2, <2>3
<1>5. DecodedUpTo(p, committed[p])
  <2>1. committed[p] \in 0..MaxOffset /\ log[p] \in Seq(Payloads)
    BY DEF TypeOK, VarTypes
  <2>2. CASE committed[p] = 0
    BY <2>1, <2>2 DEF DecodedUpTo
  <2>3. CASE committed[p] # 0
    <3> DEFINE last == [part |-> p, offset |-> committed[p]]
    <3>1. last \in Message /\ last.part = p /\ last.offset = committed[p]
      BY <2>1, <2>3, BoundsAssumption DEF Message, Offsets
    <3>2. Stored(last)
      BY <2>1, <3>1, BoundsAssumption DEF DataInv, CommittedIsStored
    <3> HIDE DEF last
    <3>3. DecodedUpTo(last.part, last.offset)
      BY <3>1, <3>2 DEF DataInv, DecodedPrefix
    <3> QED  BY <3>1, <3>3
  <2> QED  BY <2>2, <2>3
<1>6. DecodedPrefix'
  <2>1. \A q, n : DecodedUpTo(q, n) => DecodedUpTo(q, n)'
    BY <1>1 DEF DecodedUpTo
  <2>2. ASSUME NEW q \in Partitions, owner'[q] # NoWriter
        PROVE  DecodedUpTo(q, pos[q])'
    <3>1. DecodedUpTo(q, pos'[q])
      BY <1>2, <1>5, <2>2 DEF DataInv, DecodedPrefix
    <3> QED  BY <1>1, <3>1 DEF DecodedUpTo
  <2>3. ASSUME NEW m \in Message,
               Stored(m)' \/ (\E v \in Writers : m \in Range(buf'[v]))
        PROVE  DecodedUpTo(m.part, m.offset)'
    BY <1>1, <2>1, <2>3 DEF DataInv, DecodedPrefix, Stored
  <2> QED  BY <2>2, <2>3 DEF DecodedPrefix
<1> QED  BY <1>3, <1>4, <1>6 DEF DataInv

\* Appending a message to a buffer adds just that message.
LEMMA RangeAppend ==
    ASSUME NEW S, NEW s \in Seq(S), NEW e
    PROVE  Range(Append(s, e)) = Range(s) \cup {e}
<1>1. DOMAIN Append(s, e) = 1..(Len(s) + 1) /\ DOMAIN s = 1..Len(s) /\ Len(s) \in Nat
  OBVIOUS
<1>2. \A i \in 1..Len(s) : Append(s, e)[i] = s[i]
  OBVIOUS
<1>3. Append(s, e)[Len(s) + 1] = e
  OBVIOUS
<1>4. \A i \in 1..(Len(s) + 1) : i \in 1..Len(s) \/ i = Len(s) + 1
  BY <1>1
<1>5. \A i \in 1..Len(s) : i \in 1..(Len(s) + 1)
  BY <1>1
<1>6. Len(s) + 1 \in 1..(Len(s) + 1)
  BY <1>1
<1> QED  BY <1>1, <1>2, <1>3, <1>4, <1>5, <1>6 DEF Range

\* The owner buffers the message behind its position when it moves past it.
LEMMA FetchEventKeepsData ==
    ASSUME TypeOK, DataInv, NEW w \in Writers, NEW p \in Partitions, FetchEvent(w, p)
    PROVE  DataInv'
<1> DEFINE new == [part |-> p, offset |-> pos[p] + 1]
<1>1. UNCHANGED <<log, committed, owner, rows>>
  BY DEF FetchEvent
<1>2. \A q \in Partitions : pos'[q] = IF q = p THEN pos[p] + 1 ELSE pos[q]
  BY DEF FetchEvent, TypeOK, VarTypes
<1>3. pos[p] \in Nat /\ owner[p] = w /\ w # NoWriter
  BY BoundsAssumption, WritersAssumption DEF FetchEvent, TypeOK, VarTypes
<1>4. new.part = p /\ new.offset = pos[p] + 1
  OBVIOUS
<1>5. \A v \in Writers :
         Range(buf'[v]) = IF v = w THEN Range(buf[w]) \cup {new} ELSE Range(buf[v])
  <2>1. buf \in [Writers -> Seq(Message)]
    BY DEF TypeOK, VarTypes
  <2>2. buf'[w] = Append(buf[w], new)
    BY <2>1 DEF FetchEvent
  <2>3. Range(buf'[w]) = Range(buf[w]) \cup {new}
    BY <2>1, <2>2, RangeAppend
  <2>4. \A v \in Writers : v # w => buf'[v] = buf[v]
    BY <2>1 DEF FetchEvent
  <2> QED  BY <2>3, <2>4
<1>6. \A m \in Message : m.part = p /\ m.offset = pos[p] + 1 => m = new
  BY DEF Message
<1>7. DecodedUpTo(p, pos[p] + 1)
  <2>1. DecodedUpTo(p, pos[p])
    BY <1>3 DEF DataInv, DecodedPrefix
  <2>2. log[p] \in Seq(Payloads)
    BY DEF TypeOK, VarTypes
  <2>3. pos[p] < Len(log[p]) /\ log[p][pos[p] + 1] # "garbage" /\ Len(log[p]) \in Nat
    BY <2>2 DEF FetchEvent
  <2> QED  BY <1>3, <2>1, <2>3 DEF DecodedUpTo
<1> HIDE DEF new
<1>8. LogBounded' /\ CommittedIsStored' /\ AcceptedPrefix'
  BY <1>1 DEF DataInv, LogBounded, CommittedIsStored, AcceptedPrefix, Stored
<1>9. \A m \in Message : m.part = p /\ m.offset <= pos[p] + 1 =>
         Stored(m) \/ m \in Range(buf[w]) \cup {new}
  <2> SUFFICES ASSUME NEW m \in Message, m.part = p, m.offset <= pos[p] + 1
               PROVE  Stored(m) \/ m \in Range(buf[w]) \cup {new}
    OBVIOUS
  <2>1. m.offset \in Nat
    BY BoundsAssumption DEF Message, Offsets
  <2>2. CASE m.offset = pos[p] + 1
    BY <1>6, <2>2
  <2>3. CASE m.offset <= pos[p]
    BY <1>3, <2>3 DEF DataInv, InFlightAccounted
  <2> QED  BY <1>3, <2>1, <2>2, <2>3
<1>10. InFlightAccounted'
  <2> SUFFICES ASSUME NEW m \in Message, owner'[m.part] # NoWriter,
                      m.offset <= pos'[m.part]
               PROVE  Stored(m)' \/ m \in Range(buf'[owner'[m.part]])
    BY DEF InFlightAccounted
  <2>1. m.part \in Partitions
    BY DEF Message
  <2>2. owner[m.part] \in Writers
    BY <1>1, <2>1 DEF TypeOK, VarTypes
  <2>3. CASE m.part = p
    BY <1>1, <1>2, <1>3, <1>5, <1>9, <2>1, <2>3 DEF Stored
  <2>4. CASE m.part # p
    <3>1. Stored(m) \/ m \in Range(buf[owner[m.part]])
      BY <1>1, <1>2, <2>1, <2>4 DEF DataInv, InFlightAccounted
    <3> QED  BY <1>1, <1>5, <2>2, <3>1 DEF Stored
  <2> QED  BY <2>3, <2>4
<1>11. BufferClosed'
  <2> SUFFICES ASSUME NEW v \in Writers, NEW m \in Range(buf'[v]), NEW k \in Message,
                      k.part = m.part, k.offset <= m.offset
               PROVE  Stored(k) \/ k \in Range(buf'[v])
    BY <1>1 DEF BufferClosed, Stored
  <2>1. CASE m \in Range(buf[v])
    BY <1>5, <2>1 DEF DataInv, BufferClosed
  <2>2. CASE m = new /\ v = w
    BY <1>4, <1>5, <1>9, <2>2
  <2> QED  BY <1>5, <2>1, <2>2
<1>12. DecodedPrefix'
  <2>1. \A q, n : DecodedUpTo(q, n) => DecodedUpTo(q, n)'
    BY <1>1 DEF DecodedUpTo
  <2>2. ASSUME NEW q \in Partitions, owner'[q] # NoWriter
        PROVE  DecodedUpTo(q, pos[q])'
    <3>1. DecodedUpTo(q, pos'[q])
      BY <1>1, <1>2, <1>7, <2>2 DEF DataInv, DecodedPrefix
    <3> QED  BY <1>1, <3>1 DEF DecodedUpTo
  <2>3. ASSUME NEW m \in Message,
               Stored(m)' \/ (\E v \in Writers : m \in Range(buf'[v]))
        PROVE  DecodedUpTo(m.part, m.offset)'
    <3>1. CASE m = new
      BY <1>4, <1>7, <2>1, <3>1
    <3>2. CASE m # new
      <4>1. Stored(m) \/ (\E v \in Writers : m \in Range(buf[v]))
        BY <1>1, <1>5, <2>3, <3>2 DEF Stored
      <4> QED  BY <2>1, <4>1 DEF DataInv, DecodedPrefix
    <3> QED  BY <3>1, <3>2
  <2> QED  BY <2>2, <2>3 DEF DecodedPrefix
<1> QED  BY <1>8, <1>10, <1>11, <1>12 DEF DataInv

-----------------------------------------------------------------------------
(* The steps of a process. *)

\* What a step of w leaves alone: the other processes, and the partitions it
\* does not give up.
Local(w) ==
    /\ \A v \in Writers \ {w} : pc'[v] = pc[v] /\ buf'[v] = buf[v] /\ why'[v] = why[v]
    /\ \A m \in Message : Stored(m) => Stored(m)'
    /\ \A p \in Partitions :
          owner'[p] = NoWriter \/ (owner'[p] = owner[p] /\ pos'[p] = pos[p])
    /\ Consuming(w)' \/ \A p \in Partitions : owner'[p] # w

\* A step local to one writer preserves the control part of the invariant.
LEMMA LocalKeepsControl ==
    ASSUME TypeOK, ControlInv, NEW w \in Writers, Local(w), ControlOf(w)'
    PROVE  ControlInv'
<1>1. ASSUME NEW v \in Writers
      PROVE  ControlOf(v)'
  <2>1. CASE v = w
    BY <2>1
  <2>2. CASE v # w
    <3>1. pc'[v] = pc[v] /\ buf'[v] = buf[v] /\ why'[v] = why[v]
      BY <2>2 DEF Local
    <3>2. \A m \in Range(buf[v]) : Stored(m) => Stored(m)'
      BY BufferedMessages DEF Local
    <3> QED  BY <3>1, <3>2 DEF ControlInv, ControlOf
  <2> QED  BY <2>1, <2>2
<1>2. ASSUME NEW p \in Partitions, owner'[p] # NoWriter
      PROVE  Consuming(owner[p])'
  <2>1. owner'[p] = owner[p] /\ owner[p] \in Writers
    BY <1>2 DEF Local, TypeOK, VarTypes
  <2>2. Consuming(owner[p])
    BY <1>2, <2>1 DEF ControlInv
  <2>3. CASE owner[p] = w
    BY <1>2, <2>1, <2>3 DEF Local, Consuming
  <2>4. CASE owner[p] # w
    BY <2>1, <2>2, <2>4 DEF Local, Consuming
  <2> QED  BY <2>3, <2>4
<1> QED  BY <1>1, <1>2 DEF ControlInv

\* The table loses nothing and gains at most messages of w's batch, if it is
\* one the table accepts.
Grows(w) ==
    \A m \in Message : /\ Stored(m) => Stored(m)'
                       /\ Stored(m)' => Stored(m) \/ (m \in Range(buf[w]) /\ Accepted(w))

\* A step that leaves the table alone keeps what is stored.
LEMMA SameRowsGrow ==
    ASSUME NEW w \in Writers, UNCHANGED rows
    PROVE  Grows(w)
BY DEF Grows, Stored

\* A step that moves w, possibly out of the group, and may store its batch.
LEMMA MoveSettles ==
    ASSUME TypeOK, NEW w \in Writers, Grows(w), UNCHANGED <<log, committed, buf>>,
           \A p \in Partitions :
              owner'[p] = NoWriter \/ (owner'[p] = owner[p] /\ pos'[p] = pos[p])
    PROVE  Settles
BY DEF Settles, Grows

\* What Release does to the owners and positions.
LEMMA ReleaseFacts ==
    ASSUME TypeOK, NEW w \in Writers, Release(w)
    PROVE  /\ \A p \in Partitions :
                owner'[p] = NoWriter \/ (owner'[p] = owner[p] /\ pos'[p] = pos[p])
           /\ \A p \in Partitions : owner'[p] # w
BY WritersAssumption DEF Release

\* What the end of a process amounts to.
LEMMA ExitFacts ==
    ASSUME TypeOK, ControlInv, NEW w \in Writers,
           NEW status \in {"done", "fatal", "down"}, Exit(w, status)
    PROVE  /\ \A v \in Writers \ {w} : pc'[v] = pc[v] /\ why'[v] = why[v]
           /\ pc'[w] = status
           /\ \A p \in Partitions :
                owner'[p] = NoWriter \/ (owner'[p] = owner[p] /\ pos'[p] = pos[p])
           /\ \A p \in Partitions : owner'[p] # w
BY ReleaseFacts DEF Exit, TypeOK, VarTypes

\* Start-up: the process owns nothing yet.
LEMMA StartupStep ==
    ASSUME IndInv, NEW w \in Writers, Startup(w)
    PROVE  Settles /\ Local(w) /\ ControlOf(w)'
<1> USE EffPositive DEF IndInv, TypeOK, VarTypes, kafkaVars
<1>1. pc[w] \in {"down", "done", "fatal", "ping"} /\ UNCHANGED <<owner, pos, rows, log, committed>>
  BY DEF Startup, Start, PingOK, PingErr
<1>2. \A p \in Partitions : owner'[p] # w
  BY <1>1, WritersAssumption DEF ControlInv, Consuming
<1>3. CASE Start(w)
  <2>1. buf'[w] = <<>> /\ pc'[w] = "ping"
    BY <1>3 DEF Start
  <2>2. \A v \in Writers \ {w} : pc'[v] = pc[v] /\ buf'[v] = buf[v] /\ why'[v] = why[v]
    BY <1>3 DEF Start
  <2> QED  BY <1>1, <1>2, <2>1, <2>2 DEF Settles, Local, ControlOf, Stored
<1>4. CASE PingOK(w)
  <2>1. pc'[w] = "fetch" /\ buf' = buf /\ why' = why /\ buf[w] = <<>>
    BY <1>4 DEF PingOK, ControlInv, ControlOf
  <2>2. \A v \in Writers \ {w} : pc'[v] = pc[v]
    BY <1>4 DEF PingOK
  <2> QED  BY <1>1, <1>2, <2>1, <2>2 DEF Settles, Local, ControlOf, Stored
<1>5. CASE PingErr(w)
  <2>1. pc'[w] \in {"ping", "fatal"} /\ buf' = buf /\ why' = why /\ buf[w] = <<>>
    BY <1>5 DEF PingErr, ControlInv, ControlOf
  <2>2. \A v \in Writers \ {w} : pc'[v] = pc[v]
    BY <1>5 DEF PingErr
  <2> QED  BY <1>1, <1>2, <2>1, <2>2 DEF Settles, Local, ControlOf, Stored
<1> QED  BY <1>3, <1>4, <1>5 DEF Startup

\* A step of w that leaves the buffers alone and ends the process.
LEMMA ExitStep ==
    ASSUME IndInv, NEW w \in Writers, NEW status \in {"done", "fatal"}, Exit(w, status),
           Grows(w), UNCHANGED <<log, committed, buf>>
    PROVE  Settles /\ Local(w) /\ ControlOf(w)'
<1>1. TypeOK /\ ControlInv
  BY DEF IndInv
<1>2. Settles
  BY <1>1, ExitFacts, MoveSettles
<1>3. Local(w)
  BY <1>1, ExitFacts DEF Local, Grows
<1>4. ControlOf(w)'
  BY <1>1, ExitFacts DEF ControlInv, ControlOf
<1> QED  BY <1>2, <1>3, <1>4

\* A step of w that leaves the buffers alone and stays in the loop.
LEMMA StayStep ==
    ASSUME IndInv, NEW w \in Writers,
           NEW phase \in {"fetch", "check", "write", "send"},
           pc[w] \in {"fetch", "check", "write", "send"},
           pc' = [pc EXCEPT ![w] = phase],
           phase \in {"fetch", "check"} => pc[w] \in {"fetch", "check"},
           phase \in {"write", "send"} => why'[w] # "none",
           \A v \in Writers \ {w} : why'[v] = why[v],
           Grows(w), UNCHANGED <<log, committed, buf, owner, pos>>
    PROVE  Settles /\ Local(w) /\ ControlOf(w)'
<1>1. TypeOK /\ ControlInv
  BY DEF IndInv
<1>2. pc'[w] = phase /\ \A v \in Writers \ {w} : pc'[v] = pc[v]
  BY <1>1 DEF TypeOK, VarTypes
<1>3. Settles
  BY <1>1, MoveSettles
<1>4. Local(w)
  BY <1>1, <1>2 DEF Local, Grows, Consuming
<1>5. ControlOf(w)'
  BY <1>1, <1>2 DEF ControlInv, ControlOf
<1> QED  BY <1>3, <1>4, <1>5

\* The fetch loop, without the fetches, preserves the invariant.
LEMMA LoopStep ==
    ASSUME IndInv, NEW w \in Writers, Loop(w)
    PROVE  Settles /\ Local(w) /\ ControlOf(w)'
<1> USE DEF kafkaVars, flushVars
<1>1. ASSUME NEW reason \in {"tick", "exit"}, BeginFlush(w, reason), pc[w] \in {"fetch", "check"},
             UNCHANGED <<log, committed, rows, buf, owner, pos>>
      PROVE  Settles /\ Local(w) /\ ControlOf(w)'
  <2>1. why'[w] # "none" /\ \A v \in Writers \ {w} : why'[v] = why[v]
    BY <1>1 DEF BeginFlush, IndInv, TypeOK, VarTypes
  <2>2. pc' = [pc EXCEPT ![w] = "write"]
    BY <1>1 DEF BeginFlush
  <2> QED  BY <1>1, <2>1, <2>2, StayStep, SameRowsGrow
<1>2. CASE TimeoutTick(w)
  BY <1>1, <1>2, StayStep, SameRowsGrow DEF TimeoutTick
<1>3. CASE TimeoutIdle(w)
  BY <1>3, StayStep, SameRowsGrow DEF TimeoutIdle
<1>4. CASE CheckCancelled(w)
  BY <1>1, <1>4, StayStep, ExitStep, SameRowsGrow DEF CheckCancelled, ReturnFlush
<1>5. CASE FetchCanceled(w)
  BY <1>1, <1>5, ExitStep, SameRowsGrow DEF FetchCanceled, ReturnFlush
<1>6. CASE FetchError(w)
  BY <1>6, ExitStep, SameRowsGrow DEF FetchError
<1> QED  BY <1>2, <1>3, <1>4, <1>5, <1>6 DEF Loop

\* Fetching a message, decodable or not, preserves the invariant.
LEMMA FetchStep ==
    ASSUME IndInv, NEW w \in Writers, FetchMessage(w)
    PROVE  \/ Settles /\ Local(w) /\ ControlOf(w)'
           \/ DataInv' /\ ControlInv'
<1>1. ASSUME NEW p \in Partitions, FetchGarbage(w, p)
      PROVE  Settles /\ Local(w) /\ ControlOf(w)'
  BY <1>1, ExitStep, SameRowsGrow DEF FetchGarbage
<1>2. ASSUME NEW p \in Partitions, FetchEvent(w, p)
      PROVE  DataInv' /\ ControlInv'
  <2>1. DataInv'
    BY <1>2, FetchEventKeepsData DEF IndInv
  <2>2. TypeOK /\ ControlInv
    BY DEF IndInv
  <2>3. \A v \in Writers \ {w} : pc'[v] = pc[v] /\ buf'[v] = buf[v] /\ why'[v] = why[v]
    BY <1>2, <2>2 DEF FetchEvent, BeginFlush, flushVars, TypeOK, VarTypes
  <2>4. UNCHANGED <<rows, owner>> /\ pc[w] = "fetch"
    BY <1>2 DEF FetchEvent
  <2>5. Len(buf'[w]) = Len(buf[w]) + 1 /\ Len(buf[w]) \in Nat
    BY <1>2, <2>2 DEF FetchEvent, TypeOK, VarTypes
  <2>6. Len(buf[w]) < EffBatchSize /\ EffBatchSize \in Nat
    BY <2>2, <2>4, EffPositive DEF ControlInv, ControlOf
  <2>7. \/ pc'[w] = "write" /\ why'[w] = "full"
        \/ pc'[w] = "fetch" /\ ~BatchFull(buf'[w])
    BY <1>2, <2>2 DEF FetchEvent, BeginFlush, flushVars, TypeOK, VarTypes
  <2>8. ControlOf(w)'
    BY <2>5, <2>6, <2>7 DEF ControlOf, BatchFull
  <2>9. ASSUME NEW v \in Writers
        PROVE  ControlOf(v)'
    BY <2>2, <2>3, <2>4, <2>8 DEF ControlInv, ControlOf, Stored
  <2>10. ASSUME NEW q \in Partitions, owner'[q] # NoWriter
         PROVE  Consuming(owner[q])'
    <3>1. owner'[q] = owner[q] /\ owner[q] \in Writers /\ Consuming(owner[q])
      BY <2>2, <2>4, <2>10 DEF ControlInv, TypeOK, VarTypes
    <3> QED  BY <2>3, <2>7, <3>1 DEF Consuming
  <2> QED  BY <2>1, <2>9, <2>10 DEF ControlInv
<1> QED  BY <1>1, <1>2 DEF FetchMessage

\* The steps of flush preserve the invariant: rows come before commits.
LEMMA FlushStep ==
    ASSUME IndInv, NEW w \in Writers, Flush(w)
    PROVE  Settles /\ Local(w) /\ ControlOf(w)'
<1> USE DEF kafkaVars, flushVars
<1>0. TypeOK /\ ControlInv /\ ControlOf(w)
  BY DEF IndInv, ControlInv
<1>1. ASSUME NEW isCanceled \in BOOLEAN, pc[w] \in {"write", "send"},
             AttemptFailed(w, isCanceled), Grows(w), UNCHANGED <<log, committed>>
      PROVE  Settles /\ Local(w) /\ ControlOf(w)'
  <2>1. CASE pc' = [pc EXCEPT ![w] = "write"] /\ UNCHANGED <<owner, pos, why, buf>>
    <3>1. why'[w] # "none"
      BY <1>0, <1>1, <2>1 DEF ControlOf
    <3> QED  BY <1>1, <2>1, <3>1, StayStep
  <2>2. CASE GiveUp(w, isCanceled)
    BY <1>1, <2>2, ExitStep DEF GiveUp
  <2> QED  BY <1>1, <2>1, <2>2 DEF AttemptFailed
<1>2. CASE WriteBatchStart(w)
  <2>1. why'[w] # "none"
    BY <1>0, <1>2 DEF WriteBatchStart, ControlOf
  <2> QED  BY <1>2, <2>1, StayStep, SameRowsGrow DEF WriteBatchStart
<1>3. CASE WriteBatchCanceled(w)
  BY <1>1, <1>3, SameRowsGrow DEF WriteBatchCanceled
<1>4. CASE SendErr(w)
  <2>1. Grows(w)
    BY <1>0, <1>4, InsertFacts, SendableFacts DEF SendErr, Grows
  <2>2. PICK isCanceled \in BOOLEAN : AttemptFailed(w, isCanceled)
    BY <1>0, <1>4 DEF SendErr, TypeOK, VarTypes
  <2> QED  BY <1>1, <1>4, <2>1, <2>2 DEF SendErr
<1>5. CASE SendOK(w)
  <2>1. Grows(w) /\ \A m \in Range(buf[w]) : Stored(m)'
    BY <1>0, <1>5, InsertFacts DEF SendOK, Grows
  <2>2. pc'[w] = "commit" /\ \A v \in Writers \ {w} : pc'[v] = pc[v]
    BY <1>0, <1>5 DEF SendOK, TypeOK, VarTypes
  <2>3. UNCHANGED <<log, committed, owner, pos, buf, why>>
    BY <1>5 DEF SendOK
  <2>4. why[w] # "none"
    BY <1>0, <1>5 DEF SendOK, ControlOf
  <2>5. Settles
    BY <1>0, <2>1, <2>3, MoveSettles
  <2>6. Local(w)
    BY <2>1, <2>2, <2>3 DEF Local, Grows, Consuming
  <2>7. ControlOf(w)'
    BY <1>0, <2>1, <2>2, <2>3, <2>4 DEF ControlOf
  <2> QED  BY <2>5, <2>6, <2>7
<1>6. ASSUME pc[w] = "commit", NEW P \in SUBSET Partitions, CommitUpTo(w, P)
      PROVE  \A p \in Partitions :
                \/ committed'[p] = committed[p]
                \/ \E v \in Writers :
                      /\ [part |-> p, offset |-> committed'[p]] \in Range(buf[v])
                      /\ \A m \in Range(buf[v]) : Stored(m)
  BY <1>0, <1>6, CommitFacts DEF ControlOf
<1>7. CASE CommitOK(w)
  <2>1. AfterFlush(w) \in {"fetch", "check", "done"}
    BY <1>0, <1>7, AfterFlushFacts DEF CommitOK, ControlOf
  <2>2. /\ pc'[w] = AfterFlush(w) /\ buf'[w] = <<>>
        /\ \A v \in Writers \ {w} : pc'[v] = pc[v] /\ buf'[v] = buf[v] /\ why'[v] = why[v]
        /\ UNCHANGED <<log, rows>>
    BY <1>0, <1>7 DEF CommitOK, ClearedBatch, TypeOK, VarTypes
  <2>3. \A m \in Range(buf[w]) : Stored(m)
    BY <1>0, <1>7 DEF CommitOK, ControlOf
  <2>4. /\ \A p \in Partitions :
             owner'[p] = NoWriter \/ (owner'[p] = owner[p] /\ pos'[p] = pos[p])
        /\ AfterFlush(w) = "done" => \A p \in Partitions : owner'[p] # w
    BY <1>0, <1>7, ReleaseFacts DEF CommitOK
  <2>5. \A v \in Writers : \/ buf'[v] = buf[v]
                           \/ buf'[v] = <<>> /\ \A m \in Range(buf[v]) : Stored(m)
    BY <2>2, <2>3
  <2>6. \A m \in Message : Stored(m)' <=> Stored(m)
    BY <2>2 DEF Stored
  <2>7. Settles
    BY <1>6, <1>7, <2>2, <2>4, <2>5, <2>6 DEF Settles, CommitOK
  <2>8. Local(w)
    BY <2>1, <2>2, <2>4, <2>6 DEF Local, Consuming
  <2>9. ControlOf(w)'
    BY <2>1, <2>2, EmptyRange, EffPositive DEF ControlOf
  <2> QED  BY <2>7, <2>8, <2>9
<1>8. CASE CommitErr(w)
  <2>1. PICK status \in {"done", "fatal", "down"} : Exit(w, status)
    BY <1>8 DEF CommitErr
  <2>2. UNCHANGED <<log, rows, buf>>
    BY <1>8 DEF CommitErr
  <2>3. \A m \in Message : Stored(m)' <=> Stored(m)
    BY <2>2 DEF Stored
  <2>4. Settles
    BY <1>0, <1>6, <1>8, <2>1, <2>2, <2>3, ExitFacts DEF Settles, CommitErr
  <2>5. Local(w)
    BY <1>0, <2>1, <2>2, <2>3, ExitFacts DEF Local
  <2>6. ControlOf(w)'
    BY <1>0, <2>1, <2>2, ExitFacts DEF ControlOf
  <2> QED  BY <2>4, <2>5, <2>6
<1>9. CASE AppendRefused(w)
  BY <1>1, <1>9, SameRowsGrow DEF AppendRefused
<1> QED  BY <1>2, <1>3, <1>4, <1>5, <1>7, <1>8, <1>9 DEF Flush

\* Signals and crashes preserve the invariant.
LEMMA EnvironmentStep ==
    ASSUME IndInv, NEW w \in Writers, Environment(w)
    PROVE  Settles /\ Local(w) /\ ControlOf(w)'
<1>0. TypeOK /\ ControlInv /\ ControlOf(w)
  BY DEF IndInv, ControlInv
<1>1. CASE Cancel(w)
  <2>1. UNCHANGED <<log, committed, owner, pos, rows, pc, buf, why>> /\ Consuming(w)
    BY <1>1 DEF Cancel, kafkaVars, flushVars
  <2> QED  BY <1>0, <2>1 DEF Settles, Local, ControlOf, Consuming, Stored
<1>2. CASE Crash(w)
  <2>1. Grows(w)
    BY <1>0, <1>2, InsertFacts, SendableFacts DEF Crash, Grows
  <2>2. /\ buf'[w] = <<>> /\ log' = log
        /\ \A v \in Writers \ {w} : buf'[v] = buf[v]
        /\ Exit(w, "down")
    BY <1>0, <1>2 DEF Crash, TypeOK, VarTypes
  <2>3. PICK P \in SUBSET Partitions :
            CommitUpTo(w, P) /\ (P # {} => pc[w] = "commit")
    BY <1>2 DEF Crash
  <2>4. \A p \in Partitions :
            \/ committed'[p] = committed[p]
            \/ \E v \in Writers :
                  /\ [part |-> p, offset |-> committed'[p]] \in Range(buf[v])
                  /\ \A m \in Range(buf[v]) : Stored(m)
    <3>1. CASE P = {}
      BY <2>3, <3>1 DEF CommitUpTo
    <3>2. CASE pc[w] = "commit"
      BY <1>0, <2>3, <3>2, CommitFacts DEF ControlOf
    <3> QED  BY <2>3, <3>1, <3>2
  <2>5. Settles
    BY <1>0, <2>1, <2>2, <2>4, ExitFacts DEF Settles, Grows
  <2>6. Local(w)
    BY <1>0, <2>1, <2>2, ExitFacts DEF Local, Grows
  <2>7. ControlOf(w)'
    BY <1>0, <2>2, ExitFacts, EmptyRange, EffPositive DEF ControlOf
  <2> QED  BY <2>5, <2>6, <2>7
<1> QED  BY <1>1, <1>2 DEF Environment

-----------------------------------------------------------------------------
(* The theorems. *)

\* The invariant holds initially.
LEMMA InitInv == Init => IndInv
<1> SUFFICES ASSUME Init PROVE IndInv
  OBVIOUS
<1>1. TypeOK
  BY InitType
<1>2. LogBounded /\ CommittedIsStored /\ InFlightAccounted
  BY BoundsAssumption
  DEF Init, LogBounded, CommittedIsStored, InFlightAccounted, Message, Offsets
<1>3. \A w \in Writers : Range(buf[w]) = {}
  BY EmptyRange DEF Init
<1>4. BufferClosed /\ DecodedPrefix /\ AcceptedPrefix
  BY <1>3 DEF Init, BufferClosed, DecodedPrefix, AcceptedPrefix, Stored
<1>5. ControlInv
  BY <1>3, EffPositive DEF Init, ControlInv, ControlOf, Consuming
<1> QED  BY <1>1, <1>2, <1>4, <1>5 DEF IndInv, DataInv

\* Every step, and stuttering, preserves the invariant.
LEMMA NextInv == IndInv /\ [Next]_vars => IndInv'
<1> SUFFICES ASSUME IndInv, [Next]_vars PROVE IndInv'
  OBVIOUS
<1>0. TypeOK /\ DataInv /\ ControlInv /\ LogBounded
  BY DEF IndInv, DataInv
<1>1. ASSUME NEW w \in Writers, TypeOK', Settles, Local(w), ControlOf(w)'
      PROVE  IndInv'
  BY <1>0, <1>1, SettlesKeepsData, LocalKeepsControl DEF IndInv
<1>2. CASE Topic
  <2>1. TypeOK'
    BY <1>0, <1>2, ExternalType
  <2>2. PICK p \in Partitions, payload \in Payloads : Produce(p, payload)
    BY <1>2 DEF Topic
  <2>3. DataInv'
    BY <1>0, <2>2, ProduceGrows, GrowthKeepsData DEF Produce
  <2>4. ControlInv'
    BY <1>0, <2>2 DEF Produce, flushVars, ControlInv, ControlOf, Consuming, Stored
  <2> QED  BY <2>1, <2>3, <2>4 DEF IndInv
<1>3. CASE Group
  <2>1. TypeOK'
    BY <1>0, <1>3, ExternalType
  <2>2. ASSUME NEW p \in Partitions, Revoke(p)
        PROVE  DataInv' /\ ControlInv'
    <3>1. UNCHANGED <<log, committed, rows, pc, buf, why>>
      BY <2>2 DEF Revoke, flushVars
    <3>2. \A q \in Partitions :
             owner'[q] = NoWriter \/ (owner'[q] = owner[q] /\ pos'[q] = pos[q])
      BY <1>0, <2>2 DEF Revoke, TypeOK, VarTypes
    <3>3. Settles
      BY <3>1, <3>2 DEF Settles, Stored
    <3>4. ControlInv'
      BY <1>0, <3>1, <3>2 DEF ControlInv, ControlOf, Consuming, Stored
    <3> QED  BY <1>0, <2>1, <3>3, <3>4, SettlesKeepsData
  <2>3. ASSUME NEW p \in Partitions, NEW w \in Writers, Assign(p, w)
        PROVE  DataInv' /\ ControlInv'
    <3>1. DataInv'
      BY <1>0, <2>3, AssignKeepsData
    <3>2. UNCHANGED <<rows, pc, buf, why>> /\ Consuming(w)
      BY <2>3 DEF Assign, flushVars
    <3>3. \A q \in Partitions : owner'[q] = w \/ owner'[q] = owner[q]
      BY <1>0, <2>3 DEF Assign, TypeOK, VarTypes
    <3>4. ControlInv'
      BY <1>0, <3>2, <3>3 DEF ControlInv, ControlOf, Consuming, Stored
    <3> QED  BY <3>1, <3>4
  <2> QED  BY <1>3, <2>1, <2>2, <2>3 DEF Group, IndInv
<1>4. ASSUME NEW w \in Writers, Process(w)
      PROVE  IndInv'
  <2>1. CASE Startup(w)
    BY <1>0, <1>1, <2>1, StartupType, StartupStep
  <2>2. CASE FetchMessage(w)
    <3>1. TypeOK'
      BY <1>0, <2>2, FetchType
    <3>2. \/ Settles /\ Local(w) /\ ControlOf(w)'
          \/ DataInv' /\ ControlInv'
      BY <2>2, FetchStep
    <3> QED  BY <1>1, <3>1, <3>2 DEF IndInv
  <2>3. CASE Loop(w)
    BY <1>0, <1>1, <2>3, LoopType, LoopStep
  <2>4. CASE Flush(w)
    BY <1>0, <1>1, <2>4, FlushType, FlushStep
  <2>5. CASE Environment(w)
    BY <1>0, <1>1, <2>5, EnvironmentType, EnvironmentStep
  <2> QED  BY <1>4, <2>1, <2>2, <2>3, <2>4, <2>5 DEF Process
<1>5. CASE UNCHANGED vars
  <2>1. TypeOK'
    BY <1>0, <1>5 DEF vars, TypeOK, VarTypes, AttemptBounded
  <2>2. DataInv'
    BY <1>0, <1>5 DEF vars, DataInv, LogBounded, CommittedIsStored, InFlightAccounted,
                      BufferClosed, DecodedPrefix, DecodedUpTo, AcceptedPrefix, Stored
  <2>3. ControlInv'
    BY <1>0, <1>5 DEF vars, ControlInv, ControlOf, Consuming, Stored
  <2> QED  BY <2>1, <2>2, <2>3 DEF IndInv
<1> QED  BY <1>2, <1>3, <1>4, <1>5 DEF Next

\* The invariant does not depend on who adds to the topic, or on whose faults
\* are counted.
LEMMA GrowthInv ==
    ASSUME IndInv, LogGrows, faults' \in 0..MaxFaults,
           UNCHANGED <<committed, owner, pos, rows, pc, buf, attempt, why, cancelled,
                       metrics, revokes>>
    PROVE  IndInv'
<1>1. TypeOK /\ DataInv /\ ControlInv
  BY DEF IndInv
<1>0. /\ committed' = committed /\ owner' = owner /\ pos' = pos /\ rows' = rows
      /\ pc' = pc /\ buf' = buf /\ attempt' = attempt /\ why' = why
      /\ cancelled' = cancelled /\ metrics' = metrics /\ revokes' = revokes
      /\ log' \in [Partitions -> Seq(Payloads)]
  BY DEF LogGrows
<1>2. TypeOK'
  <2>1. VarTypes'
    BY <1>0, <1>1, Zenon DEF TypeOK, VarTypes
  <2>2. AttemptBounded'
    BY <1>0, <1>1 DEF TypeOK, AttemptBounded
  <2> QED  BY <2>1, <2>2 DEF TypeOK
<1>3. DataInv'
  BY <1>0, <1>1, GrowthKeepsData
<1>4. ControlInv'
  BY <1>1 DEF ControlInv, ControlOf, Consuming, Stored
<1> QED  BY <1>2, <1>3, <1>4 DEF IndInv

\* IndInv is an invariant of the writers, for any number of writers and
\* partitions, any configuration and any number of faults and rebalances.
THEOREM IndInvHolds == Spec => []IndInv
BY InitInv, NextInv, PTL DEF Spec

\* Every variable keeps its type; no ping or write is attempted more often than
\* NewClickHouse and writeWithRetry say.
THEOREM TypeCorrect == Spec => []TypeOK
<1>1. IndInv => TypeOK
  BY DEF IndInv
<1> QED  BY <1>1, IndInvHolds, PTL

\* At-least-once: whatever crashes, errors and rebalances happen, an offset is
\* committed only over messages that are in the table (consumer.go:35-48).
THEOREM AtLeastOnceDelivery == Spec => []CommittedIsStored
<1>1. IndInv => CommittedIsStored
  BY DEF IndInv, DataInv
<1> QED  BY <1>1, IndInvHolds, PTL

\* No message falls between the fetch position, the buffer and the table.
THEOREM NothingForgotten == Spec => []InFlightAccounted
<1>1. IndInv => InFlightAccounted
  BY DEF IndInv, DataInv
<1> QED  BY <1>1, IndInvHolds, PTL

\* No batch exceeds the configured size (consumer.go:63).
THEOREM BatchesBounded == Spec => []BatchBounded
<1>1. IndInv => BatchBounded
  BY DEF IndInv, ControlInv, ControlOf, BatchBounded
<1> QED  BY <1>1, IndInvHolds, PTL

\* A message that does not decode or that the table refuses stops its partition
\* for good: nothing at or behind it is ever stored or committed
\* (consumer.go:56-60, clickhouse.go:133-153).
THEOREM PoisonStops == Spec => []NeverSkipsPoison
<1>1. IndInv => NeverSkipsPoison
  <2> SUFFICES ASSUME IndInv, NEW p \in Partitions, NEW n \in Offsets,
                      n <= Len(log[p]), log[p][n] # "event"
               PROVE  /\ committed[p] < n
                      /\ \A m \in Message : m.part = p /\ m.offset >= n => ~Stored(m)
    BY DEF NeverSkipsPoison
  <2>0. /\ n \in Nat \ {0} /\ n <= MaxOffset
        /\ committed[p] \in Nat
        /\ CommittedIsStored /\ AcceptedPrefix
    BY BoundsAssumption DEF IndInv, DataInv, TypeOK, VarTypes, Offsets
  <2>1. ASSUME NEW m \in Message, m.part = p, m.offset >= n, Stored(m)
        PROVE  FALSE
    <3>1. m.offset \in Nat
      BY BoundsAssumption DEF Message, Offsets
    <3>2. n \in 1..m.offset
      BY <2>0, <2>1, <3>1
    <3> QED  BY <2>0, <2>1, <3>2 DEF AcceptedPrefix
  <2>2. committed[p] < n
    <3> SUFFICES ASSUME n <= committed[p] PROVE FALSE
      BY <2>0
    <3> DEFINE bad == [part |-> p, offset |-> n]
    <3>1. bad \in Message /\ bad.part = p /\ bad.offset = n
      BY DEF Message
    <3> HIDE DEF bad
    <3>2. Stored(bad)
      BY <2>0, <3>1 DEF CommittedIsStored
    <3> QED  BY <2>0, <2>1, <3>1, <3>2
  <2> QED  BY <2>1, <2>2
<1> QED  BY <1>1, IndInvHolds, PTL

-----------------------------------------------------------------------------
(* Refinement. *)

\* A step inserts rows or commits offsets, never both at once.
LEMMA OneEffect ==
    ASSUME IndInv, NEW w \in Writers, Process(w)
    PROVE  /\ UNCHANGED log
           /\ \A m \in Message : Stored(m) => Stored(m)'
           /\ UNCHANGED committed \/ UNCHANGED rows
<1> USE DEF kafkaVars, flushVars
<1>0. TypeOK /\ rows \in [Message -> Nat] /\ committed \in [Partitions -> 0..MaxOffset]
  BY DEF IndInv, TypeOK, VarTypes
<1>1. CASE Startup(w)
  BY <1>1 DEF Startup, Start, PingOK, PingErr, Stored
<1>2. CASE FetchMessage(w)
  BY <1>2 DEF FetchMessage, FetchEvent, FetchGarbage, Stored
<1>3. CASE Loop(w)
  BY <1>3 DEF Loop, TimeoutTick, TimeoutIdle, CheckCancelled, FetchCanceled, FetchError, Stored
<1>4. CASE Flush(w)
  <2>1. CASE \/ WriteBatchStart(w) \/ WriteBatchCanceled(w) \/ AppendRefused(w)
             \/ CommitOK(w) \/ CommitErr(w)
    BY <2>1 DEF WriteBatchStart, WriteBatchCanceled, AppendRefused, CommitOK, CommitErr, Stored
  <2>2. CASE SendOK(w)
    BY <1>0, <2>2, InsertFacts DEF SendOK
  <2>3. CASE SendErr(w)
    BY <1>0, <2>3, InsertFacts, SendableFacts DEF SendErr
  <2> QED  BY <1>4, <2>1, <2>2, <2>3 DEF Flush
<1>5. CASE Cancel(w)
  BY <1>5 DEF Cancel, Stored
<1>6. CASE Crash(w)
  <2>1. log' = log /\ \A m \in Message : Stored(m) => Stored(m)'
    BY <1>0, <1>6, InsertFacts, SendableFacts DEF Crash
  <2>2. CASE pc[w] = "commit"
    <3>1. Insert(w, {})
      BY <1>6, <2>2 DEF Crash
    <3>2. rows' = [m \in Message |-> rows[m] + Cardinality({})]
      BY <3>1 DEF Insert
    <3>3. rows' = rows
      BY <1>0, <3>2, FS_EmptySet
    <3> QED  BY <2>1, <3>3
  <2>3. CASE pc[w] # "commit"
    <3>1. CommitUpTo(w, {})
      BY <1>6, <2>3 DEF Crash
    <3>2. committed' \in [Partitions -> 0..MaxOffset]
          /\ \A p \in Partitions : committed'[p] = committed[p]
      BY <3>1 DEF CommitUpTo
    <3>3. committed' = committed
      BY <1>0, <3>2
    <3> QED  BY <2>1, <3>3
  <2> QED  BY <2>2, <2>3
<1> QED  BY <1>1, <1>2, <1>3, <1>4, <1>5, <1>6 DEF Process, Environment

\* The abstract specification speaks about the same messages.
LEMMA SameMessage == Delivery!Message = Message
BY DEF Delivery!Message, Message, Offsets

\* Every step of the writers is a step of AtLeastOnce or changes nothing there.
LEMMA StepRefines ==
    IndInv /\ IndInv' /\ [Next]_vars => [Delivery!Next]_(Delivery!vars)
<1> SUFFICES ASSUME IndInv, IndInv', [Next]_vars
             PROVE  Delivery!Next \/ UNCHANGED Delivery!vars
  BY DEF Delivery!vars
<1>1. ASSUME UNCHANGED <<log, committed>>, StoredMessages \subseteq StoredMessages'
      PROVE  Delivery!Store
  <2>1. ASSUME NEW m \in StoredMessages'
        PROVE  m \in Delivery!Storable
    <3>1. m \in Message /\ Stored(m)' /\ m.offset \in Nat \ {0}
      BY BoundsAssumption DEF StoredMessages, Message, Offsets
    <3>2. DecodedUpTo(m.part, m.offset)'
      BY <3>1 DEF IndInv, DataInv, DecodedPrefix
    <3>3. log'[m.part][m.offset] = "event"
      BY <3>1 DEF IndInv, DataInv, AcceptedPrefix
    <3> QED  BY <1>1, <3>1, <3>2, <3>3, SameMessage DEF DecodedUpTo, Delivery!Storable
  <2> QED  BY <1>1, <2>1 DEF Delivery!Store
<1>2. ASSUME UNCHANGED <<log, rows>>
      PROVE  Delivery!Commit
  <2>1. committed' \in [Partitions -> 0..MaxOffset]
    BY DEF IndInv, TypeOK, VarTypes
  <2>2. StoredMessages' = StoredMessages
    BY <1>2 DEF StoredMessages, Stored
  <2>3. \A m \in Message : m.offset <= committed'[m.part] => m \in StoredMessages
    BY <1>2 DEF IndInv, DataInv, CommittedIsStored, StoredMessages, Stored
  <2> QED  BY <1>2, <2>1, <2>2, <2>3, SameMessage DEF Delivery!Commit
<1>3. CASE Topic
  <2>1. PICK p \in Partitions, payload \in Payloads : Produce(p, payload)
    BY <1>3 DEF Topic
  <2>2. Delivery!Produce
    BY <2>1 DEF Produce, Delivery!Produce, StoredMessages, Stored
  <2> QED  BY <2>2 DEF Delivery!Next
<1>4. CASE Group
  BY <1>4 DEF Group, Revoke, Assign, Delivery!vars, StoredMessages, Stored
<1>5. ASSUME NEW w \in Writers, Process(w)
      PROVE  Delivery!Next
  <2>1. /\ UNCHANGED log
        /\ StoredMessages \subseteq StoredMessages'
        /\ UNCHANGED committed \/ UNCHANGED rows
    BY <1>5, OneEffect DEF StoredMessages
  <2> QED  BY <1>1, <1>2, <2>1 DEF Delivery!Next
<1>6. CASE UNCHANGED vars
  BY <1>6 DEF vars, Delivery!vars, StoredMessages, Stored
<1> QED  BY <1>3, <1>4, <1>5, <1>6 DEF Next, Delivery!Next

\* The writers implement at-least-once delivery: every behaviour of the batched,
\* retried, crashing, rebalanced system is one of the abstract specification.
THEOREM RefinesAtLeastOnce == Spec => ImplementsAtLeastOnce
<1>1. Init => Delivery!Init
  BY DEF Init, Delivery!Init, StoredMessages, Stored
<1> QED  BY <1>1, StepRefines, IndInvHolds, PTL DEF Spec, Delivery!Spec, ImplementsAtLeastOnce

-----------------------------------------------------------------------------
(* The group's offsets. *)

\* What every step of a process but a fetch leaves alone: w moves an offset only
\* to a message it holds, and goes on only with the batch it had, uncommitted,
\* or with none.
Own(w) ==
    /\ UNCHANGED revokes
    /\ \A v \in Writers \ {w} : pc'[v] = pc[v] /\ buf'[v] = buf[v]
    /\ \A p \in Partitions : owner[p] # w => owner'[p] = owner[p] /\ pos'[p] = pos[p]
    /\ \A p \in Partitions :
          \/ committed'[p] = committed[p]
          \/ Consuming(w) /\ [part |-> p, offset |-> committed'[p]] \in Range(buf[w])
    /\ \A p \in Partitions :
          owner'[p] = NoWriter \/ (owner'[p] = owner[p] /\ pos'[p] = pos[p])
    /\ Consuming(w)' =>
          /\ UNCHANGED <<owner, pos>>
          /\ \/ buf'[w] = <<>>
             \/ buf'[w] = buf[w] /\ Consuming(w) /\ UNCHANGED committed

\* While no partition has been taken from a live writer, what a writer buffers
\* is of its own partitions, between the group's offset and its position.
SoleOwner ==
    revokes = 0 =>
        /\ \A p \in Partitions : owner[p] # NoWriter => committed[p] <= pos[p]
        /\ \A w \in Writers : Consuming(w) => \A m \in Range(buf[w]) :
              /\ owner[m.part] = w
              /\ committed[m.part] < m.offset /\ m.offset <= pos[m.part]

\* A step within Own keeps SoleOwner, and moves offsets forward only.
LEMMA OwnKeepsOffsets ==
    ASSUME IndInv, SoleOwner, NEW w \in Writers, Own(w)
    PROVE  /\ SoleOwner'
           /\ revokes = 0 => \A p \in Partitions : committed'[p] >= committed[p]
<1> SUFFICES ASSUME revokes = 0
             PROVE  SoleOwner' /\ \A p \in Partitions : committed'[p] >= committed[p]
  BY DEF SoleOwner, Own
<1>0. /\ \A p \in Partitions : committed[p] \in Int /\ pos[p] \in Int
      /\ \A v \in Writers : Range(buf[v]) \subseteq Message
  BY BufferedMessages DEF IndInv, TypeOK, VarTypes
<1>1. ASSUME NEW p \in Partitions, committed'[p] # committed[p]
      PROVE  owner[p] = w /\ committed[p] < committed'[p] /\ committed'[p] <= pos[p]
  <2> DEFINE m == [part |-> p, offset |-> committed'[p]]
  <2>1. Consuming(w) /\ m \in Range(buf[w])
    BY <1>1 DEF Own
  <2> QED  BY <2>1 DEF SoleOwner
<1>2. \A p \in Partitions : committed'[p] >= committed[p]
  <2>1. ASSUME NEW p \in Partitions PROVE committed'[p] >= committed[p]
    <3>1. CASE committed'[p] = committed[p]
      BY <1>0, <3>1
    <3>2. CASE committed'[p] # committed[p]
      <4>1. PICK m \in Range(buf[w]) : m.offset = committed'[p]
        BY <3>2 DEF Own
      <4>2. committed'[p] \in Int
        BY <1>0, <4>1 DEF Message, Offsets
      <4> QED  BY <1>0, <1>1, <3>2, <4>2
    <3> QED  BY <3>1, <3>2
  <2> QED  BY <2>1
<1>3. ASSUME NEW p \in Partitions, owner'[p] # NoWriter
      PROVE  committed'[p] <= pos'[p]
  <2>1. owner'[p] = owner[p] /\ pos'[p] = pos[p]
    BY <1>3 DEF Own
  <2>2. CASE committed'[p] = committed[p]
    BY <1>3, <2>1, <2>2 DEF SoleOwner
  <2>3. CASE committed'[p] # committed[p]
    BY <1>1, <2>1, <2>3
  <2> QED  BY <2>2, <2>3
<1>4. ASSUME NEW v \in Writers, Consuming(v)', NEW m \in Range(buf'[v])
      PROVE  /\ owner'[m.part] = v
             /\ committed'[m.part] < m.offset /\ m.offset <= pos'[m.part]
  <2>1. CASE v = w
    <3>1. /\ UNCHANGED <<owner, pos, committed>> /\ buf'[w] = buf[w] /\ Consuming(w)
      BY <1>4, <2>1, EmptyRange DEF Own
    <3> QED  BY <1>4, <2>1, <3>1 DEF SoleOwner
  <2>2. CASE v # w
    <3>1. Consuming(v) /\ m \in Range(buf[v])
      BY <1>4, <2>2 DEF Own, Consuming
    <3>2. owner[m.part] = v /\ committed[m.part] < m.offset /\ m.offset <= pos[m.part]
      BY <3>1 DEF SoleOwner
    <3>3. m.part \in Partitions
      BY <1>0, <3>1 DEF Message
    <3>4. committed'[m.part] = committed[m.part]
      BY <1>1, <2>2, <3>2, <3>3
    <3> QED  BY <2>2, <3>2, <3>3, <3>4 DEF Own
  <2> QED  BY <2>1, <2>2
<1> QED  BY <1>2, <1>3, <1>4 DEF SoleOwner

\* A process that ends keeps its hands off what it does not own.
LEMMA ExitOwn ==
    ASSUME IndInv, NEW w \in Writers, NEW status \in {"done", "fatal", "down"},
           Exit(w, status), UNCHANGED revokes,
           \A v \in Writers \ {w} : buf'[v] = buf[v],
           \A p \in Partitions :
              \/ committed'[p] = committed[p]
              \/ Consuming(w) /\ [part |-> p, offset |-> committed'[p]] \in Range(buf[w])
    PROVE  Own(w)
<1>1. TypeOK /\ ControlInv
  BY DEF IndInv
<1>2. \A p \in Partitions : owner[p] # w => owner'[p] = owner[p] /\ pos'[p] = pos[p]
  BY DEF Exit, Release
<1>3. ~Consuming(w)' /\ \A v \in Writers \ {w} : pc'[v] = pc[v]
  BY <1>1, ExitFacts DEF Consuming
<1> QED  BY <1>1, <1>2, <1>3, ExitFacts DEF Own

\* A process that goes on with its batch.
LEMMA StayOwn ==
    ASSUME IndInv, NEW w \in Writers, NEW phase, pc' = [pc EXCEPT ![w] = phase],
           Consuming(w) \/ buf[w] = <<>> \/ ~Consuming(w)',
           UNCHANGED <<committed, owner, pos, revokes, buf>>
    PROVE  Own(w)
<1>1. \A v \in Writers \ {w} : pc'[v] = pc[v]
  BY DEF IndInv, TypeOK, VarTypes
<1> QED  BY <1>1 DEF Own

\* Every step of a process but a fetch is of that kind.
LEMMA ProcessOwn ==
    ASSUME IndInv, NEW w \in Writers, Process(w),
           ~\E p \in Partitions : FetchEvent(w, p)
    PROVE  Own(w)
<1> USE DEF kafkaVars, flushVars
<1>0. TypeOK /\ ControlInv /\ ControlOf(w)
  BY DEF IndInv, ControlInv
<1>1. CASE Startup(w)
  <2>1. CASE Start(w)
    <3>1. /\ UNCHANGED <<committed, owner, pos, revokes>> /\ pc'[w] = "ping"
          /\ \A v \in Writers \ {w} : pc'[v] = pc[v] /\ buf'[v] = buf[v]
      BY <1>0, <2>1 DEF Start, TypeOK, VarTypes
    <3> QED  BY <3>1 DEF Own, Consuming
  <2>2. CASE PingOK(w) \/ PingErr(w)
    <3>1. buf[w] = <<>> /\ UNCHANGED <<committed, owner, pos, revokes, buf>>
      BY <1>0, <2>2 DEF PingOK, PingErr, ControlOf
    <3>2. \E phase : pc' = [pc EXCEPT ![w] = phase]
      BY <1>0, <2>2 DEF PingOK, PingErr, TypeOK, VarTypes
    <3> QED  BY <3>1, <3>2, StayOwn
  <2> QED  BY <1>1, <2>1, <2>2 DEF Startup
<1>2. ASSUME NEW p \in Partitions, FetchGarbage(w, p)
      PROVE  Own(w)
  BY <1>2, ExitOwn DEF FetchGarbage
<1>3. CASE Loop(w)
  <2>0. Consuming(w) /\ UNCHANGED <<committed, revokes, buf>>
    BY <1>3 DEF Loop, TimeoutTick, TimeoutIdle, CheckCancelled, FetchCanceled, FetchError,
       Consuming
  <2>1. CASE FetchError(w) \/ (ReturnFlush(w) /\ buf[w] = <<>>)
    <3>1. PICK status \in {"done", "fatal", "down"} : Exit(w, status)
      BY <2>1 DEF FetchError, ReturnFlush
    <3> QED  BY <2>0, <3>1, ExitOwn
  <2>2. CASE UNCHANGED <<owner, pos>> /\ \E phase : pc' = [pc EXCEPT ![w] = phase]
    BY <2>0, <2>2, StayOwn
  <2> QED  BY <1>3, <2>1, <2>2 DEF Loop, TimeoutTick, TimeoutIdle, CheckCancelled,
              FetchCanceled, ReturnFlush, BeginFlush
<1>4. ASSUME NEW P \in SUBSET Partitions, CommitUpTo(w, P), Consuming(w) \/ P = {}
      PROVE  \A p \in Partitions :
                \/ committed'[p] = committed[p]
                \/ Consuming(w) /\ [part |-> p, offset |-> committed'[p]] \in Range(buf[w])
  <2>1. CASE P = {}
    BY <1>4, <2>1 DEF CommitUpTo
  <2>2. CASE Consuming(w)
    BY <1>0, <1>4, <2>2, CommitFacts
  <2> QED  BY <1>4, <2>1, <2>2
<1>5. CASE Flush(w)
  <2>0. Consuming(w)
    BY <1>5 DEF Flush, WriteBatchStart, WriteBatchCanceled, SendOK, SendErr, AppendRefused,
       CommitOK, CommitErr, Consuming
  <2>1. ASSUME NEW isCanceled \in BOOLEAN, AttemptFailed(w, isCanceled),
               UNCHANGED <<committed, revokes>>
        PROVE  Own(w)
    <3>1. CASE GiveUp(w, isCanceled)
      <4>1. PICK status \in {"done", "fatal", "down"} : Exit(w, status)
        BY <3>1 DEF GiveUp
      <4> QED  BY <2>1, <3>1, <4>1, ExitOwn DEF GiveUp
    <3>2. CASE pc' = [pc EXCEPT ![w] = "write"] /\ UNCHANGED <<owner, pos, buf>>
      BY <2>0, <2>1, <3>2, StayOwn
    <3> QED  BY <2>1, <3>1, <3>2 DEF AttemptFailed
  <2>2. CASE WriteBatchStart(w) \/ SendOK(w)
    BY <2>0, <2>2, StayOwn DEF WriteBatchStart, SendOK
  <2>3. CASE WriteBatchCanceled(w) \/ AppendRefused(w)
    BY <2>1, <2>3 DEF WriteBatchCanceled, AppendRefused
  <2>4. CASE SendErr(w)
    <3>1. PICK isCanceled \in BOOLEAN : AttemptFailed(w, isCanceled)
      BY <1>0, <2>4 DEF SendErr, TypeOK, VarTypes
    <3> QED  BY <2>1, <2>4, <3>1 DEF SendErr
  <2>5. CASE CommitErr(w)
    <3>1. PICK status \in {"done", "fatal", "down"} : Exit(w, status)
      BY <2>5 DEF CommitErr
    <3>2. PICK P \in SUBSET Partitions : CommitUpTo(w, P)
      BY <2>5 DEF CommitErr
    <3> QED  BY <1>4, <2>0, <2>5, <3>1, <3>2, ExitOwn DEF CommitErr
  <2>6. CASE CommitOK(w)
    <3>1. /\ UNCHANGED revokes /\ buf'[w] = <<>> /\ pc'[w] = AfterFlush(w)
          /\ \A v \in Writers \ {w} : pc'[v] = pc[v] /\ buf'[v] = buf[v]
      BY <1>0, <2>6 DEF CommitOK, ClearedBatch, TypeOK, VarTypes
    <3>2. \A p \in Partitions :
                \/ committed'[p] = committed[p]
                \/ Consuming(w) /\ [part |-> p, offset |-> committed'[p]] \in Range(buf[w])
      BY <1>4, <2>0, <2>6 DEF CommitOK
    <3>3. CASE AfterFlush(w) = "done"
      <4>1. Release(w) /\ ~Consuming(w)'
        BY <2>6, <3>1, <3>3 DEF CommitOK, Consuming
      <4>2. \A p \in Partitions :
                owner'[p] = NoWriter \/ (owner'[p] = owner[p] /\ pos'[p] = pos[p])
        BY <1>0, <4>1, ReleaseFacts
      <4>3. \A p \in Partitions : owner[p] # w => owner'[p] = owner[p] /\ pos'[p] = pos[p]
        BY <4>1 DEF Release
      <4> QED  BY <3>1, <3>2, <4>1, <4>2, <4>3 DEF Own
    <3>4. CASE AfterFlush(w) # "done"
      <4>1. UNCHANGED <<owner, pos>>
        BY <2>6, <3>4 DEF CommitOK
      <4> QED  BY <3>1, <3>2, <4>1 DEF Own
    <3> QED  BY <3>3, <3>4
  <2> QED  BY <1>5, <2>2, <2>3, <2>4, <2>5, <2>6 DEF Flush
<1>6. CASE Cancel(w)
  <2>1. UNCHANGED <<committed, owner, pos, revokes, buf, pc>> /\ Consuming(w)
    BY <1>6 DEF Cancel
  <2> QED  BY <2>1 DEF Own
<1>7. CASE Crash(w)
  <2>1. PICK P \in SUBSET Partitions : CommitUpTo(w, P) /\ (Consuming(w) \/ P = {})
    BY <1>7 DEF Crash, Consuming
  <2>2. /\ UNCHANGED revokes /\ Exit(w, "down")
        /\ \A v \in Writers \ {w} : buf'[v] = buf[v]
    BY <1>0, <1>7 DEF Crash, TypeOK, VarTypes
  <2> QED  BY <1>4, <2>1, <2>2, ExitOwn
<1> QED  BY <1>1, <1>2, <1>3, <1>5, <1>6, <1>7 DEF Process, FetchMessage, Environment

\* A fetch puts the message behind the position, and so behind the group's
\* offset, into the owner's buffer.
LEMMA FetchKeepsOffsets ==
    ASSUME IndInv, SoleOwner, NEW w \in Writers, NEW p \in Partitions, FetchEvent(w, p)
    PROVE  SoleOwner' /\ UNCHANGED committed
<1> DEFINE new == [part |-> p, offset |-> pos[p] + 1]
<1>0. /\ \A q \in Partitions : committed[q] \in Int /\ pos[q] \in Int
      /\ \A v \in Writers : Range(buf[v]) \subseteq Message
      /\ pos \in [Partitions -> 0..MaxOffset] /\ buf \in [Writers -> Seq(Message)]
  BY BufferedMessages DEF IndInv, TypeOK, VarTypes
<1>1. /\ UNCHANGED <<committed, owner, revokes>> /\ owner[p] = w /\ pc[w] = "fetch"
      /\ pos' = [pos EXCEPT ![p] = @ + 1]
      /\ buf' = [buf EXCEPT ![w] = Append(@, new)]
  BY DEF FetchEvent
<1>2. \A v \in Writers : Consuming(v)' => Consuming(v)
  BY <1>1 DEF FetchEvent, BeginFlush, Consuming, IndInv, TypeOK, VarTypes
<1>3. \A q \in Partitions : pos[q] <= pos'[q] /\ pos'[q] \in Int
  BY <1>0, <1>1
<1>4. ASSUME NEW v \in Writers, NEW m \in Range(buf'[v])
      PROVE  m \in Range(buf[v]) \/ (v = w /\ m = new)
  <2>1. buf'[w] = Append(buf[w], new)
    BY <1>0, <1>1
  <2>2. Range(buf'[w]) = Range(buf[w]) \cup {new}
    BY <1>0, <2>1, RangeAppend
  <2>3. v # w => buf'[v] = buf[v]
    BY <1>0, <1>1
  <2> QED  BY <1>4, <2>2, <2>3
<1> HIDE DEF new
<1>5. SoleOwner'
  <2> SUFFICES ASSUME revokes = 0
               PROVE  /\ \A q \in Partitions : owner[q] # NoWriter => committed[q] <= pos'[q]
                      /\ \A v \in Writers : Consuming(v)' => \A m \in Range(buf'[v]) :
                            /\ owner[m.part] = v
                            /\ committed[m.part] < m.offset /\ m.offset <= pos'[m.part]
    BY <1>1 DEF SoleOwner
  <2>1. \A q \in Partitions : owner[q] # NoWriter => committed[q] <= pos'[q]
    BY <1>0, <1>3 DEF SoleOwner
  <2>2. ASSUME NEW v \in Writers, Consuming(v)', NEW m \in Range(buf'[v])
        PROVE  owner[m.part] = v /\ committed[m.part] < m.offset /\ m.offset <= pos'[m.part]
    <3>1. CASE m \in Range(buf[v])
      <4>1. owner[m.part] = v /\ committed[m.part] < m.offset /\ m.offset <= pos[m.part]
        BY <1>2, <2>2, <3>1 DEF SoleOwner
      <4>2. m.part \in Partitions /\ m.offset \in Int
        BY <1>0, <3>1 DEF Message, Offsets
      <4> QED  BY <1>0, <1>3, <4>1, <4>2
    <3>2. CASE v = w /\ m = new
      <4>1. m.part = p /\ m.offset = pos[p] + 1 /\ pos'[p] = pos[p] + 1
        BY <1>0, <1>1, <3>2 DEF new
      <4>2. committed[p] <= pos[p]
        BY <1>1, WritersAssumption DEF SoleOwner
      <4> QED  BY <1>0, <1>1, <3>2, <4>1, <4>2
    <3> QED  BY <1>4, <2>2, <3>1, <3>2
  <2> QED  BY <2>1, <2>2
<1> QED  BY <1>1, <1>5

\* Every step, seen from the group's offsets.
LEMMA StepKeepsOffsets ==
    ASSUME IndInv, SoleOwner, [Next]_vars
    PROVE  /\ SoleOwner'
           /\ revokes = 0 => \A p \in Partitions : committed'[p] >= committed[p]
<1>0. /\ \A p \in Partitions : committed[p] \in Int /\ pos[p] \in Int
      /\ \A v \in Writers : Range(buf[v]) \subseteq Message
  BY BufferedMessages DEF IndInv, TypeOK, VarTypes
<1>1. CASE Topic \/ UNCHANGED vars
  <2>1. UNCHANGED <<committed, owner, pos, pc, buf, revokes>>
    BY <1>1 DEF Topic, Produce, vars
  <2> QED  BY <1>0, <2>1 DEF SoleOwner, Consuming
<1>2. ASSUME NEW p \in Partitions, Revoke(p)
      PROVE  /\ SoleOwner'
             /\ revokes = 0 => \A q \in Partitions : committed'[q] >= committed[q]
  <2>1. committed' = committed /\ revokes' # 0
    BY <1>2 DEF Revoke, IndInv, TypeOK, VarTypes
  <2> QED  BY <1>0, <2>1 DEF SoleOwner
<1>3. ASSUME NEW p \in Partitions, NEW w \in Writers, Assign(p, w)
      PROVE  /\ SoleOwner'
             /\ revokes = 0 => \A q \in Partitions : committed'[q] >= committed[q]
  <2>1. /\ UNCHANGED <<committed, pc, buf, revokes>> /\ owner[p] = NoWriter
        /\ owner'[p] = w /\ pos'[p] = committed[p]
        /\ \A q \in Partitions : q # p => owner'[q] = owner[q] /\ pos'[q] = pos[q]
    BY <1>3 DEF Assign, StartPosition, IndInv, TypeOK, VarTypes
  <2>2. ASSUME revokes = 0, NEW q \in Partitions, owner'[q] # NoWriter
        PROVE  committed[q] <= pos'[q]
    BY <1>0, <2>1, <2>2 DEF SoleOwner
  <2>3. ASSUME revokes = 0, NEW v \in Writers, Consuming(v), NEW m \in Range(buf[v])
        PROVE  /\ owner'[m.part] = v
               /\ committed[m.part] < m.offset /\ m.offset <= pos'[m.part]
    <3>1. owner[m.part] = v /\ committed[m.part] < m.offset /\ m.offset <= pos[m.part]
      BY <2>3 DEF SoleOwner
    <3>2. m.part \in Partitions /\ m.part # p
      BY <1>0, <2>1, <2>3, <3>1, WritersAssumption DEF Message
    <3> QED  BY <2>1, <3>1, <3>2
  <2> QED  BY <1>0, <2>1, <2>2, <2>3 DEF SoleOwner, Consuming
<1>4. ASSUME NEW w \in Writers, Process(w)
      PROVE  /\ SoleOwner'
             /\ revokes = 0 => \A p \in Partitions : committed'[p] >= committed[p]
  <2>1. ASSUME NEW p \in Partitions, FetchEvent(w, p)
        PROVE  /\ SoleOwner'
               /\ revokes = 0 => \A q \in Partitions : committed'[q] >= committed[q]
    BY <1>0, <2>1, FetchKeepsOffsets
  <2>2. CASE ~\E p \in Partitions : FetchEvent(w, p)
    BY <1>4, <2>2, ProcessOwn, OwnKeepsOffsets
  <2> QED  BY <2>1, <2>2
<1> QED  BY <1>1, <1>2, <1>3, <1>4 DEF Next, Group

\* Unless a rebalance takes a partition from a live writer, no crash, failed
\* write or failed commit ever moves a committed offset back
\* (consumer.go:42-48).
THEOREM CommitsAreMonotone == Spec => CommitMonotone
<1>1. Init => SoleOwner
  BY EmptyRange DEF Init, SoleOwner, Consuming
<1>2. IndInv /\ SoleOwner /\ [Next]_vars => SoleOwner'
  BY StepKeepsOffsets
<1>3. IndInv /\ SoleOwner /\ [Next]_vars =>
        [revokes = 0 => \A p \in Partitions : committed'[p] >= committed[p]]_vars
  BY StepKeepsOffsets
<1> QED  BY <1>1, <1>2, <1>3, IndInvHolds, PTL DEF Spec, CommitMonotone

-----------------------------------------------------------------------------
(* Sums over the writers and over the messages. *)

\* How SumFunctionOnSet picks the next element.
Pick(S) == CHOOSE x \in S : TRUE

\* Folds by addition.
Sum == INSTANCE FoldInduction WITH op <- +, base <- 0, choose <- Pick

\* SumFunctionOnSet is such a fold.
LEMMA SumIsFold ==
    ASSUME NEW f, NEW S
    PROVE  SumFunctionOnSet(f, S) = Sum!Fold(f, S)
BY DEF SumFunctionOnSet, FoldFunctionOnSet, Pick, MapThenFoldSet, Sum!Fold, Sum!Solves

\* Addition of natural numbers is what FoldInduction calls a sum.
LEMMA AdditionIsSum == Sum!IsSum
BY DEF Sum!IsSum, Pick

\* Finite sets are the same in the instance.
LEMMA SameFinite ==
    ASSUME NEW S, IsFiniteSet(S)
    PROVE  Sum!IsFiniteSet(S)
BY DEF IsFiniteSet, Sum!IsFiniteSet

\* A sum of which one summand changes.
LEMMA SumChanges ==
    ASSUME NEW S, IsFiniteSet(S), NEW f, NEW g, \A x \in S : f[x] \in Nat /\ g[x] \in Nat,
           NEW y \in S, \A x \in S : x # y => g[x] = f[x]
    PROVE  /\ SumFunctionOnSet(f, S) \in Nat /\ SumFunctionOnSet(g, S) \in Nat
           /\ f[y] <= SumFunctionOnSet(f, S)
           /\ SumFunctionOnSet(g, S) = SumFunctionOnSet(f, S) - f[y] + g[y]
<1>1. Sum!IsFiniteSet(S)
  BY SameFinite
<1>2. /\ Sum!Fold(f, S) \in Nat /\ Sum!Fold(g, S) \in Nat
      /\ f[y] <= Sum!Fold(f, S)
      /\ Sum!Fold(g, S) = Sum!Fold(f, S) - f[y] + g[y]
  BY <1>1, AdditionIsSum, Sum!SumChange
<1> QED  BY <1>2, SumIsFold

\* A sum depends on its summands alone.
LEMMA SumSame ==
    ASSUME NEW S, IsFiniteSet(S), NEW f, NEW g, \A x \in S : f[x] = g[x]
    PROVE  SumFunctionOnSet(f, S) = SumFunctionOnSet(g, S)
<1>1. Sum!IsFiniteSet(S) /\ Sum!Chooses(S)
  BY SameFinite DEF Sum!Chooses, Pick
<1>2. Sum!Fold(f, S) = Sum!Fold(g, S)
  BY <1>1, Sum!FoldDepends
<1> QED  BY <1>2, SumIsFold

\* A sum of natural numbers is one.
LEMMA SumIsNat ==
    ASSUME NEW S, IsFiniteSet(S), NEW f, \A x \in S : f[x] \in Nat
    PROVE  SumFunctionOnSet(f, S) \in Nat
<1>1. Sum!IsFiniteSet(S) /\ S \in SUBSET S
  BY SameFinite
<1>2. Sum!Fold(f, S) \in Nat
  BY <1>1, AdditionIsSum, Sum!SumType
<1> QED  BY <1>2, SumIsFold

\* A sum is no less than any summand.
LEMMA SumHasSummand ==
    ASSUME NEW S, IsFiniteSet(S), NEW f, \A x \in S : f[x] \in Nat, NEW y \in S
    PROVE  f[y] <= SumFunctionOnSet(f, S)
BY SumChanges

\* A sum of zeros is zero.
LEMMA SumOfZeros ==
    ASSUME NEW S, IsFiniteSet(S), NEW f, \A x \in S : f[x] = 0
    PROVE  SumFunctionOnSet(f, S) = 0
<1>1. Sum!IsFiniteSet(S)
  BY SameFinite
<1>2. \A x \in S : f[x] \in Nat /\ f[x] = f[x] + f[x]
  OBVIOUS
<1>3. Sum!Fold(f, S) = Sum!Fold(f, S) + Sum!Fold(f, S)
  BY <1>1, <1>2, AdditionIsSum, Sum!SumOfTwo
<1>4. SumFunctionOnSet(f, S) \in Nat
  BY <1>2, SumIsNat
<1> DEFINE t == SumFunctionOnSet(f, S)
<1>5. t = t + t /\ t \in Nat
  BY <1>3, <1>4, SumIsFold
<1> HIDE DEF t
<1>6. t = 0
  BY <1>5
<1> QED  BY <1>6 DEF t

-----------------------------------------------------------------------------
(* Duplicates. *)

\* A condition as a number.
Flag(b) == IF b THEN 1 ELSE 0

\* The batch of w may still come to be in the table.
MayInsert(w) == Consuming(w) /\ pc[w] # "commit" /\ (cancelled[w] => pc[w] = "send")

\* How often m is in a batch.
CopiesIn(batch, m) == Cardinality({i \in DOMAIN batch : batch[i] = m})

\* How often m is in the batch that w has buffered.
Occurrences(w, m) == CopiesIn(buf[w], m)

\* A commit of w may move the group's offset back behind m.
MayRewind(w, m) ==
    /\ Consuming(w)
    /\ m.part \in BufferedParts(w)
    /\ \A k \in Range(buf[w]) : k.part = m.part => k.offset < m.offset
    /\ owner[m.part] # w \/ m.offset <= pos[m.part]

\* The rows of m that w may still be the cause of without a further fault.
Share(w, m) ==
    (IF MayInsert(w) THEN Occurrences(w, m) ELSE 0)
      + Flag(MayRewind(w, m)) + Flag(Consuming(w) /\ cancelled[w])

\* The group hands m out again.
ToFetch(m) ==
    IF owner[m.part] = NoWriter THEN m.offset > committed[m.part]
    ELSE \/ m.offset > pos[m.part]
         \/ m.offset > committed[m.part] /\ m \notin Range(buf[owner[m.part]])

\* The shares of the writers.
Shares(m) == [w \in Writers |-> Share(w, m)]

\* The rows of m that there are or that there may be without a further fault:
\* those in the table, those the writers may still insert or cause, and the one
\* that the next fetch leads to.
Weight(m) == rows[m] + SumFunctionOnSet(Shares(m), Writers) + Flag(ToFetch(m))

\* A process is signalled only once it consumes.
PingInv == \A w \in Writers : pc[w] = "ping" => ~cancelled[w]

\* The part of the weight that a step of w alone can change.
Load(w, m) == rows[m] + Share(w, m) + Flag(ToFetch(m))

\* A step that counts a fault or a revocation.
FaultStep == faults' + revokes' = faults + revokes + 1

\* What a step of w does to its load: nothing is added, or a fault adds one
\* row, or the share of w a second time.
LoadStep(w, m) ==
    \/ Load(w, m)' <= Load(w, m)
    \/ FaultStep /\ (Load(w, m)' <= Load(w, m) + 1 \/ Load(w, m)' <= Load(w, m) + Share(w, m))

\* What a step does to a weight: nothing is added, or a fault doubles it at most.
WeightStep(m) ==
    \/ Weight(m)' <= Weight(m)
    \/ FaultStep /\ Weight(m)' <= 2 * Weight(m)

\* A flag is zero or one.
LEMMA FlagType == \A b : Flag(b) \in {0, 1}
BY DEF Flag

\* A message is in the batch when it occurs there at least once.
LEMMA OccurrenceFacts ==
    ASSUME TypeOK, NEW w \in Writers, NEW m
    PROVE  /\ Occurrences(w, m) \in Nat
           /\ Occurrences(w, m) = 0 <=> m \notin Range(buf[w])
<1> DEFINE At == {i \in DOMAIN buf[w] : buf[w][i] = m}
<1>1. DOMAIN buf[w] = 1..Len(buf[w]) /\ Len(buf[w]) \in Nat
  BY DEF TypeOK, VarTypes
<1>2. IsFiniteSet(DOMAIN buf[w])
  BY <1>1, FS_Interval
<1>3. IsFiniteSet(At)
  BY <1>2, FS_Subset
<1>4. At = {} <=> m \notin Range(buf[w])
  BY DEF Range
<1> HIDE DEF At
<1>5. Cardinality(At) \in Nat /\ (Cardinality(At) = 0 <=> At = {})
  BY <1>3, FS_CardinalityType, FS_EmptySet
<1> QED  BY <1>4, <1>5 DEF Occurrences, CopiesIn, At

\* A share is a number of rows.
LEMMA ShareType ==
    ASSUME TypeOK, NEW w \in Writers, NEW m
    PROVE  Share(w, m) \in Nat
BY OccurrenceFacts, FlagType DEF Share

\* The same, of every writer and message.
LEMMA ShareTypes == TypeOK => \A w \in Writers, m \in Message : Share(w, m) \in Nat
BY ShareType

\* The same, after a step.
LEMMA ShareTypesNext == TypeOK' => (\A w \in Writers, m \in Message : Share(w, m) \in Nat)'
BY ShareTypes, PTL

\* An insert of a part of the batch adds no more rows of m than the batch has.
LEMMA InsertAdds ==
    ASSUME TypeOK, NEW w \in Writers, NEW I \in SUBSET (DOMAIN buf[w]), Insert(w, I),
           NEW m \in Message
    PROVE  rows'[m] \in Nat /\ rows'[m] <= rows[m] + Occurrences(w, m)
<1> DEFINE All == {i \in DOMAIN buf[w] : buf[w][i] = m}
           Some == {i \in I : buf[w][i] = m}
<1>1. DOMAIN buf[w] = 1..Len(buf[w]) /\ Len(buf[w]) \in Nat
  BY DEF TypeOK, VarTypes
<1>2. IsFiniteSet(DOMAIN buf[w])
  BY <1>1, FS_Interval
<1>3. IsFiniteSet(All) /\ Some \subseteq All
  BY <1>2, FS_Subset
<1>4. rows'[m] = rows[m] + Cardinality(Some) /\ rows[m] \in Nat
  BY DEF Insert, TypeOK, VarTypes
<1> HIDE DEF All, Some
<1>5. Cardinality(Some) \in Nat /\ Cardinality(All) \in Nat /\ Cardinality(Some) <= Cardinality(All)
  BY <1>3, FS_CardinalityType, FS_Subset
<1>6. Occurrences(w, m) = Cardinality(All)
  BY DEF Occurrences, CopiesIn, All
<1> QED  BY <1>4, <1>5, <1>6

\* A message has a row, or something will give it one.
LEMMA WeightPositive ==
    ASSUME IndInv, NEW m \in Message
    PROVE  /\ Weight(m) \in Nat /\ Weight(m) >= 1 /\ rows[m] <= Weight(m)
           /\ \A w \in Writers : Share(w, m) <= Weight(m)
<1>0. TypeOK /\ ControlInv /\ m.part \in Partitions
  BY DEF IndInv, Message
<1> DEFINE total == SumFunctionOnSet(Shares(m), Writers)
<1>1. \A w \in Writers : Shares(m)[w] = Share(w, m) /\ Share(w, m) \in Nat
  BY <1>0, ShareType DEF Shares
<1>2. total \in Nat /\ \A w \in Writers : Share(w, m) <= total
  BY <1>1, FinitenessAssumption, SumIsNat, SumHasSummand
<1>3. rows[m] \in Nat
  BY <1>0 DEF TypeOK, VarTypes
<1>4. CASE rows[m] = 0 /\ ~ToFetch(m)
  <2> DEFINE w == owner[m.part]
  <2>0. m.offset \in Nat /\ committed[m.part] \in Nat
    BY <1>0 DEF Message, Offsets, TypeOK, VarTypes
  <2>1. ~Stored(m) /\ m.offset > committed[m.part]
    BY <1>4, <2>0 DEF Stored, IndInv, DataInv, CommittedIsStored
  <2>2. w \in Writers /\ m \in Range(buf[w])
    BY <1>0, <1>4, <2>1 DEF ToFetch, TypeOK, VarTypes
  <2>3. Consuming(w) /\ pc[w] # "commit"
    BY <1>0, <2>1, <2>2, WritersAssumption DEF ControlInv, ControlOf
  <2>4. Occurrences(w, m) \in Nat /\ Occurrences(w, m) # 0
    BY <1>0, <2>2, OccurrenceFacts
  <2>5. Share(w, m) >= 1
    <3>1. CASE MayInsert(w)
      BY <2>4, <3>1, FlagType DEF Share
    <3>2. CASE ~MayInsert(w)
      <4>1. Consuming(w) /\ cancelled[w]
        BY <2>3, <3>2 DEF MayInsert
      <4>2. Flag(Consuming(w) /\ cancelled[w]) = 1
        BY <4>1 DEF Flag
      <4> QED  BY <2>4, <3>2, <4>2, FlagType DEF Share
    <3> QED  BY <3>1, <3>2
  <2> HIDE DEF w, total
  <2>6. total >= 1
    BY <1>1, <1>2, <2>2, <2>5
  <2> QED  BY <1>1, <1>2, <1>3, <2>6, FlagType DEF Weight, total
<1>5. CASE ~(rows[m] = 0 /\ ~ToFetch(m))
  <2>1. rows[m] + Flag(ToFetch(m)) >= 1
    BY <1>3, <1>5 DEF Flag
  <2> HIDE DEF total
  <2> QED  BY <1>1, <1>2, <1>3, <2>1, FlagType DEF Weight, total
<1> QED  BY <1>4, <1>5

\* A step that changes the share of one writer only.
LEMMA LoadIsWeight ==
    ASSUME IndInv, TypeOK', NEW w \in Writers, NEW m \in Message,
           \A v \in Writers \ {w} : Share(v, m)' = Share(v, m), LoadStep(w, m)
    PROVE  WeightStep(m)
<1>0. TypeOK
  BY DEF IndInv
<1> DEFINE f == Shares(m)
           g == Shares(m)'
           s == SumFunctionOnSet(f, Writers)
           t == SumFunctionOnSet(g, Writers)
<1>1. \A v \in Writers : f[v] = Share(v, m) /\ g[v] = Share(v, m)'
  BY DEF Shares
<1>2. \A v \in Writers : Share(v, m) \in Nat /\ Share(v, m)' \in Nat
  BY <1>0, ShareTypes, ShareTypesNext
<1>3. s \in Nat /\ t \in Nat /\ Share(w, m) <= s /\ t = s - Share(w, m) + Share(w, m)'
  <2> HIDE DEF f, g
  <2> QED  BY <1>1, <1>2, SumChanges, FinitenessAssumption
<1>4. rows[m] \in Nat /\ rows'[m] \in Nat
  BY <1>0 DEF TypeOK, VarTypes
<1>5. Weight(m) = rows[m] + s + Flag(ToFetch(m)) /\ Weight(m)' = rows'[m] + t + Flag(ToFetch(m)')
  BY DEF Weight, Flag
<1>6. Load(w, m) = rows[m] + Share(w, m) + Flag(ToFetch(m)) /\ Load(w, m)' = rows'[m] + Share(w, m)' + Flag(ToFetch(m)')
  BY DEF Load, Flag
<1>7. Weight(m) >= 1 /\ Share(w, m) <= Weight(m)
  BY WeightPositive
<1> HIDE DEF s, t
<1>8. Flag(ToFetch(m)) \in Nat /\ Flag(ToFetch(m)') \in Nat
  BY FlagType
<1> QED  BY <1>2, <1>3, <1>4, <1>5, <1>6, <1>7, <1>8 DEF LoadStep, WeightStep

\* A writer that a step leaves alone keeps its share.
LEMMA ShareKept ==
    ASSUME NEW v \in Writers, NEW m \in Message,
           pc'[v] = pc[v], buf'[v] = buf[v], cancelled'[v] = cancelled[v],
           owner'[m.part] = v <=> owner[m.part] = v,
           owner[m.part] = v => pos'[m.part] = pos[m.part]
    PROVE  Share(v, m)' = Share(v, m)
<1>1. Consuming(v)' <=> Consuming(v)
  BY DEF Consuming
<1>2. MayInsert(v)' <=> MayInsert(v)
  BY <1>1 DEF MayInsert
<1>3. MayRewind(v, m)' <=> MayRewind(v, m)
  BY <1>1 DEF MayRewind, BufferedParts
<1>4. Occurrences(v, m)' = Occurrences(v, m)
  BY DEF Occurrences
<1> QED  BY <1>1, <1>2, <1>3, <1>4 DEF Share, Flag

\* The steps of w that are its own keep the others' shares.
LEMMA OwnKeepsShares ==
    ASSUME IndInv, NEW w \in Writers, NEW m \in Message, Own(w),
           \A v \in Writers \ {w} : cancelled'[v] = cancelled[v]
    PROVE  \A v \in Writers \ {w} : Share(v, m)' = Share(v, m)
<1> SUFFICES ASSUME NEW v \in Writers, v # w PROVE Share(v, m)' = Share(v, m)
  OBVIOUS
<1>0. m.part \in Partitions
  BY DEF Message
<1>1. pc'[v] = pc[v] /\ buf'[v] = buf[v] /\ cancelled'[v] = cancelled[v]
  BY DEF Own
<1>2. owner'[m.part] = v <=> owner[m.part] = v
  BY <1>0, WritersAssumption DEF Own
<1>3. owner[m.part] = v => pos'[m.part] = pos[m.part]
  BY <1>0 DEF Own
<1> QED  BY <1>1, <1>2, <1>3, ShareKept

\* What the parts of a load are.
LEMMA LoadParts ==
    ASSUME TypeOK, NEW w \in Writers, NEW m \in Message
    PROVE  /\ Load(w, m) = rows[m] + (IF MayInsert(w) THEN Occurrences(w, m) ELSE 0)
                + Flag(MayRewind(w, m)) + Flag(Consuming(w) /\ cancelled[w]) + Flag(ToFetch(m))
           /\ rows[m] \in Nat /\ Occurrences(w, m) \in Nat
           /\ Share(w, m) = (IF MayInsert(w) THEN Occurrences(w, m) ELSE 0)
                + Flag(MayRewind(w, m)) + Flag(Consuming(w) /\ cancelled[w])
<1>1. rows[m] \in Nat /\ Occurrences(w, m) \in Nat
  BY OccurrenceFacts DEF TypeOK, VarTypes
<1> DEFINE i == IF MayInsert(w) THEN Occurrences(w, m) ELSE 0
           a == Flag(MayRewind(w, m))
           b == Flag(Consuming(w) /\ cancelled[w])
           c == Flag(ToFetch(m))
<1>2. i \in Nat /\ a \in Nat /\ b \in Nat /\ c \in Nat
  BY <1>1, FlagType
<1>3. Share(w, m) = i + a + b /\ Load(w, m) = rows[m] + Share(w, m) + c
  BY DEF Share, Load
<1> HIDE DEF i, a, b, c
<1>4. Load(w, m) = rows[m] + i + a + b + c
  BY <1>1, <1>2, <1>3
<1> QED  BY <1>1, <1>3, <1>4 DEF i, a, b, c

\* A writer that keeps its batch and its partitions.
LEMMA StayLoad ==
    ASSUME IndInv, NEW w \in Writers, NEW m \in Message, Consuming(w), Consuming(w)',
           UNCHANGED <<committed, owner, pos, buf>>, cancelled'[w] = cancelled[w],
           rows'[m] \in Nat
    PROVE  /\ rows'[m] <= rows[m] /\ (MayInsert(w)' => MayInsert(w)) => Load(w, m)' <= Load(w, m)
           /\ rows'[m] <= rows[m] + Occurrences(w, m) /\ MayInsert(w) =>
                /\ Load(w, m)' <= Load(w, m) + Share(w, m)
                /\ ~MayInsert(w)' => Load(w, m)' <= Load(w, m)
<1>0. TypeOK
  BY DEF IndInv
<1> DEFINE n == Occurrences(w, m)
           a == Flag(MayRewind(w, m))
           b == Flag(Consuming(w) /\ cancelled[w])
           c == Flag(ToFetch(m))
<1>1. /\ Load(w, m) = rows[m] + (IF MayInsert(w) THEN n ELSE 0) + a + b + c
      /\ Share(w, m) = (IF MayInsert(w) THEN n ELSE 0) + a + b
      /\ rows[m] \in Nat /\ n \in Nat
  BY <1>0, LoadParts
<1>2. a \in Nat /\ b \in Nat /\ c \in Nat
  BY FlagType
<1>3. MayRewind(w, m)' <=> MayRewind(w, m)
  BY DEF MayRewind, BufferedParts
<1>4. (Consuming(w) /\ cancelled[w])' <=> Consuming(w) /\ cancelled[w]
  OBVIOUS
<1>5. ToFetch(m)' <=> ToFetch(m)
  BY DEF ToFetch
<1>6. Occurrences(w, m)' = n
  BY DEF Occurrences
<1>7. Share(w, m)' = (IF MayInsert(w)' THEN n ELSE 0) + a + b
  BY <1>3, <1>4, <1>6 DEF Share, Flag
<1>8. Load(w, m)' = rows'[m] + ((IF MayInsert(w)' THEN n ELSE 0) + a + b) + c
  BY <1>5, <1>7 DEF Load, Flag
<1> HIDE DEF n, a, b, c
<1>9. rows'[m] <= rows[m] /\ (MayInsert(w)' => MayInsert(w)) => Load(w, m)' <= Load(w, m)
  BY <1>1, <1>2, <1>8
<1>10. rows'[m] <= rows[m] + n /\ MayInsert(w) =>
                /\ Load(w, m)' <= Load(w, m) + Share(w, m)
                /\ ~MayInsert(w)' => Load(w, m)' <= Load(w, m)
  BY <1>1, <1>2, <1>8
<1> QED  BY <1>9, <1>10 DEF n

\* What a writer that commits, or gives up its partitions, leaves to be fetched
\* again.
LEMMA LeavesToFetch ==
    ASSUME IndInv, NEW w \in Writers, NEW m \in Message, Consuming(w),
           Release(w) \/ UNCHANGED <<owner, pos>>,
           \A v \in Writers \ {w} : buf'[v] = buf[v],
           NEW P \in SUBSET Partitions, CommitUpTo(w, P), ToFetch(m)', ~ToFetch(m)
    PROVE  MayRewind(w, m) \/ (m \in Range(buf[w]) /\ P # Partitions)
<1> DEFINE p == m.part
           o == m.offset
<1>0. /\ p \in Partitions /\ o \in Nat /\ committed[p] \in Nat /\ pos[p] \in Nat
      /\ owner[p] \in Writers \cup {NoWriter}
      /\ m = [part |-> p, offset |-> o]
  BY DEF IndInv, TypeOK, VarTypes, Message, Offsets
<1>1. /\ committed' \in [Partitions -> 0..MaxOffset]
      /\ IF p \in P \cap BufferedParts(w) THEN HighestBuffered(w, p, committed'[p])
         ELSE committed'[p] = committed[p]
  BY <1>0 DEF CommitUpTo
<1>2. /\ owner[p] # w => owner'[p] = owner[p] /\ pos'[p] = pos[p]
      /\ owner'[p] = NoWriter \/ (owner'[p] = owner[p] /\ pos'[p] = pos[p])
  BY <1>0 DEF Release
<1>3. owner[p] # w /\ owner[p] # NoWriter => buf'[owner[p]] = buf[owner[p]]
  BY <1>0
<1>4. o > committed'[p]
  <2>1. CASE owner'[p] = NoWriter
    BY <2>1 DEF ToFetch
  <2>2. CASE owner'[p] # NoWriter
    BY <1>2, <2>2 DEF ToFetch
  <2> QED  BY <2>1, <2>2
<1>5. owner[p] # w \/ o <= pos[p]
  BY <1>0, WritersAssumption DEF ToFetch
<1>6. CASE p \in P \cap BufferedParts(w)
  <2>1. \A k \in Range(buf[w]) : k.part = p => k.offset < o
    <3>1. \A k \in Range(buf[w]) : k.part = p => k.offset <= committed'[p]
      BY <1>1, <1>6 DEF HighestBuffered, Range
    <3>2. \A k \in Range(buf[w]) : k.offset \in Nat
      BY BufferedMessages DEF IndInv, Message, Offsets
    <3>3. committed'[p] \in Nat
      BY <1>0, <1>1
    <3> HIDE DEF p, o
    <3> QED  BY <1>0, <1>4, <3>1, <3>2, <3>3
  <2> QED  BY <1>5, <1>6, <2>1 DEF MayRewind
<1>7. CASE p \notin P \cap BufferedParts(w)
  <2>1. o > committed[p]
    BY <1>1, <1>4, <1>7
  <2>2. owner[p] = w /\ m \in Range(buf[w])
    <3>1. owner[p] # NoWriter /\ ~(o > pos[p]) /\ m \in Range(buf[owner[p]])
      BY <2>1 DEF ToFetch
    <3>2. CASE owner[p] # w
      BY <1>2, <1>3, <3>1, <3>2 DEF ToFetch
    <3> QED  BY <3>1, <3>2
  <2>3. p \in BufferedParts(w)
    BY <2>2 DEF BufferedParts
  <2> QED  BY <1>0, <1>7, <2>2, <2>3
<1> QED  BY <1>6, <1>7

\* A writer that leaves the group, with its batch committed in P.
LEMMA ExitLoad ==
    ASSUME IndInv, NEW w \in Writers, NEW m \in Message, Consuming(w), ~Consuming(w)',
           Release(w), \A v \in Writers \ {w} : buf'[v] = buf[v],
           NEW P \in SUBSET Partitions, CommitUpTo(w, P),
           rows'[m] \in Nat,
           rows'[m] <= rows[m] + IF MayInsert(w) THEN Occurrences(w, m) ELSE 0
    PROVE  /\ Load(w, m)' <= Load(w, m) + 1
           /\ cancelled[w] => Load(w, m)' <= Load(w, m)
           /\ MayInsert(w) /\ rows'[m] = rows[m] => Load(w, m)' <= Load(w, m)
           /\ P = Partitions => Load(w, m)' <= Load(w, m)
           /\ buf[w] = <<>> => Load(w, m)' <= Load(w, m)
<1>0. TypeOK
  BY DEF IndInv
<1> DEFINE n == Occurrences(w, m)
           a == Flag(MayRewind(w, m))
           b == Flag(Consuming(w) /\ cancelled[w])
           c == Flag(ToFetch(m))
           d == Flag(ToFetch(m)')
<1>1. /\ Load(w, m) = rows[m] + (IF MayInsert(w) THEN n ELSE 0) + a + b + c
      /\ rows[m] \in Nat /\ n \in Nat
  BY <1>0, LoadParts
<1>2. a \in {0, 1} /\ b \in {0, 1} /\ c \in {0, 1} /\ d \in {0, 1}
  BY FlagType
<1>3. Load(w, m)' = rows'[m] + d
  <2>1. Share(w, m)' = 0
    BY DEF Share, MayInsert, MayRewind, Flag
  <2>2. Load(w, m)' = rows'[m] + 0 + d
    BY <2>1 DEF Load, Flag
  <2> HIDE DEF d
  <2> QED  BY <1>2, <2>2
<1>4. d = 1 /\ c = 0 => a = 1 \/ (m \in Range(buf[w]) /\ P # Partitions)
  BY LeavesToFetch DEF Flag
<1>5. m \in Range(buf[w]) => n # 0
  BY <1>0, OccurrenceFacts
<1>6. cancelled[w] => b = 1
  BY DEF Flag
<1>7. buf[w] = <<>> => m \notin Range(buf[w])
  BY EmptyRange
<1>8. rows'[m] <= rows[m] + IF MayInsert(w) THEN n ELSE 0
  OBVIOUS
<1> DEFINE in == m \in Range(buf[w])
<1> HIDE DEF n, a, b, c, d, in
<1>9. d = 1 /\ c = 0 => a = 1 \/ (in /\ P # Partitions)
  BY <1>4 DEF in
<1>10. (in => n # 0) /\ (buf[w] = <<>> => ~in)
  BY <1>5, <1>7 DEF in
<1>11. Load(w, m)' <= Load(w, m) + 1
  BY <1>1, <1>2, <1>3, <1>8
<1>12. cancelled[w] => Load(w, m)' <= Load(w, m)
  BY <1>1, <1>2, <1>3, <1>6, <1>8
<1>13. ASSUME MayInsert(w), rows'[m] = rows[m] PROVE Load(w, m)' <= Load(w, m)
  <2>1. Load(w, m) = rows[m] + n + a + b + c
    BY <1>1, <1>13
  <2>2. d <= n + a + c
    BY <1>1, <1>2, <1>9, <1>10
  <2> QED  BY <1>1, <1>2, <1>3, <1>13, <2>1, <2>2
<1>14. ASSUME P = Partitions \/ buf[w] = <<>> PROVE Load(w, m)' <= Load(w, m)
  <2>1. d <= a + c
    BY <1>2, <1>9, <1>10, <1>14
  <2> QED  BY <1>1, <1>2, <1>3, <1>8, <2>1
<1> QED  BY <1>11, <1>12, <1>13, <1>14

\* A writer that goes on with an empty batch, having committed the last one.
LEMMA ClearLoad ==
    ASSUME IndInv, NEW w \in Writers, NEW m \in Message, pc[w] = "commit", Consuming(w)',
           buf'[w] = <<>>, \A v \in Writers \ {w} : buf'[v] = buf[v],
           UNCHANGED <<owner, pos, rows, cancelled>>, CommitUpTo(w, Partitions)
    PROVE  Load(w, m)' <= Load(w, m)
<1>0. TypeOK /\ Consuming(w) /\ ~MayInsert(w)
  BY DEF IndInv, Consuming, MayInsert
<1> DEFINE a == Flag(MayRewind(w, m))
           b == Flag(Consuming(w) /\ cancelled[w])
           c == Flag(ToFetch(m))
           d == Flag(ToFetch(m)')
<1>1. /\ Load(w, m) = rows[m] + 0 + a + b + c
      /\ rows[m] \in Nat
  BY <1>0, LoadParts
<1>2. a \in {0, 1} /\ b \in {0, 1} /\ c \in {0, 1} /\ d \in {0, 1}
  BY FlagType
<1>3. d = 1 /\ c = 0 => a = 1
  BY <1>0, LeavesToFetch DEF Flag
<1>4. Load(w, m)' = rows[m] + (0 + 0 + b) + d
  <2>1. Range(buf'[w]) = {}
    BY EmptyRange
  <2>2. ~MayRewind(w, m)'
    BY <2>1 DEF MayRewind, BufferedParts
  <2>3. CopiesIn(buf'[w], m) = 0
    <3>1. {i \in DOMAIN buf'[w] : buf'[w][i] = m} = {}
      OBVIOUS
    <3> QED  BY <3>1, FS_EmptySet DEF CopiesIn
  <2>4. Occurrences(w, m)' = 0
    BY <2>3 DEF Occurrences
  <2>5. Share(w, m)' = 0 + 0 + b
    BY <1>0, <2>2, <2>4 DEF Share, Flag
  <2> QED  BY <2>5 DEF Load, Flag
<1> HIDE DEF a, b, c, d
<1> QED  BY <1>1, <1>2, <1>3, <1>4

\* A writer that is not in the group, before and after.
LEMMA IdleLoad ==
    ASSUME IndInv, NEW w \in Writers, NEW m \in Message, ~Consuming(w),
           Share(w, m)' = 0, UNCHANGED rows,
           \A p \in Partitions : committed'[p] = committed[p] /\ owner'[p] = owner[p] /\ pos'[p] = pos[p],
           \A v \in Writers \ {w} : buf'[v] = buf[v]
    PROVE  Load(w, m)' <= Load(w, m)
<1>0. TypeOK /\ ControlInv /\ m.part \in Partitions
  BY DEF IndInv, Message
<1>1. owner[m.part] # NoWriter => owner[m.part] \in Writers \ {w}
  BY <1>0 DEF ControlInv, TypeOK, VarTypes
<1>2. ToFetch(m)' <=> ToFetch(m)
  BY <1>0, <1>1 DEF ToFetch
<1>3. Share(w, m) \in Nat /\ rows[m] \in Nat
  BY <1>0, ShareType DEF TypeOK, VarTypes
<1>4. Load(w, m)' = rows[m] + 0 + Flag(ToFetch(m)) /\ Load(w, m) = rows[m] + Share(w, m) + Flag(ToFetch(m))
  BY <1>2 DEF Load, Flag
<1>5. Flag(ToFetch(m)) \in Nat
  BY FlagType
<1> QED  BY <1>3, <1>4, <1>5

\* The types of what concerns a message.
LEMMA MessageTypes ==
    ASSUME TypeOK, NEW m \in Message
    PROVE  /\ m.part \in Partitions /\ m.offset \in Nat
           /\ pos[m.part] \in Nat /\ committed[m.part] \in Nat
           /\ owner[m.part] \in Writers \cup {NoWriter}
           /\ m = [part |-> m.part, offset |-> m.offset]
BY DEF TypeOK, VarTypes, Message, Offsets

\* Appending to a batch.
LEMMA AppendOccurrences ==
    ASSUME NEW s \in Seq(Message), NEW x \in Message, NEW m \in Message
    PROVE  /\ m = x => CopiesIn(Append(s, x), m) = CopiesIn(s, m) + 1
           /\ m # x => CopiesIn(Append(s, x), m) = CopiesIn(s, m)
<1> DEFINE t == Append(s, x)
<1> DEFINE A == {i \in DOMAIN s : s[i] = m}
           B == {i \in DOMAIN t : t[i] = m}
           e == Len(s) + 1
<1>1. /\ DOMAIN s = 1..Len(s) /\ Len(s) \in Nat /\ DOMAIN t = 1..e
      /\ t[e] = x /\ \A i \in 1..Len(s) : t[i] = s[i]
  OBVIOUS
<1>2. IsFiniteSet(DOMAIN s)
  BY <1>1, FS_Interval
<1>3. IsFiniteSet(A)
  BY <1>2, FS_Subset
<1>4. e \notin A
  BY <1>1
<1>5. CASE m = x
  <2>1. B = A \cup {e}
    BY <1>1, <1>5
  <2> HIDE DEF A, B, e
  <2>2. Cardinality(B) = Cardinality(A) + 1
    BY <1>3, <1>4, <2>1, FS_AddElement
  <2> QED  BY <1>5, <2>2 DEF A, B, CopiesIn
<1>6. CASE m # x
  <2>1. B = A
    BY <1>1, <1>6
  <2> HIDE DEF A, B, e
  <2> QED  BY <1>6, <2>1 DEF A, B, CopiesIn
<1> QED  BY <1>5, <1>6

\* A fetch trades the message's delivery for its place in the batch.
LEMMA FetchLoad ==
    ASSUME IndInv, NEW w \in Writers, NEW p \in Partitions, FetchEvent(w, p), NEW m \in Message
    PROVE  /\ Load(w, m)' <= Load(w, m)
           /\ \A v \in Writers \ {w} : Share(v, m)' = Share(v, m)
<1> DEFINE new == [part |-> p, offset |-> pos[p] + 1]
           q == m.part
           o == m.offset
<1>a. TypeOK
  BY DEF IndInv
<1>b. /\ pos \in [Partitions -> 0..MaxOffset] /\ buf \in [Writers -> Seq(Message)]
      /\ pc \in [Writers -> Phases] /\ pos[p] \in Nat
  BY <1>a DEF TypeOK, VarTypes
<1>c. /\ q \in Partitions /\ o \in Nat /\ pos[q] \in Nat /\ committed[q] \in Nat
      /\ owner[q] \in Writers \cup {NoWriter} /\ m = [part |-> q, offset |-> o]
  BY <1>a, MessageTypes
<1>1. /\ UNCHANGED <<committed, owner, rows, cancelled>> /\ owner[p] = w /\ pc[w] = "fetch"
      /\ pos' = [pos EXCEPT ![p] = @ + 1]
      /\ buf' = [buf EXCEPT ![w] = Append(@, new)]
  BY DEF FetchEvent
<1>2. /\ pc'[w] \in {"fetch", "write"}
      /\ \A v \in Writers \ {w} : pc'[v] = pc[v]
  BY <1>a, <1>b, <1>c, <1>1 DEF FetchEvent, BeginFlush
<1>3. new \in Message
  <2>1. pos[p] < Len(log[p]) /\ Len(log[p]) <= MaxOffset /\ Len(log[p]) \in Nat
    BY DEF FetchEvent, IndInv, DataInv, LogBounded, TypeOK, VarTypes
  <2> QED  BY <1>a, <1>b, <1>c, <2>1, BoundsAssumption DEF Message, Offsets
<1>4. buf'[w] = Append(buf[w], new) /\ \A v \in Writers \ {w} : buf'[v] = buf[v]
  BY <1>a, <1>b, <1>c, <1>1
<1>5. Range(buf'[w]) = Range(buf[w]) \cup {new}
  BY <1>a, <1>b, <1>c, <1>3, <1>4, RangeAppend
<1>6. pos'[p] = pos[p] + 1 /\ (q # p => pos'[q] = pos[q])
  BY <1>a, <1>b, <1>c, <1>1
<1>7. \A v \in Writers \ {w} : Share(v, m)' = Share(v, m)
  <2> SUFFICES ASSUME NEW v \in Writers, v # w PROVE Share(v, m)' = Share(v, m)
    OBVIOUS
  <2>1. pc'[v] = pc[v] /\ buf'[v] = buf[v] /\ cancelled'[v] = cancelled[v]
    BY <1>1, <1>2, <1>4
  <2>2. owner[q] = v => pos'[q] = pos[q]
    BY <1>1, <1>6
  <2> QED  BY <1>1, <2>1, <2>2, ShareKept
<1> DEFINE n == Occurrences(w, m)
           a == Flag(MayRewind(w, m))
           b == Flag(Consuming(w) /\ cancelled[w])
           c == Flag(ToFetch(m))
           n1 == Occurrences(w, m)'
           a1 == Flag(MayRewind(w, m)')
           c1 == Flag(ToFetch(m)')
<1>8. /\ Load(w, m) = rows[m] + (IF MayInsert(w) THEN n ELSE 0) + a + b + c
      /\ rows[m] \in Nat /\ n \in Nat
  BY <1>a, <1>b, <1>c, LoadParts
<1>9. a \in Nat /\ b \in Nat /\ c \in Nat /\ a1 \in Nat /\ c1 \in Nat
  BY FlagType
<1>10. (m = new => n1 = n + 1) /\ (m # new => n1 = n)
  <2>1. buf[w] \in Seq(Message) /\ buf'[w] = Append(buf[w], new)
    BY <1>b, <1>4
  <2>2. PICK s, t, x : s = buf[w] /\ t = buf'[w] /\ x = new
    OBVIOUS
  <2>3. s \in Seq(Message) /\ x \in Message /\ t = Append(s, x)
    BY <1>3, <2>1, <2>2
  <2>4. (m = x => CopiesIn(t, m) = CopiesIn(s, m) + 1) /\ (m # x => CopiesIn(t, m) = CopiesIn(s, m))
    <3>1. m = x => CopiesIn(Append(s, x), m) = CopiesIn(s, m) + 1
      BY <2>3, AppendOccurrences, Zenon
    <3>2. m # x => CopiesIn(Append(s, x), m) = CopiesIn(s, m)
      BY <2>3, AppendOccurrences, Zenon
    <3> DEFINE A == Append(s, x)
    <3>3. t = A
      BY <2>3
    <3> HIDE DEF A
    <3> QED  BY ONLY <3>1, <3>2, <3>3 DEF A
  <2>5. n = CopiesIn(s, m) /\ n1 = CopiesIn(t, m)
    BY <2>2 DEF Occurrences
  <2> QED  BY <2>2, <2>4, <2>5
<1>11. (MayInsert(w)' <=> MayInsert(w)) /\ Consuming(w) /\ Consuming(w)'
  BY <1>1, <1>2 DEF MayInsert, Consuming
<1>12. Load(w, m)' = rows[m] + ((IF MayInsert(w) THEN n1 ELSE 0) + a1 + b) + c1
  <2>1. Share(w, m)' = (IF MayInsert(w) THEN n1 ELSE 0) + a1 + b
    BY <1>1, <1>11 DEF Share, Flag
  <2> QED  BY <1>1, <2>1 DEF Load, Flag
<1>13. CASE m = new
  <2>1. ToFetch(m)
    BY <1>a, <1>b, <1>c, <1>1, <1>13, WritersAssumption DEF ToFetch
  <2>2. ~ToFetch(m)'
    <3>1. q = p /\ o = pos'[p] /\ m \in Range(buf'[w]) /\ owner'[p] = w /\ pos'[p] \in Nat
      BY <1>a, <1>b, <1>c, <1>1, <1>5, <1>6, <1>13
    <3> QED  BY <3>1, WritersAssumption DEF ToFetch
  <2>3. ~MayRewind(w, m)'
    BY <1>a, <1>b, <1>c, <1>5, <1>13 DEF MayRewind
  <2>4. c = 1 /\ c1 = 0 /\ a1 = 0
    BY <2>1, <2>2, <2>3 DEF Flag
  <2> HIDE DEF n, a, b, c, n1, a1, c1, new
  <2> QED  BY <1>7, <1>8, <1>9, <1>10, <1>12, <1>13, <2>4
<1>14. CASE m # new
  <2>1. ToFetch(m)' => ToFetch(m)
    <3>1. owner[q] \in Writers => (m \in Range(buf'[owner[q]]) <=> m \in Range(buf[owner[q]]))
      BY <1>a, <1>b, <1>c, <1>4, <1>5, <1>14
    <3>2. pos'[q] >= pos[q] /\ pos'[q] \in Nat
      BY <1>a, <1>b, <1>c, <1>6
    <3> QED  BY <1>a, <1>b, <1>c, <1>1, <3>1, <3>2 DEF ToFetch
  <2>2. MayRewind(w, m)' => MayRewind(w, m)
    <3>1. CASE q = p
      <4>1. ~MayRewind(w, m)'
        <5>1. new \in Range(buf'[w]) /\ new.part = q /\ new.offset = pos[p] + 1
          BY <1>5, <3>1
        <5>2. owner'[q] = w /\ pos'[q] = pos[p] + 1
          BY <1>1, <1>6, <3>1
        <5>3. ~(pos[p] + 1 < o /\ o <= pos[p] + 1)
          BY <1>b, <1>c
        <5> HIDE DEF new
        <5> QED  BY <5>1, <5>2, <5>3 DEF MayRewind
      <4> QED  BY <4>1
    <3>2. CASE q # p
      <4>1. q \in BufferedParts(w)' => q \in BufferedParts(w)
        BY <1>5, <3>2 DEF BufferedParts
      <4> QED  BY <1>1, <1>5, <1>6, <1>11, <3>2, <4>1 DEF MayRewind
    <3> QED  BY <3>1, <3>2
  <2>3. c1 <= c /\ a1 <= a
    BY <2>1, <2>2 DEF Flag
  <2> HIDE DEF n, a, b, c, n1, a1, c1, new
  <2> QED  BY <1>7, <1>8, <1>9, <1>10, <1>12, <1>14, <2>3
<1> QED  BY <1>13, <1>14

\* Handing a partition out starts where the group's offset is.
LEMMA AssignLoad ==
    ASSUME IndInv, NEW p \in Partitions, NEW w \in Writers, Assign(p, w), NEW m \in Message
    PROVE  /\ Load(w, m)' <= Load(w, m)
           /\ \A v \in Writers \ {w} : Share(v, m)' = Share(v, m)
<1> DEFINE q == m.part
           o == m.offset
<1>a. TypeOK
  BY DEF IndInv
<1>0. /\ TypeOK /\ q \in Partitions /\ o \in Nat /\ pos[q] \in Nat /\ committed[q] \in Nat
  BY <1>a, MessageTypes
<1>1. /\ UNCHANGED <<committed, rows, pc, buf, cancelled>> /\ owner[p] = NoWriter
      /\ owner'[p] = w /\ pos'[p] = committed[p]
      /\ q # p => owner'[q] = owner[q] /\ pos'[q] = pos[q]
  BY <1>0 DEF Assign, StartPosition, TypeOK, VarTypes
<1>2. \A v \in Writers \ {w} : Share(v, m)' = Share(v, m)
  <2> SUFFICES ASSUME NEW v \in Writers, v # w PROVE Share(v, m)' = Share(v, m)
    OBVIOUS
  <2>1. (owner'[q] = v <=> owner[q] = v) /\ (owner[q] = v => pos'[q] = pos[q])
    BY <1>1, WritersAssumption
  <2> QED  BY <1>1, <2>1, ShareKept
<1>3. ToFetch(m)' => ToFetch(m)
  BY <1>0, <1>1, WritersAssumption DEF ToFetch
<1>4. MayRewind(w, m)' => MayRewind(w, m)
  <2>1. Consuming(w)' <=> Consuming(w)
    BY <1>1 DEF Consuming
  <2>2. owner'[q] # w \/ o <= pos'[q] => owner[q] # w \/ o <= pos[q]
    BY <1>1, WritersAssumption
  <2> QED  BY <1>1, <2>1, <2>2 DEF MayRewind, BufferedParts
<1> DEFINE i == IF MayInsert(w) THEN Occurrences(w, m) ELSE 0
           a == Flag(MayRewind(w, m))
           b == Flag(Consuming(w) /\ cancelled[w])
           c == Flag(ToFetch(m))
           a1 == Flag(MayRewind(w, m)')
           c1 == Flag(ToFetch(m)')
<1>5. Load(w, m) = rows[m] + i + a + b + c /\ rows[m] \in Nat /\ i \in Nat
  BY <1>0, LoadParts
<1>6. Load(w, m)' = rows[m] + (i + a1 + b) + c1
  BY <1>1 DEF Load, Share, Flag, MayInsert, Consuming, Occurrences
<1>7. a \in Nat /\ b \in Nat /\ c \in Nat /\ a1 \in Nat /\ c1 \in Nat /\ a1 <= a /\ c1 <= c
  BY <1>3, <1>4 DEF Flag
<1> HIDE DEF i, a, b, c, a1, c1
<1> QED  BY <1>2, <1>5, <1>6, <1>7

\* Taking a partition away has one message or another delivered again.
LEMMA RevokeLoad ==
    ASSUME IndInv, NEW p \in Partitions, Revoke(p), NEW m \in Message, NEW w \in Writers, w = owner[p]
    PROVE  /\ Load(w, m)' <= Load(w, m) + 1 /\ FaultStep
           /\ \A v \in Writers \ {w} : Share(v, m)' = Share(v, m)
<1> DEFINE q == m.part
           o == m.offset
<1>a. TypeOK
  BY DEF IndInv
<1>0. /\ TypeOK /\ q \in Partitions /\ o \in Nat /\ pos[q] \in Nat /\ committed[q] \in Nat
  BY <1>a, MessageTypes
<1>1. /\ UNCHANGED <<committed, rows, pc, buf, cancelled>>
      /\ owner'[p] = NoWriter
      /\ q # p => owner'[q] = owner[q] /\ pos'[q] = pos[q]
  BY <1>0 DEF Revoke, TypeOK, VarTypes
<1>2. FaultStep
  BY DEF Revoke, FaultStep, IndInv, TypeOK, VarTypes
<1>3. \A v \in Writers \ {w} : Share(v, m)' = Share(v, m)
  <2> SUFFICES ASSUME NEW v \in Writers, v # w PROVE Share(v, m)' = Share(v, m)
    OBVIOUS
  <2>1. (owner'[q] = v <=> owner[q] = v) /\ (owner[q] = v => pos'[q] = pos[q])
    BY <1>1, WritersAssumption
  <2> QED  BY <1>1, <2>1, ShareKept
<1>4. ToFetch(m)' /\ ~ToFetch(m) => m \in Range(buf[w])
  BY <1>0, <1>1, WritersAssumption DEF ToFetch
<1>5. MayRewind(w, m)' => m \notin Range(buf[w])
  BY <1>0, <1>1 DEF MayRewind
<1> DEFINE i == IF MayInsert(w) THEN Occurrences(w, m) ELSE 0
           a == Flag(MayRewind(w, m))
           b == Flag(Consuming(w) /\ cancelled[w])
           c == Flag(ToFetch(m))
           a1 == Flag(MayRewind(w, m)')
           c1 == Flag(ToFetch(m)')
<1>6. Load(w, m) = rows[m] + i + a + b + c /\ rows[m] \in Nat /\ i \in Nat
  BY <1>0, LoadParts
<1>7. Load(w, m)' = rows[m] + (i + a1 + b) + c1
  BY <1>1 DEF Load, Share, Flag, MayInsert, Consuming, Occurrences
<1>8. a1 + c1 <= a + c + 1
  BY <1>4, <1>5 DEF Flag
<1>9. a \in Nat /\ b \in Nat /\ c \in Nat /\ a1 \in Nat /\ c1 \in Nat
  BY FlagType
<1> HIDE DEF i, a, b, c, a1, c1
<1> QED  BY <1>2, <1>3, <1>6, <1>7, <1>8, <1>9

\* An uncommitted exit.
LEMMA CommitNothing ==
    ASSUME TypeOK, NEW w \in Writers, UNCHANGED committed
    PROVE  CommitUpTo(w, {})
BY DEF CommitUpTo, TypeOK, VarTypes

\* A step that leaves the table alone keeps the rows.
LEMMA SameRows ==
    ASSUME TypeOK, UNCHANGED rows, NEW m \in Message
    PROVE  rows'[m] \in Nat /\ rows'[m] = rows[m]
BY DEF TypeOK, VarTypes

\* The phases a step moves to.
LEMMA MovesTo ==
    ASSUME TypeOK, NEW w \in Writers, NEW phase, pc' = [pc EXCEPT ![w] = phase]
    PROVE  pc'[w] = phase
BY DEF TypeOK, VarTypes

\* Starting and connecting adds nothing.
LEMMA StartupLoad ==
    ASSUME IndInv, PingInv, NEW w \in Writers, Startup(w), NEW m \in Message
    PROVE  Load(w, m)' <= Load(w, m)
<1>a. TypeOK
  BY DEF IndInv
<1>1. /\ ~Consuming(w) /\ UNCHANGED <<rows, committed, owner, pos>>
      /\ \A v \in Writers \ {w} : buf'[v] = buf[v]
  BY <1>a DEF Startup, Start, PingOK, PingErr, Consuming, kafkaVars, TypeOK, VarTypes
<1>2. Share(w, m)' = 0
  <2>1. CASE Start(w) \/ PingErr(w)
    <3>1. ~Consuming(w)'
      BY <1>a, <2>1 DEF Start, PingErr, Consuming, TypeOK, VarTypes
    <3> QED  BY <3>1 DEF Share, MayInsert, MayRewind, Flag
  <2>2. CASE PingOK(w)
    <3>1. buf'[w] = <<>> /\ cancelled'[w] = FALSE
      BY <1>a, <2>2 DEF PingOK, IndInv, ControlInv, ControlOf, PingInv, TypeOK, VarTypes
    <3>2. Range(buf'[w]) = {}
      BY <3>1, EmptyRange
    <3>3. ~MayRewind(w, m)'
      BY <3>2 DEF MayRewind, BufferedParts
    <3>4. CopiesIn(buf'[w], m) = 0
      <4>1. {i \in DOMAIN buf'[w] : buf'[w][i] = m} = {}
        BY <3>1
      <4> QED  BY <4>1, FS_EmptySet DEF CopiesIn
    <3>5. Occurrences(w, m)' = 0
      BY <3>4 DEF Occurrences
    <3> QED  BY <3>1, <3>3, <3>5 DEF Share, Flag
  <2> QED  BY <2>1, <2>2 DEF Startup
<1> QED  BY <1>1, <1>2, IdleLoad

\* A process that ends without a fault had a batch to write, was told to stop, or
\* had nothing left.
LEMMA EndLoad ==
    ASSUME IndInv, NEW w \in Writers, NEW m \in Message, Consuming(w),
           NEW status \in {"done", "fatal", "down"}, Exit(w, status),
           UNCHANGED <<rows, committed>>, \A v \in Writers \ {w} : buf'[v] = buf[v]
    PROVE  /\ Load(w, m)' <= Load(w, m) + 1
           /\ cancelled[w] \/ MayInsert(w) \/ buf[w] = <<>> => Load(w, m)' <= Load(w, m)
<1>a. TypeOK /\ ControlInv
  BY DEF IndInv
<1>1. ~Consuming(w)' /\ Release(w)
  BY <1>a, ExitFacts DEF Consuming, Exit
<1>2. {} \in SUBSET Partitions /\ CommitUpTo(w, {})
  BY <1>a, CommitNothing
<1>3. rows'[m] \in Nat /\ rows'[m] = rows[m]
  BY <1>a, SameRows
<1>4. rows'[m] <= rows[m] + IF MayInsert(w) THEN Occurrences(w, m) ELSE 0
  BY <1>a, <1>3, OccurrenceFacts
<1> QED  BY <1>1, <1>2, <1>3, <1>4, ExitLoad

\* Waiting for messages: a failed fetch ends the process, a cancelled one may
\* leave a batch behind.
LEMMA LoopLoad ==
    ASSUME IndInv, NEW w \in Writers, Loop(w), NEW m \in Message
    PROVE  LoadStep(w, m)
<1>a. TypeOK
  BY DEF IndInv
<1>1. /\ UNCHANGED <<rows, buf, committed, cancelled>> /\ pc[w] \in {"fetch", "check"}
      /\ Consuming(w)
  BY DEF Loop, TimeoutTick, TimeoutIdle, CheckCancelled, FetchCanceled, FetchError, kafkaVars,
     Consuming
<1>2. CASE UNCHANGED <<owner, pos>> /\ \E phase \in {"fetch", "check", "write"} : pc' = [pc EXCEPT ![w] = phase]
  <2>1. pc'[w] \in {"fetch", "check", "write"}
    BY <1>a, <1>2, MovesTo
  <2>2. Consuming(w)' /\ (MayInsert(w)' => MayInsert(w))
    BY <1>1, <2>1 DEF Consuming, MayInsert
  <2>3. rows'[m] \in Nat /\ rows'[m] <= rows[m]
    BY <1>a, <1>1, SameRows DEF TypeOK, VarTypes
  <2> QED  BY <1>1, <1>2, <2>2, <2>3, StayLoad DEF LoadStep
<1>3. CASE buf[w] = <<>> /\ Exit(w, "done")
  <2>1. Load(w, m)' <= Load(w, m)
    BY <1>1, <1>3, EndLoad
  <2> QED  BY <2>1 DEF LoadStep
<1>4. CASE FetchError(w)
  <2>1. Exit(w, "fatal") /\ FaultStep
    BY <1>a, <1>4 DEF FetchError, Fault, FaultStep, TypeOK, VarTypes
  <2>2. Load(w, m)' <= Load(w, m) + 1
    BY <1>1, <2>1, EndLoad
  <2> QED  BY <2>1, <2>2 DEF LoadStep
<1> QED  BY <1>2, <1>3, <1>4 DEF Loop, TimeoutTick, TimeoutIdle, CheckCancelled, FetchCanceled,
            ReturnFlush, BeginFlush, kafkaVars, flushVars

\* A message that does not decode ends the process: its batch is not written.
LEMMA GarbageLoad ==
    ASSUME IndInv, NEW w \in Writers, NEW p \in Partitions, FetchGarbage(w, p), NEW m \in Message
    PROVE  Load(w, m)' <= Load(w, m)
<1>1. /\ UNCHANGED <<rows, buf, committed, cancelled>> /\ pc[w] = "fetch"
      /\ Exit(w, "fatal")
  BY DEF FetchGarbage
<1>2. Consuming(w) /\ (cancelled[w] \/ MayInsert(w))
  BY <1>1 DEF Consuming, MayInsert
<1> QED  BY <1>1, <1>2, EndLoad

\* A failed attempt, of which n events of the batch came to be in the table.
LEMMA AttemptLoad ==
    ASSUME IndInv, NEW w \in Writers, NEW m \in Message, pc[w] \in {"write", "send"},
           NEW isCanceled \in BOOLEAN, AttemptFailed(w, isCanceled),
           UNCHANGED <<committed, cancelled>>, rows'[m] \in Nat,
           rows'[m] <= rows[m] + IF MayInsert(w) THEN Occurrences(w, m) ELSE 0,
           cancelled[w] \/ FaultStep \/ (MayInsert(w) /\ rows'[m] = rows[m])
    PROVE  LoadStep(w, m)
<1>a. TypeOK /\ ControlInv
  BY DEF IndInv
<1>b. Occurrences(w, m) \in Nat /\ rows[m] \in Nat
  BY <1>a, OccurrenceFacts DEF TypeOK, VarTypes
<1>c. Consuming(w)
  BY DEF Consuming
<1>1. CASE pc' = [pc EXCEPT ![w] = "write"] /\ UNCHANGED <<owner, pos, buf>>
  <2>1. pc'[w] = "write"
    BY <1>a, <1>1, MovesTo
  <2>2. Consuming(w)' /\ (MayInsert(w)' <=> ~cancelled[w])
    BY <2>1 DEF Consuming, MayInsert
  <2>3. MayInsert(w)' => MayInsert(w)
    BY <2>2, <1>c DEF MayInsert
  <2>4. CASE ~MayInsert(w)
    <3>1. rows'[m] <= rows[m]
      BY <1>b, <2>4
    <3>2. Load(w, m)' <= Load(w, m)
      BY <1>c, <1>1, <2>2, <2>3, <3>1, StayLoad
    <3> QED  BY <3>2 DEF LoadStep
  <2>5. CASE MayInsert(w)
    <3>1. rows'[m] <= rows[m] + Occurrences(w, m)
      BY <2>5
    <3>2. /\ Load(w, m)' <= Load(w, m) + Share(w, m)
          /\ ~MayInsert(w)' => Load(w, m)' <= Load(w, m)
          /\ rows'[m] <= rows[m] => Load(w, m)' <= Load(w, m)
      BY <1>c, <1>1, <2>2, <2>3, <2>5, <3>1, StayLoad
    <3>3. cancelled[w] => ~MayInsert(w)'
      BY <2>2
    <3>4. rows'[m] = rows[m] => rows'[m] <= rows[m]
      BY <1>b
    <3> QED  BY <3>2, <3>3, <3>4 DEF LoadStep
  <2> QED  BY <2>4, <2>5
<1>2. CASE GiveUp(w, isCanceled)
  <2>1. PICK status \in {"done", "fatal", "down"} : Exit(w, status)
    BY <1>2 DEF GiveUp
  <2>2. buf' = buf
    BY <1>2 DEF GiveUp
  <2>3. ~Consuming(w)' /\ Release(w)
    BY <1>a, <2>1, ExitFacts DEF Consuming, Exit
  <2>4. {} \in SUBSET Partitions /\ CommitUpTo(w, {})
    BY <1>a, CommitNothing
  <2>5. /\ Load(w, m)' <= Load(w, m) + 1
        /\ cancelled[w] => Load(w, m)' <= Load(w, m)
        /\ MayInsert(w) /\ rows'[m] = rows[m] => Load(w, m)' <= Load(w, m)
    BY <1>c, <2>2, <2>3, <2>4, ExitLoad
  <2> QED  BY <2>5 DEF LoadStep
<1> QED  BY <1>1, <1>2 DEF AttemptFailed

\* Storing and committing a batch: a failure after the insert is what adds rows.
LEMMA FlushLoad ==
    ASSUME IndInv, NEW w \in Writers, Flush(w), NEW m \in Message
    PROVE  LoadStep(w, m)
<1> USE DEF kafkaVars, flushVars
<1>a. TypeOK /\ ControlInv /\ ControlOf(w)
  BY DEF IndInv, ControlInv
<1>b. Occurrences(w, m) \in Nat /\ rows[m] \in Nat /\ faults \in Nat /\ revokes \in Nat
  BY <1>a, OccurrenceFacts DEF TypeOK, VarTypes
<1>c. pc[w] \in {"write", "send", "commit"} /\ Consuming(w) /\ UNCHANGED cancelled
  BY DEF Flush, WriteBatchStart, WriteBatchCanceled, SendOK, SendErr, AppendRefused, CommitOK,
     CommitErr, Consuming
<1>d. pc[w] = "send" => MayInsert(w)
  BY <1>c DEF MayInsert
<1>e. ASSUME UNCHANGED rows
      PROVE  /\ rows'[m] \in Nat /\ rows'[m] = rows[m] /\ rows'[m] <= rows[m]
             /\ rows'[m] <= rows[m] + IF MayInsert(w) THEN Occurrences(w, m) ELSE 0
  BY <1>b, <1>e
<1>f. FaultUnlessCancelled(w) /\ UNCHANGED revokes => cancelled[w] \/ FaultStep
  BY <1>b DEF FaultUnlessCancelled, Fault, FaultStep
<1>1. CASE WriteBatchStart(w)
  <2>1. pc[w] = "write" /\ ~cancelled[w] /\ UNCHANGED <<rows, committed, owner, pos, buf>>
    BY <1>1 DEF WriteBatchStart
  <2>2. pc'[w] = "send"
    BY <1>a, <1>1, MovesTo DEF WriteBatchStart
  <2>3. MayInsert(w) /\ Consuming(w)'
    BY <1>c, <2>1, <2>2 DEF MayInsert, Consuming
  <2>4. Load(w, m)' <= Load(w, m)
    BY <1>c, <1>e, <2>1, <2>3, StayLoad
  <2> QED  BY <2>4 DEF LoadStep
<1>2. CASE WriteBatchCanceled(w)
  <2>1. pc[w] = "write" /\ cancelled[w] /\ AttemptFailed(w, TRUE) /\ UNCHANGED <<rows, committed>>
    BY <1>2 DEF WriteBatchCanceled
  <2> QED  BY <1>c, <1>e, <2>1, AttemptLoad
<1>3. CASE AppendRefused(w)
  <2>1. pc[w] = "send" /\ AttemptFailed(w, FALSE) /\ UNCHANGED <<rows, committed>>
    BY <1>3 DEF AppendRefused
  <2> QED  BY <1>c, <1>d, <1>e, <2>1, AttemptLoad
<1>4. CASE SendErr(w)
  <2>1. PICK isCanceled \in BOOLEAN : AttemptFailed(w, isCanceled)
    BY <1>a, <1>4 DEF SendErr, TypeOK, VarTypes
  <2>2. PICK I \in SUBSET Sendable(w) : Insert(w, I)
    BY <1>4 DEF SendErr
  <2>3. I \in SUBSET (DOMAIN buf[w])
    BY SendableFacts
  <2>4. rows'[m] \in Nat /\ rows'[m] <= rows[m] + Occurrences(w, m)
    BY <1>a, <2>2, <2>3, InsertAdds
  <2>5. pc[w] = "send" /\ UNCHANGED committed /\ (cancelled[w] \/ FaultStep)
    BY <1>4, <1>f DEF SendErr
  <2>6. rows'[m] <= rows[m] + IF MayInsert(w) THEN Occurrences(w, m) ELSE 0
    BY <1>d, <2>4, <2>5
  <2> QED  BY <1>c, <2>1, <2>4, <2>5, <2>6, AttemptLoad
<1>5. CASE SendOK(w)
  <2>1. rows'[m] \in Nat /\ rows'[m] <= rows[m] + Occurrences(w, m)
    BY <1>a, <1>5, InsertAdds DEF SendOK
  <2>2. pc[w] = "send" /\ UNCHANGED <<committed, owner, pos, buf>>
    BY <1>5 DEF SendOK
  <2>3. pc'[w] = "commit"
    BY <1>a, <1>5, MovesTo DEF SendOK
  <2>4. MayInsert(w) /\ ~MayInsert(w)' /\ Consuming(w)'
    BY <1>d, <2>2, <2>3 DEF MayInsert, Consuming
  <2>5. Load(w, m)' <= Load(w, m)
    BY <1>c, <2>1, <2>2, <2>4, StayLoad
  <2> QED  BY <2>5 DEF LoadStep
<1>6. CASE CommitErr(w)
  <2>1. PICK status \in {"done", "fatal", "down"} : Exit(w, status)
    BY <1>6 DEF CommitErr
  <2>2. PICK P \in SUBSET Partitions : CommitUpTo(w, P)
    BY <1>6 DEF CommitErr
  <2>3. UNCHANGED <<rows, buf>> /\ (cancelled[w] \/ FaultStep)
    BY <1>6, <1>f DEF CommitErr
  <2>4. ~Consuming(w)' /\ Release(w)
    BY <1>a, <2>1, ExitFacts DEF Consuming, Exit
  <2>5. Load(w, m)' <= Load(w, m) + 1 /\ (cancelled[w] => Load(w, m)' <= Load(w, m))
    BY <1>c, <1>e, <2>2, <2>3, <2>4, ExitLoad
  <2> QED  BY <2>3, <2>5 DEF LoadStep
<1>7. CASE CommitOK(w)
  <2>1. CommitUpTo(w, Partitions) /\ UNCHANGED rows /\ pc[w] = "commit"
    BY <1>7 DEF CommitOK
  <2>2. buf'[w] = <<>> /\ pc'[w] = AfterFlush(w) /\ \A v \in Writers \ {w} : buf'[v] = buf[v]
    BY <1>a, <1>7 DEF CommitOK, ClearedBatch, TypeOK, VarTypes
  <2>3. AfterFlush(w) \in {"fetch", "check", "done"}
    BY <1>a, <2>1, AfterFlushFacts DEF ControlOf
  <2>4. CASE AfterFlush(w) = "done"
    <3>1. ~Consuming(w)' /\ Release(w)
      BY <1>7, <2>2, <2>4 DEF CommitOK, Consuming
    <3>2. Load(w, m)' <= Load(w, m)
      BY <1>c, <1>e, <2>1, <2>2, <3>1, ExitLoad
    <3> QED  BY <3>2 DEF LoadStep
  <2>5. CASE AfterFlush(w) # "done"
    <3>1. Consuming(w)' /\ UNCHANGED <<owner, pos>>
      BY <1>7, <2>2, <2>3, <2>5 DEF CommitOK, Consuming
    <3>2. Load(w, m)' <= Load(w, m)
      BY <1>c, <2>1, <2>2, <3>1, ClearLoad
    <3> QED  BY <3>2 DEF LoadStep
  <2> QED  BY <2>4, <2>5
<1> QED  BY <1>1, <1>2, <1>3, <1>4, <1>5, <1>6, <1>7 DEF Flush

\* Signals and crashes: a crash in the middle of an insert adds the batch once.
LEMMA EnvironmentLoad ==
    ASSUME IndInv, NEW w \in Writers, Environment(w), NEW m \in Message
    PROVE  LoadStep(w, m)
<1>a. TypeOK /\ ControlInv /\ ControlOf(w)
  BY DEF IndInv, ControlInv
<1>b. Occurrences(w, m) \in Nat /\ rows[m] \in Nat
  BY <1>a, OccurrenceFacts DEF TypeOK, VarTypes
<1>c. FaultStep
  BY <1>a DEF Environment, Cancel, Crash, Fault, FaultStep, kafkaVars, TypeOK, VarTypes
<1>1. CASE Cancel(w)
  <2>1. /\ UNCHANGED <<committed, owner, pos, rows, pc, buf>> /\ Consuming(w)
        /\ ~cancelled[w] /\ cancelled'[w]
    BY <1>a, <1>1 DEF Cancel, kafkaVars, TypeOK, VarTypes
  <2> DEFINE n == Occurrences(w, m)
             a == Flag(MayRewind(w, m))
             c == Flag(ToFetch(m))
  <2>2. Load(w, m) = rows[m] + (IF MayInsert(w) THEN n ELSE 0) + a + 0 + c
    <3>1. Flag(Consuming(w) /\ cancelled[w]) = 0
      BY <2>1 DEF Flag
    <3> QED  BY <1>a, <3>1, LoadParts
  <2>3. (Consuming(w)' <=> Consuming(w)) /\ (MayInsert(w)' => MayInsert(w))
    BY <2>1 DEF Consuming, MayInsert
  <2>4. (MayRewind(w, m)' <=> MayRewind(w, m)) /\ (ToFetch(m)' <=> ToFetch(m))
    BY <2>1, <2>3 DEF MayRewind, BufferedParts, ToFetch
  <2>5. Load(w, m)' = rows[m] + ((IF MayInsert(w)' THEN n ELSE 0) + a + 1) + c
    <3>1. Occurrences(w, m)' = n
      BY <2>1 DEF Occurrences
    <3>2. Share(w, m)' = (IF MayInsert(w)' THEN n ELSE 0) + a + 1
      BY <2>1, <2>3, <2>4, <3>1 DEF Share, Flag
    <3> QED  BY <2>1, <2>4, <3>2 DEF Load, Flag
  <2>6. a \in Nat /\ c \in Nat /\ n \in Nat
    BY <1>b, FlagType
  <2> HIDE DEF n, a, c
  <2>7. Load(w, m)' <= Load(w, m) + 1
    BY <1>b, <2>2, <2>3, <2>5, <2>6
  <2> QED  BY <1>c, <2>7 DEF LoadStep
<1>2. CASE Crash(w)
  <2>1. PICK I \in (IF pc[w] = "send" THEN SUBSET Sendable(w) ELSE {{}}) : Insert(w, I)
    BY <1>2 DEF Crash
  <2>2. PICK P \in (IF pc[w] = "commit" THEN SUBSET Partitions ELSE {{}}) : CommitUpTo(w, P)
    BY <1>2 DEF Crash
  <2>3. I \in SUBSET (DOMAIN buf[w]) /\ P \in SUBSET Partitions
    BY SendableFacts
  <2>4. rows'[m] \in Nat /\ rows'[m] <= rows[m] + Occurrences(w, m)
    BY <1>a, <2>1, <2>3, InsertAdds
  <2>5. pc[w] # "send" => rows' = rows
    <3> SUFFICES ASSUME pc[w] # "send" PROVE rows' = rows
      OBVIOUS
    <3>1. \A k : {i \in I : buf[w][i] = k} = {}
      BY <2>1
    <3>2. rows \in [Message -> Nat]
      BY <1>a DEF TypeOK, VarTypes
    <3>3. rows' = [k \in Message |-> rows[k] + Cardinality({})]
      BY <2>1, <3>1 DEF Insert
    <3>4. Cardinality({}) = 0
      BY FS_EmptySet
    <3> QED  BY <3>2, <3>3, <3>4
  <2>6. Exit(w, "down") /\ \A v \in Writers \ {w} : buf'[v] = buf[v]
    BY <1>a, <1>2 DEF Crash, TypeOK, VarTypes
  <2>7. ~Consuming(w)' /\ Release(w)
    BY <1>a, <2>6, ExitFacts DEF Consuming, Exit
  <2>8. CASE Consuming(w)
    <3>1. pc[w] = "send" => MayInsert(w)
      BY <2>8 DEF MayInsert
    <3>2. rows'[m] <= rows[m] + IF MayInsert(w) THEN Occurrences(w, m) ELSE 0
      BY <1>b, <2>4, <2>5, <3>1
    <3>3. Load(w, m)' <= Load(w, m) + 1
      BY <2>2, <2>3, <2>4, <2>6, <2>7, <2>8, <3>2, ExitLoad
    <3> QED  BY <1>c, <3>3 DEF LoadStep
  <2>9. CASE ~Consuming(w)
    <3>1. rows' = rows /\ P = {}
      BY <2>2, <2>5, <2>9 DEF Consuming
    <3>2. \A p \in Partitions : committed'[p] = committed[p]
      BY <2>2, <3>1 DEF CommitUpTo
    <3>3. \A p \in Partitions : owner[p] # w
      BY <1>a, <2>9, WritersAssumption DEF ControlInv
    <3>4. \A p \in Partitions : owner'[p] = owner[p] /\ pos'[p] = pos[p]
      BY <2>7, <3>3 DEF Release
    <3>5. Share(w, m)' = 0
      BY <2>7 DEF Share, MayInsert, MayRewind, Flag
    <3>6. Load(w, m)' <= Load(w, m)
      BY <2>6, <2>9, <3>1, <3>2, <3>4, <3>5, IdleLoad
    <3> QED  BY <3>6 DEF LoadStep
  <2> QED  BY <2>8, <2>9
<1> QED  BY <1>1, <1>2 DEF Environment

\* Signals concern one process.
LEMMA OthersKeepSignal ==
    ASSUME TypeOK, NEW w \in Writers, Process(w)
    PROVE  \A v \in Writers \ {w} : cancelled'[v] = cancelled[v]
<1>1. CASE Startup(w)
  BY <1>1 DEF Startup, Start, PingOK, PingErr, TypeOK, VarTypes
<1>2. CASE FetchMessage(w) \/ Loop(w)
  BY <1>2 DEF FetchMessage, FetchEvent, FetchGarbage, Loop, TimeoutTick, TimeoutIdle,
     CheckCancelled, FetchCanceled, FetchError
<1>3. CASE Flush(w)
  BY <1>3 DEF Flush, WriteBatchStart, WriteBatchCanceled, SendOK, SendErr, AppendRefused,
     CommitOK, CommitErr
<1>4. CASE Environment(w)
  BY <1>4 DEF Environment, Cancel, Crash, TypeOK, VarTypes
<1> QED  BY <1>1, <1>2, <1>3, <1>4 DEF Process

\* What every step of the group or of a process does to the weights.
LEMMA StepWeighs ==
    ASSUME IndInv, TypeOK', PingInv, Group \/ (\E w \in Writers : Process(w)), NEW m \in Message
    PROVE  WeightStep(m)
<1>a. TypeOK
  BY DEF IndInv
<1>1. ASSUME NEW p \in Partitions, NEW w \in Writers, Assign(p, w)
      PROVE  WeightStep(m)
  BY <1>1, AssignLoad, LoadIsWeight DEF LoadStep
<1>2. ASSUME NEW p \in Partitions, Revoke(p)
      PROVE  WeightStep(m)
  <2>1. PICK w \in Writers : w = owner[p]
    BY <1>a, <1>2 DEF Revoke, TypeOK, VarTypes
  <2> QED  BY <1>2, <2>1, RevokeLoad, LoadIsWeight DEF LoadStep
<1>3. ASSUME NEW w \in Writers, NEW p \in Partitions, FetchEvent(w, p)
      PROVE  WeightStep(m)
  BY <1>3, FetchLoad, LoadIsWeight DEF LoadStep
<1>4. ASSUME NEW w \in Writers, Process(w), ~\E p \in Partitions : FetchEvent(w, p)
      PROVE  WeightStep(m)
  <2>1. \A v \in Writers \ {w} : Share(v, m)' = Share(v, m)
    BY <1>a, <1>4, ProcessOwn, OthersKeepSignal, OwnKeepsShares
  <2>2. LoadStep(w, m)
    <3>1. CASE Startup(w)
      BY <3>1, StartupLoad DEF LoadStep
    <3>2. CASE FetchMessage(w)
      BY <1>4, <3>2, GarbageLoad DEF FetchMessage, LoadStep
    <3>3. CASE Loop(w)
      BY <3>3, LoopLoad
    <3>4. CASE Flush(w)
      BY <3>4, FlushLoad
    <3>5. CASE Environment(w)
      BY <3>5, EnvironmentLoad
    <3> QED  BY <1>4, <3>1, <3>2, <3>3, <3>4, <3>5 DEF Process
  <2> QED  BY <2>1, <2>2, LoadIsWeight
<1> QED  BY <1>1, <1>2, <1>3, <1>4 DEF Group

\* The weights concern neither the topic nor the counters.
LEMMA SameWeight ==
    ASSUME UNCHANGED <<committed, owner, pos, rows, pc, buf, cancelled>>, NEW m \in Message
    PROVE  Weight(m)' = Weight(m)
<1>1. \A w \in Writers : Share(w, m)' = Share(w, m)
  BY DEF Share, MayInsert, MayRewind, Consuming, BufferedParts, Occurrences, Flag
<1>2. Shares(m)' = Shares(m)
  BY <1>1 DEF Shares
<1>3. ToFetch(m)' <=> ToFetch(m)
  BY DEF ToFetch
<1> QED  BY <1>2, <1>3 DEF Weight, Flag

\* Only a process that consumes is signalled.
LEMMA PingKept ==
    ASSUME IndInv, PingInv, [Next]_vars
    PROVE  PingInv'
<1>a. TypeOK
  BY DEF IndInv
<1>1. CASE UNCHANGED <<pc, cancelled>>
  BY <1>1 DEF PingInv
<1>2. ASSUME NEW w \in Writers, NEW p \in Partitions, FetchEvent(w, p)
      PROVE  PingInv'
  BY <1>a, <1>2 DEF FetchEvent, BeginFlush, PingInv, TypeOK, VarTypes
<1>3. ASSUME NEW w \in Writers, Process(w), ~\E p \in Partitions : FetchEvent(w, p)
      PROVE  PingInv'
  <2>1. \A v \in Writers \ {w} : pc'[v] = pc[v] /\ cancelled'[v] = cancelled[v]
    BY <1>a, <1>3, ProcessOwn, OthersKeepSignal DEF Own
  <2>2. CASE Start(w) \/ PingErr(w)
    <3>1. pc'[w] = "ping" => ~cancelled'[w]
      BY <1>a, <2>2 DEF Start, PingErr, PingInv, TypeOK, VarTypes
    <3> QED  BY <2>1, <3>1 DEF PingInv
  <2>3. CASE ~(Start(w) \/ PingErr(w))
    <3>1. pc'[w] # "ping"
      <4>1. CASE PingOK(w)
        BY <1>a, <4>1 DEF PingOK, TypeOK, VarTypes
      <4>2. CASE FetchMessage(w) \/ Loop(w)
        BY <1>3, <4>2, <1>a DEF FetchMessage, FetchGarbage, Loop, TimeoutTick, TimeoutIdle,
           CheckCancelled, FetchCanceled, FetchError, ReturnFlush, BeginFlush, Exit, TypeOK, VarTypes
      <4>3. CASE CommitOK(w)
        <5>1. AfterFlush(w) # "ping"
          BY <4>3, AfterFlushFacts DEF CommitOK, IndInv, ControlInv, ControlOf
        <5> QED  BY <1>a, <4>3, <5>1 DEF CommitOK, TypeOK, VarTypes
      <4>4. CASE Flush(w) /\ ~CommitOK(w)
        BY <4>4, <1>a DEF Flush, WriteBatchStart, WriteBatchCanceled, SendOK, SendErr,
           AppendRefused, CommitErr, AttemptFailed, GiveUp, Exit, TypeOK, VarTypes
      <4>5. CASE Environment(w)
        BY <4>5, <1>a DEF Environment, Cancel, Crash, Consuming, Exit, TypeOK, VarTypes
      <4> QED  BY <1>3, <2>3, <4>1, <4>2, <4>3, <4>4, <4>5 DEF Process, Startup
    <3> QED  BY <2>1, <3>1 DEF PingInv
  <2> QED  BY <2>2, <2>3
<1>4. CASE Topic \/ Group \/ UNCHANGED vars
  BY <1>1, <1>4 DEF Topic, Group, Produce, Assign, Revoke, vars
<1> QED  BY <1>2, <1>3, <1>4 DEF Next

\* What every message weighs is bounded by the faults and revocations so far.
WeightInv == PingInv /\ \A m \in Message : Weight(m) <= 2 ^ (faults + revokes)

\* The next power of two is twice this one.
LEMMA PowerFacts ==
    ASSUME NEW n \in Nat
    PROVE  2 ^ n \in Nat /\ 2 ^ n >= 1 /\ 2 ^ (n + 1) = 2 * 2 ^ n
BY Sum!PowerDoubles

\* The first power of two is one.
LEMMA ZeroPower == 2 ^ 0 = 1
BY Sum!PowerOfZero

\* What weighs at most 2^k still does when a fault doubles it.
LEMMA Doubling ==
    ASSUME NEW x \in Nat, NEW y \in Nat, NEW k \in Nat, NEW n \in Nat, x <= 2 ^ k,
           n = k \/ n = k + 1, y <= x \/ (n = k + 1 /\ y <= 2 * x)
    PROVE  y <= 2 ^ n
<1>1. 2 ^ k \in Nat /\ 2 ^ (k + 1) = 2 * 2 ^ k
  BY PowerFacts
<1> DEFINE a == 2 ^ k
           b == 2 ^ n
<1>2. a \in Nat /\ x <= a /\ (b = a \/ (n = k + 1 /\ b = 2 * a))
  BY <1>1
<1>3. n = k + 1 => b = 2 * a
  BY <1>1
<1> HIDE DEF a, b
<1>4. y <= b
  BY <1>2, <1>3
<1> QED  BY <1>4 DEF b

\* A step counts one fault or none.
CountStep == faults' + revokes' = faults + revokes \/ FaultStep

\* A step of the group or of a writer counts at most one fault.
LEMMA StepCounts ==
    ASSUME IndInv, Group \/ (\E w \in Writers : Process(w))
    PROVE  CountStep
<1>a. faults \in Nat /\ revokes \in Nat
  BY DEF IndInv, TypeOK, VarTypes
<1>1. CASE Group
  BY <1>a, <1>1 DEF Group, Assign, Revoke, CountStep, FaultStep
<1>2. ASSUME NEW w \in Writers, Process(w)
      PROVE  CountStep
  <2>1. revokes' = revokes
    BY <1>2, ProcessOwn DEF Own, FetchEvent
  <2>2. faults' = faults \/ faults' = faults + 1
    <3>1. CASE Startup(w)
      BY <3>1 DEF Startup, Start, PingOK, PingErr, Fault
    <3>2. CASE FetchMessage(w) \/ Loop(w)
      BY <3>2 DEF FetchMessage, FetchEvent, FetchGarbage, Loop, TimeoutTick, TimeoutIdle,
         CheckCancelled, FetchCanceled, FetchError, Fault
    <3>3. CASE Flush(w)
      BY <3>3 DEF Flush, WriteBatchStart, WriteBatchCanceled, SendOK, SendErr, AppendRefused,
         CommitOK, CommitErr, FaultUnlessCancelled, Fault
    <3>4. CASE Environment(w)
      BY <3>4 DEF Environment, Cancel, Crash, Fault
    <3> QED  BY <1>2, <3>1, <3>2, <3>3, <3>4 DEF Process
  <2> QED  BY <1>a, <2>1, <2>2 DEF CountStep, FaultStep
<1> QED  BY <1>1, <1>2

\* A weight is a number of rows.
LEMMA WeightTypes == IndInv => \A m \in Message : Weight(m) \in Nat
BY WeightPositive

\* The same, after a step.
LEMMA WeightTypesNext == IndInv' => (\A m \in Message : Weight(m) \in Nat)'
BY WeightTypes, PTL

\* The troubles met so far are counted.
LEMMA TroubleTypes ==
    IndInv => faults \in Nat /\ revokes \in Nat /\ faults + revokes \in Nat
<1> SUFFICES ASSUME IndInv PROVE faults \in Nat /\ revokes \in Nat /\ faults + revokes \in Nat
  OBVIOUS
<1>1. faults \in Nat /\ revokes \in Nat
  BY DEF IndInv, TypeOK, VarTypes
<1> QED  BY ONLY <1>1

\* The same, after a step.
LEMMA TroubleTypesNext ==
    IndInv' => (faults \in Nat /\ revokes \in Nat /\ faults + revokes \in Nat)'
BY TroubleTypes, PTL

\* Every step keeps the bound.
LEMMA WeightKept ==
    ASSUME IndInv, IndInv', WeightInv, [Next]_vars
    PROVE  WeightInv'
<1>1. PingInv'
  BY PingKept DEF WeightInv
<1>2. ASSUME NEW m \in Message PROVE Weight(m)' <= 2 ^ (faults' + revokes')
  <2>1. Weight(m) \in Nat /\ Weight(m)' \in Nat /\ Weight(m) <= 2 ^ (faults + revokes)
    BY WeightTypes, WeightTypesNext DEF WeightInv
  <2>2. /\ faults \in Nat /\ revokes \in Nat /\ faults' \in Nat /\ revokes' \in Nat
        /\ faults + revokes \in Nat /\ faults' + revokes' \in Nat
    BY TroubleTypes, TroubleTypesNext
  <2> DEFINE k == faults + revokes
             n == faults' + revokes'
             x == Weight(m)
             y == Weight(m)'
  <2>0. x <= 2 ^ k
    BY <2>1, Zenon
  <2>3. k \in Nat /\ n \in Nat /\ x \in Nat /\ y \in Nat
    <3>1. k \in Nat /\ n \in Nat
      BY <2>2, Zenon
    <3>2. x \in Nat /\ y \in Nat
      BY <2>1, Zenon
    <3> QED  BY <3>1, <3>2, Zenon
  <2>4. (n = k \/ n = k + 1) /\ (y <= x \/ (n = k + 1 /\ y <= 2 * x))
    <3>1. CASE Topic \/ UNCHANGED vars
      <4>1. UNCHANGED <<committed, owner, pos, rows, pc, buf, cancelled, faults, revokes>>
        BY <3>1 DEF Topic, Produce, vars
      <4>2. y = x /\ n = k
        BY <4>1, SameWeight
      <4> HIDE DEF x, y, k, n
      <4> QED  BY <2>3, <4>2
    <3>2. CASE Group \/ \E w \in Writers : Process(w)
      <4>1. TypeOK' /\ PingInv
        BY DEF IndInv, WeightInv
      <4>2. WeightStep(m) /\ CountStep
        BY <3>2, <4>1, StepWeighs, StepCounts
      <4> QED  BY <4>2 DEF WeightStep, CountStep, FaultStep
    <3> QED  BY <3>1, <3>2 DEF Next
  <2> HIDE DEF x, y, k, n
  <2>5. y <= 2 ^ n
    BY <2>0, <2>3, <2>4, Doubling
  <2> QED  BY <2>5 DEF y, n
<1> QED  BY <1>1, <1>2 DEF WeightInv

\* The bound holds of the empty topic and table.
LEMMA InitWeight == Init => WeightInv
<1> SUFFICES ASSUME Init PROVE WeightInv
  OBVIOUS
<1>1. IndInv
  BY InitInv
<1>2. PingInv
  BY DEF Init, PingInv
<1>3. ASSUME NEW m \in Message PROVE Weight(m) <= 2 ^ (faults + revokes)
  <2>1. \A w \in Writers : Share(w, m) = 0
    BY DEF Init, Share, MayInsert, MayRewind, Consuming, Flag
  <2>2. SumFunctionOnSet(Shares(m), Writers) = 0
    <3>1. \A w \in Writers : Shares(m)[w] = 0
      BY <2>1 DEF Shares
    <3> QED  BY <3>1, SumOfZeros, FinitenessAssumption
  <2>3. rows[m] = 0 /\ faults + revokes = 0
    BY DEF Init
  <2>4. Weight(m) = 0 + 0 + Flag(ToFetch(m)) /\ Flag(ToFetch(m)) \in {0, 1}
    BY <2>2, <2>3, FlagType DEF Weight
  <2>5. Weight(m) <= 1
    BY <2>4
  <2>6. 2 ^ (faults + revokes) = 1
    BY <2>3, ZeroPower
  <2> QED  BY <2>5, <2>6
<1> QED  BY <1>2, <1>3 DEF WeightInv

\* Every fault (crash, signal, error) and every revocation at most doubles the
\* rows of a message.
THEOREM DuplicatesAreBounded == Spec => []DuplicatesBounded
<1>1. Init => WeightInv
  BY InitWeight
<1>2. IndInv /\ IndInv' /\ WeightInv /\ [Next]_vars => WeightInv'
  BY WeightKept
<1>3. IndInv /\ WeightInv => DuplicatesBounded
  <2> SUFFICES ASSUME IndInv, WeightInv, NEW m \in Message
               PROVE  rows[m] <= 2 ^ (faults + revokes)
    BY DEF DuplicatesBounded
  <2>1. Weight(m) \in Nat /\ rows[m] <= Weight(m) /\ Weight(m) <= 2 ^ (faults + revokes)
    BY WeightPositive DEF WeightInv
  <2>2. rows[m] \in Nat /\ faults + revokes \in Nat
    BY DEF IndInv, TypeOK, VarTypes
  <2> DEFINE top == 2 ^ (faults + revokes)
  <2>3. top \in Nat /\ Weight(m) <= top
    BY <2>1, <2>2, PowerFacts
  <2> HIDE DEF top
  <2>4. rows[m] <= top
    BY <2>1, <2>2, <2>3
  <2> QED  BY <2>4 DEF top
<1> QED  BY <1>1, <1>2, <1>3, IndInvHolds, PTL DEF Spec

-----------------------------------------------------------------------------
(* The counters. *)

\* There are finitely many messages.
LEMMA MessageFinite == IsFiniteSet(Message)
<1> DEFINE S == Partitions \X Offsets
           f == [x \in S |-> [part |-> x[1], offset |-> x[2]]]
<1>1. IsFiniteSet(Offsets)
  BY FS_Interval, BoundsAssumption DEF Offsets
<1>2. IsFiniteSet(S)
  BY <1>1, FS_Product, FinitenessAssumption
<1>3. f \in Surjection(S, Message)
  <2>1. f \in [S -> Message]
    BY DEF Message
  <2>2. ASSUME NEW m \in Message PROVE \E x \in S : f[x] = m
    <3>1. <<m.part, m.offset>> \in S /\ m = [part |-> m.part, offset |-> m.offset]
      BY DEF Message
    <3>2. f[<<m.part, m.offset>>] = m
      BY <3>1
    <3> QED  BY <3>1, <3>2
  <2> HIDE DEF f, S
  <2> QED  BY <2>1, <2>2 DEF Surjection
<1> HIDE DEF f, S
<1> QED  BY <1>2, <1>3, FS_Surjection

\* Sums of more are more.
LEMMA SumGrows ==
    ASSUME NEW S, IsFiniteSet(S), NEW f, NEW g,
           \A x \in S : f[x] \in Nat /\ g[x] \in Nat /\ f[x] <= g[x]
    PROVE  SumFunctionOnSet(f, S) <= SumFunctionOnSet(g, S)
<1>1. Sum!IsFiniteSet(S)
  BY SameFinite
<1>2. 1 \in {1, 2} /\ \A x \in S : g[x] \in Nat /\ f[x] \in Nat /\ f[x] <= 1 * g[x]
  OBVIOUS
<1>3. Sum!Fold(f, S) <= 1 * Sum!Fold(g, S)
  BY <1>1, <1>2, AdditionIsSum, Sum!SumBound
<1>4. SumFunctionOnSet(f, S) <= 1 * SumFunctionOnSet(g, S)
  BY <1>3, SumIsFold
<1>5. SumFunctionOnSet(g, S) \in Nat
  BY SumIsNat
<1> DEFINE t == SumFunctionOnSet(g, S)
<1> HIDE DEF t
<1>6. t \in Nat => 1 * t = t
  OBVIOUS
<1> QED  BY <1>4, <1>5, <1>6 DEF t

\* A batch has one row for each of its events.
LEMMA BatchSum ==
    ASSUME NEW S, IsFiniteSet(S), NEW s \in Seq(S), NEW f, NEW g,
           \A x \in S : f[x] \in Nat /\ g[x] = f[x] + CopiesIn(s, x)
    PROVE  SumFunctionOnSet(g, S) = SumFunctionOnSet(f, S) + Len(s)
<1> DEFINE I == DOMAIN s
           h == [x \in S |-> CopiesIn(s, x)]
<1>1. I = 1..Len(s) /\ Len(s) \in Nat
  OBVIOUS
<1>2. IsFiniteSet(I) /\ Cardinality(I) = Len(s)
  BY <1>1, FS_Interval
<1>3. Sum!IsFiniteSet(S) /\ Sum!IsFiniteSet(I)
  BY <1>2, SameFinite
<1>4. \A x \in S : h[x] = Sum!CountOf(I, s, x)
  BY DEF CopiesIn, Sum!CountOf, Cardinality, Sum!Cardinality, IsFiniteSet, Sum!IsFiniteSet
<1>5. \A i \in I : s[i] \in S
  BY <1>1
<1>6. Sum!Fold(h, S) = Sum!Cardinality(I)
  <2> HIDE DEF I, h
  <2> QED  BY <1>3, <1>4, <1>5, AdditionIsSum, Sum!SumOfFibres
<1>7. Sum!Cardinality(I) = Len(s)
  BY <1>2 DEF Cardinality, Sum!Cardinality, IsFiniteSet, Sum!IsFiniteSet
<1>8. ASSUME NEW x \in S PROVE h[x] \in Nat
  <2>1. {i \in I : s[i] = x} \subseteq I
    OBVIOUS
  <2>2. IsFiniteSet({i \in I : s[i] = x})
    BY <1>2, <2>1, FS_Subset
  <2> QED  BY <2>2, FS_CardinalityType DEF CopiesIn
<1>9. \A x \in S : f[x] \in Nat /\ h[x] \in Nat /\ g[x] = f[x] + h[x]
  BY <1>8
<1> HIDE DEF I, h
<1>10. Sum!Fold(g, S) = Sum!Fold(f, S) + Sum!Fold(h, S)
  BY <1>3, <1>9, AdditionIsSum, Sum!SumOfTwo
<1> QED  BY <1>6, <1>7, <1>10, SumIsFold

\* What the writers claim to have written.
Written == [w \in Writers |-> metrics[w]["eventsWritten"]]

\* What a process's counters say about it.
CountersOf(w) ==
    /\ pc[w] \in {"write", "send"} => buf[w] # <<>>
    /\ metrics[w]["batchesFlush"] <= metrics[w]["eventsWritten"]
    /\ metrics[w]["decodeErrors"] + metrics[w]["writeErrors"] > 0 => pc[w] \in {"done", "fatal"}

\* The inductive strengthening of MetricsHonest.
MetricsInv ==
    /\ SumFunctionOnSet(Written, Writers) <= SumFunctionOnSet(rows, Message)
    /\ \A w \in Writers : CountersOf(w)

\* A claim is a number of events.
LEMMA WrittenType == TypeOK => \A w \in Writers : Written[w] \in Nat /\ Written[w] = metrics[w]["eventsWritten"]
BY DEF TypeOK, VarTypes, Counters, Written

\* The same, after a step.
LEMMA WrittenTypeNext == TypeOK' => (\A w \in Writers : Written[w] \in Nat /\ Written[w] = metrics[w]["eventsWritten"])'
BY WrittenType, PTL

\* A step that claims no more and stores no less.
LEMMA ClaimsNoMore ==
    ASSUME TypeOK, TypeOK', \A m \in Message : rows[m] <= rows'[m],
           \A w \in Writers : metrics'[w]["eventsWritten"] <= metrics[w]["eventsWritten"],
           SumFunctionOnSet(Written, Writers) <= SumFunctionOnSet(rows, Message)
    PROVE  SumFunctionOnSet(Written', Writers) <= SumFunctionOnSet(rows', Message)
<1> DEFINE f == Written
           g == Written'
           r == rows
           s == rows'
<1>1. \A w \in Writers : f[w] \in Nat /\ g[w] \in Nat /\ g[w] <= f[w]
  BY WrittenType, WrittenTypeNext
<1>2. \A m \in Message : r[m] \in Nat /\ s[m] \in Nat /\ r[m] <= s[m]
  BY DEF TypeOK, VarTypes
<1>3. SumFunctionOnSet(f, Writers) <= SumFunctionOnSet(r, Message)
  OBVIOUS
<1> HIDE DEF f, g, r, s
<1>4. SumFunctionOnSet(g, Writers) <= SumFunctionOnSet(f, Writers)
  BY <1>1, SumGrows, FinitenessAssumption
<1>5. SumFunctionOnSet(r, Message) <= SumFunctionOnSet(s, Message)
  BY <1>2, SumGrows, MessageFinite
<1>6. /\ SumFunctionOnSet(f, Writers) \in Nat /\ SumFunctionOnSet(g, Writers) \in Nat
      /\ SumFunctionOnSet(r, Message) \in Nat /\ SumFunctionOnSet(s, Message) \in Nat
  BY <1>1, <1>2, SumIsNat, MessageFinite, FinitenessAssumption
<1>7. SumFunctionOnSet(g, Writers) <= SumFunctionOnSet(s, Message)
  BY <1>3, <1>4, <1>5, <1>6
<1> QED  BY <1>7 DEF g, s

\* The table only grows.
LEMMA TableGrows ==
    ASSUME IndInv, NEW w \in Writers, Process(w), NEW m \in Message
    PROVE  rows[m] <= rows'[m]
<1>a. TypeOK
  BY DEF IndInv
<1>1. ASSUME NEW I \in SUBSET (DOMAIN buf[w]), Insert(w, I)
      PROVE  rows[m] <= rows'[m]
  <2> DEFINE C == {i \in I : buf[w][i] = m}
  <2>1. DOMAIN buf[w] = 1..Len(buf[w]) /\ Len(buf[w]) \in Nat
    BY <1>a DEF TypeOK, VarTypes
  <2>2. IsFiniteSet(DOMAIN buf[w])
    BY <2>1, FS_Interval
  <2>3. IsFiniteSet(C)
    BY <2>2, FS_Subset
  <2>4. rows'[m] = rows[m] + Cardinality(C) /\ rows[m] \in Nat
    BY <1>a, <1>1 DEF Insert, TypeOK, VarTypes
  <2> HIDE DEF C
  <2> QED  BY <2>3, <2>4, FS_CardinalityType
<1>2. CASE UNCHANGED rows
  BY <1>a, <1>2 DEF TypeOK, VarTypes
<1>3. CASE SendOK(w)
  BY <1>1, <1>3 DEF SendOK
<1>4. CASE SendErr(w)
  BY <1>1, <1>4, SendableFacts DEF SendErr
<1>5. CASE Crash(w)
  <2>1. PICK I \in (IF pc[w] = "send" THEN SUBSET Sendable(w) ELSE {{}}) : Insert(w, I)
    BY <1>5 DEF Crash
  <2>2. I \in SUBSET (DOMAIN buf[w])
    BY SendableFacts
  <2> QED  BY <1>1, <2>1, <2>2
<1>6. CASE Startup(w) \/ FetchMessage(w) \/ Loop(w) \/ Cancel(w)
  <2>1. UNCHANGED rows
    BY <1>6 DEF Startup, Start, PingOK, PingErr, FetchMessage, FetchEvent, FetchGarbage, Loop,
       TimeoutTick, TimeoutIdle, CheckCancelled, FetchCanceled, FetchError, Cancel
  <2> QED  BY <1>2, <2>1
<1>7. CASE Flush(w) /\ ~SendOK(w) /\ ~SendErr(w)
  <2>1. UNCHANGED rows
    BY <1>7 DEF Flush, WriteBatchStart, WriteBatchCanceled, AppendRefused, CommitOK, CommitErr
  <2> QED  BY <1>2, <2>1
<1> QED  BY <1>3, <1>4, <1>5, <1>6, <1>7 DEF Process, Environment

\* What counting one thing does to the counters.
LEMMA IncFacts ==
    ASSUME TypeOK, NEW w \in Writers, NEW c \in Counters, Inc(w, c)
    PROVE  /\ \A v \in Writers \ {w} : metrics'[v] = metrics[v]
           /\ metrics'[w] = [metrics[w] EXCEPT ![c] = @ + 1]
           /\ \A d \in Counters \ {c} : metrics'[w][d] = metrics[w][d]
<1> DEFINE counted == [metrics[w] EXCEPT ![c] = @ + 1]
<1>1. metrics \in [Writers -> [Counters -> Nat]] /\ metrics' = [metrics EXCEPT ![w] = counted]
  BY DEF Inc, TypeOK, VarTypes
<1>2. metrics[w] \in [Counters -> Nat]
  BY <1>1
<1>3. \A d \in Counters \ {c} : counted[d] = metrics[w][d]
  BY <1>2
<1> HIDE DEF counted
<1>4. metrics'[w] = counted /\ \A v \in Writers \ {w} : metrics'[v] = metrics[v]
  BY <1>1
<1> QED  BY <1>3, <1>4 DEF counted

\* What concerns the counters in a step of w.
CountsStep(w) ==
    /\ CountersOf(w)'
    /\ \A v \in Writers \ {w} : metrics'[v] = metrics[v]
    /\ SendOK(w) \/ metrics'[w]["eventsWritten"] <= metrics[w]["eventsWritten"]

\* A step that counts nothing.
LEMMA CountsNothing ==
    ASSUME TypeOK, NEW w \in Writers, CountersOf(w), UNCHANGED metrics,
           pc[w] \notin {"done", "fatal"}, pc'[w] \in {"write", "send"} => buf'[w] # <<>>
    PROVE  CountsStep(w)
<1>1. \A c \in Counters : metrics[w][c] \in Nat
  BY DEF TypeOK, VarTypes
<1>2. metrics[w]["eventsWritten"] <= metrics[w]["eventsWritten"]
  BY <1>1 DEF Counters
<1> QED  BY <1>2 DEF CountsStep, CountersOf

\* A step that counts an error ends the process.
LEMMA CountsError ==
    ASSUME TypeOK, NEW w \in Writers, CountersOf(w), NEW c \in {"decodeErrors", "writeErrors"},
           Inc(w, c), pc'[w] \in {"done", "fatal"}
    PROVE  CountsStep(w)
<1>1. \A d \in Counters : metrics[w][d] \in Nat
  BY DEF TypeOK, VarTypes
<1>2. c \in Counters /\ "eventsWritten" \in Counters \ {c} /\ "batchesFlush" \in Counters \ {c}
  BY DEF Counters
<1>3. /\ \A v \in Writers \ {w} : metrics'[v] = metrics[v]
      /\ metrics'[w]["eventsWritten"] = metrics[w]["eventsWritten"]
      /\ metrics'[w]["batchesFlush"] = metrics[w]["batchesFlush"]
  BY <1>2, IncFacts
<1>4. metrics[w]["eventsWritten"] \in Nat
  BY <1>1 DEF Counters
<1> QED  BY <1>3, <1>4 DEF CountsStep, CountersOf

\* A start zeroes the counters; connecting counts nothing.
LEMMA StartupCounts ==
    ASSUME IndInv, NEW w \in Writers, CountersOf(w), Startup(w)
    PROVE  CountsStep(w)
<1>a. TypeOK
  BY DEF IndInv
<1>1. CASE PingOK(w) \/ PingErr(w)
  <2>1. UNCHANGED metrics /\ pc[w] = "ping" /\ pc'[w] \in {"fetch", "ping", "fatal"}
    BY <1>a, <1>1 DEF PingOK, PingErr, TypeOK, VarTypes
  <2> QED  BY <1>a, <2>1, CountsNothing
<1>2. CASE Start(w)
  <2>1. /\ pc'[w] = "ping" /\ metrics'[w] = ZeroMetrics
        /\ \A v \in Writers \ {w} : metrics'[v] = metrics[v]
    BY <1>a, <1>2 DEF Start, TypeOK, VarTypes
  <2>2. \A c \in Counters : metrics'[w][c] = 0
    BY <2>1 DEF ZeroMetrics
  <2>3. /\ metrics'[w]["eventsWritten"] = 0 /\ metrics'[w]["batchesFlush"] = 0
        /\ metrics'[w]["decodeErrors"] = 0 /\ metrics'[w]["writeErrors"] = 0
        /\ metrics[w]["eventsWritten"] \in Nat
    BY <1>a, <2>2 DEF Counters, TypeOK, VarTypes
  <2> QED  BY <2>1, <2>3 DEF CountsStep, CountersOf
<1> QED  BY <1>1, <1>2 DEF Startup

\* A fetched event makes the batch nonempty; garbage is counted and ends the
\* process.
LEMMA FetchCounts ==
    ASSUME IndInv, NEW w \in Writers, CountersOf(w), FetchMessage(w)
    PROVE  CountsStep(w)
<1>a. TypeOK /\ ControlInv
  BY DEF IndInv
<1>1. ASSUME NEW p \in Partitions, FetchEvent(w, p)
      PROVE  CountsStep(w)
  <2>1. UNCHANGED metrics /\ pc[w] = "fetch"
    BY <1>1 DEF FetchEvent
  <2>2. buf'[w] # <<>>
    <3> DEFINE new == [part |-> p, offset |-> pos[p] + 1]
               s == buf[w]
               t == buf'[w]
    <3>1. s \in Seq(Message) /\ t = Append(s, new)
      BY <1>a, <1>1 DEF FetchEvent, TypeOK, VarTypes
    <3> HIDE DEF new, s, t
    <3>2. Len(t) = Len(s) + 1 /\ Len(s) \in Nat
      BY <3>1
    <3>3. t # <<>>
      BY <3>2
    <3> QED  BY <3>3 DEF t
  <2> QED  BY <1>a, <2>1, <2>2, CountsNothing
<1>2. ASSUME NEW p \in Partitions, FetchGarbage(w, p)
      PROVE  CountsStep(w)
  <2>1. Inc(w, "decodeErrors") /\ pc'[w] = "fatal"
    BY <1>a, <1>2, ExitFacts DEF FetchGarbage
  <2> QED  BY <1>a, <2>1, CountsError
<1> QED  BY <1>1, <1>2 DEF FetchMessage

\* Waiting counts nothing, and only a nonempty batch is flushed.
LEMMA LoopCounts ==
    ASSUME IndInv, NEW w \in Writers, CountersOf(w), Loop(w)
    PROVE  CountsStep(w)
<1>a. TypeOK /\ ControlInv
  BY DEF IndInv
<1>1. UNCHANGED <<metrics, buf>> /\ pc[w] \in {"fetch", "check"}
  BY DEF Loop, TimeoutTick, TimeoutIdle, CheckCancelled, FetchCanceled, FetchError
<1>2. pc'[w] = "write" => buf[w] # <<>>
  BY <1>a DEF Loop, TimeoutTick, TimeoutIdle, CheckCancelled, FetchCanceled, FetchError,
     ReturnFlush, BeginFlush, Exit, TypeOK, VarTypes
<1>3. pc'[w] # "send"
  BY <1>a DEF Loop, TimeoutTick, TimeoutIdle, CheckCancelled, FetchCanceled, FetchError,
     ReturnFlush, BeginFlush, Exit, TypeOK, VarTypes
<1> QED  BY <1>a, <1>1, <1>2, <1>3, CountsNothing

\* A failed attempt counts only when it was the last.
LEMMA AttemptCounts ==
    ASSUME IndInv, NEW w \in Writers, CountersOf(w), pc[w] \in {"write", "send"},
           NEW isCanceled \in BOOLEAN, AttemptFailed(w, isCanceled)
    PROVE  CountsStep(w)
<1>a. TypeOK /\ ControlInv
  BY DEF IndInv
<1>1. CASE UNCHANGED <<buf, metrics>>
  BY <1>a, <1>1, CountsNothing DEF CountersOf
<1>2. CASE GiveUp(w, isCanceled)
  <2>1. Inc(w, "writeErrors") /\ pc'[w] \in {"done", "fatal"}
    BY <1>a, <1>2, ExitFacts DEF GiveUp
  <2> QED  BY <1>a, <2>1, CountsError
<1> QED  BY <1>1, <1>2 DEF AttemptFailed

\* What a flush counts.
LEMMA CountFlushFacts ==
    ASSUME TypeOK, NEW w \in Writers, metrics' = [metrics EXCEPT ![w] = CountFlush(w)]
    PROVE  /\ \A v \in Writers \ {w} : metrics'[v] = metrics[v]
           /\ metrics'[w]["eventsWritten"] = metrics[w]["eventsWritten"] + Len(buf[w])
           /\ metrics'[w]["batchesFlush"] = metrics[w]["batchesFlush"] + 1
           /\ metrics'[w]["decodeErrors"] = metrics[w]["decodeErrors"]
           /\ metrics'[w]["writeErrors"] = metrics[w]["writeErrors"]
<1> DEFINE counted == CountFlush(w)
<1>1. metrics \in [Writers -> [Counters -> Nat]] /\ metrics' = [metrics EXCEPT ![w] = counted]
  BY DEF TypeOK, VarTypes
<1>2. metrics[w] \in [Counters -> Nat]
  BY <1>1
<1>3. /\ counted["eventsWritten"] = metrics[w]["eventsWritten"] + Len(buf[w])
      /\ counted["batchesFlush"] = metrics[w]["batchesFlush"] + 1
      /\ counted["decodeErrors"] = metrics[w]["decodeErrors"]
      /\ counted["writeErrors"] = metrics[w]["writeErrors"]
  BY <1>2 DEF CountFlush, Counters
<1> HIDE DEF counted
<1>4. metrics'[w] = counted /\ \A v \in Writers \ {w} : metrics'[v] = metrics[v]
  BY <1>1
<1> QED  BY <1>3, <1>4

\* A flush counts the batch and its events, or its failure when it gives up.
LEMMA FlushCounts ==
    ASSUME IndInv, NEW w \in Writers, CountersOf(w), Flush(w)
    PROVE  CountsStep(w)
<1>a. TypeOK /\ ControlInv /\ ControlOf(w)
  BY DEF IndInv, ControlInv
<1>1. CASE WriteBatchStart(w)
  <2>1. UNCHANGED <<buf, metrics>> /\ pc[w] = "write"
    BY <1>1 DEF WriteBatchStart
  <2> QED  BY <1>a, <2>1, CountsNothing DEF CountersOf
<1>2. CASE WriteBatchCanceled(w) \/ AppendRefused(w) \/ SendErr(w)
  <2>1. PICK isCanceled \in BOOLEAN : AttemptFailed(w, isCanceled)
    BY <1>a, <1>2 DEF WriteBatchCanceled, AppendRefused, SendErr, TypeOK, VarTypes
  <2>2. pc[w] \in {"write", "send"}
    BY <1>2 DEF WriteBatchCanceled, AppendRefused, SendErr
  <2> QED  BY <2>1, <2>2, AttemptCounts
<1>3. CASE SendOK(w)
  <2>1. pc[w] = "send" /\ metrics' = [metrics EXCEPT ![w] = CountFlush(w)]
    BY <1>3 DEF SendOK
  <2>2. pc'[w] = "commit"
    BY <1>a, <1>3 DEF SendOK, TypeOK, VarTypes
  <2>3. Len(buf[w]) \in Nat /\ Len(buf[w]) >= 1
    <3>1. buf[w] \in Seq(Message) /\ buf[w] # <<>>
      BY <1>a, <2>1 DEF CountersOf, TypeOK, VarTypes
    <3> QED  BY <3>1
  <2>4. \A c \in Counters : metrics[w][c] \in Nat
    BY <1>a DEF TypeOK, VarTypes
  <2>5. metrics[w]["eventsWritten"] \in Nat /\ metrics[w]["batchesFlush"] \in Nat
    BY <2>4 DEF Counters
  <2>6. /\ \A v \in Writers \ {w} : metrics'[v] = metrics[v]
        /\ metrics'[w]["eventsWritten"] = metrics[w]["eventsWritten"] + Len(buf[w])
        /\ metrics'[w]["batchesFlush"] = metrics[w]["batchesFlush"] + 1
        /\ metrics'[w]["decodeErrors"] = metrics[w]["decodeErrors"]
        /\ metrics'[w]["writeErrors"] = metrics[w]["writeErrors"]
    BY <1>a, <2>1, CountFlushFacts
  <2>7. /\ metrics[w]["batchesFlush"] <= metrics[w]["eventsWritten"]
        /\ ~(metrics[w]["decodeErrors"] + metrics[w]["writeErrors"] > 0)
    BY <2>1 DEF CountersOf
  <2>8. metrics'[w]["batchesFlush"] <= metrics'[w]["eventsWritten"]
    BY <2>3, <2>5, <2>6, <2>7
  <2>9. CountersOf(w)'
    BY <2>2, <2>6, <2>7, <2>8 DEF CountersOf
  <2> QED  BY <1>3, <2>6, <2>9 DEF CountsStep
<1>4. CASE CommitOK(w)
  <2>1. UNCHANGED metrics /\ pc[w] = "commit"
    BY <1>4 DEF CommitOK
  <2>2. pc'[w] \in {"fetch", "check", "done"}
    BY <1>a, <1>4, AfterFlushFacts DEF CommitOK, ControlOf, TypeOK, VarTypes
  <2> QED  BY <1>a, <2>1, <2>2, CountsNothing
<1>5. CASE CommitErr(w)
  <2>1. UNCHANGED metrics /\ pc[w] = "commit"
    BY <1>5 DEF CommitErr
  <2>2. pc'[w] \in {"done", "fatal"}
    BY <1>a, <1>5, ExitFacts DEF CommitErr
  <2> QED  BY <1>a, <2>1, <2>2, CountsNothing
<1> QED  BY <1>1, <1>2, <1>3, <1>4, <1>5 DEF Flush

\* Signals and crashes count nothing.
LEMMA EnvironmentCounts ==
    ASSUME IndInv, NEW w \in Writers, CountersOf(w), Environment(w)
    PROVE  CountsStep(w)
<1>a. TypeOK /\ ControlInv
  BY DEF IndInv
<1>1. CASE Cancel(w)
  <2>1. UNCHANGED <<pc, buf, metrics>> /\ Consuming(w)
    BY <1>1 DEF Cancel
  <2> QED  BY <1>a, <2>1, CountsNothing DEF CountersOf, Consuming
<1>2. CASE Crash(w)
  <2>1. UNCHANGED metrics /\ (Consuming(w) \/ pc[w] = "ping") /\ pc'[w] = "down"
    BY <1>a, <1>2, ExitFacts DEF Crash
  <2> QED  BY <1>a, <2>1, CountsNothing DEF Consuming
<1> QED  BY <1>1, <1>2 DEF Environment

\* The sums, after a batch is stored and counted.
LEMMA SendKeepsSums ==
    ASSUME TypeOK, TypeOK', NEW w \in Writers, SendOK(w),
           SumFunctionOnSet(Written, Writers) <= SumFunctionOnSet(rows, Message)
    PROVE  SumFunctionOnSet(Written', Writers) <= SumFunctionOnSet(rows', Message)
<1> DEFINE f == Written
           g == Written'
           r == rows
           s == rows'
           n == Len(buf[w])
<1>1. \A v \in Writers : f[v] \in Nat /\ g[v] \in Nat
  BY WrittenType, WrittenTypeNext
<1>2. /\ \A v \in Writers : v # w => g[v] = f[v]
      /\ g[w] = f[w] + n
  <2>1. metrics' = [metrics EXCEPT ![w] = CountFlush(w)]
    BY DEF SendOK
  <2>2. /\ \A v \in Writers \ {w} : metrics'[v] = metrics[v]
        /\ metrics'[w]["eventsWritten"] = metrics[w]["eventsWritten"] + n
    BY <2>1, CountFlushFacts
  <2>3. \A v \in Writers : f[v] = metrics[v]["eventsWritten"]
    BY WrittenType
  <2>4. \A v \in Writers : g[v] = metrics'[v]["eventsWritten"]
    BY WrittenTypeNext
  <2> HIDE DEF f, g, n
  <2> QED  BY <2>2, <2>3, <2>4
<1>3. \A m \in Message : r[m] \in Nat /\ s[m] = r[m] + CopiesIn(buf[w], m)
  BY DEF SendOK, Insert, CopiesIn, TypeOK, VarTypes
<1>4. buf[w] \in Seq(Message) /\ n \in Nat
  BY DEF TypeOK, VarTypes
<1>5. SumFunctionOnSet(f, Writers) <= SumFunctionOnSet(r, Message)
  OBVIOUS
<1> DEFINE batch == buf[w]
<1>b. \A m \in Message : r[m] \in Nat /\ s[m] = r[m] + CopiesIn(batch, m)
  BY <1>3
<1>c. batch \in Seq(Message) /\ Len(batch) = n
  BY <1>4
<1> HIDE DEF f, g, r, s, batch, n
<1>6. SumFunctionOnSet(s, Message) = SumFunctionOnSet(r, Message) + n
  BY <1>b, <1>c, BatchSum, MessageFinite
<1>7. /\ SumFunctionOnSet(f, Writers) \in Nat /\ SumFunctionOnSet(g, Writers) \in Nat
      /\ f[w] <= SumFunctionOnSet(f, Writers)
      /\ SumFunctionOnSet(g, Writers) = SumFunctionOnSet(f, Writers) - f[w] + g[w]
  BY <1>1, <1>2, SumChanges, FinitenessAssumption
<1>8. SumFunctionOnSet(r, Message) \in Nat
  BY <1>b, SumIsNat, MessageFinite
<1>9. SumFunctionOnSet(g, Writers) <= SumFunctionOnSet(s, Message)
  BY <1>1, <1>2, <1>4, <1>5, <1>6, <1>7, <1>8
<1> QED  BY <1>9 DEF g, s

\* Every step keeps what the counters say.
LEMMA MetricsKept ==
    ASSUME IndInv, IndInv', MetricsInv, [Next]_vars
    PROVE  MetricsInv'
<1>a. TypeOK /\ TypeOK'
  BY DEF IndInv
<1>1. CASE Topic \/ Group \/ UNCHANGED vars
  <2>1. UNCHANGED <<metrics, rows, pc, buf>>
    BY <1>1 DEF Topic, Group, Produce, Assign, Revoke, vars
  <2> QED  BY <2>1 DEF MetricsInv, CountersOf, Written
<1>2. ASSUME NEW w \in Writers, Process(w)
      PROVE  MetricsInv'
  <2>1. CountsStep(w)
    BY <1>2, StartupCounts, FetchCounts, LoopCounts, FlushCounts, EnvironmentCounts
       DEF MetricsInv, Process
  <2>2. ASSUME NEW v \in Writers PROVE CountersOf(v)'
    <3>1. CASE v = w
      BY <2>1, <3>1 DEF CountsStep
    <3>2. CASE v # w
      <4>1. pc'[v] = pc[v] /\ buf'[v] = buf[v]
        <5>1. CASE \E p \in Partitions : FetchEvent(w, p)
          BY <1>a, <3>2, <5>1 DEF FetchEvent, BeginFlush, TypeOK, VarTypes
        <5>2. CASE ~\E p \in Partitions : FetchEvent(w, p)
          BY <1>2, <3>2, <5>2, ProcessOwn DEF Own
        <5> QED  BY <5>1, <5>2
      <4>2. metrics'[v] = metrics[v]
        BY <2>1, <3>2 DEF CountsStep
      <4> QED  BY <4>1, <4>2 DEF MetricsInv, CountersOf
    <3> QED  BY <3>1, <3>2
  <2>3. (SumFunctionOnSet(Written, Writers) <= SumFunctionOnSet(rows, Message))'
    <3>1. CASE SendOK(w)
      BY <1>a, <3>1, SendKeepsSums DEF MetricsInv
    <3>2. CASE ~SendOK(w)
      <4>1. \A m \in Message : rows[m] <= rows'[m]
        BY <1>2, TableGrows
      <4>2. ASSUME NEW v \in Writers
            PROVE  metrics'[v]["eventsWritten"] <= metrics[v]["eventsWritten"]
        <5>1. metrics[v]["eventsWritten"] \in Nat
          BY <1>a DEF TypeOK, VarTypes, Counters
        <5> QED  BY <2>1, <3>2, <5>1 DEF CountsStep
      <4> QED  BY <1>a, <4>1, <4>2, ClaimsNoMore DEF MetricsInv
    <3> QED  BY <3>1, <3>2
  <2> QED  BY <2>2, <2>3 DEF MetricsInv
<1> QED  BY <1>1, <1>2 DEF Next

\* Nothing is counted at first.
LEMMA InitMetrics == Init => MetricsInv
<1> SUFFICES ASSUME Init PROVE MetricsInv
  OBVIOUS
<1>1. \A w \in Writers, c \in Counters : metrics[w][c] = 0
  BY DEF Init, ZeroMetrics
<1>2. \A w \in Writers : Written[w] = 0
  BY <1>1 DEF Written, Counters
<1>3. \A m \in Message : rows[m] = 0
  BY DEF Init
<1>4. SumFunctionOnSet(Written, Writers) = 0 /\ SumFunctionOnSet(rows, Message) = 0
  BY <1>2, <1>3, SumOfZeros, MessageFinite, FinitenessAssumption
<1>5. ASSUME NEW w \in Writers PROVE CountersOf(w)
  <2>1. /\ metrics[w]["eventsWritten"] = 0 /\ metrics[w]["batchesFlush"] = 0
        /\ metrics[w]["decodeErrors"] = 0 /\ metrics[w]["writeErrors"] = 0
    BY <1>1 DEF Counters
  <2>2. pc[w] = "down"
    BY DEF Init
  <2> QED  BY <2>1, <2>2 DEF CountersOf
<1> QED  BY <1>4, <1>5 DEF MetricsInv

\* The counters never claim more events than the table received, and a process
\* that counted an error has stopped.
THEOREM MetricsAreHonest == Spec => []MetricsHonest
<1>1. IndInv /\ IndInv' /\ MetricsInv /\ [Next]_vars => MetricsInv'
  BY MetricsKept
<1>2. IndInv /\ MetricsInv => MetricsHonest
  <2> SUFFICES ASSUME IndInv, MetricsInv PROVE MetricsHonest
    OBVIOUS
  <2>1. DOMAIN rows = Message /\ DOMAIN Written = Writers
    BY DEF IndInv, TypeOK, VarTypes, Written
  <2>2. SumFunction(rows) = SumFunctionOnSet(rows, Message)
    BY <2>1 DEF SumFunction
  <2>3. SumFunction(Written) = SumFunctionOnSet(Written, Writers)
    BY <2>1 DEF SumFunction
  <2> QED  BY <2>2, <2>3 DEF MetricsHonest, MetricsInv, CountersOf, Written
<1> QED  BY <1>1, <1>2, InitMetrics, IndInvHolds, PTL DEF Spec
=============================================================================
