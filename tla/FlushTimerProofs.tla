-------------------------- MODULE FlushTimerProofs --------------------------
(***************************************************************************)
(* Proofs about FlushTimer: the bounds on how long an event waits in the   *)
(* writer's buffer, for every deadline, interval and batch size.           *)
(***************************************************************************)
EXTENDS FlushTimer, TLAPS

\* The time that k deadlines take.
Deadlines(k) == k * Deadline

\* What the proofs need of that product.
LEMMA DeadlinesFacts ==
    /\ \A k \in Nat : Deadlines(k) \in Nat
    /\ \A k \in Nat : Deadlines(k + 1) = Deadlines(k) + Deadline
    /\ \A j, k \in Nat : j <= k => Deadlines(j) <= Deadlines(k)
<1>1. Deadline \in Nat
  BY TimerAssumption
<1>2. \A k \in Nat : Deadlines(k) \in Nat
  BY <1>1 DEF Deadlines
<1>3. \A k \in Nat : Deadlines(k + 1) = Deadlines(k) + Deadline
  BY <1>1 DEF Deadlines
<1>4. \A j, k \in Nat : j <= k => Deadlines(j) <= Deadlines(k)
  <2> SUFFICES ASSUME NEW j \in Nat, NEW k \in Nat, j <= k
               PROVE  j * Deadline <= k * Deadline
    BY DEF Deadlines
  <2>1. PICK d \in Nat : k = j + d
    <3>1. k - j \in Nat /\ k = j + (k - j)
      OBVIOUS
    <3> QED  BY <3>1
  <2>2. k * Deadline = j * Deadline + d * Deadline
    BY <1>1, <2>1
  <2>3. d * Deadline \in Nat /\ j * Deadline \in Nat
    BY <1>1
  <2> QED  BY <2>2, <2>3
<1> QED  BY <1>2, <1>3, <1>4

\* The configuration that newBatchProcessor leaves is usable, whatever the
\* environment says.
LEMMA EffPositive ==
    /\ \A s \in BatchSettings : EffBatchSize(s) \in Nat \ {0}
    /\ \A s \in IntervalSettings : EffInterval(s) \in Nat \ {0}
BY TimerAssumption DEF EffBatchSize, EffInterval, FromEnv, Setting

\* The invariant with the products named.
LEMMA BoundsInDeadlines ==
    ASSUME TypeOK
    PROVE  /\ WaitBounded <=> oldest <= interval + Deadlines(batchSize - 1)
           /\ n > 0 => Deadlines(n - 1) = (n - 1) * Deadline
BY DEF WaitBounded, Deadlines

\* The invariant holds initially.
LEMMA InitInv == Init => TimerInv
<1> SUFFICES ASSUME Init PROVE TimerInv
  OBVIOUS
<1>1. batchSize \in Nat \ {0} /\ interval \in Nat \ {0}
  BY EffPositive DEF Init
<1>2. TypeOK
  BY <1>1, TimerAssumption DEF Init, TypeOK
<1>3. Deadlines(batchSize - 1) \in Nat
  BY <1>1, DeadlinesFacts
<1>4. WaitBounded
  BY <1>1, <1>2, <1>3, BoundsInDeadlines DEF Init
<1> QED  BY <1>1, <1>2, <1>4, TimerAssumption DEF Init, TimerInv, QuietFlushed

\* Every step preserves it: only Elapse lets a wait grow, and it does so no
\* longer than the deadline, the tick and the room in the batch allow.
LEMMA NextInv == TimerInv /\ [Next]_vars => TimerInv'
<1> SUFFICES ASSUME TimerInv, [Next]_vars PROVE TimerInv'
  OBVIOUS
<1> USE DEF config, buffer, ticker
<1>0. TypeOK /\ Deadline \in Nat \ {0}
  BY TimerAssumption DEF TimerInv
<1>1. CASE Arrive
  BY <1>1 DEF Arrive, TimerInv, TypeOK, WaitBounded, QuietFlushed
<1>2. CASE Elapse
  <2>1. TypeOK'
    BY <1>0, <1>2 DEF Elapse, TypeOK, BufferedTick
  <2>2. CASE pc = "flush"
    BY <1>2, <2>1, <2>2 DEF Elapse, TimerInv, WaitBounded, QuietFlushed
  <2>3. CASE pc = "fetch" /\ n = 0
    BY <1>2, <2>1, <2>3 DEF Elapse, TimerInv, WaitBounded, QuietFlushed
  <2>4. CASE pc = "fetch" /\ n > 0
    <3>1. /\ pc' = "fetch" /\ n' = n /\ UNCHANGED <<batchSize, interval>>
          /\ waited' = waited + 1 /\ waited < Deadline
          /\ oldest' = oldest + 1 /\ quiet' = quiet + 1
          /\ untilTick' = IF untilTick = 1 THEN interval ELSE untilTick - 1
          /\ ticks' = IF untilTick = 1 THEN 1 ELSE ticks
      BY <1>2, <2>4 DEF Elapse, BufferedTick
    <3>2. n \in Nat \ {0} /\ n < batchSize /\ n - 1 \in Nat /\ batchSize - 1 \in Nat
      BY <1>0, <2>4 DEF TimerInv, TypeOK
    <3>3. /\ Deadlines(n - 1) \in Nat
          /\ Deadlines(n - 1) + Deadline <= Deadlines(batchSize - 1)
      <4>1. Deadlines((n - 1) + 1) = Deadlines(n - 1) + Deadline
        BY <3>2, DeadlinesFacts
      <4>2. (n - 1) + 1 \in Nat /\ (n - 1) + 1 <= batchSize - 1
        BY <1>0, <3>2 DEF TypeOK
      <4> QED  BY <3>2, <4>1, <4>2, DeadlinesFacts
    <3>a. /\ ticks \in 0..1 /\ ticks' \in 0..1
          /\ interval \in Nat /\ untilTick \in 1..interval
          /\ oldest \in Nat /\ quiet \in Nat /\ waited \in Nat
          /\ quiet <= oldest
          /\ Deadline \in Nat
      BY <1>0, <2>1 DEF TimerInv, TypeOK
    <3>4. /\ ticks' = 0 => oldest' + untilTick' <= interval'
          /\ ticks' = 1 => oldest' <= interval' + Deadlines(n - 1) + waited'
          /\ ticks' = 1 => quiet' <= interval' + waited'
      <4>1. CASE ticks = 1
        <5>1. oldest <= interval + Deadlines(n - 1) + waited /\ quiet <= interval + waited
          BY <2>4, <4>1 DEF TimerInv, Deadlines
        <5> QED  BY <3>1, <3>3, <3>a, <4>1, <5>1
      <4>2. CASE ticks = 0
        <5>1. oldest + untilTick <= interval
          BY <2>4, <4>2 DEF TimerInv
        <5>2. CASE untilTick = 1
          <6>1. ticks' = 1 /\ oldest' <= interval /\ quiet' <= interval /\ interval' = interval
            BY <3>1, <3>a, <5>1, <5>2
          <6> QED  BY <3>1, <3>3, <3>a, <6>1
        <5>3. CASE untilTick # 1
          BY <3>1, <3>a, <4>2, <5>1, <5>3
        <5> QED  BY <5>2, <5>3
      <4> QED  BY <3>a, <4>1, <4>2
    <3>5. /\ oldest' <= interval' + Deadlines(batchSize - 1)
          /\ quiet' <= interval' + Deadline
      <4>1. Deadlines(batchSize - 1) \in Nat
        BY <3>2, DeadlinesFacts
      <4>2. CASE ticks' = 1
        BY <3>1, <3>3, <3>4, <3>a, <4>1, <4>2
      <4>3. CASE ticks' = 0
        <5>1. untilTick' \in Nat /\ interval' = interval
          BY <3>1, <3>a
        <5>2. oldest' <= interval' /\ quiet' <= oldest'
          BY <3>1, <3>4, <3>a, <4>3, <5>1
        <5> QED  BY <3>1, <3>a, <4>1, <5>1, <5>2
      <4> QED  BY <3>a, <4>2, <4>3
    <3>6. WaitBounded' /\ QuietFlushed'
      BY <3>1, <3>5 DEF WaitBounded, QuietFlushed, Deadlines
    <3>7. quiet' <= oldest'
      BY <1>0, <3>1 DEF TimerInv, TypeOK
    <3>8. ticks' = 1 => oldest' <= interval' + (n' - 1) * Deadline + waited'
      BY <3>1, <3>4 DEF Deadlines
    <3> QED  BY <2>1, <2>4, <3>1, <3>2, <3>4, <3>6, <3>7, <3>8 DEF TimerInv
  <2> QED  BY <1>0, <1>2, <2>2, <2>3, <2>4 DEF Elapse, TypeOK
<1>3. CASE FetchOK
  <2>1. /\ pc = "fetch" /\ n' = n + 1 /\ quiet' = 0 /\ waited' = 0
        /\ UNCHANGED <<batchSize, interval, oldest, untilTick, ticks>>
        /\ n' < batchSize \/ pc' = "flush"
        /\ pc' \in {"fetch", "flush"}
    BY <1>0, <1>3 DEF FetchOK, TypeOK
  <2>2. n \in Nat /\ n < batchSize /\ oldest \in Nat /\ batchSize \in Nat /\ interval \in Nat
    BY <1>0, <2>1 DEF TimerInv, TypeOK
  <2>3. TypeOK'
    BY <1>0, <1>3, <2>1, <2>2 DEF FetchOK, TypeOK
  <2>4. ticks = 0 => oldest + untilTick <= interval
    BY <1>0, <2>1, <2>2 DEF TimerInv, TypeOK
  <2>5. ticks = 1 => oldest <= interval + (n' - 1) * Deadline
    <3>1. Deadlines(n) \in Nat /\ n' - 1 = n
      BY <2>1, <2>2, DeadlinesFacts
    <3>2. CASE n = 0
      BY <2>1, <2>2, <3>1, <3>2 DEF TimerInv, Deadlines
    <3>3. CASE n > 0
      <4>1. ticks = 1 => oldest <= interval + Deadlines(n - 1) + waited
        BY <2>1, <3>3 DEF TimerInv, Deadlines
      <4>2. Deadlines(n - 1) \in Nat /\ Deadlines(n) = Deadlines(n - 1) + Deadline
        <5>1. n - 1 \in Nat /\ (n - 1) + 1 = n
          BY <2>2, <3>3
        <5> QED  BY <5>1, DeadlinesFacts
      <4>3. ticks = 1 => oldest <= interval + Deadlines(n)
        BY <1>0, <2>2, <4>1, <4>2 DEF TypeOK
      <4> QED  BY <3>1, <4>3 DEF Deadlines
    <3> QED  BY <2>2, <3>2, <3>3
  <2>6. WaitBounded' /\ QuietFlushed'
    BY <1>0, <2>1, <2>2 DEF TimerInv, WaitBounded, QuietFlushed
  <2> QED  BY <1>0, <2>1, <2>2, <2>3, <2>4, <2>5, <2>6 DEF TimerInv
<1>4. CASE Timeout
  <2>1. TypeOK'
    BY <1>0, <1>4 DEF Timeout, TickBranch, TypeOK
  <2>2. UNCHANGED <<batchSize, interval, n, oldest, quiet, untilTick>>
    BY <1>4 DEF Timeout
  <2>3. \/ pc' = "flush"
        \/ pc' = "fetch" /\ n = 0
        \/ pc' = "fetch" /\ ticks = 0 /\ ticks' = 0
    BY <1>0, <1>4 DEF Timeout, TickBranch, TypeOK
  <2> QED  BY <1>0, <1>4, <2>1, <2>2, <2>3 DEF Timeout, TimerInv, WaitBounded, QuietFlushed, TypeOK
<1>5. ASSUME EmptyBuffer, pc' = "fetch", TypeOK', UNCHANGED config
      PROVE  TimerInv'
  <2>1. Deadlines(batchSize - 1) \in Nat
    BY <1>0, DeadlinesFacts DEF TypeOK
  <2>2. WaitBounded'
    BY <1>0, <1>5, <2>1 DEF EmptyBuffer, WaitBounded, Deadlines, TypeOK
  <2> QED  BY <1>0, <1>5, <2>2 DEF EmptyBuffer, TimerInv, QuietFlushed, TypeOK
<1>6. CASE FlushReturns
  <2>1. TypeOK'
    BY <1>0, <1>6 DEF FlushReturns, EmptyBuffer, TypeOK
  <2> QED  BY <1>5, <1>6, <2>1 DEF FlushReturns
<1>7. CASE Ends
  BY <1>7 DEF Ends, TimerInv, TypeOK, WaitBounded, QuietFlushed
<1>8. CASE Restart
  <2>1. TypeOK'
    BY <1>0, <1>8 DEF Restart, EmptyBuffer, TypeOK
  <2> QED  BY <1>5, <1>8, <2>1 DEF Restart
<1>9. CASE UNCHANGED vars
  BY <1>9 DEF vars, TimerInv, TypeOK, WaitBounded, QuietFlushed
<1> QED  BY <1>1, <1>2, <1>3, <1>4, <1>6, <1>7, <1>8, <1>9 DEF Next

\* The invariant of the loop's timing holds for every configuration.
THEOREM TimerInvHolds == Spec => []TimerInv
BY InitInv, NextInv, PTL DEF Spec

\* However messages arrive, no event waits for its flush longer than the flush
\* interval and a fetch deadline per further event of its batch
\* (consumer.go:50-83).
THEOREM WaitIsBounded == Spec => []WaitBounded
<1>1. TimerInv => WaitBounded
  BY DEF TimerInv
<1> QED  BY <1>1, TimerInvHolds, PTL

\* After the last message the batch is flushed within the interval and one
\* fetch deadline (consumer.go:71-77).
THEOREM QuietIsFlushed == Spec => []QuietFlushed
<1>1. TimerInv => QuietFlushed
  BY DEF TimerInv
<1> QED  BY <1>1, TimerInvHolds, PTL
=============================================================================
