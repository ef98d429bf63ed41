----------------------- MODULE RedpandaSubscribeProofs -----------------------
(***************************************************************************)
(* Proofs about RedpandaSubscribe, for any finite set of topics and any    *)
(* number of calls, messages and errors: what is committed was handled,    *)
(* Subscribe leaves no goroutine behind, its result is genuine, and no     *)
(* goroutine ever blocks on the channel of errors.                         *)
(***************************************************************************)
EXTENDS RedpandaSubscribe, FiniteSetTheorems, TLAPS

-----------------------------------------------------------------------------
(* The inductive invariant. *)

\* The topics whose goroutine has sent its error or had none to send.
Settled == {t \in Topics : pc[t] \in {"cancel", "done"}}

\* The reader of t is behind handled messages only, and a message is committed
\* after its handler returned nil.
ReaderInv(t) ==
    /\ \A i \in Messages : i <= pos[t] \/ i <= committed[t] => <<t, i>> \in handled
    /\ pc[t] \in {"handle", "commit"} => pos[t] < MaxMessages
    /\ pc[t] = "commit" => <<t, pos[t] + 1>> \in handled

\* An error on its way to the caller, or there, is that of a topic that has
\* nothing more to report in this call.
FromTopic(e) == \E t \in Settled : err[t] = e

\* The readers, and how far Subscribe and its goroutines are with their errors:
\* errCh holds no more errors than goroutines have settled.
SubscribeInv ==
    /\ TypeOK
    /\ \A t \in Topics : ReaderInv(t)
    /\ main \in {"idle", "returned"} => AllDone
    /\ Len(errCh) <= Cardinality(Settled)
    /\ \A k \in DOMAIN errCh : FromTopic(errCh[k])
    /\ main \in {"drain", "returned"} /\ result \in Errors \ {"nil"} =>
            (result = ctx /\ ctx # "live") \/ FromTopic(result)

-----------------------------------------------------------------------------
(* Lemmas about the operators. *)

\* There are finitely many settled topics.
LEMMA SettledFinite ==
    /\ IsFiniteSet(Settled) /\ Cardinality(Settled) \in Nat
    /\ Cardinality(Settled) <= Cardinality(Topics) /\ Cardinality(Topics) \in Nat
<1>1. Settled \subseteq Topics /\ IsFiniteSet(Topics)
  BY SubscribeAssumption DEF Settled
<1> QED  BY <1>1, FS_Subset, FS_CardinalityType

\* When settled topics stay so and keep their errors, an error that is on its
\* way stays accounted for, and the channel keeps its room.
LEMMA SettledGrows ==
    ASSUME Settled \subseteq Settled', \A u \in Settled : err'[u] = err[u]
    PROVE  /\ \A e : FromTopic(e) => FromTopic(e)'
           /\ Cardinality(Settled) <= Cardinality(Settled')
<1>1. \A e : FromTopic(e) => FromTopic(e)'
  BY DEF FromTopic
<1>2. IsFiniteSet(Settled')
  <2>1. Settled' \subseteq Topics /\ IsFiniteSet(Topics)
    BY SubscribeAssumption DEF Settled
  <2> QED  BY <2>1, FS_Subset
<1>3. Cardinality(Settled) <= Cardinality(Settled')
  BY <1>2, FS_Subset
<1> QED  BY <1>1, <1>3

\* What ctx.Err() may be.
LEMMA CtxErrType == TypeOK => CtxErr \in Errors
BY DEF TypeOK, CtxErr, Contexts, Errors

\* The budget of faults is not exceeded.
LEMMA FaultType == ASSUME TypeOK, Fault PROVE faults' \in 0..MaxFaults
BY SubscribeAssumption DEF TypeOK, Fault

\* Cancelling leaves a context of one of the three kinds.
LEMMA CancelSubType == ASSUME TypeOK, CancelSub PROVE sub' \in Contexts
BY DEF TypeOK, CancelSub, Contexts

\* The end of consumeTopic changes the goroutine of one topic, which was not
\* settled before.
LEMMA EndsFacts ==
    ASSUME TypeOK, NEW t \in Topics, NEW e \in Errors, Ends(t, e),
           pc[t] \in {"fetch", "handle", "commit"}
    PROVE  /\ pc' \in [Topics -> Running \cup {"done"}]
           /\ err' \in [Topics -> Errors]
           /\ pc'[t] \in {"report", "done"}
           /\ \A u \in Topics : u # t => pc'[u] = pc[u] /\ err'[u] = err[u]
           /\ Settled \subseteq Settled' /\ \A u \in Settled : err'[u] = err[u]
<1>1. /\ pc' \in [Topics -> Running \cup {"done"}]
      /\ pc'[t] \in {"report", "done"}
      /\ \A u \in Topics : u # t => pc'[u] = pc[u]
  BY DEF TypeOK, Ends, Running
<1>2. /\ err' \in [Topics -> Errors]
      /\ \A u \in Topics : u # t => err'[u] = err[u]
  BY DEF TypeOK, Ends
<1>3. t \notin Settled
  BY DEF Settled
<1> QED  BY <1>1, <1>2, <1>3 DEF Settled

\* A topic whose reader a step leaves alone keeps its invariant.
LEMMA ReadersKeep ==
    ASSUME NEW u \in Topics, ReaderInv(u), pos'[u] = pos[u],
           committed'[u] = committed[u], handled \subseteq handled',
           pc'[u] \in {"handle", "commit"} => pc'[u] = pc[u]
    PROVE  ReaderInv(u)'
BY DEF ReaderInv

-----------------------------------------------------------------------------
(* Preservation of the invariant. *)

\* Nothing has been subscribed yet.
LEMMA InitInv == Init => SubscribeInv
<1> SUFFICES ASSUME Init PROVE SubscribeInv
  OBVIOUS
<1>1. Cardinality(Topics) \in Nat /\ Cardinality(Settled) \in Nat
  BY SettledFinite
<1>2. errCh = <<>> /\ Len(errCh) = 0 /\ errCh \in Seq(Errors)
  BY DEF Init
<1>3. TypeOK
  <2>1. /\ pc \in [Topics -> Running \cup {"done"}] /\ err \in [Topics -> Errors]
        /\ ctx \in Contexts /\ sub \in Contexts
    BY DEF Init, Contexts, Errors, Running
  <2>2. /\ pos \in [Topics -> 0..MaxMessages] /\ committed \in [Topics -> 0..MaxMessages]
        /\ calls \in 0..MaxCalls /\ faults \in 0..MaxFaults
    BY SubscribeAssumption DEF Init
  <2>3. Len(errCh) <= Cardinality(Topics)
    BY <1>1, <1>2
  <2>4. closed \in BOOLEAN /\ handled \subseteq Topics \X Messages
    BY DEF Init
  <2>5. main = "idle" /\ result = "none"
    BY DEF Init
  <2> QED  BY <1>2, <2>1, <2>2, <2>3, <2>4, <2>5 DEF TypeOK
<1>4. \A t \in Topics : ReaderInv(t)
  BY SubscribeAssumption DEF Init, ReaderInv, Messages
<1> QED  BY <1>1, <1>2, <1>3, <1>4 DEF Init, SubscribeInv, AllDone

\* The frame of a step of the goroutine of t that sends nothing.
GoroutineFrame(t) ==
    /\ pc[t] # "done"
    /\ UNCHANGED <<main, result, ctx, errCh>>
    /\ Settled \subseteq Settled' /\ \A u \in Settled : err'[u] = err[u]

\* A step of a goroutine that stays within its frame keeps the invariant, once
\* it keeps what concerns the readers.
LEMMA GoroutineStep ==
    ASSUME SubscribeInv, NEW t \in Topics, GoroutineFrame(t), TypeOK',
           \A u \in Topics : ReaderInv(u)'
    PROVE  SubscribeInv'
<1>1. main \notin {"idle", "returned"}
  BY DEF SubscribeInv, AllDone, GoroutineFrame
<1>2. /\ \A e : FromTopic(e) => FromTopic(e)'
      /\ Cardinality(Settled) <= Cardinality(Settled')
  BY SettledGrows DEF GoroutineFrame
<1>3. Len(errCh') <= Cardinality(Settled')
  <2>1. Len(errCh) \in Nat /\ Cardinality(Settled) \in Nat /\ Cardinality(Settled') \in Nat
    <3>1. Settled' \subseteq Topics /\ IsFiniteSet(Topics)
      BY SubscribeAssumption DEF Settled
    <3>2. Cardinality(Settled') \in Nat
      BY <3>1, FS_Subset, FS_CardinalityType
    <3> QED  BY <3>2, SettledFinite DEF SubscribeInv, TypeOK
  <2> QED  BY <1>2, <2>1 DEF SubscribeInv, GoroutineFrame
<1>4. (\A k \in DOMAIN errCh : FromTopic(errCh[k]))'
  <2>1. \A k \in DOMAIN errCh : FromTopic(errCh[k]) /\ FromTopic(errCh[k])'
    <3> SUFFICES ASSUME NEW k \in DOMAIN errCh
                 PROVE  FromTopic(errCh[k]) /\ FromTopic(errCh[k])'
      OBVIOUS
    <3>1. PICK u \in Settled : err[u] = errCh[k]
      BY DEF SubscribeInv, FromTopic
    <3>2. u \in Settled' /\ err'[u] = errCh'[k]
      BY <3>1 DEF GoroutineFrame
    <3> QED  BY <3>1, <3>2 DEF FromTopic
  <2> QED  BY <2>1 DEF GoroutineFrame
<1>5. main' \in {"drain", "returned"} /\ result' \in Errors \ {"nil"} =>
        (result' = ctx' /\ ctx' # "live") \/ FromTopic(result)'
  BY <1>2 DEF SubscribeInv, GoroutineFrame
<1> QED  BY <1>1, <1>3, <1>4, <1>5 DEF SubscribeInv, GoroutineFrame

\* A goroutine moves on inside consumeTopic.
LEMMA MoveStep ==
    ASSUME SubscribeInv, NEW t \in Topics, NEW to \in {"fetch", "handle", "commit"},
           pc[t] \in {"fetch", "handle", "commit"}, pc' = [pc EXCEPT ![t] = to],
           UNCHANGED <<callVars, selectVars, sub, errCh, err, faults>>,
           pos' \in [Topics -> 0..MaxMessages], committed' \in [Topics -> 0..MaxMessages],
           handled' \subseteq Topics \X Messages, handled \subseteq handled',
           \A u \in Topics : u # t => pos'[u] = pos[u] /\ committed'[u] = committed[u],
           ReaderInv(t)'
    PROVE  SubscribeInv'
<1>0. TypeOK
  BY DEF SubscribeInv
<1>1. /\ pc' \in [Topics -> Running \cup {"done"}]
      /\ \A u \in Topics : u # t => pc'[u] = pc[u]
  BY <1>0 DEF TypeOK, Running
<1>2. TypeOK'
  BY <1>0, <1>1 DEF TypeOK, callVars, selectVars
<1>3. \A u \in Topics : ReaderInv(u)'
  <2> SUFFICES ASSUME NEW u \in Topics, u # t PROVE ReaderInv(u)'
    OBVIOUS
  <2> QED  BY <1>1, ReadersKeep DEF SubscribeInv
<1>4. GoroutineFrame(t)
  BY <1>1 DEF GoroutineFrame, Settled, callVars, selectVars
<1> QED  BY <1>2, <1>3, <1>4, GoroutineStep

\* consumeTopic returns; a commit under way may have been applied.
LEMMA EndsStep ==
    ASSUME SubscribeInv, NEW t \in Topics, NEW e \in Errors, Ends(t, e),
           pc[t] \in {"fetch", "handle", "commit"}, faults' \in 0..MaxFaults,
           \/ committed' = committed
           \/ pc[t] = "commit" /\ committed' = [committed EXCEPT ![t] = CommitOffset(t)],
           UNCHANGED <<callVars, selectVars, sub, errCh, pos, handled>>
    PROVE  SubscribeInv'
<1>0. TypeOK /\ ReaderInv(t) /\ MaxMessages \in Nat
  BY SubscribeAssumption DEF SubscribeInv
<1>1. /\ pc' \in [Topics -> Running \cup {"done"}]
      /\ err' \in [Topics -> Errors]
      /\ pc'[t] \in {"report", "done"}
      /\ \A u \in Topics : u # t => pc'[u] = pc[u] /\ err'[u] = err[u]
      /\ Settled \subseteq Settled' /\ \A u \in Settled : err'[u] = err[u]
  BY <1>0, EndsFacts
<1>2. /\ committed' \in [Topics -> 0..MaxMessages]
      /\ \A u \in Topics : u # t => committed'[u] = committed[u]
      /\ \/ committed'[t] = committed[t]
         \/ committed'[t] = pos[t] + 1 /\ <<t, pos[t] + 1>> \in handled
  <2>1. CASE committed' = committed
    BY <1>0, <2>1 DEF TypeOK
  <2>2. CASE pc[t] = "commit" /\ committed' = [committed EXCEPT ![t] = CommitOffset(t)]
    <3>1. pos[t] + 1 \in 0..MaxMessages /\ <<t, pos[t] + 1>> \in handled
      BY <1>0, <2>2 DEF TypeOK, ReaderInv
    <3> QED  BY <1>0, <2>2, <3>1 DEF TypeOK, CommitOffset
  <2> QED  BY <2>1, <2>2
<1>3. TypeOK'
  BY <1>0, <1>1, <1>2 DEF TypeOK, callVars, selectVars
<1>4. ReaderInv(t)'
  <2>1. ASSUME NEW i \in Messages, i <= pos[t] \/ i <= committed'[t]
        PROVE  <<t, i>> \in handled
    <3>1. CASE i <= pos[t] \/ i <= committed[t]
      BY <1>0, <3>1 DEF ReaderInv
    <3>2. CASE i <= pos[t] + 1 /\ <<t, pos[t] + 1>> \in handled /\ ~(i <= pos[t])
      <4>1. i = pos[t] + 1
        BY <1>0, <3>2 DEF TypeOK, Messages
      <4> QED  BY <3>2, <4>1
    <3> QED  BY <1>2, <2>1, <3>1, <3>2
  <2> QED  BY <1>1, <2>1 DEF ReaderInv
<1>5. \A u \in Topics : ReaderInv(u)'
  <2> SUFFICES ASSUME NEW u \in Topics, u # t PROVE ReaderInv(u)'
    BY <1>4
  <2> QED  BY <1>1, <1>2, ReadersKeep DEF SubscribeInv
<1>6. GoroutineFrame(t)
  BY <1>1 DEF GoroutineFrame, callVars, selectVars
<1> QED  BY <1>3, <1>5, <1>6, GoroutineStep

\* A fetch, whatever it returns, commits nothing (redpanda.go:137-172).
LEMMA FetchInv ==
    ASSUME SubscribeInv, NEW t \in Topics,
           FetchOK(t) \/ FetchEnded(t) \/ \E e \in FetchErrors : FetchErr(t, e)
    PROVE  SubscribeInv'
<1>0. TypeOK /\ ReaderInv(t)
  BY DEF SubscribeInv
<1>1. CASE FetchOK(t)
  <2>1. ReaderInv(t)'
    BY <1>0, <1>1 DEF ReaderInv, FetchOK, groupVars, TypeOK
  <2> QED  BY <1>0, <1>1, <2>1, MoveStep DEF FetchOK, groupVars, TypeOK
<1>2. CASE FetchEnded(t)
  BY <1>0, <1>2, CtxErrType, EndsStep DEF FetchEnded, groupVars, TypeOK
<1>3. ASSUME NEW e \in FetchErrors, FetchErr(t, e) PROVE SubscribeInv'
  <2>1. (IF e = "timeout" THEN CtxErr ELSE "fetch") \in Errors
    BY <1>0, CtxErrType DEF Errors
  <2>2. faults' \in 0..MaxFaults
    BY <1>0, <1>3, FaultType DEF FetchErr
  <2> QED  BY <1>3, <2>1, <2>2, EndsStep DEF FetchErr, groupVars
<1> QED  BY <1>1, <1>2, <1>3

\* A message the handler accepts becomes committable, one it refuses ends the
\* goroutine with its error.
LEMMA HandleInv ==
    ASSUME SubscribeInv, NEW t \in Topics,
           HandleOK(t) \/ HandleEnded(t) \/ \E e \in HandlerErrors : HandleErr(t, e)
    PROVE  SubscribeInv'
<1>0. TypeOK /\ ReaderInv(t) /\ MaxMessages \in Nat
  BY SubscribeAssumption DEF SubscribeInv
<1>1. CASE HandleOK(t)
  <2>1. pos[t] < MaxMessages /\ pos[t] \in 0..MaxMessages
    BY <1>0, <1>1 DEF ReaderInv, HandleOK, TypeOK
  <2>2. /\ handled' \subseteq Topics \X Messages /\ handled \subseteq handled'
        /\ <<t, pos[t] + 1>> \in handled'
    <3>1. pos[t] + 1 \in Messages
      BY <1>0, <2>1 DEF Messages
    <3> QED  BY <1>0, <1>1, <3>1 DEF HandleOK, TypeOK
  <2>3. ReaderInv(t)'
    BY <1>0, <1>1, <2>1, <2>2 DEF ReaderInv, HandleOK, TypeOK
  <2> QED  BY <1>0, <1>1, <2>2, <2>3, MoveStep DEF HandleOK, TypeOK
<1>2. CASE HandleEnded(t)
  BY <1>0, <1>2, CtxErrType, EndsStep DEF HandleEnded, groupVars, TypeOK
<1>3. ASSUME NEW e \in HandlerErrors, HandleErr(t, e) PROVE SubscribeInv'
  <2>1. (IF e = "canceled" THEN "canceled" ELSE "handler") \in Errors
    BY DEF Errors
  <2>2. faults' \in 0..MaxFaults
    BY <1>0, <1>3, FaultType DEF HandleErr
  <2> QED  BY <1>3, <2>1, <2>2, EndsStep DEF HandleErr, LeaveUncommitted
<1> QED  BY <1>1, <1>2, <1>3

\* A commit covers the message just handled; a failed one ends the goroutine.
LEMMA CommitInv ==
    ASSUME SubscribeInv, NEW t \in Topics, CommitOK(t) \/ CommitErr(t)
    PROVE  SubscribeInv'
<1>0. TypeOK /\ ReaderInv(t) /\ MaxMessages \in Nat
  BY SubscribeAssumption DEF SubscribeInv
<1>1. CASE CommitOK(t)
  <2>1. pos[t] + 1 \in 0..MaxMessages /\ <<t, pos[t] + 1>> \in handled
    BY <1>0, <1>1 DEF ReaderInv, CommitOK, TypeOK
  <2>2. /\ pos' \in [Topics -> 0..MaxMessages] /\ committed' \in [Topics -> 0..MaxMessages]
        /\ pos'[t] = pos[t] + 1 /\ committed'[t] = pos[t] + 1
        /\ \A u \in Topics : u # t => pos'[u] = pos[u] /\ committed'[u] = committed[u]
    BY <1>0, <1>1, <2>1 DEF CommitOK, CommitOffset, TypeOK
  <2>3. \A i \in Messages : i <= pos[t] + 1 => <<t, i>> \in handled
    <3> SUFFICES ASSUME NEW i \in Messages, i <= pos[t] + 1 PROVE <<t, i>> \in handled
      OBVIOUS
    <3>1. i <= pos[t] \/ i = pos[t] + 1
      BY <1>0 DEF TypeOK, Messages
    <3> QED  BY <1>0, <2>1, <3>1 DEF ReaderInv
  <2>4. ReaderInv(t)'
    BY <1>0, <1>1, <2>2, <2>3 DEF ReaderInv, CommitOK, TypeOK
  <2> QED  BY <1>0, <1>1, <2>2, <2>4, MoveStep DEF CommitOK, TypeOK
<1>2. CASE CommitErr(t)
  <2>1. faults' \in 0..MaxFaults
    BY <1>0, <1>2, FaultType DEF CommitErr, TypeOK
  <2>2. PICK e \in {"commit", CtxErr} : Ends(t, e)
    BY <1>2 DEF CommitErr
  <2>3. e \in Errors
    BY <1>0, CtxErrType DEF Errors
  <2>4. committed' = committed \/ committed' = [committed EXCEPT ![t] = CommitOffset(t)]
    BY <1>2 DEF CommitErr
  <2> QED  BY <1>2, <2>1, <2>2, <2>3, <2>4, EndsStep DEF CommitErr
<1> QED  BY <1>1, <1>2

\* A goroutine with an error to send is not settled, so there is room for it.
LEMMA RoomToReport == SubscribeInv => SendNeverBlocks
<1> SUFFICES ASSUME SubscribeInv, NEW t \in Topics, pc[t] = "report" PROVE HasRoom
  BY DEF SendNeverBlocks
<1>1. IsFiniteSet(Topics) /\ Settled \subseteq Topics \ {t}
  BY SubscribeAssumption DEF Settled
<1>2. IsFiniteSet(Topics \ {t}) /\ Cardinality(Topics \ {t}) = Cardinality(Topics) - 1
  BY <1>1, FS_RemoveElement
<1>3. Cardinality(Settled) <= Cardinality(Topics \ {t})
  BY <1>1, <1>2, FS_Subset
<1>4. Cardinality(Settled) \in Nat /\ Cardinality(Topics) \in Nat
  BY SettledFinite
<1>5. Len(errCh) <= Cardinality(Settled) /\ Len(errCh) \in Nat
  BY DEF SubscribeInv, TypeOK
<1> QED  BY <1>2, <1>3, <1>4, <1>5 DEF HasRoom

\* A goroutine has a slot of errCh for its error.
LEMMA ReportInv == ASSUME SubscribeInv, NEW t \in Topics, Report(t) PROVE SubscribeInv'
<1>0. TypeOK /\ Len(errCh) \in Nat /\ err[t] \in Errors /\ errCh \in Seq(Errors)
  BY DEF SubscribeInv, TypeOK
<1>1. /\ pc[t] = "report" /\ pc'[t] = "cancel"
      /\ \A u \in Topics : u # t => pc'[u] = pc[u]
      /\ pc' \in [Topics -> Running \cup {"done"}]
  BY <1>0 DEF Report, TypeOK, Running
<1>2. /\ errCh' \in Seq(Errors) /\ Len(errCh') = Len(errCh) + 1
      /\ \A k \in DOMAIN errCh' :
            \/ k \in DOMAIN errCh /\ errCh'[k] = errCh[k]
            \/ errCh'[k] = err[t]
  BY <1>0 DEF Report
<1>3. /\ UNCHANGED <<closed, ctx, calls, main, result, sub, err, pos, committed, handled, faults>>
      /\ Len(errCh) < Cardinality(Topics)
  BY DEF Report, callVars, selectVars, groupVars, HasRoom
<1>4. Len(errCh') <= Cardinality(Topics)
  BY <1>0, <1>2, <1>3, SettledFinite
<1>5. TypeOK'
  BY <1>0, <1>1, <1>2, <1>3, <1>4 DEF TypeOK
<1>6. Settled' = Settled \cup {t} /\ t \notin Settled
  BY <1>1 DEF Settled
<1>7. Cardinality(Settled') = Cardinality(Settled) + 1
  BY <1>6, SettledFinite, FS_AddElement
<1>8. Len(errCh') <= Cardinality(Settled')
  BY <1>0, <1>2, <1>7, SettledFinite DEF SubscribeInv
<1>9. \A e : FromTopic(e) => FromTopic(e)'
  BY <1>3, <1>6 DEF FromTopic
<1>10. (\A k \in DOMAIN errCh : FromTopic(errCh[k]))'
  <2> SUFFICES ASSUME NEW k \in DOMAIN errCh' PROVE \E u \in Settled' : err'[u] = errCh'[k]
    BY DEF FromTopic
  <2>1. CASE k \in DOMAIN errCh /\ errCh'[k] = errCh[k]
    BY <1>3, <1>6, <2>1 DEF SubscribeInv, FromTopic
  <2>2. CASE errCh'[k] = err[t]
    BY <1>3, <1>6, <2>2
  <2> QED  BY <1>2, <2>1, <2>2
<1>11. \A u \in Topics : ReaderInv(u)'
  BY <1>1, <1>3, ReadersKeep DEF SubscribeInv
<1>12. main \notin {"idle", "returned"}
  BY <1>1 DEF SubscribeInv, AllDone
<1>13. main' \in {"drain", "returned"} /\ result' \in Errors \ {"nil"} =>
         (result' = ctx' /\ ctx' # "live") \/ FromTopic(result)'
  BY <1>3, <1>9 DEF SubscribeInv
<1> QED  BY <1>3, <1>5, <1>8, <1>10, <1>11, <1>12, <1>13 DEF SubscribeInv

\* A goroutine that failed cancels the others and is done.
LEMMA CancelOthersInv ==
    ASSUME SubscribeInv, NEW t \in Topics, CancelOthers(t) PROVE SubscribeInv'
<1>0. TypeOK
  BY DEF SubscribeInv
<1>1. /\ pc[t] = "cancel" /\ pc'[t] = "done"
      /\ \A u \in Topics : u # t => pc'[u] = pc[u]
      /\ pc' \in [Topics -> Running \cup {"done"}]
  BY <1>0 DEF CancelOthers, TypeOK
<1>2. sub' \in Contexts
  BY <1>0, CancelSubType DEF CancelOthers
<1>3. UNCHANGED <<closed, ctx, calls, main, result, errCh, err, pos, committed, handled, faults>>
  BY DEF CancelOthers, callVars, selectVars, groupVars
<1>4. TypeOK'
  BY <1>0, <1>1, <1>2, <1>3 DEF TypeOK
<1>5. \A u \in Topics : ReaderInv(u)'
  BY <1>1, <1>3, ReadersKeep DEF SubscribeInv
<1>6. GoroutineFrame(t)
  BY <1>1, <1>3 DEF GoroutineFrame, Settled
<1> QED  BY <1>4, <1>5, <1>6, GoroutineStep

\* A call begins with an empty channel and no errors, and its readers begin at
\* the committed offsets.
LEMMA CallInv == ASSUME SubscribeInv, NEW c \in Contexts, Call(c) PROVE SubscribeInv'
<1>0. TypeOK /\ AllDone
  BY DEF SubscribeInv, Call
<1>1. /\ errCh' = <<>> /\ err' \in [Topics -> Errors] /\ ctx' = c /\ sub' = c
      /\ UNCHANGED <<closed, committed, handled, faults>>
      /\ errCh' \in Seq(Errors) /\ Len(errCh') = 0 /\ DOMAIN errCh' = {}
  BY DEF Call, FreshChannel, Errors
<1>2. calls' \in 0..MaxCalls
  BY <1>0, SubscribeAssumption DEF Call, TypeOK
<1>3. /\ Cardinality(Topics) \in Nat
      /\ Cardinality(Settled') \in Nat
  <2>1. IsFiniteSet(Topics) /\ Settled' \subseteq Topics
    BY SubscribeAssumption DEF Settled
  <2> QED  BY <2>1, FS_Subset, FS_CardinalityType
<1>4. CASE /\ main' = "returned" /\ UNCHANGED <<pc, pos>>
           /\ (c # "live" /\ result' = c) \/ result' = "closed"
  <2>1. TypeOK'
    <3>1. result' \in Errors \cup {"none", "closed"}
      BY <1>4 DEF Errors, Contexts
    <3> QED  BY <1>0, <1>1, <1>2, <1>3, <1>4, <3>1 DEF TypeOK
  <2>2. \A u \in Topics : ReaderInv(u)'
    BY <1>1, <1>4, ReadersKeep DEF SubscribeInv
  <2>3. AllDone'
    BY <1>0, <1>4 DEF AllDone
  <2>4. "closed" \notin Errors
    BY DEF Errors
  <2> QED  BY <1>1, <1>3, <1>4, <2>1, <2>2, <2>3, <2>4 DEF SubscribeInv
<1>5. CASE /\ main' = "select" /\ result' = "none"
           /\ pc' = [t \in Topics |-> "fetch"] /\ pos' = committed
  <2>1. TypeOK'
    <3>1. pc' \in [Topics -> Running \cup {"done"}]
      BY <1>5 DEF Running
    <3> QED  BY <1>0, <1>1, <1>2, <1>3, <1>5, <3>1 DEF TypeOK
  <2>2. \A u \in Topics : ReaderInv(u)'
    BY <1>1, <1>5 DEF SubscribeInv, ReaderInv
  <2> QED  BY <1>1, <1>3, <1>5, <2>1, <2>2 DEF SubscribeInv
<1> QED  BY <1>4, <1>5 DEF Call

\* Steps of the caller and of Subscribe itself leave the goroutines alone.
LEMMA CallerStep ==
    ASSUME SubscribeInv, TypeOK', UNCHANGED <<pc, err, groupVars>>,
           main' \in {"idle", "returned"} => AllDone,
           errCh' = errCh \/ (errCh # <<>> /\ errCh' = Tail(errCh)),
           main' \in {"drain", "returned"} /\ result' \in Errors \ {"nil"} =>
                (result' = ctx' /\ ctx' # "live") \/ FromTopic(result)'
    PROVE  SubscribeInv'
<1>1. Settled' = Settled /\ (AllDone => AllDone')
  BY DEF Settled, AllDone
<1>2. \A u \in Topics : ReaderInv(u)'
  BY ReadersKeep DEF SubscribeInv, groupVars
<1>3. errCh \in Seq(Errors) /\ Len(errCh) \in Nat
  BY DEF SubscribeInv, TypeOK
<1>4. /\ Len(errCh') <= Len(errCh) /\ Len(errCh') \in Nat
      /\ \A k \in DOMAIN errCh' : \E j \in DOMAIN errCh : errCh'[k] = errCh[j]
  <2>1. CASE errCh' = errCh
    BY <1>3, <2>1
  <2>2. CASE errCh # <<>> /\ errCh' = Tail(errCh)
    <3>1. /\ Len(errCh') = Len(errCh) - 1 /\ Len(errCh) >= 1
          /\ DOMAIN errCh' = 1..(Len(errCh) - 1) /\ DOMAIN errCh = 1..Len(errCh)
          /\ \A k \in 1..(Len(errCh) - 1) : errCh'[k] = errCh[k + 1]
      BY <1>3, <2>2
    <3>2. \A k \in 1..(Len(errCh) - 1) : k + 1 \in 1..Len(errCh)
      BY <1>3
    <3> QED  BY <1>3, <3>1, <3>2
  <2> QED  BY <2>1, <2>2
<1>5. Len(errCh') <= Cardinality(Settled')
  BY <1>1, <1>3, <1>4, SettledFinite DEF SubscribeInv
<1>6. (\A k \in DOMAIN errCh : FromTopic(errCh[k]))'
  <2> SUFFICES ASSUME NEW k \in DOMAIN errCh' PROVE \E u \in Settled' : err'[u] = errCh'[k]
    BY DEF FromTopic
  <2>1. PICK j \in DOMAIN errCh : errCh'[k] = errCh[j]
    BY <1>4
  <2>2. FromTopic(errCh[j])
    BY DEF SubscribeInv
  <2> QED  BY <1>1, <2>1, <2>2 DEF FromTopic
<1> QED  BY <1>1, <1>2, <1>5, <1>6 DEF SubscribeInv

\* The context of the caller ends.
LEMMA CtxEndsInv == ASSUME SubscribeInv, NEW c \in Contexts, CtxEnds(c) PROVE SubscribeInv'
<1>0. TypeOK
  BY DEF SubscribeInv
<1>1. TypeOK'
  BY <1>0 DEF TypeOK, CtxEnds, selectVars, groupVars
<1>2. main \notin {"idle", "returned"} /\ main' = main
  BY DEF CtxEnds, selectVars
<1>3. Settled' = Settled /\ err' = err /\ result' = result /\ ctx = "live"
  BY DEF CtxEnds, selectVars, Settled
<1>4. FromTopic(result) => FromTopic(result)'
  BY <1>3 DEF FromTopic
<1> QED  BY <1>1, <1>2, <1>3, <1>4, CallerStep DEF CtxEnds, SubscribeInv

\* Close takes nothing back that has been committed.
LEMMA CloseInv == ASSUME SubscribeInv, Close PROVE SubscribeInv'
<1>1. TypeOK'
  BY DEF SubscribeInv, TypeOK, Close, selectVars, groupVars
<1>2. FromTopic(result) => FromTopic(result)'
  BY DEF FromTopic, Settled, Close, selectVars
<1> QED  BY <1>1, <1>2, CallerStep DEF Close, selectVars, SubscribeInv

\* Subscribe returns the first error of errCh or that of the context.
LEMMA SelectInv == ASSUME SubscribeInv, Select PROVE SubscribeInv'
<1>0. TypeOK
  BY DEF SubscribeInv
<1>1. CASE SelectCtx
  <2>1. sub' \in Contexts /\ ctx \in Errors \cup {"none", "closed"}
    BY <1>0, <1>1, CancelSubType DEF SelectCtx, CancelAndWait, TypeOK, Contexts, Errors
  <2>2. TypeOK'
    BY <1>0, <1>1, <2>1 DEF SelectCtx, CancelAndWait, TypeOK, callVars, groupVars
  <2> QED  BY <1>1, <2>2, CallerStep DEF SelectCtx, CancelAndWait, callVars
<1>2. CASE SelectErr
  <2>1. /\ errCh \in Seq(Errors) /\ errCh # <<>> /\ 1 \in DOMAIN errCh
        /\ Head(errCh) = errCh[1] /\ Head(errCh) \in Errors
    BY <1>0, <1>2 DEF SelectErr, TypeOK
  <2>2. sub' \in Contexts /\ errCh' \in Seq(Errors) /\ Len(errCh') = Len(errCh) - 1
    BY <1>0, <1>2, <2>1, CancelSubType DEF SelectErr, CancelAndWait
  <2>3. Len(errCh') <= Cardinality(Topics)
    <3>1. Len(errCh) \in Nat /\ Len(errCh) <= Cardinality(Topics)
      BY <1>0, <2>1 DEF TypeOK
    <3> QED  BY <2>2, <3>1, SettledFinite
  <2>4. TypeOK'
    BY <1>0, <1>2, <2>1, <2>2, <2>3 DEF SelectErr, CancelAndWait, TypeOK, callVars, groupVars
  <2>5. FromTopic(result)'
    <3>1. PICK u \in Settled : err[u] = Head(errCh)
      BY <2>1 DEF SubscribeInv, FromTopic
    <3>2. u \in Settled' /\ err'[u] = result'
      BY <1>2, <3>1 DEF SelectErr, CancelAndWait, Settled
    <3> QED  BY <3>2 DEF FromTopic
  <2> QED  BY <1>2, <2>4, <2>5, CallerStep DEF SelectErr, CancelAndWait
<1>3. CASE SelectDone
  <2>1. sub' \in Contexts
    BY <1>0, <1>3, CancelSubType DEF SelectDone
  <2>2. TypeOK'
    BY <1>0, <1>3, <2>1 DEF SelectDone, TypeOK, callVars, groupVars, Errors
  <2> QED  BY <1>3, <2>2, CallerStep DEF SelectDone
<1>4. CASE Drained
  <2>1. TypeOK'
    BY <1>0, <1>4 DEF Drained, TypeOK, callVars, groupVars
  <2>2. FromTopic(result) => FromTopic(result)'
    BY <1>4 DEF Drained, FromTopic, Settled
  <2> QED  BY <1>4, <2>1, <2>2, CallerStep DEF Drained, callVars, SubscribeInv
<1> QED  BY <1>1, <1>2, <1>3, <1>4 DEF Select

\* A stuttering step keeps the invariant.
LEMMA StutterInv == ASSUME SubscribeInv, UNCHANGED vars PROVE SubscribeInv'
<1>1. TypeOK'
  BY DEF SubscribeInv, TypeOK, vars
<1>2. FromTopic(result) => FromTopic(result)'
  BY DEF FromTopic, Settled, vars
<1> QED  BY <1>1, <1>2, CallerStep DEF vars, groupVars, SubscribeInv

\* Every step keeps the invariant.
LEMMA NextInv == SubscribeInv /\ [Next]_vars => SubscribeInv'
<1> SUFFICES ASSUME SubscribeInv, [Next]_vars PROVE SubscribeInv'
  OBVIOUS
<1>1. CASE \E c \in Contexts : Call(c) \/ CtxEnds(c)
  BY <1>1, CallInv, CtxEndsInv
<1>2. CASE Close
  BY <1>2, CloseInv
<1>3. ASSUME NEW t \in Topics, Consume(t) \/ Fail(t) PROVE SubscribeInv'
  BY <1>3, FetchInv, HandleInv, CommitInv, ReportInv, CancelOthersInv DEF Consume, Fail
<1>4. CASE Select
  BY <1>4, SelectInv
<1>5. CASE UNCHANGED vars
  BY <1>5, StutterInv
<1> QED  BY <1>1, <1>2, <1>3, <1>4, <1>5 DEF Next

-----------------------------------------------------------------------------
(* The theorems. *)

\* The inductive invariant holds, and with it the types of the variables and
\* the capacity of errCh.
THEOREM SubscribeInvariant == Spec => []SubscribeInv
BY InitInv, NextInv, PTL DEF Spec

\* A committed offset covers only messages a handler accepted (consumeTopic),
\* over any number of calls, failed commits and cancellations.
THEOREM CommittedIsHandledHolds == Spec => []CommittedIsHandled
<1>1. SubscribeInv => CommittedIsHandled
  BY DEF SubscribeInv, ReaderInv, CommittedIsHandled
<1> QED  BY <1>1, SubscribeInvariant, PTL

\* When Subscribe has returned, none of its goroutines runs.
THEOREM QuietAfterReturnHolds == Spec => []QuietAfterReturn
<1>1. SubscribeInv => QuietAfterReturn
  BY DEF SubscribeInv, QuietAfterReturn
<1> QED  BY <1>1, SubscribeInvariant, PTL

\* An error that Subscribe returns is one a topic met in this call, or that of
\* the caller's context.
THEOREM ResultIsGenuineHolds == Spec => []ResultIsGenuine
<1>1. SubscribeInv => ResultIsGenuine
  BY DEF SubscribeInv, ResultIsGenuine, FromTopic, Settled
<1> QED  BY <1>1, SubscribeInvariant, PTL

\* No goroutine blocks on errCh, whatever Subscribe is doing: the buffer of one
\* slot per topic (redpanda.go:100) suffices.
THEOREM SendNeverBlocksHolds == Spec => []SendNeverBlocks
BY RoomToReport, SubscribeInvariant, PTL
=============================================================================
