------------------------- MODULE RedpandaSubscribe -------------------------
(***************************************************************************)
(* Redpanda.Subscribe and consumeTopic (pkg/broker/redpanda.go): one       *)
(* goroutine per topic fetches, calls the handler and commits; an error of *)
(* one topic goes through errCh and cancels the others; Subscribe selects  *)
(* among the caller's context, errCh and the end of all goroutines.  The   *)
(* caller may call Subscribe again and may close the broker meanwhile.     *)
(*                                                                         *)
(* External: the Kafka reader and the handler.  A FetchMessage or          *)
(* CommitMessages whose context has ended may succeed all the same, and a  *)
(* commit that failed may have been applied.                               *)
(***************************************************************************)
EXTENDS Integers, Sequences, FiniteSets

CONSTANTS
    Topics,         \* the topics of a Subscribe call
    MaxMessages,    \* bound: messages on each topic
    MaxCalls,       \* bound: calls of Subscribe
    MaxFaults,      \* bound: errors of reader and handler together
    HandlerErrors,  \* what a handler may return: "failure", or "canceled" for an
                    \* error that wraps context.Canceled
    FetchErrors     \* "fatal", or "timeout" for an error that wraps
                    \* context.DeadlineExceeded while the context is live

ASSUME SubscribeAssumption ==
    /\ IsFiniteSet(Topics) /\ Topics # {}
    /\ MaxMessages \in Nat /\ MaxCalls \in Nat /\ MaxFaults \in Nat
    /\ HandlerErrors \subseteq {"failure", "canceled"}
    /\ FetchErrors \subseteq {"fatal", "timeout"}

VARIABLES
    closed,     \* the broker was closed
    main,       \* Subscribe: idle, select, drain (waits for done) or returned
    result,     \* what it returns, or will
    ctx,        \* the caller's context: live, canceled or expired
    sub,        \* subCtx, derived from ctx
    errCh,      \* the buffered channel of errors
    pc,         \* pc[t]: where the goroutine of t is
    err,        \* err[t]: what its consumeTopic returned
    pos,        \* pos[t]: messages of t behind its reader
    committed,  \* committed[t]: messages of t committed for the group
    handled,    \* messages for which a handler returned nil
    calls, faults

callVars == <<closed, ctx, calls>>
selectVars == <<main, result>>
groupVars == <<pos, committed, handled>>
vars == <<closed, main, result, ctx, sub, errCh, pc, err, pos, committed,
          handled, calls, faults>>

Messages == 1..MaxMessages

Contexts == {"live", "canceled", "expired"}

Running == {"fetch", "handle", "commit", "report", "cancel"}

Errors == {"nil", "fetch", "handler", "commit", "canceled", "expired"}

Init ==
    /\ closed = FALSE
    /\ main = "idle"
    /\ result = "none"
    /\ ctx = "live" /\ sub = "live"
    /\ errCh = <<>>
    /\ pc = [t \in Topics |-> "done"]
    /\ err = [t \in Topics |-> "nil"]
    /\ pos = [t \in Topics |-> 0]
    /\ committed = [t \in Topics |-> 0]
    /\ handled = {}
    /\ calls = 0 /\ faults = 0

Fault == faults < MaxFaults /\ faults' = faults + 1

AllDone == \A t \in Topics : pc[t] = "done"

\* Mutant: the cancel function is never called.
CancelNothing == UNCHANGED sub

\* cancel() ends subCtx unless it has ended already.
CancelSub == sub' = IF sub = "live" THEN "canceled" ELSE sub

-----------------------------------------------------------------------------
(* The caller. *)

\* Mutant: the channel lives in the broker and outlasts a call.
KeepChannel == UNCHANGED errCh

\* errCh is made anew by each call.
FreshChannel == errCh' = <<>>

\* Subscribe is called with context c: it returns at once if c has ended or the
\* broker is closed, and else starts the goroutines, whose readers begin at the
\* committed offsets.
Call(c) ==
    /\ main \in {"idle", "returned"}
    /\ calls < MaxCalls
    /\ calls' = calls + 1
    /\ ctx' = c /\ sub' = c
    /\ FreshChannel
    /\ err' = [t \in Topics |-> "nil"]
    /\ \/ /\ c # "live"
          /\ main' = "returned" /\ result' = c
          /\ UNCHANGED <<pc, pos>>
       \/ /\ c = "live" /\ closed
          /\ main' = "returned" /\ result' = "closed"
          /\ UNCHANGED <<pc, pos>>
       \/ /\ c = "live" /\ ~closed
          /\ main' = "select" /\ result' = "none"
          /\ pc' = [t \in Topics |-> "fetch"]
          /\ pos' = committed
    /\ UNCHANGED <<closed, committed, handled, faults>>

\* The caller cancels its context, or its deadline passes; subCtx follows.
CtxEnds(c) ==
    /\ main \in {"select", "drain"}
    /\ ctx = "live" /\ c # "live"
    /\ ctx' = c
    /\ sub' = IF sub = "live" THEN c ELSE sub
    /\ UNCHANGED <<selectVars, closed, errCh, pc, err, groupVars, calls, faults>>

\* Close affects the writer and later calls, not a Subscribe that is running.
Close ==
    /\ ~closed
    /\ closed' = TRUE
    /\ UNCHANGED <<selectVars, ctx, sub, errCh, pc, err, groupVars, calls, faults>>

-----------------------------------------------------------------------------
(* The goroutine of a topic: consumeTopic, then what the go func does. *)

\* Mutant: the error of a handler ends its topic alone.
EndsAlone(t, e) ==
    /\ err' = [err EXCEPT ![t] = e]
    /\ pc' = [pc EXCEPT ![t] = IF e \in {"nil", "canceled", "handler"} THEN "done" ELSE "report"]

\* consumeTopic returns e; an error other than context.Canceled is reported.
Ends(t, e) ==
    /\ err' = [err EXCEPT ![t] = e]
    /\ pc' = [pc EXCEPT ![t] = IF e \in {"nil", "canceled"} THEN "done" ELSE "report"]

\* ctx.Err() of subCtx.
CtxErr == IF sub = "live" THEN "nil" ELSE sub

FetchOK(t) ==
    /\ pc[t] = "fetch"
    /\ pos[t] < MaxMessages
    /\ pc' = [pc EXCEPT ![t] = "handle"]
    /\ UNCHANGED <<callVars, selectVars, sub, errCh, err, groupVars, faults>>

\* FetchMessage fails because subCtx has ended.
FetchEnded(t) ==
    /\ pc[t] = "fetch"
    /\ sub # "live"
    /\ Ends(t, CtxErr)
    /\ UNCHANGED <<callVars, selectVars, sub, errCh, groupVars, faults>>

\* Another error; one that wraps DeadlineExceeded makes consumeTopic return
\* ctx.Err(), which is nil while subCtx is live.
FetchErr(t, e) ==
    /\ pc[t] = "fetch"
    /\ Fault
    /\ Ends(t, IF e = "timeout" THEN CtxErr ELSE "fetch")
    /\ UNCHANGED <<callVars, selectVars, sub, errCh, groupVars>>

HandleOK(t) ==
    /\ pc[t] = "handle"
    /\ handled' = handled \cup {<<t, pos[t] + 1>>}
    /\ pc' = [pc EXCEPT ![t] = "commit"]
    /\ UNCHANGED <<callVars, selectVars, sub, errCh, err, pos, committed, faults>>

\* Mutant: a message whose handler failed is committed before consumeTopic returns.
CommitAnyway(t) == committed' = [committed EXCEPT ![t] = pos[t] + 1]

\* "Do not commit - message can be redelivered."
LeaveUncommitted(t) == UNCHANGED committed

HandleErr(t, e) ==
    /\ pc[t] = "handle"
    /\ Fault
    /\ LeaveUncommitted(t)
    /\ Ends(t, IF e = "canceled" THEN "canceled" ELSE "handler")
    /\ UNCHANGED <<callVars, selectVars, sub, errCh, pos, handled>>

\* The handler, which is given subCtx, stops because it has ended.
HandleEnded(t) ==
    /\ pc[t] = "handle"
    /\ sub # "live"
    /\ Ends(t, CtxErr)
    /\ UNCHANGED <<callVars, selectVars, sub, errCh, groupVars, faults>>

\* The group resumes behind the message that is committed.
CommitOffset(t) == pos[t] + 1

CommitOK(t) ==
    /\ pc[t] = "commit"
    /\ pos' = [pos EXCEPT ![t] = @ + 1]
    /\ committed' = [committed EXCEPT ![t] = CommitOffset(t)]
    /\ pc' = [pc EXCEPT ![t] = "fetch"]
    /\ UNCHANGED <<callVars, selectVars, sub, errCh, err, handled, faults>>

\* The commit fails, or subCtx ended under it; it may have been applied.
CommitErr(t) ==
    /\ pc[t] = "commit"
    /\ \/ Fault /\ Ends(t, "commit")
       \/ sub # "live" /\ Ends(t, CtxErr) /\ UNCHANGED faults
    /\ committed' \in {committed, [committed EXCEPT ![t] = CommitOffset(t)]}
    /\ UNCHANGED <<callVars, selectVars, sub, errCh, pos, handled>>

\* Mutant: errCh is unbuffered, so a send needs Subscribe at its select.
ReceiverWaits == main = "select" /\ errCh = <<>>

\* errCh has room for an error of each topic.
HasRoom == Len(errCh) < Cardinality(Topics)

\* errCh <- err
Report(t) ==
    /\ pc[t] = "report"
    /\ HasRoom
    /\ errCh' = Append(errCh, err[t])
    /\ pc' = [pc EXCEPT ![t] = "cancel"]
    /\ UNCHANGED <<callVars, selectVars, sub, err, groupVars, faults>>

\* cancel(), then wg.Done.
CancelOthers(t) ==
    /\ pc[t] = "cancel"
    /\ CancelSub
    /\ pc' = [pc EXCEPT ![t] = "done"]
    /\ UNCHANGED <<callVars, selectVars, errCh, err, groupVars, faults>>

-----------------------------------------------------------------------------
(* The select of Subscribe: any branch that is ready may be taken. *)

\* Mutant: Subscribe returns without waiting for its goroutines.
ReturnAtOnce(r) == CancelSub /\ main' = "returned" /\ result' = r

\* cancel(); <-done; return r
CancelAndWait(r) == CancelSub /\ main' = "drain" /\ result' = r

SelectCtx ==
    /\ main = "select"
    /\ ctx # "live"
    /\ CancelAndWait(ctx)
    /\ UNCHANGED <<callVars, errCh, pc, err, groupVars, faults>>

SelectErr ==
    /\ main = "select"
    /\ errCh # <<>>
    /\ CancelAndWait(Head(errCh))
    /\ errCh' = Tail(errCh)
    /\ UNCHANGED <<callVars, pc, err, groupVars, faults>>

SelectDone ==
    /\ main = "select"
    /\ AllDone
    /\ CancelSub
    /\ main' = "returned" /\ result' = "nil"
    /\ UNCHANGED <<callVars, errCh, pc, err, groupVars, faults>>

\* <-done after the first two branches.
Drained ==
    /\ main = "drain"
    /\ AllDone
    /\ main' = "returned"
    /\ UNCHANGED <<callVars, result, sub, errCh, pc, err, groupVars, faults>>

-----------------------------------------------------------------------------
Consume(t) ==
    \/ FetchOK(t) \/ FetchEnded(t)
    \/ HandleOK(t) \/ HandleEnded(t)
    \/ CommitOK(t) \/ CommitErr(t)
    \/ Report(t) \/ CancelOthers(t)

Fail(t) ==
    \/ \E e \in FetchErrors : FetchErr(t, e)
    \/ \E e \in HandlerErrors : HandleErr(t, e)

Select == SelectCtx \/ SelectErr \/ SelectDone \/ Drained

Next ==
    \/ \E c \in Contexts : Call(c) \/ CtxEnds(c)
    \/ Close
    \/ \E t \in Topics : Consume(t) \/ Fail(t)
    \/ Select

Spec == Init /\ [][Next]_vars

\* Goroutines keep running and handlers return; errors and callers owe nothing.
Fairness == (\A t \in Topics : WF_vars(Consume(t))) /\ WF_vars(Select)

FairSpec == Spec /\ Fairness

-----------------------------------------------------------------------------
(* Properties. *)

\* The types of the variables; the channel never holds more than its capacity.
TypeOK ==
    /\ closed \in BOOLEAN
    /\ main \in {"idle", "select", "drain", "returned"}
    /\ result \in Errors \cup {"none", "closed"}
    /\ ctx \in Contexts /\ sub \in Contexts
    /\ errCh \in Seq(Errors) /\ Len(errCh) <= Cardinality(Topics)
    /\ pc \in [Topics -> Running \cup {"done"}]
    /\ err \in [Topics -> Errors]
    /\ pos \in [Topics -> 0..MaxMessages]
    /\ committed \in [Topics -> 0..MaxMessages]
    /\ handled \subseteq Topics \X Messages
    /\ calls \in 0..MaxCalls /\ faults \in 0..MaxFaults

\* "Messages are committed only after handler returns nil" (redpanda.go:80):
\* over any number of calls, failed commits and cancellations, a committed
\* offset covers only messages some handler call accepted.
CommittedIsHandled ==
    \A t \in Topics, i \in Messages : i <= committed[t] => <<t, i>> \in handled

\* When Subscribe has returned, no goroutine of it runs: no handler is called
\* and nothing is committed behind the caller's back.
QuietAfterReturn == main = "returned" => AllDone

\* An error Subscribe returns is one a topic really met in this call, or the
\* caller's own context; a result of one call never leaks into the next.
ResultIsGenuine ==
    main = "returned" /\ result \in Errors \ {"nil"} =>
        result = ctx \/ \E t \in Topics : err[t] = result

\* Subscribe ends once the caller's context has, whatever its goroutines are
\* doing: they wait for errCh, the commit, the handler (redpanda.go:123-134).
EndsWhenCancelled == main = "select" /\ ctx # "live" ~> main = "returned"

\* An error of one topic that is reported stops all topics and Subscribe.
FailureStopsAll == (\E t \in Topics : pc[t] = "report") ~> main = "returned"

\* While Subscribe runs, whatever becomes of the other topics, a topic is read to
\* its end; it is left behind only by an error that wraps context.Canceled, or
\* DeadlineExceeded in a fetch, which its goroutine takes for the end of the
\* context and does not report (redpanda.go:109 and 152).
TopicsServed ==
    \A t \in Topics, i \in Messages :
        main = "select" ~> \/ committed[t] >= i
                           \/ main # "select"
                           \/ pc[t] = "done" /\ err[t] \in {"nil", "canceled"}

\* "Subscribe consumes topics in a loop until ctx is cancelled"
\* (redpanda.go:79): it does not return nil while the context is live.
UntilCancelled == main = "returned" /\ result = "nil" => ctx # "live"

\* The buffer of errCh is large enough: a goroutine that has an error to send
\* never waits for Subscribe to receive (redpanda.go:100).
SendNeverBlocks == (\E t \in Topics : pc[t] = "report") => HasRoom
=============================================================================
