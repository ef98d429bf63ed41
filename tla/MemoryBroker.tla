---------------------------- MODULE MemoryBroker ----------------------------
(***************************************************************************)
(* The in-process broker (pkg/broker/memory.go).  Publish appends to the   *)
(* topic and takes a snapshot of its handlers under the mutex, then calls  *)
(* them without it; Subscribe registers its handler and collects the       *)
(* buffered messages topic by topic under the mutex, then replays them     *)
(* without it.                                                             *)
(* Publishers and subscribers run concurrently, each making one call.      *)
(***************************************************************************)
EXTENDS Integers, Sequences, FiniteSets, Functions

CONSTANTS
    Messages,       \* a message stands for the Publish call that carries it
    Handlers,       \* a handler stands for the Subscribe call that passes it
    Topics,
    Subscriptions,  \* the topic lists a Subscribe call may be given
    MaxFailures     \* bound: errors returned by handlers

ASSUME MemoryAssumption ==
    /\ IsFiniteSet(Messages) /\ IsFiniteSet(Handlers) /\ Messages \cap Handlers = {}
    /\ \A list \in Subscriptions : list \in Seq(Topics)
    /\ MaxFailures \in Nat

Calls == Messages \cup Handlers

VARIABLES
    closed,    \* Memory.closed
    topics,    \* Memory.topics: the messages buffered on each topic
    handlers,  \* Memory.handlers: the handlers registered on each topic
    pc,        \* pc[c]: start, register (it holds mu), deliver, replay or returned
    result,    \* result[c]: what the call returned
    pending,   \* pending[h]: topics Subscribe still has to register h on
    todo,      \* todo[c]: handlers still to be called, or messages to be replayed
    received,  \* received[h]: calls of h so far, as <<message, "live" or "replay">>
    failures

vars == <<closed, topics, handlers, pc, result, pending, todo, received, failures>>

-----------------------------------------------------------------------------
Init ==
    /\ closed = FALSE
    /\ topics = [t \in Topics |-> <<>>]
    /\ handlers = [t \in Topics |-> <<>>]
    /\ pc = [c \in Calls |-> "start"]
    /\ result = [c \in Calls |-> "none"]
    /\ pending = [h \in Handlers |-> <<>>]
    /\ todo = [c \in Calls |-> <<>>]
    /\ received = [h \in Handlers |-> <<>>]
    /\ failures = 0

\* Nobody holds mu; the other critical sections are single steps.
Unlocked == \A c \in Calls : pc[c] # "register"

Returns(c, r) ==
    /\ pc' = [pc EXCEPT ![c] = "returned"]
    /\ result' = [result EXCEPT ![c] = r]

\* The call's context has ended, its event does not marshal, or the broker is
\* closed: nothing happens.
Refused(c) ==
    /\ pc[c] = "start"
    /\ \/ Returns(c, "ctx")
       \/ c \in Messages /\ Returns(c, "invalid")
       \/ Unlocked /\ closed /\ Returns(c, "closed")
    /\ UNCHANGED <<closed, topics, handlers, pending, todo, received, failures>>

-----------------------------------------------------------------------------
(* Publish *)

\* The critical section of Publish: append, and copy the handlers.
PublishAppend(m, t) ==
    /\ pc[m] = "start"
    /\ Unlocked /\ ~closed
    /\ topics' = [topics EXCEPT ![t] = Append(@, m)]
    /\ todo' = [todo EXCEPT ![m] = handlers[t]]
    /\ pc' = [pc EXCEPT ![m] = "deliver"]
    /\ UNCHANGED <<closed, handlers, result, pending, received, failures>>

\* Mutant: break in the place of return err.
BreakAtError(c) == Returns(c, "ok")

\* A handler's error ends the loop, with the rest not called.
StopAtError(c) == Returns(c, "error")

\* The next element of a loop: h is called with m.
Invoke(c, h, m, how) ==
    /\ received' = [received EXCEPT ![h] = Append(@, <<m, how>>)]
    /\ todo' = [todo EXCEPT ![c] = Tail(@)]
    /\ \/ UNCHANGED <<pc, result, failures>>
       \/ /\ failures < MaxFailures
          /\ failures' = failures + 1
          /\ StopAtError(c)
    /\ UNCHANGED <<closed, topics, handlers, pending>>

Deliver(m) ==
    /\ pc[m] = "deliver"
    /\ todo[m] # <<>>
    /\ Invoke(m, Head(todo[m]), m, "live")

-----------------------------------------------------------------------------
(* Subscribe *)

\* Subscribe is called with a list of topics and takes the mutex.
Lock(h, list) ==
    /\ pc[h] = "start"
    /\ Unlocked /\ ~closed
    /\ pc' = [pc EXCEPT ![h] = "register"]
    /\ pending' = [pending EXCEPT ![h] = list]
    /\ UNCHANGED <<closed, topics, handlers, result, todo, received, failures>>

\* Mutant: what is buffered is not replayed.
BufferedNothing(t) == <<>>

\* The messages buffered on a topic.
Buffered(t) == topics[t]

\* The loop over the list, under the mutex: register on the next topic and copy
\* the messages buffered there.
Register(h) ==
    LET t == Head(pending[h])
    IN  /\ pc[h] = "register"
        /\ pending[h] # <<>>
        /\ handlers' = [handlers EXCEPT ![t] = Append(@, h)]
        /\ todo' = [todo EXCEPT ![h] = @ \o Buffered(t)]
        /\ pending' = [pending EXCEPT ![h] = Tail(@)]
        /\ UNCHANGED <<closed, topics, pc, result, received, failures>>

Unlock(h) ==
    /\ pc[h] = "register"
    /\ pending[h] = <<>>
    /\ pc' = [pc EXCEPT ![h] = "replay"]
    /\ UNCHANGED <<closed, topics, handlers, result, pending, todo, received, failures>>

Replay(h) ==
    /\ pc[h] = "replay"
    /\ todo[h] # <<>>
    /\ Invoke(h, h, Head(todo[h]), "replay")

-----------------------------------------------------------------------------
Through(c) == todo[c] = <<>>

\* The loop over the handlers, or over the replayed messages, is through.
Completes(c) ==
    /\ pc[c] \in {"deliver", "replay"}
    /\ Through(c)
    /\ Returns(c, "ok")
    /\ UNCHANGED <<closed, topics, handlers, pending, todo, received, failures>>

Close ==
    /\ Unlocked /\ ~closed
    /\ closed' = TRUE
    /\ UNCHANGED <<topics, handlers, pc, result, pending, todo, received, failures>>

\* What happens outside the handlers.
Outside ==
    \/ \E c \in Calls : Refused(c) \/ Completes(c)
    \/ \E m \in Messages, t \in Topics : PublishAppend(m, t)
    \/ \E h \in Handlers, list \in Subscriptions : Lock(h, list)
    \/ \E h \in Handlers : Register(h) \/ Unlock(h)
    \/ Close

Next ==
    \/ Outside
    \/ \E m \in Messages : Deliver(m)
    \/ \E h \in Handlers : Replay(h)

Spec == Init /\ [][Next]_vars

-----------------------------------------------------------------------------
(* Properties. *)

Occurrences(x, seq) == Cardinality({k \in DOMAIN seq : seq[k] = x})

\* How often h has been called with m, and how often the running loops (or the
\* loops a handler's error has ended) still had to call it.
Called(h, m) ==
    Occurrences(<<m, "live">>, received[h]) + Occurrences(<<m, "replay">>, received[h])
Owed(h, m) == Occurrences(h, todo[m]) + Occurrences(m, todo[h])

\* The two critical sections fit together: however a Publish and a Subscribe
\* overlap, each registration of a handler gets each buffered message exactly
\* once, live or replayed, never both and never neither.
EachMessageOnce ==
    \A h \in Handlers, t \in Topics : \A m \in Range(topics[t]) :
        Called(h, m) + Owed(h, m) = Occurrences(h, handlers[t])

\* The types of the variables.
TypeOK ==
    /\ closed \in BOOLEAN
    /\ topics \in [Topics -> Seq(Messages)]
    /\ handlers \in [Topics -> Seq(Handlers)]
    /\ pc \in [Calls -> {"start", "register", "deliver", "replay", "returned"}]
    /\ result \in [Calls -> {"none", "ctx", "invalid", "closed", "error", "ok"}]
    /\ pending \in [Handlers -> Seq(Topics)]
    /\ todo \in [Calls -> Seq(Handlers) \cup Seq(Messages)]
    /\ \A m \in Messages : todo[m] \in Seq(Handlers)
    /\ \A h \in Handlers : todo[h] \in Seq(Messages)
    /\ received \in [Handlers -> Seq(Messages \X {"live", "replay"})]
    /\ failures \in 0..MaxFailures

\* "messages already buffered on the topic are replayed, then the handler
\* receives future Publish calls" (memory.go:58-59): no live message reaches a
\* handler before a replayed one.
ReplayFirst ==
    \A h \in Handlers : \A j, k \in DOMAIN received[h] :
        received[h][j][2] = "live" /\ received[h][k][2] = "replay" => k < j
=============================================================================
