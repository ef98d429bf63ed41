--------------------------- MODULE MemoryPipeline ---------------------------
(***************************************************************************)
(* The in-process broker feeding the in-process store (pkg/store/memory.go) *)
(* the way pkg/broker/pipeline_test.go puts them together: every handler   *)
(* decodes its message and writes it to the store as a batch of one.  What *)
(* was published decodes and validates (see Schema), so that a handler     *)
(* fails when its context has ended or the store is closed.  WriteBatch    *)
(* meets other calls only in its critical section, which is one step here. *)
(***************************************************************************)
EXTENDS MemoryBroker

VARIABLES
    storeClosed,  \* Memory.closed of the store
    events        \* Memory.events, an event as <<handler, message>>

storeVars == <<storeClosed, events>>
pipeVars == <<vars, storeVars>>

PipeInit == Init /\ storeClosed = FALSE /\ events = <<>>

\* The handler of this step returns nil.
HandlerOK == failures' = failures

\* WriteBatch: an ended context and a closed store leave the store as it is and
\* are the handler's error.
WriteBatch(batch) ==
    \/ HandlerOK /\ ~storeClosed /\ events' = events \o batch
    \/ ~HandlerOK /\ UNCHANGED events

LiveHandler(m) ==
    /\ Deliver(m)
    /\ WriteBatch(<< <<Head(todo[m]), m>> >>)
    /\ UNCHANGED storeClosed

ReplayHandler(h) ==
    /\ Replay(h)
    /\ WriteBatch(<< <<h, Head(todo[h])>> >>)
    /\ UNCHANGED storeClosed

\* Close of the store; the broker is not told.
CloseStore ==
    /\ ~storeClosed
    /\ storeClosed' = TRUE
    /\ UNCHANGED <<vars, events>>

PipeNext ==
    \/ \E m \in Messages : LiveHandler(m)
    \/ \E h \in Handlers : ReplayHandler(h)
    \/ Outside /\ UNCHANGED storeVars
    \/ CloseStore

PipeSpec == PipeInit /\ [][PipeNext]_pipeVars

-----------------------------------------------------------------------------
(* Properties. *)

\* Whose call hands m to h: Publish if h was registered when m was appended, or
\* else Subscribe, with its replay.
Live(h, m) == h \in Range(todo[m]) \/ <<m, "live">> \in Range(received[h])
CallerOf(h, m) == IF Live(h, m) THEN m ELSE h

\* Across both critical sections of the broker and that of the store: each
\* registration stores each message of its topic at most once.  While the call
\* that hands it over runs, every row is there or still to be written; once it has
\* returned, a row that is missing, of the message that failed or of one the loop
\* left behind it, is an error of that very call (memory.go:50-56 and 81-87).
NothingSilentlyLost ==
    \A h \in Handlers, t \in Topics : \A m \in Range(topics[t]) :
        LET stored == Occurrences(<<h, m>>, events)
            due == Occurrences(h, handlers[t])
            call == CallerOf(h, m)
        IN  /\ stored <= due
            /\ stored < due => IF pc[call] = "returned" THEN result[call] = "error"
                               ELSE stored + Owed(h, m) = due
=============================================================================
