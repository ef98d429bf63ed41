------------------------------ MODULE Gateway ------------------------------
(***************************************************************************)
(* The ingest gateway (cmd/gateway): handlers of REST, OTLP/HTTP and       *)
(* OTLP/gRPC requests run concurrently, validate all the events of their   *)
(* request, publish them one by one through the shared Redpanda broker     *)
(* (pkg/broker/redpanda.go) and reply; meanwhile main may be shutting the  *)
(* servers and then the broker down.                                       *)
(*                                                                         *)
(* A handler waits for its client to send the body, an RPC for its message, *)
(* and neither wait has a deadline.                                        *)
(*                                                                         *)
(* The Kafka writer inside the broker is external.  As the code uses it    *)
(* (Async false, RequireOne, MaxAttempts left at its default): a message   *)
(* whose ack is lost is sent again; WriteMessages returns nil only when    *)
(* the message is on the topic; an error does not say that it is not; a    *)
(* call given up because its context ended leaves the message with the     *)
(* writer, which may still deliver it; Close waits for calls and messages  *)
(* under way.                                                              *)
(***************************************************************************)
EXTENDS Integers, Sequences, FiniteSets, Functions

CONSTANTS
    Requests,     \* identities of the requests clients send
    Inputs,       \* the contents a request may have
    MaxRecords,   \* bound: log records of one request
    KeyRequired,  \* GATEWAY_API_KEY is set
    MaxFaults     \* bound: disconnects, publish errors, lost acks and crashes
                  \* together

\* How a record maps: "good"; "invalid" (Validate rejects it); "unencodable"
\* (it is valid but json.Marshal fails: an OTLP duration of NaN or Inf, a REST
\* timestamp beyond the year 9999).
RecordKinds == {"good", "invalid", "unencodable"}

Input == [via : {"rest", "otlp", "grpc"}, authorized : BOOLEAN,
          wellFormed : BOOLEAN, records : Seq(RecordKinds)]

\* A REST body is one event; an RPC whose message does not decode never calls Export.
ASSUME InputsAssumption ==
    /\ \A in \in Inputs : in \in Input /\ Len(in.records) <= MaxRecords
    /\ \A in \in Inputs : in.via = "rest" => Len(in.records) = 1
    /\ \A in \in Inputs : in.via = "grpc" => in.wellFormed
ASSUME GatewayAssumption ==
    KeyRequired \in BOOLEAN /\ MaxRecords \in Nat /\ MaxFaults \in Nat

VARIABLES
    phase,     \* where main is: serving, draining, grpcStop, busClose, closed, exited
    timedOut,  \* srv.Shutdown gave up after its 10 s
    crashed,   \* the process died
    bus,       \* the broker: open, closing (Close holds its mutex), closed
    pc,        \* pc[r]: where the handler of r is
    input,     \* input[r]: the content of r, which its client chose
    next,      \* next[r]: index of the event publishEvents is at
    gone,      \* gone[r]: the client disconnected, the request's context ended
    reply,     \* reply[r]: what the handler answered
    topic,     \* topic[r][i]: copies of event i of r on the topic
    orphans,   \* messages given up by WriteMessages but still with the writer
    metrics,   \* ingestMetrics
    faults     \* faults used so far

mainVars == <<phase, timedOut, crashed, bus>>
vars == <<phase, timedOut, crashed, bus, pc, input, next, gone, reply, topic,
          orphans, metrics, faults>>

-----------------------------------------------------------------------------
Indices == 1..MaxRecords

Counters == {"restOK", "restErr", "otlpOK", "otlpErr", "otlpLogs"}

Idle == {"idle", "replied", "killed"}

\* Requests inside a handler, over HTTP and over gRPC.
ActiveHTTP == {r \in Requests : pc[r] \notin Idle /\ input[r].via # "grpc"}
ActiveGRPC == {r \in Requests : pc[r] \notin Idle /\ input[r].via = "grpc"}

Init ==
    /\ phase = "serving"
    /\ timedOut = FALSE
    /\ crashed = FALSE
    /\ bus = "open"
    /\ pc = [r \in Requests |-> "idle"]
    /\ input \in [Requests -> Inputs]
    /\ next = [r \in Requests |-> 0]
    /\ gone = [r \in Requests |-> FALSE]
    /\ reply = [r \in Requests |-> "none"]
    /\ topic = [r \in Requests |-> [i \in Indices |-> 0]]
    /\ orphans = {}
    /\ metrics = [c \in Counters |-> 0]
    /\ faults = 0

Fault == faults < MaxFaults /\ faults' = faults + 1

\* The handler of r waits for its client: for the rest of the body over HTTP, for
\* the message of the RPC over gRPC.
AwaitsClient(r) == pc[r] = "read" /\ ~gone[r]

-----------------------------------------------------------------------------
(* Replies and the counters that go with them. *)

Replied(r, outcome) ==
    /\ pc' = [pc EXCEPT ![r] = "replied"]
    /\ reply' = [reply EXCEPT ![r] = outcome]

\* incRestErr or incOTLPErr.
CountErr(r) ==
    LET c == IF input[r].via = "rest" THEN "restErr" ELSE "otlpErr"
    IN  metrics' = [metrics EXCEPT ![c] = @ + 1]

\* Mutant: incOTLPOK(1) whatever the request holds.
OneLog(r) == 1

\* len(events)
Logs(r) == Len(input[r].records)

\* incRestOK or incOTLPOK(len(events)).
CountOK(r) ==
    IF input[r].via = "rest"
    THEN metrics' = [metrics EXCEPT !["restOK"] = @ + 1]
    ELSE metrics' = [metrics EXCEPT !["otlpOK"] = @ + 1, !["otlpLogs"] = @ + Logs(r)]

Failed(r, outcome) == Replied(r, outcome) /\ CountErr(r)

-----------------------------------------------------------------------------
(* Accepting a request: the HTTP server until Shutdown, the gRPC server until
   GracefulStop.  The HTTP routes are behind the API-key middleware. *)

Accept(r) ==
    /\ pc[r] = "idle"
    /\ \/ input[r].via # "grpc" /\ phase = "serving"
       \/ input[r].via = "grpc" /\ phase \in {"serving", "draining"}
    /\ pc' = [pc EXCEPT ![r] = IF input[r].via = "grpc" THEN "read" ELSE "auth"]
    /\ UNCHANGED <<mainVars, input, next, gone, reply, topic, orphans, metrics, faults>>

Authorize(r) ==
    /\ pc[r] = "auth"
    /\ \/ /\ KeyRequired /\ ~input[r].authorized
          /\ Replied(r, "unauthorized")
       \/ /\ ~KeyRequired \/ input[r].authorized
          /\ pc' = [pc EXCEPT ![r] = "read"]
          /\ UNCHANGED reply
    /\ UNCHANGED <<mainVars, input, next, gone, topic, orphans, metrics, faults>>

\* The client has sent everything.  It may have left since: what it sent is read
\* all the same.
BodyArrives(r) ==
    /\ pc[r] = "read"
    /\ pc' = [pc EXCEPT ![r] = "handle"]
    /\ UNCHANGED <<mainVars, input, next, gone, reply, topic, orphans, metrics, faults>>

\* Mutant: the handler goes on waiting for a client that has left.
WaitForGone(r) == FALSE /\ UNCHANGED vars

\* The client left in the middle: the read of the body fails, which is a 400; an
\* RPC ends without a call of Export, and uncounted.
ReadFails(r) ==
    /\ pc[r] = "read"
    /\ gone[r]
    /\ \/ /\ input[r].via # "grpc"
          /\ Failed(r, "invalid")
       \/ /\ input[r].via = "grpc"
          /\ Replied(r, "aborted")
          /\ UNCHANGED metrics
    /\ UNCHANGED <<mainVars, input, next, gone, topic, orphans, faults>>

-----------------------------------------------------------------------------
(* The three handlers: decode, map and validate everything, then publish. *)

\* The body decodes and every record of it maps to a valid event: FromREST for
\* the one event of a REST body, LogEventsFromOTLP for all records or none.
Maps(r) == input[r].wellFormed /\ "invalid" \notin Range(input[r].records)

Reject(r) ==
    /\ pc[r] = "handle"
    /\ ~Maps(r)
    /\ Failed(r, "invalid")
    /\ UNCHANGED <<mainVars, input, next, gone, topic, orphans, faults>>

\* An OTLP request without records is acknowledged and publishes nothing.
AcceptEmpty(r) ==
    /\ pc[r] = "handle"
    /\ Maps(r)
    /\ input[r].records = <<>>
    /\ Replied(r, "ok")
    /\ CountOK(r)
    /\ UNCHANGED <<mainVars, input, next, gone, topic, orphans, faults>>

BeginPublish(r) ==
    /\ pc[r] = "handle"
    /\ Maps(r)
    /\ input[r].records # <<>>
    /\ pc' = [pc EXCEPT ![r] = "publish"]
    /\ next' = [next EXCEPT ![r] = 1]
    /\ UNCHANGED <<mainVars, input, gone, reply, topic, orphans, metrics, faults>>

-----------------------------------------------------------------------------
(* publishEvents and Redpanda.Publish, for the event at next[r]. *)

\* The context has ended already.
PublishGone(r) ==
    /\ pc[r] = "publish"
    /\ gone[r]
    /\ Failed(r, "failed")
    /\ UNCHANGED <<mainVars, input, next, gone, topic, orphans, faults>>

\* It has not: go for the broker's mutex.
PublishStart(r) ==
    /\ pc[r] = "publish"
    /\ ~gone[r]
    /\ pc' = [pc EXCEPT ![r] = "lock"]
    /\ UNCHANGED <<mainVars, input, next, gone, reply, topic, orphans, metrics, faults>>

\* Publish takes the mutex, which Close holds while it is closing; it does not
\* notice there that the context ends.
PublishLock(r) ==
    /\ pc[r] = "lock"
    /\ \/ /\ bus = "closed"
          /\ Failed(r, "closed")
       \/ /\ bus = "open"
          /\ pc' = [pc EXCEPT ![r] = "encode"]
          /\ UNCHANGED <<reply, metrics>>
    /\ UNCHANGED <<mainVars, input, next, gone, topic, orphans, faults>>

\* MarshalEvent, then WriteMessages on the writer seen under the mutex, which
\* may have been closed since.
EnterWrite(r) ==
    /\ pc[r] = "encode"
    /\ \/ /\ input[r].records[next[r]] = "unencodable"
          /\ Failed(r, "failed")
       \/ /\ input[r].records[next[r]] = "good"
          /\ bus # "open"
          /\ Failed(r, "closed")
       \/ /\ input[r].records[next[r]] = "good"
          /\ bus = "open"
          /\ pc' = [pc EXCEPT ![r] = "send"]
          /\ UNCHANGED <<reply, metrics>>
    /\ UNCHANGED <<mainVars, input, next, gone, topic, orphans, faults>>

\* The messages the Kafka writer has and does not know the fate of.
InFlight == orphans \cup {<<r, next[r]>> : r \in {q \in Requests : pc[q] = "send"}}

\* Each message of S comes to the topic, once more.
Land(S) ==
    topic' = [r \in Requests |-> [i \in Indices |->
                IF <<r, i>> \in S THEN topic[r][i] + 1 ELSE topic[r][i]]]

\* A message is on the topic, its ack is lost, and the Kafka writer sends it again:
\* here as often as there are faults, in the code up to its limit of attempts.
Resend(r, i) ==
    /\ <<r, i>> \in InFlight
    /\ Fault
    /\ Land({<<r, i>>})
    /\ UNCHANGED <<mainVars, pc, input, next, gone, reply, orphans, metrics>>

\* Mutant: the index moves on behind the last event.
MoveOn(r) == next' = [next EXCEPT ![r] = @ + 1]

\* The loop ends at the last event.
StayAtLast(r) == UNCHANGED next

\* The event is acknowledged: go on with the next one, or reply.
Advance(r) ==
    \/ /\ next[r] < Len(input[r].records)
       /\ next' = [next EXCEPT ![r] = @ + 1]
       /\ pc' = [pc EXCEPT ![r] = "publish"]
       /\ UNCHANGED <<reply, metrics>>
    \/ /\ next[r] = Len(input[r].records)
       /\ StayAtLast(r)
       /\ Replied(r, "ok")
       /\ CountOK(r)

\* The leader's ack arrives.
WriteOK(r) ==
    /\ pc[r] = "send"
    /\ Land({<<r, next[r]>>})
    /\ Advance(r)
    /\ UNCHANGED <<mainVars, input, gone, orphans, faults>>

\* Mutant: publishEvents skips an event it could not publish.
SkipFailed(r, outcome) == Advance(r)

\* Mutant: a publish error is answered with 400 instead of 502.
FailAsInvalid(r, outcome) == Failed(r, "invalid") /\ UNCHANGED next

\* publishEvents returns at the first error.
StopAtFirstError(r, outcome) == Failed(r, outcome) /\ UNCHANGED next

\* WriteMessages gives up; its last attempt may have reached the topic all the same.
WriteErr(r) ==
    /\ pc[r] = "send"
    /\ Fault
    /\ \E S \in SUBSET {<<r, next[r]>>} : Land(S)
    /\ StopAtFirstError(r, "failed")
    /\ UNCHANGED <<mainVars, input, gone, orphans>>

\* WriteMessages returns because the context ended; the writer keeps the message.
WriteAbandoned(r) ==
    /\ pc[r] = "send"
    /\ gone[r]
    /\ orphans' = orphans \cup {<<r, next[r]>>}
    /\ StopAtFirstError(r, "failed")
    /\ UNCHANGED <<mainVars, input, gone, topic, faults>>

\* The writer delivers or drops a message nobody waits for any more.
OrphanSettles(r, i) ==
    /\ <<r, i>> \in orphans
    /\ orphans' = orphans \ {<<r, i>>}
    /\ \E S \in SUBSET {<<r, i>>} : Land(S)
    /\ UNCHANGED <<mainVars, pc, input, next, gone, reply, metrics, faults>>

\* The client goes away while its request is handled.
Disconnect(r) ==
    /\ pc[r] \notin Idle
    /\ ~gone[r]
    /\ Fault
    /\ gone' = [gone EXCEPT ![r] = TRUE]
    /\ UNCHANGED <<mainVars, pc, input, next, reply, topic, orphans, metrics>>

-----------------------------------------------------------------------------
(* main: SIGTERM, srv.Shutdown, then the deferred calls in reverse order. *)

requestVars == <<pc, input, next, gone, reply, topic, orphans, metrics>>

Signal ==
    /\ phase = "serving"
    /\ phase' = "draining"
    /\ UNCHANGED <<timedOut, crashed, bus, requestVars, faults>>

\* srv.Shutdown returns when no HTTP handler is active, or after 10 s.
ShutdownReturns ==
    /\ phase = "draining"
    /\ \/ ActiveHTTP = {} /\ UNCHANGED timedOut
       \/ ActiveHTTP # {} /\ timedOut' = TRUE
    /\ phase' = "grpcStop"
    /\ UNCHANGED <<crashed, bus, requestVars, faults>>

\* Mutant: bus.Close runs without waiting for the gRPC handlers.
NoWait == TRUE

\* grpcSrv.GracefulStop returns when no RPC is active, be it one that still waits
\* for its message.
RPCsEnded == ActiveGRPC = {}

\* Then bus.Close takes the mutex, marks the broker and closes its Kafka writer.
GracefulStopReturns ==
    /\ phase = "grpcStop"
    /\ RPCsEnded
    /\ phase' = "busClose"
    /\ bus' = "closing"
    /\ UNCHANGED <<timedOut, crashed, requestVars, faults>>

\* What Close does when the Kafka writer's Close returns.
Closed ==
    /\ phase = "busClose"
    /\ bus' = "closed"
    /\ phase' = "closed"
    /\ UNCHANGED <<timedOut, crashed, requestVars, faults>>

\* Mutant: Close polls for the end of every handler, and so of those that wait
\* for the mutex it holds.
CloseWaitsForHandlers ==
    \/ ActiveHTTP = {} /\ orphans = {} /\ Closed
    \/ phase = "busClose" /\ ActiveHTTP # {} /\ UNCHANGED vars

\* Mutant: Close does not wait for the messages under way.
CloseAtOnce == Closed

\* The Kafka writer's Close waits for calls and messages under way.
BusCloseReturns ==
    /\ orphans = {} /\ \A r \in Requests : pc[r] # "send"
    /\ Closed

\* The process ends under whatever still runs in it; what it has sent to the topic
\* may get there without it.
Stop ==
    /\ phase' = "exited"
    /\ \E S \in SUBSET InFlight : Land(S)
    /\ pc' = [r \in Requests |-> IF pc[r] \in Idle THEN pc[r] ELSE "killed"]
    /\ orphans' = {}
    /\ UNCHANGED <<timedOut, bus, input, next, gone, reply, metrics>>

MainReturns == phase = "closed" /\ Stop /\ UNCHANGED <<crashed, faults>>

Crash == phase # "exited" /\ Fault /\ crashed' = TRUE /\ Stop

\* A process that has exited stays so.
Exited == phase = "exited" /\ UNCHANGED vars

-----------------------------------------------------------------------------
Handle(r) ==
    \/ Authorize(r) \/ ReadFails(r) \/ Reject(r) \/ AcceptEmpty(r) \/ BeginPublish(r)
    \/ PublishGone(r) \/ PublishStart(r) \/ PublishLock(r) \/ EnterWrite(r)
    \/ WriteOK(r) \/ WriteErr(r) \/ WriteAbandoned(r)

Main == ShutdownReturns \/ GracefulStopReturns \/ BusCloseReturns \/ MainReturns

Next ==
    \/ \E r \in Requests : Accept(r) \/ BodyArrives(r) \/ Handle(r) \/ Disconnect(r)
    \/ \E r \in Requests, i \in Indices : Resend(r, i) \/ OrphanSettles(r, i)
    \/ Signal \/ Main \/ Crash \/ Exited

Spec == Init /\ [][Next]_vars

\* Handlers, the Kafka writer and main keep running; clients, whose bodies the
\* handlers read, signals and crashes owe nothing.
Fairness ==
    /\ \A r \in Requests : WF_vars(Handle(r))
    /\ \A r \in Requests, i \in Indices : WF_vars(OrphanSettles(r, i))
    /\ WF_vars(Main)

FairSpec == Spec /\ Fairness

-----------------------------------------------------------------------------
(* Properties. *)

\* The types of the variables.
TypeOK ==
    /\ phase \in {"serving", "draining", "grpcStop", "busClose", "closed", "exited"}
    /\ timedOut \in BOOLEAN /\ crashed \in BOOLEAN
    /\ bus \in {"open", "closing", "closed"}
    /\ pc \in [Requests -> Idle \cup {"auth", "read", "handle", "publish", "lock", "encode", "send"}]
    /\ input \in [Requests -> Inputs]
    /\ next \in [Requests -> 0..MaxRecords]
    /\ \A r \in Requests : next[r] <= Len(input[r].records)
    /\ gone \in [Requests -> BOOLEAN]
    /\ reply \in [Requests -> {"none", "ok", "invalid", "unauthorized", "aborted", "failed", "closed"}]
    /\ topic \in [Requests -> [Indices -> Nat]]
    /\ orphans \subseteq Requests \X Indices
    /\ metrics \in [Counters -> Nat]
    /\ faults \in 0..MaxFaults

\* "Gateway waits for broker ack; publish errors surface to clients"
\* (pkg/broker/README.md:27): a request that was answered with success has all
\* its events on the topic, however its publishing interleaved with other
\* requests, disconnects and the shutdown.
AckIsDurable ==
    \A r \in Requests : reply[r] = "ok" =>
        \A i \in 1..Len(input[r].records) : topic[r][i] >= 1

\* A request answered with 400 or 401, or cut off before its message was there,
\* has put nothing on the topic and never will: all records are validated before
\* the first is published.
RejectedLeavesNoTrace ==
    \A r \in Requests : reply[r] \in {"invalid", "unauthorized", "aborted"} =>
        \A i \in Indices : topic[r][i] = 0 /\ <<r, i>> \notin orphans

\* What a request has put on the topic, or may still put there, is a gap-free
\* prefix of its events: publishEvents stops at the first error.
PublishedPrefix ==
    \A r \in Requests, i \in Indices :
        topic[r][i] > 0 \/ <<r, i>> \in orphans =>
            /\ i <= next[r]
            /\ \A j \in 1..(i - 1) : topic[r][j] > 0

\* The requests with one of the given answers, over one of the given protocols.
Answered(outcomes, vias) ==
    {r \in Requests : reply[r] \in outcomes /\ input[r].via \in vias}

\* The log records of the OTLP requests that were acknowledged.
AckedLogs ==
    {e \in Requests \X Indices : /\ e[1] \in Answered({"ok"}, {"otlp", "grpc"})
                               /\ e[2] <= Len(input[e[1]].records)}

Errors == {"invalid", "failed", "closed"}

\* The counters agree with the answers given: every request that came to its
\* handler is counted once, when it is answered, and otlpLogs counts exactly the
\* records of acknowledged requests, never those of a partial publish.
MetricsMatchReplies ==
    /\ metrics["restOK"] = Cardinality(Answered({"ok"}, {"rest"}))
    /\ metrics["restErr"] = Cardinality(Answered(Errors, {"rest"}))
    /\ metrics["otlpOK"] = Cardinality(Answered({"ok"}, {"otlp", "grpc"}))
    /\ metrics["otlpErr"] = Cardinality(Answered(Errors, {"otlp", "grpc"}))
    /\ metrics["otlpLogs"] = Cardinality(AckedLogs)

\* The order of the deferred calls in main: no handler meets a closed broker,
\* and none is cut off, unless srv.Shutdown timed out and the handler is an
\* HTTP one (or the process crashed).
DrainedBeforeClose ==
    \A r \in Requests :
        reply[r] = "closed" \/ (pc[r] = "killed" /\ ~crashed) =>
            timedOut /\ input[r].via # "grpc"

\* Once Close has returned nothing is added to the topic any more, although
\* handlers may still run.
ClosedBusIsQuiet == [][bus = "closed" => UNCHANGED topic]_vars

\* A signalled gateway exits, although Close holds the mutex that handlers in
\* Publish want and waits for messages those handlers started (redpanda.go:173-183,
\* main.go:70-74), and whatever HTTP clients do; only an RPC whose message does not
\* come holds it up, since GracefulStop (main.go:43) has no deadline.
ShutdownCompletes ==
    phase \notin {"serving", "exited"} ~>
        phase = "exited" \/ \E r \in ActiveGRPC : AwaitsClient(r)

\* Every request is answered or ends with the process, unless its own client
\* neither sends the rest nor leaves: no timeout covers the read of the body
\* (rest.go:18-19, otlp_http.go:22, main.go:60).
EveryRequestEnds ==
    \A r \in Requests : pc[r] \notin Idle ~> pc[r] \in Idle \/ AwaitsClient(r)
=============================================================================
