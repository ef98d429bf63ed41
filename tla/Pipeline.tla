------------------------------ MODULE Pipeline ------------------------------
(***************************************************************************)
(* The whole write path: the sample client (examples/sample-client/main.go) *)
(* sends a log event over REST, over OTLP/HTTP, or over both one after the *)
(* other, the gateway publishes it to the topic (Gateway), and the writers *)
(* bring it into the table (Writer).  The two services share nothing but   *)
(* the topic: a message the gateway's Kafka writer lands is appended to a  *)
(* partition's log, which is all the writers see.                          *)
(*                                                                         *)
(* All failures of Gateway and Writer (crashes, signals, lost answers,     *)
(* disconnects, a shutdown) can happen here, out of one budget of faults.  *)
(***************************************************************************)
EXTENDS Integers, Sequences, FiniteSets, Functions

CONSTANTS
    Modes,         \* values of the flag -mode, "other" for an unknown one
    KeyRequired,   \* GATEWAY_API_KEY is set; the client sends no key
    Writers, NoWriter, Partitions, BatchSize, MaxRetries, PingAttempts,
    MaxFaults,     \* bound: faults of client, gateway and writers together
    MaxRevokes     \* bound: partitions revoked

ASSUME ModesAssumption == Modes \subseteq {"rest", "otlp", "both", "other"}
ASSUME ServicesAssumption ==
    /\ KeyRequired \in BOOLEAN /\ NoWriter \notin Writers
    /\ IsFiniteSet(Writers) /\ IsFiniteSet(Partitions)
    /\ BatchSize \in Int /\ MaxRetries \in Int /\ PingAttempts \in Int
    /\ MaxFaults \in Nat /\ MaxRevokes \in Nat

Requests == {"rest", "otlp"}

\* What sendREST and sendOTLP post: one event without an API key, "invalid" when
\* the flag -service (or -message, in the modes that send it as it is) is blank.
SampleREST(kind) ==
    [via |-> "rest", authorized |-> FALSE, wellFormed |-> TRUE, records |-> <<kind>>]

SampleOTLP(kind) ==
    [via |-> "otlp", authorized |-> FALSE, wellFormed |-> TRUE, records |-> <<kind>>]

Kinds == {"good", "invalid"}

ClientInputs(kind) == [r \in Requests |-> IF r = "rest" THEN SampleREST(kind) ELSE SampleOTLP(kind)]

\* Room on a partition for both events and the copies faults may add.
MaxOffset == Cardinality(Requests) + MaxFaults

VARIABLES
    mode,   \* the client's -mode
    cpc,    \* what the client does: start, rest, otlp (the request it waits for) or exited
    exit,   \* its exit status, -1 while it runs
    phase, timedOut, crashed, bus, gpc, input, next, gone, reply, topic, orphans,
    gmetrics,  \* the gateway, see Gateway
    log, committed, owner, pos, rows, pc, buf, attempt, why, cancelled, metrics,
    revokes,   \* the writers and the topic, see Writer
    origin,    \* origin[p][n]: the request whose event is message n of p
    faults

clientVars == <<mode, cpc, exit>>
gatewayVars == <<phase, timedOut, crashed, bus, gpc, input, next, gone, reply,
                 topic, orphans, gmetrics>>
writerVars == <<committed, owner, pos, rows, pc, buf, attempt, why, cancelled,
                metrics, revokes>>
topicVars == <<log, origin>>
vars == <<clientVars, gatewayVars, writerVars, topicVars, faults>>

G == INSTANCE Gateway WITH
        Inputs <- UNION {Range(ClientInputs(k)) : k \in Kinds}, MaxRecords <- 1,
        pc <- gpc, metrics <- gmetrics

W == INSTANCE Writer WITH Payloads <- {"event"}

Init ==
    /\ mode \in Modes
    /\ cpc = "start"
    /\ exit = -1
    /\ G!Init
    /\ input \in {ClientInputs(k) : k \in Kinds}
    /\ W!Init
    /\ origin = [p \in Partitions |-> <<>>]

-----------------------------------------------------------------------------
(* The topic between the services. *)

\* A message the gateway's Kafka writer lands, for the first time or again, is
\* appended to one partition, which the writer's balancer chose.  The client has
\* one request under way at a time, so no step lands more than one.
Land ==
    \/ topic' = topic /\ UNCHANGED topicVars
    \/ \E r \in Requests, p \in Partitions :
        /\ topic'[r] # topic[r]
        /\ log' = [log EXCEPT ![p] = Append(@, "event")]
        /\ origin' = [origin EXCEPT ![p] = Append(@, r)]

-----------------------------------------------------------------------------
(* The client. *)

Exits(status) == cpc' = "exited" /\ exit' = status /\ UNCHANGED mode

\* The switch on the mode.
Begin ==
    /\ cpc = "start"
    /\ \/ mode \in {"rest", "both"} /\ cpc' = "rest" /\ UNCHANGED <<mode, exit>>
       \/ mode = "otlp" /\ cpc' = "otlp" /\ UNCHANGED <<mode, exit>>
       \/ mode = "other" /\ Exits(2)
    /\ UNCHANGED <<gatewayVars, writerVars, topicVars, faults>>

\* The gateway accepts the request the client waits to send.
Send(r) ==
    /\ cpc = r
    /\ G!Accept(r)
    /\ UNCHANGED <<clientVars, writerVars, topicVars>>

\* What the client writes to its connection, all at once and without waiting for
\* the gateway, reaches the handler.
SendBody(r) ==
    /\ G!BodyArrives(r)
    /\ UNCHANGED <<clientVars, writerVars, topicVars>>

\* Mutant: "both" sends over OTLP whatever became of the first request.
ThenOTLPAnyway(r, ok) ==
    IF r = "rest" /\ mode = "both"
    THEN cpc' = "otlp" /\ UNCHANGED <<mode, exit>>
    ELSE Exits(IF ok THEN 0 ELSE 1)

\* sendREST or sendOTLP returns nil (ok) or an error.
Returns(r, ok) ==
    IF ok /\ r = "rest" /\ mode = "both"
    THEN cpc' = "otlp" /\ UNCHANGED <<mode, exit>>
    ELSE Exits(IF ok THEN 0 ELSE 1)

\* Mutant: any answer will do.
AnyStatus(r) == TRUE

\* http.StatusCreated for REST and http.StatusOK for OTLP are the answers of
\* handlers that published; all others are errors.
StatusOK(r) == reply[r] = "ok"

\* The answer arrives, or is lost on its way.
Answered(r) ==
    /\ cpc = r
    /\ gpc[r] = "replied"
    /\ \/ Returns(r, StatusOK(r)) /\ UNCHANGED faults
       \/ Returns(r, FALSE) /\ G!Fault
    /\ UNCHANGED <<gatewayVars, writerVars, topicVars>>

\* Mutant: the client waits for a gateway that is gone.
WaitOn(r) == FALSE /\ UNCHANGED vars

\* The gateway does not listen any more, or died while it held the request.
Unanswered(r) ==
    /\ cpc = r
    /\ gpc[r] = "killed" \/ (gpc[r] = "idle" /\ phase # "serving")
    /\ Returns(r, FALSE)
    /\ UNCHANGED <<gatewayVars, writerVars, topicVars, faults>>

\* The request is never sent: its body or URL is unusable, or no connection comes
\* about.
NotSent(r) ==
    /\ cpc = r
    /\ gpc[r] = "idle"
    /\ G!Fault
    /\ Returns(r, FALSE)
    /\ UNCHANGED <<gatewayVars, writerVars, topicVars>>

\* The connection breaks, for both sides.
Disconnected(r) ==
    /\ cpc = r
    /\ G!Disconnect(r)
    /\ Returns(r, FALSE)
    /\ UNCHANGED <<writerVars, topicVars>>

-----------------------------------------------------------------------------
Client ==
    Begin \/ \E r \in Requests : Send(r) \/ SendBody(r) \/ Answered(r) \/ Unanswered(r)

GatewayStep ==
    /\ \/ \E r \in Requests : G!Handle(r) \/ G!Resend(r, 1) \/ G!OrphanSettles(r, 1)
       \/ G!Signal \/ G!Main \/ G!Crash
    /\ Land
    /\ UNCHANGED <<clientVars, writerVars>>

WriterStep ==
    /\ W!Group \/ \E w \in Writers : W!Process(w)
    /\ UNCHANGED <<clientVars, gatewayVars, origin>>

Next ==
    \/ Client \/ (\E r \in Requests : NotSent(r) \/ Disconnected(r))
    \/ GatewayStep
    \/ WriterStep

Spec == Init /\ [][Next]_vars

\* The client runs; the gateway and the writers are as fair as in their modules.
FairSpec == Spec /\ WF_vars(Client) /\ G!Fairness /\ W!Fairness

-----------------------------------------------------------------------------
(* Properties. *)

\* The messages that carry the event of r.
Copies(r) == {m \in W!Message : /\ m.offset <= Len(origin[m.part])
                                /\ origin[m.part][m.offset] = r}

\* The requests the client's mode asks for.
Asked == IF mode = "both" THEN Requests ELSE Requests \cap {mode}

\* The types of the variables of the composition, and that the topic the gateway
\* fills is the one the writers read.
TypeOK ==
    /\ G!TypeOK /\ W!TypeOK
    /\ cpc \in {"start", "rest", "otlp", "exited"}
    /\ exit \in {-1, 0, 1, 2}
    /\ \A p \in Partitions : Len(origin[p]) = Len(log[p])
    /\ \A r \in Requests : Cardinality(Copies(r)) = topic[r][1]

\* "sent via ..." (sample-client/main.go:52): when the client exits with 0,
\* each event it was asked to send is in the table already or on the topic
\* ahead of the group's offset, where the next writer finds it, whatever crashed
\* in between.
SentIsNotLost ==
    \A r \in Asked : reply[r] = "ok" \/ exit = 0 =>
        \E m \in Copies(r) : W!Stored(m) \/ m.offset > committed[m.part]

\* In mode "both" the OTLP event comes to the topic only when the REST event is
\* there: no order of failures leaves just the second of the two.
OTLPNeedsREST ==
    mode = "both" /\ (Copies("otlp") # {} \/ <<"otlp", 1>> \in orphans) =>
        Copies("rest") # {}

\* One event, end to end: every fault and every revocation at most doubles its
\* rows, over the copies a lost ack put on the topic and the rows a lost answer
\* put into the table together; without them each event has at most one row.
RowsPerEvent ==
    \A r \in Requests :
        SumFunctionOnSet(rows, Copies(r)) <= 2 ^ (faults + revokes)

\* What a client was told is sent reaches the table.
SentIsStored ==
    \A r \in Requests :
        exit = 0 /\ r \in Asked ~> \E m \in Copies(r) : W!Stored(m)

\* The client comes to an end, although it sets no timeout of its own: handlers
\* end, or take its connection with them (sample-client/main.go:78 and 132).
ClientEnds == <>(cpc = "exited")
=============================================================================
