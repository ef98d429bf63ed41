--------------------------- MODULE PipelineProofs ---------------------------
(***************************************************************************)
(* Proofs about Pipeline: the guarantees of the gateway and of the writers *)
(* hold in the composition, and together they carry an event from the      *)
(* client to the table.  GP and WP are the proofs about the two services,  *)
(* instantiated as Pipeline instantiates the services themselves (G, W).   *)
(***************************************************************************)
EXTENDS Pipeline, FiniteSetTheorems, TLAPS

\* The gateway, with its theorems.
GP == INSTANCE GatewayProofs WITH
        Inputs <- UNION {Range(ClientInputs(k)) : k \in Kinds}, MaxRecords <- 1,
        pc <- gpc, metrics <- gmetrics

\* The writers, with their theorems.
WP == INSTANCE WriterProofs WITH Payloads <- {"event"}

-----------------------------------------------------------------------------
(* The assumptions of the two services hold of their instances here. *)

\* The client's requests carry one event each.
LEMMA ClientInputFacts ==
    ASSUME NEW k \in Kinds, NEW in \in Range(ClientInputs(k))
    PROVE  /\ in \in GP!Input /\ Len(in.records) = 1 /\ in.via \in Requests
<1>1. in = SampleREST(k) \/ in = SampleOTLP(k)
  BY DEF ClientInputs, Requests, Range
<1>2. <<k>> \in Seq(GP!RecordKinds) /\ Len(<<k>>) = 1
  BY DEF Kinds, GP!RecordKinds
<1>3. in.records = <<k>> /\ in.via \in Requests
  BY <1>1 DEF SampleREST, SampleOTLP, Requests
<1>4. in \in GP!Input
  <2> DEFINE records == <<k>>
  <2>1. records \in Seq(GP!RecordKinds) /\ FALSE \in BOOLEAN /\ TRUE \in BOOLEAN
    BY <1>2
  <2> HIDE DEF records
  <2>2. \A via \in {"rest", "otlp"} :
            [via |-> via, authorized |-> FALSE, wellFormed |-> TRUE, records |-> records]
                \in GP!Input
    BY <2>1 DEF GP!Input
  <2> QED  BY <1>1, <2>2 DEF SampleREST, SampleOTLP, records
<1> QED  BY <1>2, <1>3, <1>4

\* What the client sends satisfies the assumptions of Gateway.
LEMMA GatewayInstanceAssumptions ==
    /\ \A in \in UNION {Range(ClientInputs(k)) : k \in Kinds} :
            in \in GP!Input /\ Len(in.records) <= 1
    /\ \A in \in UNION {Range(ClientInputs(k)) : k \in Kinds} :
            in.via = "rest" => Len(in.records) = 1
    /\ \A in \in UNION {Range(ClientInputs(k)) : k \in Kinds} :
            in.via = "grpc" => in.wellFormed
    /\ KeyRequired \in BOOLEAN /\ 1 \in Nat /\ MaxFaults \in Nat
<1>1. ASSUME NEW in \in UNION {Range(ClientInputs(k)) : k \in Kinds}
      PROVE  in \in GP!Input /\ Len(in.records) = 1 /\ in.via # "grpc"
  <2>1. PICK k \in Kinds : in \in Range(ClientInputs(k))
    OBVIOUS
  <2> QED  BY <2>1, ClientInputFacts DEF Requests
<1>2. KeyRequired \in BOOLEAN
  BY ServicesAssumption, Zenon
<1>3. 1 \in Nat /\ MaxFaults \in Nat /\ 1 <= 1
  BY ServicesAssumption
<1> QED  BY <1>1, <1>2, <1>3, Zenon

\* The client sends at most two requests, so the topic has a bounded length.
LEMMA TwoRequests == Cardinality(Requests) = 2 /\ MaxOffset = 2 + MaxFaults
<1>1. Cardinality({"rest"}) = 1 /\ IsFiniteSet({"rest"})
  BY FS_Singleton
<1>2. Cardinality({"rest"} \cup {"otlp"}) = 2
  BY <1>1, FS_AddElement
<1>3. Requests = {"rest"} \cup {"otlp"}
  BY DEF Requests
<1>4. Cardinality(Requests) = 2
  BY <1>2, <1>3
<1> QED  BY <1>4 DEF MaxOffset

\* The writers of the pipeline satisfy the assumptions of Writer.
LEMMA WriterInstanceAssumptions ==
    /\ NoWriter \notin Writers
    /\ WP!IsFiniteSet(Writers) /\ WP!IsFiniteSet(Partitions)
    /\ {"event"} \subseteq {"event", "garbage", "refused"}
    /\ BatchSize \in Int /\ MaxRetries \in Int /\ PingAttempts \in Int
    /\ MaxOffset \in Nat /\ MaxFaults \in Nat /\ MaxRevokes \in Nat
BY ServicesAssumption, TwoRequests DEF IsFiniteSet, WP!IsFiniteSet

-----------------------------------------------------------------------------
(* What is proved of GP and WP is about the services of Pipeline. *)

\* The gateway of Pipeline and the one of GatewayProofs have the same states.
LEMMA SameGatewayState ==
    /\ G!TypeOK <=> GP!TypeOK
    /\ G!Init <=> GP!Init
BY DEF G!TypeOK, GP!TypeOK, G!Init, GP!Init, G!Idle, GP!Idle, G!Indices, GP!Indices,
       G!Counters, GP!Counters, G!Range, GP!Range

\* The writers of Pipeline and those of WriterProofs have the same states.
LEMMA SameWriterState ==
    /\ W!IndInv <=> WP!IndInv
    /\ W!TypeOK <=> WP!TypeOK
    /\ W!Init <=> WP!Init
<1>1. /\ W!Message = WP!Message /\ W!Phases = WP!Phases /\ W!Counters = WP!Counters
      /\ W!EffBatchSize = WP!EffBatchSize /\ W!EffRetries = WP!EffRetries
      /\ W!EffPings = WP!EffPings /\ W!ZeroMetrics = WP!ZeroMetrics
  BY DEF W!Message, WP!Message, W!Offsets, WP!Offsets, W!Phases, WP!Phases,
     W!Counters, WP!Counters, W!ZeroMetrics, WP!ZeroMetrics, W!EffBatchSize,
     WP!EffBatchSize, W!EffRetries, WP!EffRetries, W!EffPings, WP!EffPings
<1>2. \A m : W!Stored(m) <=> WP!Stored(m)
  BY DEF W!Stored, WP!Stored
<1>3. \A p, n : W!DecodedUpTo(p, n) <=> WP!DecodedUpTo(p, n)
  BY DEF W!DecodedUpTo, WP!DecodedUpTo
<1>4. W!VarTypes <=> WP!VarTypes
  BY <1>1 DEF W!VarTypes, WP!VarTypes
<1>5. W!AttemptBounded <=> WP!AttemptBounded
  BY <1>1 DEF W!AttemptBounded, WP!AttemptBounded
<1>6. W!TypeOK <=> WP!TypeOK
  BY <1>4, <1>5 DEF W!TypeOK, WP!TypeOK
<1>7. W!Init <=> WP!Init
  BY <1>1 DEF W!Init, WP!Init
<1>8. W!LogBounded <=> WP!LogBounded
  BY DEF W!LogBounded, WP!LogBounded
<1>9. W!CommittedIsStored <=> WP!CommittedIsStored
  BY <1>1, <1>2 DEF W!CommittedIsStored, WP!CommittedIsStored
<1>10. W!InFlightAccounted <=> WP!InFlightAccounted
  BY <1>1, <1>2 DEF W!InFlightAccounted, WP!InFlightAccounted, W!Range, WP!Range
<1>11. W!BufferClosed <=> WP!BufferClosed
  BY <1>1, <1>2 DEF W!BufferClosed, WP!BufferClosed, W!Range, WP!Range
<1>12. W!DecodedPrefix <=> WP!DecodedPrefix
  BY <1>1, <1>2, <1>3 DEF W!DecodedPrefix, WP!DecodedPrefix, W!Range, WP!Range
<1>13. W!AcceptedPrefix <=> WP!AcceptedPrefix
  BY <1>1, <1>2 DEF W!AcceptedPrefix, WP!AcceptedPrefix
<1>14. \A w : W!ControlOf(w) <=> WP!ControlOf(w)
  BY <1>1, <1>2 DEF W!ControlOf, WP!ControlOf, W!Range, WP!Range
<1>15. W!ControlInv <=> WP!ControlInv
  BY <1>14 DEF W!ControlInv, WP!ControlInv, W!Consuming, WP!Consuming
<1> QED  BY <1>6, <1>7, <1>8, <1>9, <1>10, <1>11, <1>12, <1>13, <1>15
         DEF W!IndInv, WP!IndInv, W!DataInv, WP!DataInv

\* They take the same steps.
LEMMA SameGatewayStep == G!Next <=> GP!Next
BY DEF G!Next, GP!Next, G!Accept, GP!Accept, G!Handle, GP!Handle,
       G!Authorize, GP!Authorize, G!Reject, GP!Reject, G!AcceptEmpty, GP!AcceptEmpty,
       G!BeginPublish, GP!BeginPublish, G!PublishGone, GP!PublishGone,
       G!PublishLock, GP!PublishLock, G!EnterWrite, GP!EnterWrite,
       G!WriteOK, GP!WriteOK, G!WriteErr, GP!WriteErr,
       G!WriteAbandoned, GP!WriteAbandoned, G!Disconnect, GP!Disconnect,
       G!BodyArrives, GP!BodyArrives, G!ReadFails, GP!ReadFails,
       G!PublishStart, GP!PublishStart, G!Resend, GP!Resend, G!InFlight, GP!InFlight,
       G!OrphanSettles, GP!OrphanSettles, G!Signal, GP!Signal, G!Main, GP!Main,
       G!ShutdownReturns, GP!ShutdownReturns,
       G!GracefulStopReturns, GP!GracefulStopReturns,
       G!BusCloseReturns, GP!BusCloseReturns, G!MainReturns, GP!MainReturns,
       G!Crash, GP!Crash, G!Exited, GP!Exited, G!Closed, GP!Closed, G!Stop, GP!Stop,
       G!RPCsEnded, GP!RPCsEnded, G!Land, GP!Land, G!Advance, GP!Advance,
       G!StayAtLast, GP!StayAtLast, G!StopAtFirstError, GP!StopAtFirstError,
       G!Failed, GP!Failed, G!Replied, GP!Replied, G!CountErr, GP!CountErr,
       G!CountOK, GP!CountOK, G!Logs, GP!Logs, G!Maps, GP!Maps, G!Range, GP!Range,
       G!Fault, GP!Fault, G!Idle, GP!Idle, G!Indices, GP!Indices,
       G!ActiveHTTP, GP!ActiveHTTP, G!ActiveGRPC, GP!ActiveGRPC,
       G!mainVars, GP!mainVars, G!requestVars, GP!requestVars, G!vars, GP!vars

\* They take the same steps, of the group or of a writer.
LEMMA SameWriterStep ==
    ASSUME W!Group \/ \E w \in Writers : W!Process(w)
    PROVE  WP!Next /\ (WP!Group \/ \E w \in Writers : WP!Process(w))
<1>1. ASSUME W!Group PROVE WP!Group
  BY <1>1
  DEF W!Group, WP!Group, W!Revoke, WP!Revoke, W!Assign, WP!Assign,
       W!StartPosition, WP!StartPosition, W!Consuming, WP!Consuming,
       W!flushVars, WP!flushVars
<1>2. ASSUME NEW w \in Writers, W!Startup(w) PROVE WP!Startup(w)
  BY <1>2
  DEF W!Start, WP!Start, W!PingOK, WP!PingOK, W!PingErr, WP!PingErr,
       W!Startup, WP!Startup, W!Fault, WP!Fault, W!kafkaVars, WP!kafkaVars,
       W!ZeroMetrics, WP!ZeroMetrics, W!Counters, WP!Counters,
       W!EffPings, WP!EffPings
<1>3. ASSUME NEW w \in Writers, W!FetchMessage(w) PROVE WP!FetchMessage(w)
  BY <1>3
  DEF W!FetchMessage, WP!FetchMessage, W!FetchEvent, WP!FetchEvent,
       W!FetchGarbage, WP!FetchGarbage, W!Inc, WP!Inc, W!Exit, WP!Exit,
       W!Release, WP!Release, W!BeginFlush, WP!BeginFlush, W!BatchFull, WP!BatchFull,
       W!EffBatchSize, WP!EffBatchSize, W!flushVars, WP!flushVars
<1>4. ASSUME NEW w \in Writers, W!Loop(w) PROVE WP!Loop(w)
  BY <1>4
  DEF W!Loop, WP!Loop, W!TimeoutTick, WP!TimeoutTick, W!TimeoutIdle, WP!TimeoutIdle,
       W!CheckCancelled, WP!CheckCancelled, W!FetchCanceled, WP!FetchCanceled,
       W!FetchError, WP!FetchError, W!ReturnFlush, WP!ReturnFlush, W!Exit, WP!Exit,
       W!Release, WP!Release, W!BeginFlush, WP!BeginFlush, W!Fault, WP!Fault,
       W!kafkaVars, WP!kafkaVars, W!flushVars, WP!flushVars
<1>a. \A w, I : W!Insert(w, I) <=> WP!Insert(w, I)
  BY Zenon DEF W!Insert, WP!Insert, W!Message, WP!Message, W!Offsets, WP!Offsets,
     W!Cardinality, WP!Cardinality, W!IsFiniteSet, WP!IsFiniteSet
<1>b. \A w : W!Accepted(w) <=> WP!Accepted(w)
  BY DEF W!Accepted, WP!Accepted, W!Range, WP!Range
<1>c. \A w : W!Sendable(w) = WP!Sendable(w)
  BY <1>b
  DEF W!Sendable, WP!Sendable
<1>d. \A w, p, o : W!HighestBuffered(w, p, o) <=> WP!HighestBuffered(w, p, o)
  BY DEF W!HighestBuffered, WP!HighestBuffered
<1>e. \A w : W!BufferedParts(w) = WP!BufferedParts(w)
  BY DEF W!BufferedParts, WP!BufferedParts, W!Range, WP!Range
<1>f. ASSUME NEW w, NEW P, W!CommitUpTo(w, P) PROVE WP!CommitUpTo(w, P)
  BY <1>d, <1>e, <1>f
  DEF W!CommitUpTo, WP!CommitUpTo
<1>g. \A w, s : W!Exit(w, s) <=> WP!Exit(w, s)
  BY DEF W!Exit, WP!Exit, W!Release, WP!Release
<1>h. \A w, c : W!AttemptFailed(w, c) <=> WP!AttemptFailed(w, c)
  BY <1>g
  DEF W!AttemptFailed, WP!AttemptFailed, W!GiveUp, WP!GiveUp,
      W!MayRetry, WP!MayRetry, W!EffRetries, WP!EffRetries, W!Inc, WP!Inc
<1>5. ASSUME NEW w \in Writers, W!Flush(w) PROVE WP!Flush(w)
  <2>1. ASSUME W!WriteBatchStart(w) PROVE WP!WriteBatchStart(w)
    BY <2>1
    DEF W!WriteBatchStart, WP!WriteBatchStart, W!kafkaVars, WP!kafkaVars,
        W!flushVars, WP!flushVars
  <2>2. ASSUME W!WriteBatchCanceled(w) PROVE WP!WriteBatchCanceled(w)
    BY <1>h, <2>2
    DEF W!WriteBatchCanceled, WP!WriteBatchCanceled
  <2>3. ASSUME W!SendOK(w) PROVE WP!SendOK(w)
    BY <1>a, <1>b, <2>3
    DEF W!SendOK, WP!SendOK, W!CountFlush, WP!CountFlush, W!kafkaVars, WP!kafkaVars
  <2>4. ASSUME W!SendErr(w) PROVE WP!SendErr(w)
    BY <1>a, <1>c, <1>h, <2>4
    DEF W!SendErr, WP!SendErr, W!FaultUnlessCancelled, WP!FaultUnlessCancelled,
        W!Fault, WP!Fault
  <2>5. ASSUME W!AppendRefused(w) PROVE WP!AppendRefused(w)
    BY <1>b, <1>h, <2>5
    DEF W!AppendRefused, WP!AppendRefused
  <2>6. ASSUME W!CommitOK(w) PROVE WP!CommitOK(w)
    BY <1>f, <2>6
    DEF W!CommitOK, WP!CommitOK, W!ClearedBatch, WP!ClearedBatch,
        W!AfterFlush, WP!AfterFlush, W!Release, WP!Release
  <2>7. ASSUME W!CommitErr(w) PROVE WP!CommitErr(w)
    BY <1>f, <1>g, <2>7
    DEF W!CommitErr, WP!CommitErr, W!FaultUnlessCancelled, WP!FaultUnlessCancelled,
        W!Fault, WP!Fault
  <2> QED  BY <1>5, <2>1, <2>2, <2>3, <2>4, <2>5, <2>6, <2>7 DEF W!Flush, WP!Flush
<1>6. ASSUME NEW w \in Writers, W!Environment(w) PROVE WP!Environment(w)
  <2>1. ASSUME W!Cancel(w) PROVE WP!Cancel(w)
    BY <2>1
    DEF W!Cancel, WP!Cancel, W!Consuming, WP!Consuming, W!Fault, WP!Fault,
        W!kafkaVars, WP!kafkaVars, W!flushVars, WP!flushVars
  <2>2. ASSUME W!Crash(w) PROVE WP!Crash(w)
    BY <1>a, <1>c, <1>f, <1>g, <2>2
    DEF W!Crash, WP!Crash, W!Consuming, WP!Consuming, W!Fault, WP!Fault
  <2> QED  BY <1>6, <2>1, <2>2 DEF W!Environment, WP!Environment
<1> QED  BY <1>1, <1>2, <1>3, <1>4, <1>5, <1>6 DEF W!Process, WP!Process, WP!Next

-----------------------------------------------------------------------------
(* The inductive invariant. *)

\* The copy of r that may still land without a fault.
Pending(r) == IF GP!MayLand(r, 1) THEN 1 ELSE 0

\* An event lands once, and once more for every fault: the partitions have room
\* for all that comes.
LandingInv ==
    topic["rest"][1] + Pending("rest") + topic["otlp"][1] + Pending("otlp") <= 2 + faults

\* What the gateway has landed is what the writers find.
TopicInv ==
    /\ origin \in [Partitions -> Seq(Requests)]
    /\ \A p \in Partitions :
         /\ Len(origin[p]) = Len(log[p])
         /\ Len(log[p]) <= topic["rest"][1] + topic["otlp"][1]
    /\ \A r \in Requests :
         IsFiniteSet(Copies(r)) /\ Cardinality(Copies(r)) = topic[r][1]

\* The client goes on, or claims success, only after a success.
ClientInv ==
    /\ mode \in Modes
    /\ cpc \in {"start", "rest", "otlp", "exited"}
    /\ exit \in {-1, 0, 1, 2}
    /\ cpc # "exited" => exit = -1
    /\ cpc = "rest" => mode \in {"rest", "both"}
    /\ cpc = "otlp" => mode \in {"otlp", "both"}
    /\ gpc["rest"] # "idle" => mode \in {"rest", "both"}
    /\ gpc["otlp"] # "idle" => mode \in {"otlp", "both"}
    /\ exit = 0 => \A r \in Asked : reply[r] = "ok"
    /\ mode = "both" /\ (cpc = "otlp" \/ gpc["otlp"] # "idle") => reply["rest"] = "ok"

\* The services keep their own invariants, the topic and the client these.
PipelineInv == GP!GatewayInv /\ WP!IndInv /\ LandingInv /\ TopicInv /\ ClientInv

\* The types the composition needs of its services.
LEMMA ServiceTypes ==
    ASSUME GP!GatewayInv
    PROVE  /\ "rest" \in Requests /\ "otlp" \in Requests
           /\ \A r \in Requests : r = "rest" \/ r = "otlp"
           /\ topic \in [Requests -> [1..1 -> Nat]] /\ \A r \in Requests : topic[r][1] \in Nat
           /\ faults \in 0..MaxFaults /\ faults \in Nat /\ MaxFaults \in Nat
           /\ GP!Indices = {1} /\ \A r \in Requests : Len(input[r].records) = 1
<1>1. GP!TypeOK
  BY DEF GP!GatewayInv
<1>2. "rest" \in Requests /\ "otlp" \in Requests /\ \A r \in Requests : r = "rest" \/ r = "otlp"
  BY DEF Requests
<1>3. topic \in [Requests -> [1..1 -> Nat]] /\ faults \in 0..MaxFaults
  BY <1>1 DEF GP!TypeOK, GP!Indices
<1>4. \A r \in Requests : topic[r][1] \in Nat
  <2>1. 1 \in 1..1
    OBVIOUS
  <2> QED  BY <1>3, <2>1
<1>5. ASSUME NEW r \in Requests
      PROVE  \E k \in Kinds : input[r] \in Range(ClientInputs(k))
  BY <1>1 DEF GP!TypeOK
<1>6. \A r \in Requests : Len(input[r].records) = 1
  BY <1>5, ClientInputFacts
<1>7. GP!Indices = {1}
  BY DEF GP!Indices
<1> QED  BY <1>2, <1>3, <1>4, <1>6, <1>7, ServicesAssumption

-----------------------------------------------------------------------------
(* The landing of events. *)

\* The client has one request in flight at a time.
LEMMA OneInFlight ==
    ASSUME GP!GatewayInv, ClientInv, <<"rest", 1>> \in GP!InFlight, <<"otlp", 1>> \in GP!InFlight
    PROVE  FALSE
<1>0. "rest" \in Requests /\ "otlp" \in Requests /\ 1 \in GP!Indices
  BY ServiceTypes
<1>1. ASSUME NEW r \in Requests, <<r, 1>> \in GP!InFlight
      PROVE  gpc[r] # "idle" /\ reply[r] # "ok"
  <2>1. GP!RequestInv(r)
    BY DEF GP!GatewayInv
  <2>2. <<r, 1>> \in orphans \/ gpc[r] = "send"
    BY <1>1 DEF GP!InFlight
  <2> QED  BY <1>0, <2>1, <2>2 DEF GP!RequestInv
<1> QED  BY <1>0, <1>1 DEF ClientInv

\* A step of the gateway, seen from the topic: nothing lands, or the event of
\* one request does, for the last time or with a fault.
LEMMA GatewayLands ==
    ASSUME GP!GatewayInv, GP!GatewayInv', ClientInv, GP!Next
    PROVE  /\ \/ topic' = topic
              \/ \E r \in Requests :
                    /\ topic'[r][1] = topic[r][1] + 1
                    /\ \A q \in Requests : q # r => topic'[q] = topic[q]
                    /\ GP!MayLand(r, 1)
                    /\ ~GP!MayLand(r, 1)' \/ faults' = faults + 1
           /\ \A q \in Requests : GP!MayLand(q, 1)' => GP!MayLand(q, 1)
           /\ faults' \in 0..MaxFaults /\ faults <= faults'
<1>0. /\ GP!Indices = {1} /\ GP!TypeOK /\ GP!TypeOK'
      /\ "rest" \in Requests /\ "otlp" \in Requests
      /\ \A r \in Requests : r = "rest" \/ r = "otlp"
  BY ServiceTypes DEF GP!GatewayInv
<1>1. GP!LandingStep /\ faults' \in 0..MaxFaults /\ faults <= faults'
  BY GP!StepLands, GatewayInstanceAssumptions, Zenon
<1>2. /\ \A q \in Requests : topic'[q][1] = topic[q][1] \/ GP!Lands(q, 1)
      /\ \A q \in Requests : GP!MayLand(q, 1)' => GP!MayLand(q, 1)
  BY <1>0, <1>1 DEF GP!LandingStep
<1>3. ASSUME NEW q \in Requests, topic'[q][1] = topic[q][1] PROVE topic'[q] = topic[q]
  <2>1. topic[q] \in [{1} -> Nat] /\ topic'[q] \in [{1} -> Nat]
    BY <1>0 DEF GP!TypeOK
  <2> QED  BY <1>3, <2>1
<1>4. CASE \A q \in Requests : topic'[q][1] = topic[q][1]
  <2>1. topic \in [Requests -> [{1} -> Nat]] /\ topic' \in [Requests -> [{1} -> Nat]]
    BY <1>0 DEF GP!TypeOK
  <2>2. topic' = topic
    BY <1>3, <1>4, <2>1
  <2> QED  BY <1>1, <1>2, <2>2
<1>5. ASSUME NEW r \in Requests, topic'[r][1] # topic[r][1]
      PROVE  /\ topic'[r][1] = topic[r][1] + 1
             /\ \A q \in Requests : q # r => topic'[q] = topic[q]
             /\ GP!MayLand(r, 1)
             /\ ~GP!MayLand(r, 1)' \/ faults' = faults + 1
  <2>1. GP!Lands(r, 1)
    BY <1>2, <1>5
  <2>2. GP!MayLand(r, 1)
    <3>1. 1 \in GP!Indices /\ <<r, 1>> \in GP!InFlight
      BY <1>0, <2>1 DEF GP!Lands
    <3> QED  BY <1>0, <3>1, GP!InFlightMayLand, GatewayInstanceAssumptions, Zenon
  <2>3. ASSUME NEW q \in Requests, q # r PROVE topic'[q] = topic[q]
    <3>1. CASE GP!Lands(q, 1)
      BY <1>0, <2>1, <2>3, <3>1, OneInFlight DEF GP!Lands
    <3> QED  BY <1>2, <1>3, <3>1
  <2> QED  BY <2>1, <2>2, <2>3 DEF GP!Lands
<1> QED  BY <1>1, <1>2, <1>4, <1>5

\* A step of the gateway keeps the count of what has landed and may land.
LEMMA GatewayKeepsLanding ==
    ASSUME GP!GatewayInv, GP!GatewayInv', ClientInv, GP!Next, LandingInv
    PROVE  LandingInv'
<1>0. /\ "rest" \in Requests /\ "otlp" \in Requests
      /\ \A r \in Requests : r = "rest" \/ r = "otlp"
      /\ \A r \in Requests : topic[r][1] \in Nat
      /\ faults \in Nat
  BY ServiceTypes
<1>1. faults' \in Nat /\ faults <= faults' /\ \A q \in Requests : GP!MayLand(q, 1)' => GP!MayLand(q, 1)
  BY GatewayLands, ServicesAssumption
<1>2. \A q \in Requests : /\ Pending(q) \in {0, 1} /\ Pending(q)' \in {0, 1}
                          /\ Pending(q)' <= Pending(q)
  BY <1>1 DEF Pending
<1>3. CASE topic' = topic
  BY <1>0, <1>1, <1>2, <1>3 DEF LandingInv
<1>4. ASSUME NEW r \in Requests,
             topic'[r][1] = topic[r][1] + 1,
             \A q \in Requests : q # r => topic'[q] = topic[q],
             GP!MayLand(r, 1), ~GP!MayLand(r, 1)' \/ faults' = faults + 1
      PROVE  LandingInv'
  <2>1. PICK s \in Requests : s # r /\ \A q \in Requests : q = r \/ q = s
    BY <1>0
  <2>2. topic'[s][1] = topic[s][1] /\ topic[s][1] \in Nat /\ topic[r][1] \in Nat
    BY <1>0, <1>4, <2>1
  <2>3. Pending(r) = 1 /\ (Pending(r)' = 0 \/ faults' = faults + 1)
    BY <1>4 DEF Pending
  <2>4. topic[r][1] + Pending(r) + topic[s][1] + Pending(s) <= 2 + faults
    BY <1>0, <1>2, <2>1, <2>2 DEF LandingInv
  <2>5. topic'[r][1] + Pending(r)' + topic'[s][1] + Pending(s)' <= 2 + faults'
    BY <1>0, <1>1, <1>2, <1>4, <2>2, <2>3, <2>4
  <2> QED  BY <1>0, <1>2, <1>4, <2>1, <2>2, <2>5 DEF LandingInv
<1> QED  BY <1>3, <1>4, GatewayLands

\* Faults of the client or of the writers leave the gateway's events alone.
LEMMA FaultsKeepLanding ==
    ASSUME GP!GatewayInv, LandingInv, UNCHANGED gatewayVars,
           faults' \in 0..MaxFaults, faults <= faults'
    PROVE  LandingInv'
<1>0. /\ "rest" \in Requests /\ "otlp" \in Requests
      /\ \A r \in Requests : topic[r][1] \in Nat
      /\ faults \in Nat /\ faults' \in Nat
  BY ServiceTypes
<1>1. topic' = topic /\ \A r : GP!MayLand(r, 1)' <=> GP!MayLand(r, 1)
  BY DEF gatewayVars, GP!MayLand
<1>2. \A r : Pending(r)' = Pending(r) /\ Pending(r) \in {0, 1}
  BY <1>1 DEF Pending
<1> QED  BY <1>0, <1>1, <1>2 DEF LandingInv

-----------------------------------------------------------------------------
(* The topic. *)

\* Where an event goes that lands on p now.
Place(p) == [part |-> p, offset |-> Len(origin[p]) + 1]

\* The places the topic has still to fill.
Fresh == {m \in W!Message : m.offset > Len(origin[m.part])}

\* The step of Land that appends the event of r to p.
AppendsTo(r, p) ==
    /\ log' = [log EXCEPT ![p] = Append(@, "event")]
    /\ origin' = [origin EXCEPT ![p] = Append(@, r)]

\* Appending to one partition of several keeps what they hold.
LEMMA AppendFacts ==
    ASSUME NEW S, NEW f \in [Partitions -> Seq(S)], NEW e \in S,
           NEW p \in Partitions, NEW g, g = [f EXCEPT ![p] = Append(@, e)]
    PROVE  /\ g \in [Partitions -> Seq(S)]
           /\ \A q \in Partitions : q # p => g[q] = f[q]
           /\ Len(g[p]) = Len(f[p]) + 1
           /\ \A k \in 1..Len(f[p]) : g[p][k] = f[p][k]
           /\ g[p][Len(f[p]) + 1] = e
<1> DEFINE t == Append(f[p], e)
<1>1. f[p] \in Seq(S)
  OBVIOUS
<1>2. /\ t \in Seq(S) /\ Len(t) = Len(f[p]) + 1
      /\ \A k \in 1..Len(f[p]) : t[k] = f[p][k]
      /\ t[Len(f[p]) + 1] = e
  BY <1>1
<1>3. g = [f EXCEPT ![p] = t]
  OBVIOUS
<1> HIDE DEF t
<1>4. g[p] = t /\ g \in [Partitions -> Seq(S)] /\ \A q \in Partitions : q # p => g[q] = f[q]
  BY <1>2, <1>3
<1> QED  BY <1>2, <1>4

\* The event that lands is a new copy of r, and nobody else's.
LEMMA CopiesAfterAppend ==
    ASSUME origin \in [Partitions -> Seq(Requests)],
           NEW r \in Requests, NEW p \in Partitions,
           origin' \in [Partitions -> Seq(Requests)],
           \A q \in Partitions : q # p => origin'[q] = origin[q],
           Len(origin'[p]) = Len(origin[p]) + 1, Len(origin'[p]) <= MaxOffset,
           \A k \in 1..Len(origin[p]) : origin'[p][k] = origin[p][k],
           origin'[p][Len(origin[p]) + 1] = r
    PROVE  /\ Copies(r)' = Copies(r) \cup {Place(p)}
           /\ \A s \in Requests : s # r => Copies(s)' = Copies(s)
           /\ Place(p) \notin Copies(r) /\ Place(p) \in Fresh
<1>0. MaxOffset \in Nat /\ \A q \in Partitions : Len(origin[q]) \in Nat
  BY TwoRequests, ServicesAssumption
<1>1. ASSUME NEW m \in W!Message
      PROVE  /\ m.part \in Partitions /\ m.offset \in Nat /\ m.offset >= 1
             /\ m.offset <= MaxOffset
             /\ m = [part |-> m.part, offset |-> m.offset]
  BY <1>0 DEF W!Message, W!Offsets
<1>2. Place(p) \in W!Message /\ Place(p) \in Fresh /\ Place(p) \notin Copies(r)
  <2>1. Len(origin[p]) + 1 \in 1..MaxOffset /\ Len(origin[p]) + 1 > Len(origin[p])
    BY <1>0
  <2>2. Place(p) \in W!Message /\ Place(p).part = p /\ Place(p).offset = Len(origin[p]) + 1
    BY <1>0, <2>1 DEF Place, W!Message, W!Offsets
  <2>3. ~(Place(p).offset <= Len(origin[p]))
    BY <1>0, <2>2
  <2> QED  BY <2>1, <2>2, <2>3 DEF Fresh, Copies
<1>3. ASSUME NEW s \in Requests, NEW m \in W!Message
      PROVE  m \in Copies(s)' <=> m \in Copies(s) \/ (s = r /\ m = Place(p))
  <2>0. m \in Copies(s)' <=> m.offset <= Len(origin'[m.part]) /\ origin'[m.part][m.offset] = s
    BY DEF Copies, W!Message, W!Offsets
  <2>1. CASE m.part # p
    BY <1>1, <2>0, <2>1 DEF Copies, Place
  <2>2. CASE m.part = p /\ m.offset <= Len(origin[p])
    <3>1. m.offset \in 1..Len(origin[p]) /\ m.offset <= Len(origin'[p])
      BY <1>0, <1>1, <2>2
    <3>2. m # Place(p)
      BY <1>0, <1>1, <2>2 DEF Place
    <3> QED  BY <2>0, <2>2, <3>1, <3>2 DEF Copies
  <2>3. CASE m.part = p /\ m.offset > Len(origin[p])
    <3>1. m \notin Copies(s)
      BY <1>0, <1>1, <2>3 DEF Copies
    <3>2. CASE m.offset = Len(origin[p]) + 1
      <4>1. origin'[p][m.offset] = r /\ m = Place(p) /\ m.offset <= Len(origin'[p])
        BY <1>0, <1>1, <2>3, <3>2 DEF Place
      <4> QED  BY <2>0, <2>3, <3>1, <4>1
    <3>3. CASE m.offset # Len(origin[p]) + 1
      <4>1. m # Place(p)
        BY <3>3 DEF Place
      <4>2. ~(m.offset <= Len(origin'[p]))
        BY <1>0, <1>1, <2>3, <3>3
      <4> QED  BY <2>0, <2>3, <3>1, <4>1, <4>2
    <3> QED  BY <3>2, <3>3
  <2> QED  BY <1>0, <1>1, <2>1, <2>2, <2>3
<1>4. \A s \in Requests : Copies(s) \subseteq W!Message /\ Copies(s)' \subseteq W!Message
  BY DEF Copies, W!Message, W!Offsets
<1>5. Copies(r)' = Copies(r) \cup {Place(p)}
  BY <1>2, <1>3, <1>4
<1>6. \A s \in Requests : s # r => Copies(s)' = Copies(s)
  BY <1>3, <1>4
<1> QED  BY <1>2, <1>5, <1>6

\* The copies of s after a step: the same, or one more where the topic was free.
CopiesStep(s) ==
    \/ topic'[s] = topic[s] /\ Copies(s)' = Copies(s)
    \/ /\ topic'[s] # topic[s]
       /\ \E m \in Fresh : m \notin Copies(s) /\ Copies(s)' = Copies(s) \cup {m}

\* The topic after a step of the gateway: it has grown by what landed.
LEMMA GatewayKeepsTopic ==
    ASSUME PipelineInv, GP!Next, GP!GatewayInv', LandingInv', Land
    PROVE  TopicInv' /\ WP!LogGrows /\ \A s \in Requests : CopiesStep(s)
<1>0. GP!GatewayInv /\ WP!IndInv /\ LandingInv /\ TopicInv /\ ClientInv
  BY DEF PipelineInv
<1>1. /\ "rest" \in Requests /\ "otlp" \in Requests
      /\ \A q \in Requests : q = "rest" \/ q = "otlp"
      /\ \A q \in Requests : topic[q][1] \in Nat
      /\ MaxFaults \in Nat /\ MaxOffset = 2 + MaxFaults
  BY <1>0, ServiceTypes, TwoRequests
<1>2. faults' \in 0..MaxFaults
  BY <1>0, GatewayLands
<1>3. /\ log \in [Partitions -> Seq({"event"})] /\ origin \in [Partitions -> Seq(Requests)]
      /\ \A q \in Partitions : Len(log[q]) \in Nat /\ Len(origin[q]) = Len(log[q])
      /\ \A q \in Partitions : Len(log[q]) <= MaxOffset
  BY <1>0 DEF WP!IndInv, WP!TypeOK, WP!VarTypes, WP!DataInv, WP!LogBounded, TopicInv
<1>4. CASE topic' = topic /\ UNCHANGED topicVars
  <2>1. log' = log /\ origin' = origin /\ topic' = topic
    BY <1>4 DEF topicVars
  <2>2. \A r \in Requests : Copies(r)' = Copies(r)
    BY <2>1 DEF Copies, W!Message, W!Offsets
  <2>3. TopicInv'
    BY <1>0, <2>1, <2>2 DEF TopicInv
  <2>4. WP!LogGrows
    BY <1>3, <2>1 DEF WP!LogGrows
  <2> QED  BY <2>1, <2>2, <2>3, <2>4 DEF CopiesStep
<1>5. ASSUME NEW r \in Requests, NEW p \in Partitions, topic'[r] # topic[r], AppendsTo(r, p)
      PROVE  TopicInv' /\ WP!LogGrows /\ \A s \in Requests : CopiesStep(s)
  <2>1. topic'[r][1] = topic[r][1] + 1 /\ \A q \in Requests : q # r => topic'[q] = topic[q]
    BY <1>0, <1>5, GatewayLands
  <2>2. /\ log' \in [Partitions -> Seq({"event"})]
        /\ \A q \in Partitions : q # p => log'[q] = log[q]
        /\ Len(log'[p]) = Len(log[p]) + 1
        /\ \A k \in 1..Len(log[p]) : log'[p][k] = log[p][k]
    <3>1. log' = [log EXCEPT ![p] = Append(@, "event")]
      BY <1>5 DEF AppendsTo
    <3>2. log \in [Partitions -> Seq({"event"})] /\ "event" \in {"event"}
      BY <1>3
    <3> QED  BY <3>1, <3>2, AppendFacts
  <2>3. /\ origin' \in [Partitions -> Seq(Requests)]
        /\ \A q \in Partitions : q # p => origin'[q] = origin[q]
        /\ Len(origin'[p]) = Len(origin[p]) + 1
        /\ \A k \in 1..Len(origin[p]) : origin'[p][k] = origin[p][k]
        /\ origin'[p][Len(origin[p]) + 1] = r
    <3>1. origin' = [origin EXCEPT ![p] = Append(@, r)]
      BY <1>5 DEF AppendsTo
    <3>2. origin \in [Partitions -> Seq(Requests)]
      BY <1>3
    <3> QED  BY <3>1, <3>2, AppendFacts
  <2> DEFINE before == topic["rest"][1] + topic["otlp"][1]
             after == topic'["rest"][1] + topic'["otlp"][1]
  <2>4. after = before + 1 /\ before \in Nat
    BY <1>1, <2>1
  <2>5. after <= MaxOffset
    <3>1. \A q : Pending(q)' \in {0, 1}
      BY DEF Pending
    <3>2. topic'["rest"][1] \in Nat /\ topic'["otlp"][1] \in Nat
      BY <1>1, <2>1
    <3>3. after <= 2 + faults'
      BY <1>2, <3>1, <3>2 DEF LandingInv
    <3> QED  BY <1>1, <1>2, <3>2, <3>3
  <2> HIDE DEF before, after
  <2>6. ASSUME NEW q \in Partitions
        PROVE  Len(origin'[q]) = Len(log'[q]) /\ Len(log'[q]) <= after
    <3>1. Len(origin[q]) = Len(log[q]) /\ Len(log[q]) \in Nat /\ Len(log[q]) <= before
      BY <1>0, <1>3 DEF TopicInv, before
    <3>2. CASE q = p
      <4>1. Len(log'[q]) = Len(log[q]) + 1 /\ Len(origin'[q]) = Len(origin[q]) + 1
        BY <2>2, <2>3, <3>2
      <4> QED  BY <2>4, <3>1, <4>1
    <3>3. CASE q # p
      <4>1. Len(log'[q]) = Len(log[q]) /\ Len(origin'[q]) = Len(origin[q])
        BY <2>2, <2>3, <3>3
      <4> QED  BY <2>4, <3>1, <4>1
    <3> QED  BY <3>2, <3>3
  <2>7. Len(origin'[p]) <= MaxOffset
    <3>1. Len(origin'[p]) = Len(log'[p]) /\ Len(log'[p]) <= after
      BY <2>6
    <3>2. Len(log'[p]) \in Nat
      BY <2>2
    <3> QED  BY <1>1, <2>4, <2>5, <3>1, <3>2
  <2>8. /\ Copies(r)' = Copies(r) \cup {Place(p)}
        /\ \A s \in Requests : s # r => Copies(s)' = Copies(s)
        /\ Place(p) \notin Copies(r) /\ Place(p) \in Fresh
    <3>1. origin \in [Partitions -> Seq(Requests)]
      BY <1>3
    <3> QED  BY <2>3, <2>7, <3>1, CopiesAfterAppend
  <2>9. /\ IsFiniteSet(Copies(r) \cup {Place(p)})
        /\ Cardinality(Copies(r) \cup {Place(p)}) = Cardinality(Copies(r)) + 1
    <3>1. IsFiniteSet(Copies(r))
      BY <1>0 DEF TopicInv
    <3> QED  BY <2>8, <3>1, FS_AddElement
  <2>10. ASSUME NEW s \in Requests
         PROVE  IsFiniteSet(Copies(s)') /\ Cardinality(Copies(s)') = topic'[s][1]
    BY <1>0, <2>1, <2>8, <2>9 DEF TopicInv
  <2>11. TopicInv'
    BY <2>3, <2>6, <2>10 DEF TopicInv, after
  <2>12. WP!LogGrows
    <3>1. ASSUME NEW q \in Partitions
          PROVE  /\ Len(log[q]) <= Len(log'[q]) /\ Len(log'[q]) <= MaxOffset
                 /\ \A k \in 1..Len(log[q]) : log'[q][k] = log[q][k]
      <4>1. CASE q = p
        <5>1. Len(log'[p]) = Len(log[p]) + 1 /\ Len(log[p]) \in Nat /\ Len(log'[p]) <= MaxOffset
          BY <1>3, <2>2, <2>6, <2>7
        <5>2. Len(log[p]) <= Len(log'[p])
          BY <5>1
        <5> QED  BY <2>2, <4>1, <5>1, <5>2
      <4>2. CASE q # p
        <5>1. log'[q] = log[q]
          BY <2>2, <4>2
        <5> QED  BY <1>3, <5>1
      <4> QED  BY <4>1, <4>2
    <3> QED  BY <2>2, <3>1 DEF WP!LogGrows
  <2>13. \A s \in Requests : CopiesStep(s)
    BY <1>5, <2>1, <2>8 DEF CopiesStep
  <2> QED  BY <2>11, <2>12, <2>13
<1> QED  BY <1>4, <1>5 DEF Land, AppendsTo

\* A step that does not touch the topic.
LEMMA RestKeepsTopic ==
    ASSUME TopicInv, UNCHANGED <<topic, log, origin>>
    PROVE  TopicInv'
<1>1. \A r \in Requests : Copies(r)' = Copies(r)
  BY DEF Copies, W!Message, W!Offsets
<1> QED  BY <1>1 DEF TopicInv

\* A topic that stays as it is has grown in the sense of WriterProofs.
LEMMA NoGrowth ==
    ASSUME WP!IndInv, UNCHANGED log
    PROVE  WP!LogGrows
BY DEF WP!IndInv, WP!TypeOK, WP!VarTypes, WP!DataInv, WP!LogBounded, WP!LogGrows

\* A step of the gateway or the client keeps what the writers rely on.
LEMMA OthersKeepWriters ==
    ASSUME WP!IndInv, WP!LogGrows, faults' \in 0..MaxFaults, UNCHANGED writerVars
    PROVE  WP!IndInv'
<1>1. UNCHANGED <<committed, owner, pos, rows, pc, buf, attempt, why, cancelled,
                  metrics, revokes>>
  BY DEF writerVars
<1> QED  BY <1>1, WP!GrowthInv, WriterInstanceAssumptions

\* A step of the writers or the client keeps what the gateway relies on.
LEMMA OthersKeepGateway ==
    ASSUME GP!GatewayInv, faults' \in 0..MaxFaults, UNCHANGED gatewayVars
    PROVE  GP!GatewayInv'
<1>1. UNCHANGED <<phase, timedOut, crashed, bus, gpc, input, next, gone, reply,
                  topic, orphans, gmetrics>>
  BY DEF gatewayVars
<1> QED  BY <1>1, GP!FaultsElsewhere, GatewayInstanceAssumptions, Zenon

\* A step of the writers leaves the topic alone.
LEMMA WritersOnlyRead ==
    ASSUME WP!IndInv, W!Group \/ \E w \in Writers : W!Process(w)
    PROVE  log' = log /\ faults <= faults'
<1>1. faults \in Nat
  BY ServicesAssumption DEF WP!IndInv, WP!TypeOK, WP!VarTypes
<1>2. W!Fault \/ faults' = faults => faults <= faults'
  BY <1>1 DEF W!Fault
<1>3. CASE W!Group
  BY <1>1, <1>3 DEF W!Group, W!Revoke, W!Assign
<1>4. ASSUME NEW w \in Writers, W!Startup(w) \/ W!FetchMessage(w) \/ W!Loop(w)
      PROVE  log' = log /\ (W!Fault \/ faults' = faults)
  BY <1>4, Zenon
  DEF W!Startup, W!Start, W!PingOK, W!PingErr, W!FetchMessage, W!FetchEvent,
      W!FetchGarbage, W!Loop, W!TimeoutTick, W!TimeoutIdle, W!CheckCancelled,
      W!FetchCanceled, W!FetchError, W!kafkaVars
<1>5. ASSUME NEW w \in Writers, W!Flush(w)
      PROVE  log' = log /\ (W!Fault \/ faults' = faults)
  BY <1>5, Zenon
  DEF W!Flush, W!WriteBatchStart, W!WriteBatchCanceled, W!SendOK, W!SendErr,
      W!AppendRefused, W!CommitOK, W!CommitErr, W!FaultUnlessCancelled, W!kafkaVars
<1>6. ASSUME NEW w \in Writers, W!Environment(w)
      PROVE  log' = log /\ (W!Fault \/ faults' = faults)
  BY <1>6, Zenon DEF W!Environment, W!Cancel, W!Crash, W!kafkaVars
<1> QED  BY <1>2, <1>3, <1>4, <1>5, <1>6 DEF W!Process

-----------------------------------------------------------------------------
(* The client. *)

\* While the client waits, the services may move on, but not start its second
\* request or take an answer back.
LEMMA WaitingClient ==
    ASSUME ClientInv, UNCHANGED clientVars,
           \A r \in Requests : reply[r] = "ok" => reply'[r] = "ok",
           \A r \in Requests : gpc'[r] # "idle" => gpc[r] # "idle" \/ cpc = r
    PROVE  ClientInv'
<1>1. mode' = mode /\ cpc' = cpc /\ exit' = exit /\ "rest" \in Requests /\ "otlp" \in Requests
  BY DEF clientVars, Requests
<1>2. Asked' = Asked /\ Asked \subseteq Requests
  BY <1>1 DEF Asked
<1> QED  BY <1>1, <1>2 DEF ClientInv

\* sendREST or sendOTLP returns, with success only after a success.
LEMMA ReturningClient ==
    ASSUME ClientInv, NEW r \in Requests, NEW ok \in BOOLEAN, cpc = r, Returns(r, ok),
           ok => reply[r] = "ok", UNCHANGED <<gpc, reply>>
    PROVE  ClientInv'
<1>1. r = "rest" \/ r = "otlp"
  BY DEF Requests
<1>2. mode' = mode
  BY DEF Returns, Exits
<1>3. Asked' = Asked
  BY <1>2 DEF Asked
<1>4. CASE ok /\ r = "rest" /\ mode = "both"
  BY <1>2, <1>3, <1>4 DEF Returns, ClientInv
<1>5. CASE ~(ok /\ r = "rest" /\ mode = "both")
  <2>1. cpc' = "exited" /\ exit' = IF ok THEN 0 ELSE 1
    BY <1>5 DEF Returns, Exits
  <2>2. ok => \A s \in Asked : reply[s] = "ok"
    BY <1>1, <1>5 DEF ClientInv, Asked, Requests
  <2> QED  BY <1>2, <1>3, <2>1, <2>2 DEF ClientInv
<1> QED  BY <1>4, <1>5

\* Only Accept starts a request.
LEMMA GatewayKeepsIdle ==
    ASSUME GP!GatewayInv, NEW q \in Requests, gpc[q] = "idle",
           \/ \E r \in Requests : G!Handle(r) \/ G!Resend(r, 1) \/ G!OrphanSettles(r, 1)
           \/ G!Signal \/ G!Main \/ G!Crash
    PROVE  gpc'[q] = "idle"
<1>1. DOMAIN gpc = Requests
  BY DEF GP!GatewayInv, GP!TypeOK
<1>2. ASSUME NEW r \in Requests, gpc[r] # "idle", NEW v, gpc' = [gpc EXCEPT ![r] = v]
      PROVE  gpc'[q] = "idle"
  BY <1>1, <1>2
<1>3. ASSUME NEW r \in Requests, G!Handle(r)
      PROVE  gpc'[q] = "idle"
  <2>1. gpc[r] # "idle"
    BY <1>3 DEF G!Handle, G!Authorize, G!ReadFails, G!Reject, G!AcceptEmpty, G!BeginPublish,
       G!PublishGone, G!PublishStart, G!PublishLock, G!EnterWrite, G!WriteOK, G!WriteErr, G!WriteAbandoned
  <2>2. \E v : gpc' = [gpc EXCEPT ![r] = v]
    BY <1>3 DEF G!Handle, G!Authorize, G!ReadFails, G!Reject, G!AcceptEmpty, G!BeginPublish,
       G!PublishGone, G!PublishStart, G!PublishLock, G!EnterWrite, G!WriteOK, G!WriteErr,
       G!WriteAbandoned, G!Advance, G!StopAtFirstError, G!Failed, G!Replied
  <2> QED  BY <1>2, <2>1, <2>2
<1>4. CASE G!Signal \/ G!Main \/ G!Crash
  BY <1>1, <1>4 DEF G!Signal, G!Main, G!ShutdownReturns, G!GracefulStopReturns,
     G!BusCloseReturns, G!Closed, G!MainReturns, G!Crash, G!Stop, G!requestVars, G!Idle
<1>5. ASSUME NEW r \in Requests, G!Resend(r, 1) \/ G!OrphanSettles(r, 1)
      PROVE  gpc'[q] = "idle"
  BY <1>5 DEF G!Resend, G!OrphanSettles
<1> QED  BY <1>3, <1>4, <1>5

-----------------------------------------------------------------------------
(* The steps of the composition. *)

\* A step of the gateway, alone or together with the client.
LEMMA GatewayActs ==
    ASSUME PipelineInv, G!Next, Land, UNCHANGED writerVars, ClientInv'
    PROVE  PipelineInv'
<1>0. GP!GatewayInv /\ WP!IndInv /\ LandingInv /\ ClientInv
  BY DEF PipelineInv
<1>1. GP!Next
  BY SameGatewayStep
<1>2. GP!GatewayInv'
  BY <1>0, <1>1, GP!NextInv, GatewayInstanceAssumptions, Zenon
<1>3. LandingInv'
  BY <1>0, <1>1, <1>2, GatewayKeepsLanding
<1>4. TopicInv' /\ WP!LogGrows
  BY <1>1, <1>2, <1>3, GatewayKeepsTopic
<1>5. faults' \in 0..MaxFaults
  BY <1>0, <1>1, <1>2, GatewayLands
<1>6. WP!IndInv'
  BY <1>0, <1>4, <1>5, OthersKeepWriters
<1> QED  BY <1>2, <1>3, <1>4, <1>6 DEF PipelineInv

\* A step of the client that reaches neither service.
LEMMA ClientActs ==
    ASSUME PipelineInv, UNCHANGED <<gatewayVars, writerVars, topicVars>>,
           UNCHANGED faults \/ G!Fault, ClientInv'
    PROVE  PipelineInv'
<1>0. GP!GatewayInv /\ WP!IndInv /\ LandingInv /\ TopicInv
  BY DEF PipelineInv
<1>1. faults' \in 0..MaxFaults /\ faults <= faults'
  <2>1. faults \in 0..MaxFaults /\ MaxFaults \in Nat
    BY <1>0, ServiceTypes
  <2> QED  BY <2>1 DEF G!Fault
<1>2. UNCHANGED gatewayVars /\ UNCHANGED writerVars /\ UNCHANGED <<topic, log, origin>>
  BY DEF gatewayVars, writerVars, topicVars
<1>3. GP!GatewayInv'
  BY <1>0, <1>1, <1>2, OthersKeepGateway
<1>4. LandingInv'
  BY <1>0, <1>1, <1>2, FaultsKeepLanding
<1>5. TopicInv'
  BY <1>0, <1>2, RestKeepsTopic
<1>6. WP!LogGrows
  BY <1>0, <1>2, NoGrowth
<1>7. WP!IndInv'
  BY <1>0, <1>1, <1>2, <1>6, OthersKeepWriters
<1> QED  BY <1>3, <1>4, <1>5, <1>7 DEF PipelineInv

\* A step of the writers keeps the invariant.
LEMMA WritersAct == ASSUME PipelineInv, WriterStep PROVE PipelineInv'
<1>0. GP!GatewayInv /\ WP!IndInv /\ LandingInv /\ TopicInv /\ ClientInv
  BY DEF PipelineInv
<1>1. /\ W!Group \/ \E w \in Writers : W!Process(w)
      /\ UNCHANGED clientVars /\ UNCHANGED gatewayVars /\ UNCHANGED origin
  BY DEF WriterStep
<1>2. WP!IndInv'
  <2>1. WP!Next
    BY <1>1, SameWriterStep
  <2> QED  BY <1>0, <2>1, WP!NextInv, WriterInstanceAssumptions, Zenon
<1>3. log' = log /\ faults <= faults'
  BY <1>0, <1>1, WritersOnlyRead
<1>4. faults' \in 0..MaxFaults
  BY <1>2 DEF WP!IndInv, WP!TypeOK, WP!VarTypes
<1>5. GP!GatewayInv'
  BY <1>0, <1>1, <1>4, OthersKeepGateway
<1>6. LandingInv'
  BY <1>0, <1>1, <1>3, <1>4, FaultsKeepLanding
<1>7. UNCHANGED <<topic, gpc, reply>>
  BY <1>1 DEF gatewayVars
<1>8. TopicInv'
  BY <1>0, <1>1, <1>3, <1>7, RestKeepsTopic
<1>9. ClientInv'
  BY <1>0, <1>1, <1>7, WaitingClient
<1> QED  BY <1>2, <1>5, <1>6, <1>8, <1>9 DEF PipelineInv

\* A request the gateway accepts, its body, or one that the connection takes down.
LEMMA ClientMeetsGateway ==
    ASSUME PipelineInv, NEW r \in Requests, Send(r) \/ SendBody(r) \/ Disconnected(r)
    PROVE  PipelineInv'
<1>0. ClientInv /\ GP!GatewayInv /\ r \in Requests
  BY DEF PipelineInv
<1>1. G!Next /\ UNCHANGED writerVars
  BY DEF Send, SendBody, Disconnected, G!Next
<1>2. Land
  BY DEF Send, SendBody, Disconnected, G!Accept, G!BodyArrives, G!Disconnect, Land
<1>3. ClientInv'
  <2>1. CASE Send(r) \/ SendBody(r)
    <3>1. /\ UNCHANGED clientVars /\ reply' = reply /\ (cpc = r \/ gpc[r] # "idle")
          /\ \E v : gpc' = [gpc EXCEPT ![r] = v]
      BY <2>1 DEF Send, SendBody, G!Accept, G!BodyArrives
    <3>2. \A q \in Requests : gpc'[q] # "idle" => gpc[q] # "idle" \/ cpc = q
      BY <3>1
    <3> QED  BY <1>0, <3>1, <3>2, WaitingClient
  <2>2. CASE Disconnected(r)
    <3>1. cpc = r /\ Returns(r, FALSE) /\ UNCHANGED <<gpc, reply>>
      BY <2>2 DEF Disconnected, G!Disconnect
    <3> QED  BY <1>0, <3>1, ReturningClient
  <2> QED  BY <2>1, <2>2
<1> QED  BY <1>1, <1>2, <1>3, GatewayActs

\* A step of the gateway, with what it adds to the topic, keeps the invariant.
LEMMA GatewayStepInv == ASSUME PipelineInv, GatewayStep PROVE PipelineInv'
<1>0. ClientInv /\ GP!GatewayInv
  BY DEF PipelineInv
<1>1. 1 \in G!Indices
  BY DEF G!Indices
<1>2. G!Next
  BY <1>1 DEF GatewayStep, G!Next
<1>3. Land /\ UNCHANGED writerVars /\ UNCHANGED clientVars
  BY DEF GatewayStep
<1>4. \A r \in Requests : reply[r] = "ok" => reply'[r] = "ok"
  <2>1. GP!Next
    BY <1>2, SameGatewayStep
  <2>2. \A r \in Requests : reply[r] # "none" => reply'[r] = reply[r]
    BY <1>0, <2>1, GP!AnswersStay, GatewayInstanceAssumptions, Zenon
  <2> QED  BY <2>2
<1>5. \A r \in Requests : gpc[r] = "idle" => gpc'[r] = "idle"
  BY <1>0, GatewayKeepsIdle DEF GatewayStep
<1>6. ClientInv'
  BY <1>0, <1>3, <1>4, <1>5, WaitingClient
<1> QED  BY <1>2, <1>3, <1>6, GatewayActs

\* Every step keeps the invariant.
LEMMA NextInv == PipelineInv /\ [Next]_vars => PipelineInv'
<1> SUFFICES ASSUME PipelineInv, [Next]_vars PROVE PipelineInv'
  OBVIOUS
<1>0. ClientInv
  BY DEF PipelineInv
<1>1. CASE Begin
  <2>1. /\ UNCHANGED <<gatewayVars, writerVars, topicVars>> /\ UNCHANGED faults
        /\ UNCHANGED <<gpc, reply>> /\ mode' = mode
    BY <1>1 DEF Begin, Exits, gatewayVars
  <2>2. ClientInv'
    <3>1. Asked' = Asked
      BY <2>1 DEF Asked
    <3> QED  BY <1>0, <1>1, <2>1, <3>1 DEF ClientInv, Begin, Exits
  <2> QED  BY <2>1, <2>2, ClientActs
<1>2. ASSUME NEW r \in Requests, Answered(r) \/ Unanswered(r) \/ NotSent(r)
      PROVE  PipelineInv'
  <2>1. /\ cpc = r /\ UNCHANGED <<gatewayVars, writerVars, topicVars>>
        /\ UNCHANGED faults \/ G!Fault
    BY <1>2 DEF Answered, Unanswered, NotSent
  <2>2. PICK ok \in BOOLEAN : Returns(r, ok) /\ (ok => reply[r] = "ok")
    BY <1>2 DEF Answered, Unanswered, NotSent, StatusOK
  <2>3. UNCHANGED <<gpc, reply>>
    BY <2>1 DEF gatewayVars
  <2>4. ClientInv'
    BY <1>0, <2>1, <2>2, <2>3, ReturningClient
  <2> QED  BY <2>1, <2>4, ClientActs
<1>3. CASE UNCHANGED vars
  <2>1. UNCHANGED <<gatewayVars, writerVars, topicVars>> /\ UNCHANGED faults /\ UNCHANGED clientVars
    BY <1>3 DEF vars
  <2>2. UNCHANGED <<gpc, reply>>
    BY <2>1 DEF gatewayVars
  <2>3. ClientInv'
    BY <1>0, <2>1, <2>2, WaitingClient
  <2> QED  BY <2>1, <2>3, ClientActs
<1> QED  BY <1>1, <1>2, <1>3, ClientMeetsGateway, GatewayStepInv, WritersAct
         DEF Next, Client

\* The client has not started, the topic and the table are empty.
LEMMA InitInv == Init => PipelineInv
<1> SUFFICES ASSUME Init PROVE PipelineInv
  OBVIOUS
<1>0. /\ G!Init /\ W!Init
      /\ mode \in Modes /\ cpc = "start" /\ exit = -1
      /\ origin = [p \in Partitions |-> <<>>]
  BY DEF Init
<1>1. GP!GatewayInv
  <2>1. GP!Init
    BY <1>0, SameGatewayState
  <2> QED  BY <2>1, GP!InitInv, GatewayInstanceAssumptions, Zenon
<1>2. WP!IndInv
  <2>1. WP!Init
    BY <1>0, SameWriterState
  <2> QED  BY <2>1, WP!InitInv, WriterInstanceAssumptions, Zenon
<1>3. /\ "rest" \in Requests /\ "otlp" \in Requests
      /\ \A r \in Requests : topic[r][1] = 0 /\ gpc[r] = "idle" /\ reply[r] = "none"
      /\ faults = 0
  <2>1. 1 \in G!Indices
    BY DEF G!Indices
  <2> QED  BY <1>0, <2>1 DEF G!Init, Requests
<1>4. LandingInv
  <2>1. \A r : Pending(r) \in {0, 1}
    BY DEF Pending
  <2> QED  BY <1>3, <2>1 DEF LandingInv
<1>5. TopicInv
  <2>1. \A p \in Partitions : origin[p] = <<>> /\ log[p] = <<>> /\ Len(<<>>) = 0
    BY <1>0 DEF W!Init
  <2>2. origin \in [Partitions -> Seq(Requests)]
    <3>1. <<>> \in Seq(Requests)
      OBVIOUS
    <3>2. \A p \in Partitions : origin[p] \in Seq(Requests)
      BY <2>1, <3>1, Zenon
    <3> QED  BY <1>0, <3>2
  <2>3. ASSUME NEW r \in Requests PROVE Copies(r) = {}
    BY <2>1 DEF Copies, W!Message, W!Offsets
  <2>4. IsFiniteSet({}) /\ Cardinality({}) = 0
    BY FS_EmptySet
  <2>5. ASSUME NEW p \in Partitions
        PROVE  /\ Len(origin[p]) = Len(log[p])
               /\ Len(log[p]) <= topic["rest"][1] + topic["otlp"][1]
    <3>1. Len(origin[p]) = 0 /\ Len(log[p]) = 0
      BY <2>1, Zenon
    <3>2. topic["rest"][1] = 0 /\ topic["otlp"][1] = 0
      BY <1>3
    <3> QED  BY <3>1, <3>2
  <2>6. \A r \in Requests : IsFiniteSet(Copies(r)) /\ Cardinality(Copies(r)) = topic[r][1]
    BY <1>3, <2>3, <2>4
  <2> QED  BY <2>2, <2>5, <2>6 DEF TopicInv
<1>6. ClientInv
  BY <1>0, <1>3 DEF ClientInv
<1> QED  BY <1>1, <1>2, <1>4, <1>5, <1>6 DEF PipelineInv

-----------------------------------------------------------------------------
(* The theorems. *)

\* The services keep their invariants when they are composed over the topic, and
\* the topic and the client's belief about it agree with them.
THEOREM PipelineInvariant == Spec => []PipelineInv
BY InitInv, NextInv, PTL DEF Spec

\* Types, and what the gateway has landed is on the log the writers read,
\* event by event.
THEOREM TypeOKHolds == Spec => []TypeOK
<1>1. PipelineInv => TypeOK
  BY SameGatewayState, SameWriterState
  DEF PipelineInv, GP!GatewayInv, WP!IndInv, TopicInv, ClientInv, TypeOK
<1> QED  BY <1>1, PipelineInvariant, PTL

\* An event answered with success has a copy on the topic.
LEMMA OKHasCopy ==
    ASSUME PipelineInv, NEW r \in Requests, reply[r] = "ok"
    PROVE  Copies(r) # {}
<1>1. GP!GatewayInv /\ TopicInv
  BY DEF PipelineInv
<1>2. topic[r][1] > 0
  <2>1. Len(input[r].records) = 1
    BY <1>1, ServiceTypes
  <2>2. 1 \in 1..Len(input[r].records)
    BY <2>1
  <2> QED  BY <1>1, <2>2 DEF GP!GatewayInv, GP!RequestInv
<1>3. Cardinality(Copies(r)) # 0
  BY <1>1, <1>2 DEF TopicInv
<1>4. Cardinality({}) = 0
  BY FS_EmptySet
<1> QED  BY <1>3, <1>4

\* What the sample client reports as sent (main.go:52) is in the table, or on
\* the topic ahead of the group's offset: the gateway's acknowledgement
\* (publishEvents, Redpanda.Publish) and the writers' commits (flush) together,
\* under every interleaving, crash and lost answer.
THEOREM SentIsNotLostHolds == Spec => []SentIsNotLost
<1>1. PipelineInv => SentIsNotLost
  <2> SUFFICES ASSUME PipelineInv, NEW r \in Asked, reply[r] = "ok" \/ exit = 0
               PROVE  \E m \in Copies(r) : W!Stored(m) \/ m.offset > committed[m.part]
    BY DEF SentIsNotLost
  <2>1. r \in Requests
    BY DEF Asked
  <2>2. reply[r] = "ok"
    BY DEF PipelineInv, ClientInv
  <2>3. PICK m \in Copies(r) : TRUE
    BY <2>1, <2>2, OKHasCopy
  <2>4. /\ m \in W!Message /\ m.part \in Partitions /\ m.offset \in Int
    BY <2>3 DEF Copies, W!Message, W!Offsets
  <2>5. W!CommittedIsStored /\ committed \in [Partitions -> 0..MaxOffset]
    BY SameWriterState DEF PipelineInv, W!IndInv, W!DataInv, W!TypeOK, W!VarTypes
  <2>6. committed[m.part] \in Int
    BY <2>4, <2>5
  <2>7. m.offset <= committed[m.part] => W!Stored(m)
    BY <2>4, <2>5 DEF W!CommittedIsStored
  <2> QED  BY <2>3, <2>4, <2>6, <2>7
<1> QED  BY <1>1, PipelineInvariant, PTL

\* In mode "both" (sample-client/main.go:46-49) no failure leaves the OTLP event
\* on the topic without the REST event.
THEOREM OTLPNeedsRESTHolds == Spec => []OTLPNeedsREST
<1>1. PipelineInv => OTLPNeedsREST
  <2> SUFFICES ASSUME PipelineInv, mode = "both",
                      Copies("otlp") # {} \/ <<"otlp", 1>> \in orphans
               PROVE  Copies("rest") # {}
    BY DEF OTLPNeedsREST
  <2>0. GP!GatewayInv /\ TopicInv /\ ClientInv /\ "otlp" \in Requests /\ "rest" \in Requests
    BY DEF PipelineInv, Requests
  <2>1. GP!Trace("otlp", 1)
    <3>1. CASE Copies("otlp") # {}
      <4>1. IsFiniteSet(Copies("otlp")) /\ Cardinality(Copies("otlp")) = topic["otlp"][1]
        BY <2>0 DEF TopicInv
      <4>2. topic["otlp"][1] # 0
        BY <3>1, <4>1, FS_EmptySet
      <4>3. topic["otlp"][1] \in Nat
        BY <2>0, ServiceTypes
      <4> QED  BY <4>2, <4>3 DEF GP!Trace
    <3> QED  BY <3>1 DEF GP!Trace
  <2>2. next["otlp"] # 0
    <3>1. GP!RequestInv("otlp") /\ 1 \in GP!Indices
      BY <2>0, ServiceTypes DEF GP!GatewayInv
    <3>2. 1 <= next["otlp"]
      BY <2>1, <3>1 DEF GP!RequestInv
    <3> QED  BY <3>2
  <2>3. gpc["otlp"] # "idle"
    BY <2>0, <2>2 DEF GP!GatewayInv, GP!RequestInv
  <2>4. reply["rest"] = "ok"
    BY <2>0, <2>3 DEF ClientInv
  <2> QED  BY <2>0, <2>4, OKHasCopy
<1> QED  BY <1>1, PipelineInvariant, PTL

-----------------------------------------------------------------------------
(* The rows of an event. *)

\* How SumFunctionOnSet picks the next element.
Pick(S) == CHOOSE x \in S : TRUE

\* Folds by addition.
Sum == INSTANCE FoldInduction WITH op <- +, base <- 0, choose <- Pick

\* SumFunctionOnSet is such a fold.
LEMMA SumIsFold ==
    ASSUME NEW f, NEW S
    PROVE  SumFunctionOnSet(f, S) = Sum!Fold(f, S)
BY DEF SumFunctionOnSet, FoldFunctionOnSet, Pick, MapThenFoldSet, Sum!Fold, Sum!Solves

\* Addition of natural numbers is what FoldInduction calls a sum.
LEMMA AdditionIsSum == Sum!IsSum
BY DEF Sum!IsSum, Pick

\* Finite sets are the same in the instance.
LEMMA SameFinite ==
    ASSUME NEW S, IsFiniteSet(S)
    PROVE  /\ Sum!IsFiniteSet(S) /\ Sum!Cardinality(S) = Cardinality(S)
           /\ Sum!Chooses(S) /\ S \in SUBSET S
BY DEF IsFiniteSet, Sum!IsFiniteSet, Cardinality, Sum!Cardinality, Sum!Chooses, Pick

\* The weight of each message: its rows, and those it may come to have without a
\* further fault.
Weights == [m \in W!Message |-> WP!Weight(m)]

\* The sets of copies that r has, or may have after its next landing.
MayHave(r, T) ==
    \/ T = Copies(r)
    \/ GP!MayLand(r, 1) /\ \E m \in Fresh : m \notin Copies(r) /\ T = Copies(r) \cup {m}

\* The inductive strengthening of RowsPerEvent: also with the copy that may land
\* next, which a resend needs, an event weighs no more than the bound.
RowsInv ==
    /\ WP!WeightInv
    /\ \A r \in Requests, T \in SUBSET W!Message :
         MayHave(r, T) => SumFunctionOnSet(Weights, T) <= 2 ^ (faults + revokes)

\* The writers' messages are those of the composition, and they have weights.
LEMMA WeightsAre ==
    WP!IndInv => /\ W!Message = WP!Message
                 /\ \A m \in W!Message : Weights[m] = WP!Weight(m) /\ Weights[m] \in Nat
                 /\ \A r \in Requests : Copies(r) \subseteq W!Message
<1>1. W!Message = WP!Message
  BY DEF W!Message, WP!Message, W!Offsets, WP!Offsets
<1>2. WP!IndInv => \A m \in WP!Message : WP!Weight(m) \in Nat
  BY WP!WeightTypes, WriterInstanceAssumptions, Zenon
<1>3. \A m \in W!Message : Weights[m] = WP!Weight(m)
  BY DEF Weights
<1>4. \A r \in Requests : Copies(r) \subseteq W!Message
  BY DEF Copies
<1> QED  BY <1>1, <1>2, <1>3, <1>4

\* The same, after a step.
LEMMA WeightsAreNext ==
    WP!IndInv' => (/\ W!Message = WP!Message
                   /\ \A m \in W!Message : Weights[m] = WP!Weight(m) /\ Weights[m] \in Nat
                   /\ \A r \in Requests : Copies(r) \subseteq W!Message)'
BY WeightsAre, PTL

\* The counts of faults and revocations.
LEMMA CountTypes == WP!IndInv => faults \in Nat /\ revokes \in Nat
BY ServicesAssumption DEF WP!IndInv, WP!TypeOK, WP!VarTypes

\* The same, after a step.
LEMMA CountTypesNext == WP!IndInv' => (faults \in Nat /\ revokes \in Nat)'
BY CountTypes, PTL

\* A bound that held for fewer faults holds for more.
LEMMA MoreFaults ==
    ASSUME NEW x \in Nat, NEW k \in Nat, NEW n \in Nat, k <= n, x <= 2 ^ k
    PROVE  x <= 2 ^ n
<1> DEFINE a == 2 ^ k
           b == 2 ^ n
<1>1. a \in Nat /\ b \in Nat /\ a <= b /\ x <= a
  BY Sum!PowerGrows, Sum!PowerDoubles
<1> HIDE DEF a, b
<1>2. x <= b
  BY <1>1
<1> QED  BY <1>2 DEF b

\* A doubled weight stays below the next power.
LEMMA TwiceTheWeight ==
    ASSUME NEW x \in Nat, NEW y \in Nat, NEW k \in Nat, NEW n \in Nat, n = k + 1,
           x <= 2 ^ k, y <= 2 * x
    PROVE  y <= 2 ^ n
<1> DEFINE a == 2 ^ k
           b == 2 ^ n
<1>1. a \in Nat /\ b = 2 * a /\ x <= a
  BY Sum!PowerDoubles
<1> HIDE DEF a, b
<1>2. y <= b
  BY <1>1
<1> QED  BY <1>2 DEF b

\* The copies an event may have are finitely many.
LEMMA MayHaveFinite ==
    ASSUME TopicInv, NEW r \in Requests, NEW T, MayHave(r, T)
    PROVE  IsFiniteSet(T)
<1>1. IsFiniteSet(Copies(r))
  BY DEF TopicInv
<1> QED  BY <1>1, FS_AddElement DEF MayHave

\* What the gateway does to the copies an event may have: these are among those it
\* might have had, or the step is a fault, and a further one came after that.
HavingStep(r, T) ==
    \/ MayHave(r, T)
    \/ /\ faults' = faults + 1
       /\ \E S \in SUBSET W!Message, m \in W!Message :
             MayHave(r, S) /\ m \notin S /\ T = S \cup {m}

\* A step that leaves the writers alone keeps the weights.
LEMMA OthersKeepRows ==
    ASSUME WP!IndInv, WP!IndInv', TopicInv, TopicInv', RowsInv, UNCHANGED writerVars,
           faults <= faults',
           \A r \in Requests, T \in SUBSET W!Message : MayHave(r, T)' => HavingStep(r, T)
    PROVE  RowsInv'
<1>0. UNCHANGED <<committed, owner, pos, rows, pc, buf, cancelled, revokes>>
  BY DEF writerVars
<1> DEFINE k == faults + revokes
           n == faults' + revokes'
<1>1. k \in Nat /\ n \in Nat /\ k <= n /\ (faults' = faults + 1 => n = k + 1)
  BY <1>0, CountTypes, CountTypesNext
<1>2. \A m \in WP!Message : WP!Weight(m)' = WP!Weight(m)
  BY <1>0, WP!SameWeight, WriterInstanceAssumptions, Zenon
<1>3. \A m \in WP!Message : WP!Weight(m) \in Nat /\ WP!Weight(m) <= 2 ^ k
  BY WeightsAre DEF RowsInv, WP!WeightInv
<1>4. WP!PingInv'
  BY <1>0 DEF RowsInv, WP!WeightInv, WP!PingInv
<1>5. ASSUME NEW m \in WP!Message PROVE WP!Weight(m)' <= 2 ^ n
  <2> DEFINE x == WP!Weight(m)
  <2>1. x \in Nat /\ x <= 2 ^ k /\ WP!Weight(m)' = x
    BY <1>2, <1>3, Zenon
  <2> HIDE DEF x, k, n
  <2>2. x <= 2 ^ n
    BY <1>1, <2>1, MoreFaults
  <2> QED  BY <2>1, <2>2
<1>6. WP!WeightInv'
  BY <1>4, <1>5 DEF WP!WeightInv, WP!Message, WP!Offsets
<1>a. W!Message' = W!Message
  BY DEF W!Message, W!Offsets
<1>7. ASSUME NEW r \in Requests, NEW T \in SUBSET W!Message, MayHave(r, T)'
      PROVE  SumFunctionOnSet(Weights', T) <= 2 ^ n
  <2> DEFINE f == Weights
             g == Weights'
  <2>1. \A m \in W!Message : f[m] \in Nat /\ f[m] = g[m] /\ f[m] <= 2 ^ k
    <3>1. ASSUME NEW m \in W!Message
          PROVE  f[m] = WP!Weight(m) /\ g[m] = WP!Weight(m)' /\ m \in WP!Message
      BY <1>a, WeightsAre, WeightsAreNext
    <3> HIDE DEF f, g, k
    <3> QED  BY <1>2, <1>3, <3>1
  <2>2. \A S \in SUBSET W!Message : MayHave(r, S) => SumFunctionOnSet(f, S) <= 2 ^ k
    BY DEF RowsInv
  <2>3. HavingStep(r, T)
    BY <1>7
  <2>4. \A S \in SUBSET W!Message : MayHave(r, S) => IsFiniteSet(S)
    BY MayHaveFinite
  <2>5. 2 ^ k \in Nat
    BY <1>1, Sum!PowerDoubles
  <2> HIDE DEF f, g, k, n
  <2>6. ASSUME NEW S \in SUBSET W!Message, MayHave(r, S)
        PROVE  /\ Sum!IsFiniteSet(S) /\ \A m \in S : f[m] \in Nat
               /\ Sum!Fold(f, S) \in Nat /\ Sum!Fold(f, S) <= 2 ^ k
    <3>1. IsFiniteSet(S)
      BY <2>4, <2>6
    <3>2. Sum!IsFiniteSet(S) /\ S \in SUBSET S /\ \A m \in S : f[m] \in Nat
      BY <2>1, <3>1, SameFinite
    <3>3. Sum!Fold(f, S) \in Nat
      BY <3>2, AdditionIsSum, Sum!SumType
    <3>4. Sum!Fold(f, S) <= 2 ^ k
      BY <2>2, <2>6, SumIsFold
    <3> QED  BY <3>2, <3>3, <3>4
  <2> DEFINE x == Sum!Fold(f, T)
             y == Sum!Fold(g, T)
  <2>7. x \in Nat /\ x <= 2 ^ n /\ Sum!IsFiniteSet(T) /\ Sum!Chooses(T)
    <3>1. CASE MayHave(r, T)
      <4>1. x \in Nat /\ x <= 2 ^ k /\ Sum!IsFiniteSet(T) /\ IsFiniteSet(T)
        BY <2>4, <2>6, <3>1
      <4>2. Sum!Chooses(T)
        BY <4>1, SameFinite
      <4> HIDE DEF x
      <4>3. x <= 2 ^ n
        BY <1>1, <4>1, MoreFaults
      <4> QED  BY <4>1, <4>2, <4>3
    <3>2. ASSUME NEW S \in SUBSET W!Message, NEW m \in W!Message,
                 MayHave(r, S), m \notin S, T = S \cup {m}, faults' = faults + 1
          PROVE  x \in Nat /\ x <= 2 ^ n /\ Sum!IsFiniteSet(T) /\ Sum!Chooses(T)
      <4> DEFINE z == Sum!Fold(f, S)
                 a == 2 ^ k
      <4>1. Sum!IsFiniteSet(S) /\ (\A e \in S : f[e] \in Nat) /\ z \in Nat /\ z <= a
        BY <2>6, <3>2
      <4>2. f[m] \in Nat /\ f[m] <= a /\ a \in Nat
        BY <2>1, <2>5
      <4>3. Sum!Fold(f, S \cup {m}) = z + f[m]
        BY <3>2, <4>1, <4>2, AdditionIsSum, Sum!SumIn
      <4>4. x = z + f[m]
        BY <3>2, <4>3, Zenon
      <4>5. IsFiniteSet(T)
        BY <2>4, <3>2, FS_AddElement
      <4>6. Sum!IsFiniteSet(T) /\ Sum!Chooses(T)
        BY <4>5, SameFinite
      <4>7. n = k + 1
        BY <1>1, <3>2
      <4> HIDE DEF x, z, a
      <4>8. x \in Nat /\ x <= 2 * a /\ a <= a
        BY <4>1, <4>2, <4>4
      <4>9. x <= 2 ^ n
        BY <1>1, <4>2, <4>7, <4>8, TwiceTheWeight DEF a
      <4> QED  BY <4>6, <4>8, <4>9
    <3> QED  BY <2>3, <3>1, <3>2 DEF HavingStep
  <2>8. \A m \in T : f[m] = g[m]
    BY <2>1
  <2>9. x = y
    BY <2>7, <2>8, Sum!FoldDepends
  <2> HIDE DEF x, y
  <2>10. y <= 2 ^ n
    BY <2>7, <2>9
  <2> QED  BY <2>10, SumIsFold DEF y, g
<1>8. \A r \in Requests, T \in SUBSET W!Message' :
         MayHave(r, T)' => SumFunctionOnSet(Weights', T) <= 2 ^ n
  BY <1>7, <1>a
<1> QED  BY <1>6, <1>8 DEF RowsInv

\* A step of the gateway: a further copy costs a fault.
LEMMA GatewayKeepsRows ==
    ASSUME PipelineInv, PipelineInv', RowsInv, G!Next, Land, UNCHANGED writerVars
    PROVE  RowsInv'
<1>0. /\ GP!GatewayInv /\ WP!IndInv /\ WP!IndInv' /\ TopicInv /\ TopicInv' /\ ClientInv
      /\ GP!GatewayInv' /\ LandingInv'
  BY DEF PipelineInv
<1>1. GP!Next
  BY SameGatewayStep
<1>2. /\ faults <= faults'
      /\ \A r \in Requests : GP!MayLand(r, 1)' => GP!MayLand(r, 1)
      /\ \A r \in Requests : topic'[r] # topic[r] =>
            GP!MayLand(r, 1) /\ (~GP!MayLand(r, 1)' \/ faults' = faults + 1)
  BY <1>0, <1>1, GatewayLands
<1>3. WP!LogGrows /\ \A r \in Requests : CopiesStep(r)
  BY <1>0, <1>1, GatewayKeepsTopic
<1>4. Fresh' \subseteq Fresh /\ Fresh \subseteq W!Message
  <2>1. ASSUME NEW m \in W!Message, m.offset > Len(origin'[m.part])
        PROVE  m.offset > Len(origin[m.part])
    <3>1. m.part \in Partitions /\ m.offset \in Int
      BY DEF W!Message, W!Offsets
    <3>2. /\ Len(origin[m.part]) = Len(log[m.part]) /\ Len(log[m.part]) \in Nat
          /\ Len(origin'[m.part]) = Len(log'[m.part])
      BY <1>0, <3>1 DEF TopicInv, WP!IndInv, WP!TypeOK, WP!VarTypes
    <3>3. Len(log[m.part]) <= Len(log'[m.part]) /\ Len(log'[m.part]) \in Nat
      BY <1>3, <3>1 DEF WP!LogGrows
    <3> QED  BY <2>1, <3>1, <3>2, <3>3
  <2> QED  BY <2>1 DEF Fresh, W!Message, W!Offsets
<1>5. ASSUME NEW r \in Requests, NEW T \in SUBSET W!Message, MayHave(r, T)'
      PROVE  HavingStep(r, T)
  <2>1. \/ T = Copies(r)'
        \/ GP!MayLand(r, 1)' /\ \E m \in Fresh' : m \notin Copies(r)' /\ T = Copies(r)' \cup {m}
    BY <1>5 DEF MayHave
  <2>2. CASE topic'[r] = topic[r]
    <3>1. Copies(r)' = Copies(r)
      BY <1>3, <2>2 DEF CopiesStep
    <3> QED  BY <1>2, <1>4, <2>1, <3>1 DEF HavingStep, MayHave
  <2>3. CASE topic'[r] # topic[r]
    <3>1. MayHave(r, Copies(r)')
      <4>1. PICK m \in Fresh : m \notin Copies(r) /\ Copies(r)' = Copies(r) \cup {m}
        BY <1>3, <2>3 DEF CopiesStep
      <4> QED  BY <1>2, <2>3, <4>1 DEF MayHave
    <3>2. CASE T = Copies(r)'
      BY <3>1, <3>2 DEF HavingStep
    <3>3. ASSUME GP!MayLand(r, 1)',
                 NEW m \in Fresh', m \notin Copies(r)', T = Copies(r)' \cup {m}
          PROVE  HavingStep(r, T)
      <4>1. faults' = faults + 1
        BY <1>2, <2>3, <3>3
      <4>2. m \in W!Message /\ Copies(r)' \in SUBSET W!Message
        BY <1>4, <3>3
      <4> QED  BY <3>1, <3>3, <4>1, <4>2 DEF HavingStep
    <3> QED  BY <2>1, <3>2, <3>3
  <2> QED  BY <2>2, <2>3
<1> QED  BY <1>0, <1>2, <1>5, OthersKeepRows

\* A step that leaves the gateway and the topic alone.
LEMMA SameHaving ==
    ASSUME UNCHANGED <<gatewayVars, origin>>, NEW r, NEW T
    PROVE  MayHave(r, T)' <=> MayHave(r, T)
<1>1. Copies(r)' = Copies(r) /\ Fresh' = Fresh
  BY DEF Copies, Fresh, W!Message, W!Offsets
<1>2. GP!MayLand(r, 1)' <=> GP!MayLand(r, 1)
  BY DEF gatewayVars, GP!MayLand
<1> QED  BY <1>1, <1>2 DEF MayHave

\* A step of the client alone.
LEMMA ClientKeepsRows ==
    ASSUME PipelineInv, PipelineInv', RowsInv, UNCHANGED <<gatewayVars, writerVars, topicVars>>,
           UNCHANGED faults \/ G!Fault
    PROVE  RowsInv'
<1>0. WP!IndInv /\ WP!IndInv' /\ TopicInv /\ TopicInv' /\ UNCHANGED writerVars
  BY DEF PipelineInv
<1>1. faults <= faults'
  <2>1. faults \in Nat
    BY <1>0, CountTypes
  <2> QED  BY <2>1 DEF G!Fault
<1>2. \A r \in Requests, T \in SUBSET W!Message : MayHave(r, T)' => HavingStep(r, T)
  <2>1. UNCHANGED <<gatewayVars, origin>>
    BY DEF topicVars
  <2> QED  BY <2>1, SameHaving DEF HavingStep
<1> QED  BY <1>0, <1>1, <1>2, OthersKeepRows

\* A step of the writers: a fault at most doubles the weight of every copy.
LEMMA WritersKeepRows ==
    ASSUME PipelineInv, PipelineInv', RowsInv, WriterStep
    PROVE  RowsInv'
<1>0. WP!IndInv /\ WP!IndInv' /\ TopicInv /\ WP!WeightInv /\ WP!PingInv /\ WP!TypeOK'
  BY DEF PipelineInv, RowsInv, WP!WeightInv, WP!IndInv
<1>1. W!Group \/ \E w \in Writers : W!Process(w)
  BY DEF WriterStep
<1>2. WP!Next /\ (WP!Group \/ \E w \in Writers : WP!Process(w))
  BY <1>1, SameWriterStep
<1>3. WP!WeightInv'
  BY <1>0, <1>2, WP!WeightKept, WriterInstanceAssumptions, Zenon
<1>4. \A m \in WP!Message : WP!WeightStep(m)
  BY <1>0, <1>2, WP!StepWeighs, WriterInstanceAssumptions, Zenon
<1>5. WP!CountStep
  BY <1>0, <1>2, WP!StepCounts, WriterInstanceAssumptions, Zenon
<1> DEFINE k == faults + revokes
           n == faults' + revokes'
<1>6. k \in Nat /\ n \in Nat
  BY <1>0, CountTypes, CountTypesNext
<1>7. n = k \/ n = k + 1
  BY <1>5 DEF WP!CountStep, WP!FaultStep
<1>8. \A m \in WP!Message : \/ WP!Weight(m)' <= WP!Weight(m)
                            \/ n = k + 1 /\ WP!Weight(m)' <= 2 * WP!Weight(m)
  BY <1>4 DEF WP!WeightStep, WP!FaultStep
<1>9. ASSUME NEW r \in Requests, NEW S \in SUBSET W!Message, MayHave(r, S)'
      PROVE  SumFunctionOnSet(Weights', S) <= 2 ^ n
  <2> DEFINE f == Weights
             g == Weights'
  <2>2. MayHave(r, S)
    BY <1>9, SameHaving DEF WriterStep
  <2>1. IsFiniteSet(S) /\ S \subseteq W!Message
    BY <1>0, <2>2, MayHaveFinite
  <2>3. \A m \in W!Message : /\ f[m] \in Nat /\ g[m] \in Nat
                             /\ g[m] <= f[m] \/ (n = k + 1 /\ g[m] <= 2 * f[m])
    <3>1. W!Message' = W!Message
      BY DEF W!Message, W!Offsets
    <3>2. ASSUME NEW m \in W!Message
          PROVE  /\ f[m] = WP!Weight(m) /\ g[m] = WP!Weight(m)' /\ m \in WP!Message
                 /\ f[m] \in Nat /\ g[m] \in Nat
      BY <1>0, <3>1, WeightsAre, WeightsAreNext
    <3> HIDE DEF f, g, k, n
    <3> QED  BY <1>8, <3>2
  <2>4. SumFunctionOnSet(f, S) <= 2 ^ k
    BY <2>2 DEF RowsInv
  <2> HIDE DEF f, g, k, n
  <2> DEFINE x == Sum!Fold(f, S)
             y == Sum!Fold(g, S)
  <2>6. Sum!IsFiniteSet(S) /\ S \in SUBSET S
    BY <2>1, SameFinite
  <2>7. x \in Nat /\ y \in Nat
    BY <2>1, <2>3, <2>6, AdditionIsSum, Sum!SumType
  <2>8. x <= 2 ^ k
    BY <2>4, SumIsFold
  <2>9. CASE n = k
    <3>1. 1 \in {1, 2} /\ \A m \in S : f[m] \in Nat /\ g[m] \in Nat /\ g[m] <= 1 * f[m]
      BY <1>6, <2>1, <2>3, <2>9
    <3>2. y <= 1 * x
      BY <2>6, <3>1, AdditionIsSum, Sum!SumBound
    <3> HIDE DEF x, y
    <3>3. y <= x
      BY <2>7, <3>2
    <3> DEFINE b == 2 ^ k
    <3>4. b \in Nat /\ x <= b
      BY <1>6, <2>8, Sum!PowerDoubles
    <3> HIDE DEF b
    <3>5. y <= b
      BY <2>7, <3>3, <3>4
    <3> QED  BY <2>9, <3>5, SumIsFold DEF y, b, g
  <2>10. CASE n = k + 1
    <3>1. 2 \in {1, 2} /\ \A m \in S : f[m] \in Nat /\ g[m] \in Nat /\ g[m] <= 2 * f[m]
      BY <2>1, <2>3
    <3>2. y <= 2 * x
      BY <2>6, <3>1, AdditionIsSum, Sum!SumBound
    <3> HIDE DEF x, y
    <3>3. y <= 2 ^ n
      BY <1>6, <2>7, <2>8, <2>10, <3>2, TwiceTheWeight
    <3> QED  BY <3>3, SumIsFold DEF y, g
  <2> QED  BY <1>7, <2>9, <2>10
<1>10. \A r \in Requests, T \in SUBSET W!Message' :
          MayHave(r, T)' => SumFunctionOnSet(Weights', T) <= 2 ^ n
  BY <1>9 DEF W!Message, W!Offsets
<1> QED  BY <1>3, <1>10 DEF RowsInv

\* Every step of the composition.
LEMMA RowsKept ==
    ASSUME PipelineInv, PipelineInv', RowsInv, [Next]_vars
    PROVE  RowsInv'
<1>1. CASE Begin \/ UNCHANGED vars
  <2>1. UNCHANGED <<gatewayVars, writerVars, topicVars>> /\ UNCHANGED faults
    BY <1>1 DEF Begin, vars
  <2> QED  BY <2>1, ClientKeepsRows
<1>2. ASSUME NEW r \in Requests, Answered(r) \/ Unanswered(r) \/ NotSent(r)
      PROVE  RowsInv'
  <2>1. UNCHANGED <<gatewayVars, writerVars, topicVars>> /\ (UNCHANGED faults \/ G!Fault)
    BY <1>2 DEF Answered, Unanswered, NotSent
  <2> QED  BY <2>1, ClientKeepsRows
<1>3. ASSUME NEW r \in Requests, Send(r) \/ SendBody(r) \/ Disconnected(r)
      PROVE  RowsInv'
  <2>1. G!Next /\ UNCHANGED writerVars
    BY <1>3 DEF Send, SendBody, Disconnected, G!Next
  <2>2. Land
    BY <1>3 DEF Send, SendBody, Disconnected, G!Accept, G!BodyArrives, G!Disconnect, Land
  <2> QED  BY <2>1, <2>2, GatewayKeepsRows
<1>4. CASE GatewayStep
  <2>1. 1 \in G!Indices
    BY DEF G!Indices
  <2>2. G!Next /\ Land /\ UNCHANGED writerVars
    BY <1>4, <2>1 DEF GatewayStep, G!Next
  <2> QED  BY <2>2, GatewayKeepsRows
<1>5. CASE WriterStep
  BY <1>5, WritersKeepRows
<1> QED  BY <1>1, <1>2, <1>3, <1>4, <1>5 DEF Next, Client

\* Nothing has a row at first.
LEMMA InitRows == Init => RowsInv
<1> SUFFICES ASSUME Init PROVE RowsInv
  OBVIOUS
<1>1. W!Init /\ WP!Init
  BY SameWriterState DEF Init
<1>2. WP!WeightInv
  BY <1>1, WP!InitWeight, WriterInstanceAssumptions, Zenon
<1>3. WP!IndInv
  BY InitInv DEF PipelineInv
<1>4. ASSUME NEW r \in Requests, NEW T \in SUBSET W!Message, MayHave(r, T)
      PROVE  SumFunctionOnSet(Weights, T) <= 2 ^ (faults + revokes)
  <2>1. \A p \in Partitions : origin[p] = <<>>
    BY DEF Init
  <2>2. \A p \in Partitions : Len(origin[p]) = 0
    BY <2>1
  <2>3. Copies(r) = {}
    BY <2>2 DEF Copies, W!Message, W!Offsets
  <2>4. faults + revokes \in Nat
    BY <1>1 DEF W!Init
  <2> DEFINE k == faults + revokes
             b == 2 ^ k
             f == Weights
  <2>5. b \in Nat
    <3> HIDE DEF k
    <3> QED  BY <2>4, Sum!PowerDoubles DEF k
  <2>6. \A m \in W!Message : f[m] \in Nat /\ f[m] <= b
    BY <1>2, <1>3, WeightsAre DEF WP!WeightInv
  <2> HIDE DEF b, f
  <2>7. T = {} \/ \E m \in W!Message : T = {m}
    BY <1>4, <2>3 DEF MayHave, Fresh
  <2>8. CASE T = {}
    <3>1. SumFunctionOnSet(f, T) = 0
      BY <2>8, SumIsFold, AdditionIsSum, Sum!SumEmpty
    <3>2. 0 <= b
      BY <2>5
    <3> QED  BY <3>1, <3>2 DEF b, f
  <2>9. ASSUME NEW m \in W!Message, T = {m}
        PROVE  SumFunctionOnSet(f, T) <= b
    <3>1. IsFiniteSet(T) /\ Cardinality(T) = 1
      BY <2>9, FS_Singleton
    <3>2. Sum!IsFiniteSet(T) /\ Sum!Cardinality(T) = 1
      BY <3>1, SameFinite
    <3>3. \A e \in T : f[e] \in Nat /\ f[e] <= b
      BY <2>6
    <3>4. Sum!Fold(f, T) <= b
      BY <2>5, <3>2, <3>3, AdditionIsSum, Sum!SumOfOne
    <3> QED  BY <3>4, SumIsFold
  <2> QED  BY <2>7, <2>8, <2>9 DEF b, f
<1> QED  BY <1>2, <1>4 DEF RowsInv

\* End to end, every fault of the client, the gateway and the writers and every
\* revocation at most doubles the rows of an event: Publish sends a batch again
\* after a lost ack, flush inserts one again after a lost answer, and a commit
\* that a crash or a rebalance forestalls hands the messages out again
\* (consumer.go:35-48, redpanda.go:65-78).
THEOREM RowsPerEventHolds == Spec => []RowsPerEvent
<1>1. PipelineInv /\ RowsInv => RowsPerEvent
  <2> SUFFICES ASSUME PipelineInv, RowsInv, NEW r \in Requests
               PROVE  SumFunctionOnSet(rows, Copies(r)) <= 2 ^ (faults + revokes)
    BY DEF RowsPerEvent
  <2>0. WP!IndInv /\ TopicInv
    BY DEF PipelineInv
  <2> DEFINE S == Copies(r)
             f == Weights
             g == rows
             k == faults + revokes
  <2>1. IsFiniteSet(S) /\ k \in Nat
    BY <2>0, CountTypes DEF TopicInv
  <2>2. \A m \in S : f[m] \in Nat /\ g[m] \in Nat /\ g[m] <= 1 * f[m]
    <3>1. ASSUME NEW m \in WP!Message PROVE WP!Weight(m) \in Nat /\ rows[m] <= WP!Weight(m)
      BY <2>0, WP!WeightPositive, WriterInstanceAssumptions, Zenon
    <3>2. \A m \in WP!Message : rows[m] \in Nat
      BY <2>0 DEF WP!IndInv, WP!TypeOK, WP!VarTypes
    <3>3. \A m \in S : m \in WP!Message /\ f[m] = WP!Weight(m)
      BY <2>0, WeightsAre
    <3> HIDE DEF f, S
    <3> QED  BY <3>1, <3>2, <3>3
  <2>3. SumFunctionOnSet(f, S) <= 2 ^ k
    <3>1. S \in SUBSET W!Message /\ MayHave(r, S)
      BY <2>0, WeightsAre DEF MayHave
    <3> QED  BY <3>1 DEF RowsInv
  <2> HIDE DEF S, f, k
  <2> DEFINE x == Sum!Fold(f, S)
             y == Sum!Fold(g, S)
             b == 2 ^ k
  <2>4. Sum!IsFiniteSet(S) /\ S \in SUBSET S
    BY <2>1, SameFinite
  <2>5. x \in Nat /\ y \in Nat
    BY <2>2, <2>4, AdditionIsSum, Sum!SumType
  <2>6. 1 \in {1, 2}
    OBVIOUS
  <2>7. y <= 1 * x
    BY <2>2, <2>4, <2>6, AdditionIsSum, Sum!SumBound
  <2>8. b \in Nat /\ x <= b
    BY <2>1, <2>3, SumIsFold, Sum!PowerDoubles
  <2>9. SumFunctionOnSet(rows, Copies(r)) = y
    BY SumIsFold DEF S
  <2> HIDE DEF x, y, b
  <2>10. y <= b
    BY <2>5, <2>7, <2>8
  <2> QED  BY <2>9, <2>10 DEF b, k
<1>2. PipelineInv /\ PipelineInv' /\ RowsInv /\ [Next]_vars => RowsInv'
  BY RowsKept
<1> QED  BY <1>1, <1>2, InitRows, InitInv, NextInv, PTL DEF Spec
=============================================================================
