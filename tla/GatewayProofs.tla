---------------------------- MODULE GatewayProofs ----------------------------
(***************************************************************************)
(* Proofs about Gateway, for any set of requests with any contents: what   *)
(* an answer promises, what a publish leaves on the topic, what the order  *)
(* of the shutdown guarantees, and what the counters count.                *)
(***************************************************************************)
EXTENDS Gateway, FiniteSetTheorems, TLAPS

-----------------------------------------------------------------------------
(* The inductive invariant. *)

\* Where a handler can be.
Steps == {"auth", "read", "handle", "publish", "lock", "encode", "send"}

\* The answers a request can get.
Replies == {"ok", "invalid", "unauthorized", "aborted", "failed", "closed"}

\* What can be known of the answer to a request.
Answers == {"none"} \cup Replies

\* Event i of r is on the topic, or may still get there.
Trace(r, i) == topic[r][i] > 0 \/ <<r, i>> \in orphans

\* Event i of r may land in this step or later.
MayLand(r, i) ==
    \/ <<r, i>> \in orphans
    \/ i >= next[r] /\ pc[r] \notin {"replied", "killed"}

\* One request: publishEvents is at event next[r], has published those before
\* it and has not touched those behind it; an answer ends the handler.
RequestInv(r) ==
    /\ pc[r] \in {"idle", "auth", "read", "handle"} => next[r] = 0
    /\ pc[r] \in {"publish", "lock", "encode", "send"} => next[r] >= 1
    /\ pc[r] = "replied" <=> reply[r] # "none"
    /\ \A i \in Indices : Trace(r, i) => i <= next[r]
    /\ \A i \in Indices : <<r, i>> \in orphans => pc[r] = "replied" /\ reply[r] = "failed"
    /\ \A i \in 1..(next[r] - 1) : topic[r][i] > 0
    /\ reply[r] \in {"invalid", "unauthorized", "aborted"} => next[r] = 0
    /\ reply[r] = "ok" => \A i \in 1..Len(input[r].records) : topic[r][i] > 0

\* main: how far the shutdown is says what may still run and what the broker is.
ShutdownInv ==
    /\ phase # "exited" => /\ bus = "closing" <=> phase = "busClose"
                           /\ bus = "closed" <=> phase = "closed"
    /\ phase \in {"grpcStop", "busClose", "closed"} /\ ~timedOut => ActiveHTTP = {}
    /\ phase \in {"busClose", "closed"} => ActiveGRPC = {}
    /\ phase \in {"closed", "exited"} =>
            orphans = {} /\ \A r \in Requests : pc[r] # "send"
    /\ phase = "exited" => \A r \in Requests : pc[r] \in Idle

\* The requests, the shutdown and the order in which it drains, together.
GatewayInv ==
    /\ TypeOK
    /\ \A r \in Requests : RequestInv(r)
    /\ ShutdownInv
    /\ DrainedBeforeClose

-----------------------------------------------------------------------------
(* Lemmas about the operators. *)

\* The contents of a request are those of an Input, within the bound.
LEMMA InputFacts ==
    ASSUME TypeOK, NEW r \in Requests
    PROVE  /\ input[r] \in Inputs
           /\ input[r].via \in {"rest", "otlp", "grpc"}
           /\ input[r].records \in Seq(RecordKinds)
           /\ Len(input[r].records) \in 0..MaxRecords
           /\ MaxRecords \in Nat
BY InputsAssumption, GatewayAssumption DEF TypeOK, Input

\* Land adds one copy of each message it is given and touches no other.
LEMMA LandFacts ==
    ASSUME TypeOK, NEW S, Land(S)
    PROVE  /\ topic' \in [Requests -> [Indices -> Nat]]
           /\ \A r \in Requests, i \in Indices :
                topic'[r][i] = IF <<r, i>> \in S THEN topic[r][i] + 1 ELSE topic[r][i]
           /\ \A r \in Requests : (\A i \in Indices : <<r, i>> \notin S) => topic'[r] = topic[r]
<1>1. topic \in [Requests -> [Indices -> Nat]]
  BY DEF TypeOK
<1>2. \A r \in Requests, i \in Indices : topic[r][i] \in Nat
  BY <1>1
<1>3. \A r \in Requests : topic'[r] = [i \in Indices |->
                IF <<r, i>> \in S THEN topic[r][i] + 1 ELSE topic[r][i]]
  BY DEF Land
<1>4. \A r \in Requests, i \in Indices :
            topic'[r][i] = IF <<r, i>> \in S THEN topic[r][i] + 1 ELSE topic[r][i]
  BY <1>3
<1>5. \A r \in Requests : topic'[r] \in [Indices -> Nat]
  <2> SUFFICES ASSUME NEW r \in Requests PROVE topic'[r] \in [Indices -> Nat]
    OBVIOUS
  <2>1. \A i \in Indices : (IF <<r, i>> \in S THEN topic[r][i] + 1 ELSE topic[r][i]) \in Nat
    BY <1>2
  <2> QED  BY <1>3, <2>1
<1>6. topic' \in [Requests -> [Indices -> Nat]]
  BY <1>5 DEF Land
<1>7. ASSUME NEW r \in Requests, \A i \in Indices : <<r, i>> \notin S
      PROVE  topic'[r] = topic[r]
  <2>1. \A i \in Indices : topic'[r][i] = topic[r][i]
    BY <1>4, <1>7
  <2> QED  BY <1>1, <1>5, <2>1
<1> QED  BY <1>4, <1>6, <1>7

\* The messages in flight: the orphans, and those of the handlers in WriteMessages.
LEMMA InFlightIs ==
    ASSUME NEW r \in Requests, NEW i
    PROVE  <<r, i>> \in InFlight <=> <<r, i>> \in orphans \/ (pc[r] = "send" /\ i = next[r])
BY DEF InFlight

\* An answer changes the state of its request only.
LEMMA RepliedFacts ==
    ASSUME TypeOK, NEW r \in Requests,
           NEW outcome \in Replies,
           Replied(r, outcome)
    PROVE  /\ pc' \in [Requests -> Idle \cup Steps]
           /\ reply' \in [Requests -> Answers]
           /\ pc'[r] = "replied" /\ reply'[r] = outcome
           /\ \A q \in Requests : q # r => pc'[q] = pc[q] /\ reply'[q] = reply[q]
BY DEF TypeOK, Replied, Idle, Steps, Replies, Answers

\* The counters stay natural numbers.
LEMMA CountErrType ==
    ASSUME TypeOK, NEW r \in Requests, CountErr(r)
    PROVE  metrics' \in [Counters -> Nat]
BY DEF TypeOK, CountErr, Counters

\* A success counts its records, of which there are finitely many.
LEMMA CountOKType ==
    ASSUME TypeOK, NEW r \in Requests, CountOK(r)
    PROVE  metrics' \in [Counters -> Nat]
<1>1. Logs(r) \in Nat
  BY InputFacts DEF Logs
<1>2. CASE input[r].via = "rest"
  BY <1>2 DEF TypeOK, CountOK, Counters
<1>3. CASE input[r].via # "rest"
  BY <1>1, <1>3 DEF TypeOK, CountOK, Counters
<1> QED  BY <1>2, <1>3

\* A fault stays within the bound.
LEMMA FaultType == ASSUME TypeOK, Fault PROVE faults' \in 0..MaxFaults
BY GatewayAssumption DEF TypeOK, Fault

-----------------------------------------------------------------------------
(* Preservation of the invariant. *)

\* The gateway starts with no request answered and nothing on the topic.
LEMMA InitInv == Init => GatewayInv
<1> SUFFICES ASSUME Init PROVE GatewayInv
  OBVIOUS
<1>1. TypeOK
  <2>1. \A in \in Inputs : Len(in.records) \in Nat
    BY InputsAssumption DEF Input
  <2>2. \A r \in Requests : next[r] <= Len(input[r].records)
    BY <2>1 DEF Init
  <2>3. /\ topic \in [Requests -> [Indices -> Nat]]
        /\ metrics \in [Counters -> Nat]
        /\ faults \in 0..MaxFaults
        /\ next \in [Requests -> 0..MaxRecords]
    BY GatewayAssumption DEF Init
  <2>4. /\ pc \in [Requests -> Idle \cup Steps]
        /\ reply \in [Requests -> Answers]
        /\ gone \in [Requests -> BOOLEAN]
    BY DEF Init, Idle, Answers
  <2> QED  BY <2>2, <2>3, <2>4 DEF Init, TypeOK, Steps, Answers, Replies
<1>2. ASSUME NEW r \in Requests PROVE RequestInv(r)
  BY DEF Init, RequestInv, Trace, Indices
<1>3. ShutdownInv /\ DrainedBeforeClose
  BY DEF Init, ShutdownInv, DrainedBeforeClose
<1> QED  BY <1>1, <1>2, <1>3 DEF GatewayInv

\* A request whose own state a step leaves alone keeps its invariant.
LEMMA OthersKeep ==
    ASSUME TypeOK, NEW q \in Requests, RequestInv(q), input' = input,
           pc'[q] = pc[q], next'[q] = next[q], reply'[q] = reply[q],
           topic'[q] = topic[q],
           \A i \in Indices : <<q, i>> \in orphans' => <<q, i>> \in orphans
    PROVE  RequestInv(q)'
BY DEF RequestInv, Trace

\* A step inside the handler of r keeps what ShutdownInv says, since it starts
\* no handler and leaves main alone, when it neither enters a write nor leaves
\* an orphan once the broker is closed.
LEMMA HandlerKeepsShutdown ==
    ASSUME GatewayInv, NEW r \in Requests, pc[r] \notin Idle,
           UNCHANGED <<phase, timedOut, crashed, bus, input>>,
           \A q \in Requests : q # r => pc'[q] = pc[q],
           phase = "closed" => pc'[r] # "send" /\ orphans' \subseteq orphans
    PROVE  ShutdownInv'
<1>1. phase # "exited"
  BY DEF GatewayInv, ShutdownInv
<1>2. ActiveHTTP' \subseteq ActiveHTTP /\ ActiveGRPC' \subseteq ActiveGRPC
  BY DEF ActiveHTTP, ActiveGRPC
<1>3. phase' # "exited"
  BY <1>1
<1>4. /\ bus' = "closing" <=> phase' = "busClose"
      /\ bus' = "closed" <=> phase' = "closed"
  BY <1>1 DEF GatewayInv, ShutdownInv
<1>5. phase' \in {"grpcStop", "busClose", "closed"} /\ ~timedOut' => ActiveHTTP' = {}
  BY <1>2 DEF GatewayInv, ShutdownInv
<1>6. phase' \in {"busClose", "closed"} => ActiveGRPC' = {}
  BY <1>2 DEF GatewayInv, ShutdownInv
<1>7. phase' = "closed" => orphans' = {} /\ \A q \in Requests : pc'[q] # "send"
  BY DEF GatewayInv, ShutdownInv
<1> QED  BY <1>3, <1>4, <1>5, <1>6, <1>7 DEF ShutdownInv

\* The state of main decides which handlers may meet a broker that is not open.
LEMMA ActiveWhenClosing ==
    ASSUME GatewayInv, NEW r \in Requests, pc[r] \notin Idle, bus # "open"
    PROVE  timedOut /\ input[r].via # "grpc"
<1>1. phase \in {"busClose", "closed"}
  BY DEF GatewayInv, ShutdownInv, TypeOK
<1>2. r \notin ActiveGRPC
  BY <1>1 DEF GatewayInv, ShutdownInv
<1>3. input[r].via # "grpc"
  BY <1>2 DEF ActiveGRPC
<1>4. r \in ActiveHTTP
  BY <1>3 DEF ActiveHTTP
<1>5. timedOut
  BY <1>1, <1>4 DEF GatewayInv, ShutdownInv, TypeOK
<1> QED  BY <1>3, <1>5

\* The frame of a step of the handler of r: what is left to show of it is that
\* it keeps the types and the invariant of r itself.
HandlerFrame(r) ==
    /\ UNCHANGED <<phase, timedOut, crashed, bus, input>>
    /\ pc[r] \notin Idle /\ pc'[r] # "killed"
    /\ \A q \in Requests : q # r =>
            /\ pc'[q] = pc[q] /\ next'[q] = next[q] /\ reply'[q] = reply[q]
            /\ topic'[q] = topic[q]
            /\ \A i \in Indices : <<q, i>> \in orphans' => <<q, i>> \in orphans
    /\ phase = "closed" => pc'[r] # "send" /\ orphans' \subseteq orphans
    /\ reply'[r] = "closed" => bus # "open"

\* A handler step that stays within its frame keeps the invariant, once it keeps
\* what concerns its own request.
LEMMA HandlerStep ==
    ASSUME GatewayInv, NEW r \in Requests, HandlerFrame(r), TypeOK', RequestInv(r)'
    PROVE  GatewayInv'
<1>1. ASSUME NEW q \in Requests PROVE RequestInv(q)'
  <2>1. CASE q = r
    BY <2>1
  <2>2. CASE q # r
    BY <2>2, OthersKeep DEF HandlerFrame, GatewayInv
  <2> QED  BY <2>1, <2>2
<1>2. ShutdownInv'
  BY HandlerKeepsShutdown DEF HandlerFrame
<1>3. ASSUME NEW q \in Requests, reply'[q] = "closed" \/ (pc'[q] = "killed" /\ ~crashed')
      PROVE  timedOut' /\ input'[q].via # "grpc"
  <2>1. CASE q = r
    BY <1>3, <2>1, ActiveWhenClosing DEF HandlerFrame
  <2>2. CASE q # r
    BY <1>3, <2>2 DEF HandlerFrame, GatewayInv, DrainedBeforeClose
  <2> QED  BY <2>1, <2>2
<1>4. DrainedBeforeClose'
  BY <1>3 DEF DrainedBeforeClose
<1> QED  BY <1>1, <1>2, <1>4 DEF GatewayInv

\* A handler that ends without having published anything more.
LEMMA AnswerStep ==
    ASSUME GatewayInv, NEW r \in Requests, pc[r] \notin Idle,
           NEW outcome \in Replies,
           Replied(r, outcome), metrics' \in [Counters -> Nat],
           UNCHANGED <<mainVars, input, next, gone, topic, orphans, faults>>,
           outcome \in {"invalid", "unauthorized", "aborted"} =>
                pc[r] \in {"auth", "read", "handle"},
           outcome = "ok" => input[r].records = <<>>,
           outcome = "closed" => bus # "open"
    PROVE  GatewayInv'
<1>0. TypeOK /\ RequestInv(r)
  BY DEF GatewayInv
<1>1. /\ pc' \in [Requests -> Idle \cup Steps]
      /\ reply' \in [Requests -> Answers]
      /\ pc'[r] = "replied" /\ reply'[r] = outcome
      /\ \A q \in Requests : q # r => pc'[q] = pc[q] /\ reply'[q] = reply[q]
  BY <1>0, RepliedFacts
<1>2. TypeOK'
  BY <1>0, <1>1 DEF TypeOK, mainVars, Steps, Answers, Replies
<1>3. RequestInv(r)'
  BY <1>0, <1>1 DEF RequestInv, Trace, Idle, Replies
<1>4. HandlerFrame(r)
  BY <1>1 DEF HandlerFrame, mainVars
<1> QED  BY <1>2, <1>3, <1>4, HandlerStep

\* A handler that moves on without answering, publishing or touching next.
LEMMA MoveStep ==
    ASSUME GatewayInv, NEW r \in Requests, pc[r] \notin Idle,
           NEW to \in {"read", "handle", "lock", "encode", "send"},
           pc' = [pc EXCEPT ![r] = to],
           UNCHANGED <<mainVars, input, next, gone, reply, topic, orphans, metrics, faults>>,
           to \in {"read", "handle"} => pc[r] \in {"auth", "read"},
           to \notin {"read", "handle"} => pc[r] \in {"publish", "lock", "encode"},
           to = "send" => bus = "open"
    PROVE  GatewayInv'
<1>0. TypeOK /\ RequestInv(r) /\ ShutdownInv
  BY DEF GatewayInv
<1>1. pc'[r] = to /\ \A q \in Requests : q # r => pc'[q] = pc[q]
  BY <1>0 DEF TypeOK
<1>2. TypeOK'
  BY <1>0 DEF TypeOK, mainVars
<1>3. RequestInv(r)'
  BY <1>0, <1>1 DEF RequestInv, Trace, Idle
<1>4. HandlerFrame(r)
  BY <1>0, <1>1 DEF HandlerFrame, mainVars, RequestInv, Idle, ShutdownInv
<1> QED  BY <1>2, <1>3, <1>4, HandlerStep

\* A request is accepted only while its server takes requests.
LEMMA AcceptInv == ASSUME GatewayInv, NEW r \in Requests, Accept(r) PROVE GatewayInv'
<1>0. TypeOK /\ RequestInv(r) /\ ShutdownInv
  BY DEF GatewayInv
<1>1. /\ pc[r] = "idle" /\ pc'[r] \in {"auth", "read"}
      /\ \A q \in Requests : q # r => pc'[q] = pc[q]
      /\ UNCHANGED <<phase, timedOut, crashed, bus, input, next, gone, reply, topic,
                     orphans, metrics, faults>>
  BY <1>0 DEF TypeOK, Accept, mainVars
<1>2. TypeOK'
  <2>1. pc' \in [Requests -> Idle \cup Steps]
    BY <1>0 DEF TypeOK, Accept, Steps
  <2> QED  BY <1>0, <1>1, <2>1 DEF TypeOK, Steps
<1>3. ASSUME NEW q \in Requests PROVE RequestInv(q)'
  <2>1. CASE q = r
    BY <1>0, <1>1, <2>1 DEF RequestInv, Trace
  <2>2. CASE q # r
    BY <1>1, <2>2, OthersKeep DEF GatewayInv
  <2> QED  BY <2>1, <2>2
<1>4. ShutdownInv'
  <2>1. phase \in {"serving", "draining"}
    BY DEF Accept
  <2> QED  BY <1>0, <1>1, <2>1 DEF ShutdownInv
<1>5. DrainedBeforeClose'
  BY <1>1 DEF GatewayInv, DrainedBeforeClose
<1> QED  BY <1>2, <1>3, <1>4, <1>5 DEF GatewayInv

\* The middleware lets a request pass or answers 401; it publishes nothing
\* (auth.go).
LEMMA AuthorizeInv == ASSUME GatewayInv, NEW r \in Requests, Authorize(r) PROVE GatewayInv'
<1>0. TypeOK /\ pc[r] = "auth" /\ pc[r] \notin Idle
  BY DEF GatewayInv, Authorize, Idle
<1>1. CASE Replied(r, "unauthorized")
  BY <1>0, <1>1, AnswerStep DEF Authorize, TypeOK, Replies
<1>2. CASE pc' = [pc EXCEPT ![r] = "read"] /\ UNCHANGED reply
  BY <1>0, <1>2, MoveStep DEF Authorize
<1> QED  BY <1>1, <1>2 DEF Authorize

\* The body has come.
LEMMA BodyArrivesInv ==
    ASSUME GatewayInv, NEW r \in Requests, BodyArrives(r) PROVE GatewayInv'
<1>0. pc[r] = "read" /\ pc[r] \notin Idle
  BY DEF BodyArrives, Idle
<1> QED  BY <1>0, MoveStep DEF BodyArrives

\* It never will, since the client has left.
LEMMA ReadFailsInv == ASSUME GatewayInv, NEW r \in Requests, ReadFails(r) PROVE GatewayInv'
<1>0. TypeOK /\ pc[r] = "read" /\ pc[r] \notin Idle
  BY DEF GatewayInv, ReadFails, Idle
<1>1. CASE Failed(r, "invalid")
  <2>1. metrics' \in [Counters -> Nat] /\ Replied(r, "invalid")
    BY <1>0, <1>1, CountErrType DEF Failed
  <2> QED  BY <1>0, <2>1, AnswerStep DEF ReadFails, Replies
<1>2. CASE Replied(r, "aborted") /\ UNCHANGED metrics
  BY <1>0, <1>2, AnswerStep DEF ReadFails, TypeOK, Replies
<1> QED  BY <1>1, <1>2 DEF ReadFails

\* A body that does not decode or validate is answered with 400, unpublished.
LEMMA RejectInv == ASSUME GatewayInv, NEW r \in Requests, Reject(r) PROVE GatewayInv'
<1>0. TypeOK /\ pc[r] = "handle" /\ pc[r] \notin Idle
  BY DEF GatewayInv, Reject, Idle
<1>1. metrics' \in [Counters -> Nat] /\ Replied(r, "invalid")
  BY <1>0, CountErrType DEF Reject, Failed
<1> QED  BY <1>0, <1>1, AnswerStep DEF Reject, Replies

\* An OTLP request without records succeeds without publishing.
LEMMA AcceptEmptyInv ==
    ASSUME GatewayInv, NEW r \in Requests, AcceptEmpty(r) PROVE GatewayInv'
<1>0. TypeOK /\ pc[r] = "handle" /\ pc[r] \notin Idle
  BY DEF GatewayInv, AcceptEmpty, Idle
<1>1. metrics' \in [Counters -> Nat]
  BY <1>0, CountOKType DEF AcceptEmpty
<1> QED  BY <1>0, <1>1, AnswerStep DEF AcceptEmpty, Replies

\* The handler starts with its first event.
LEMMA BeginPublishInv ==
    ASSUME GatewayInv, NEW r \in Requests, BeginPublish(r) PROVE GatewayInv'
<1>0. TypeOK /\ RequestInv(r) /\ pc[r] = "handle" /\ pc[r] \notin Idle
  BY DEF GatewayInv, BeginPublish, Idle
<1>1. Len(input[r].records) >= 1 /\ 1 \in 0..MaxRecords
  BY <1>0, InputFacts DEF BeginPublish
<1>2. /\ pc'[r] = "publish" /\ next'[r] = 1
      /\ \A q \in Requests : q # r => pc'[q] = pc[q] /\ next'[q] = next[q]
      /\ UNCHANGED <<phase, timedOut, crashed, bus, input, gone, reply, topic,
                     orphans, metrics, faults>>
  BY <1>0 DEF TypeOK, BeginPublish, mainVars
<1>3. TypeOK'
  <2>1. pc' \in [Requests -> Idle \cup Steps]
    BY <1>0 DEF TypeOK, BeginPublish, Steps
  <2>2. next' \in [Requests -> 0..MaxRecords]
    BY <1>0, <1>1 DEF TypeOK, BeginPublish
  <2>3. \A q \in Requests : next'[q] <= Len(input'[q].records)
    BY <1>0, <1>1, <1>2 DEF TypeOK
  <2> QED  BY <1>0, <1>2, <2>1, <2>2, <2>3 DEF TypeOK, Steps
<1>4. RequestInv(r)'
  <2>1. next[r] = 0 /\ \A i \in Indices : ~Trace(r, i)
    BY <1>0, InputFacts DEF RequestInv, Indices
  <2> QED  BY <1>0, <1>2, <2>1 DEF RequestInv, Trace
<1>5. HandlerFrame(r)
  BY <1>0, <1>2 DEF HandlerFrame, RequestInv, Idle
<1> QED  BY <1>3, <1>4, <1>5, HandlerStep

\* Publish returns when the request context has ended before it took the lock.
LEMMA PublishGoneInv ==
    ASSUME GatewayInv, NEW r \in Requests, PublishGone(r) PROVE GatewayInv'
<1>0. TypeOK /\ pc[r] = "publish" /\ pc[r] \notin Idle
  BY DEF GatewayInv, PublishGone, Idle
<1>1. metrics' \in [Counters -> Nat] /\ Replied(r, "failed")
  BY <1>0, CountErrType DEF PublishGone, Failed
<1> QED  BY <1>0, <1>1, AnswerStep DEF PublishGone, Replies

\* Publish goes for the lock when it has not.
LEMMA PublishStartInv ==
    ASSUME GatewayInv, NEW r \in Requests, PublishStart(r) PROVE GatewayInv'
<1>0. pc[r] = "publish" /\ pc[r] \notin Idle
  BY DEF PublishStart, Idle
<1> QED  BY <1>0, MoveStep DEF PublishStart

\* Publish reads the writer under its lock and finds the broker open or closed.
LEMMA PublishLockInv ==
    ASSUME GatewayInv, NEW r \in Requests, PublishLock(r) PROVE GatewayInv'
<1>0. TypeOK /\ pc[r] = "lock" /\ pc[r] \notin Idle
  BY DEF GatewayInv, PublishLock, Idle
<1>1. CASE bus = "closed" /\ Failed(r, "closed")
  <2>1. metrics' \in [Counters -> Nat] /\ Replied(r, "closed")
    BY <1>0, <1>1, CountErrType DEF Failed
  <2> QED  BY <1>0, <1>1, <2>1, AnswerStep DEF PublishLock, Replies
<1>2. CASE bus = "open" /\ pc' = [pc EXCEPT ![r] = "encode"] /\ UNCHANGED <<reply, metrics>>
  BY <1>0, <1>2, MoveStep DEF PublishLock
<1> QED  BY <1>1, <1>2 DEF PublishLock

\* MarshalEvent may fail; then WriteMessages takes the event unless the writer
\* has been closed since.
LEMMA EnterWriteInv ==
    ASSUME GatewayInv, NEW r \in Requests, EnterWrite(r) PROVE GatewayInv'
<1>0. TypeOK /\ pc[r] = "encode" /\ pc[r] \notin Idle
  BY DEF GatewayInv, EnterWrite, Idle
<1>1. ASSUME NEW outcome \in {"failed", "closed"}, Failed(r, outcome),
             outcome = "closed" => bus # "open"
      PROVE  GatewayInv'
  <2>1. metrics' \in [Counters -> Nat] /\ Replied(r, outcome)
    BY <1>0, <1>1, CountErrType DEF Failed
  <2> QED  BY <1>0, <1>1, <2>1, AnswerStep DEF EnterWrite, Replies
<1>2. CASE bus = "open" /\ pc' = [pc EXCEPT ![r] = "send"] /\ UNCHANGED <<reply, metrics>>
  BY <1>0, <1>2, MoveStep DEF EnterWrite
<1> QED  BY <1>1, <1>2 DEF EnterWrite

\* The client goes away; its handler learns of it later.
LEMMA DisconnectInv ==
    ASSUME GatewayInv, NEW r \in Requests, Disconnect(r) PROVE GatewayInv'
<1>0. TypeOK /\ RequestInv(r) /\ ShutdownInv /\ pc[r] \notin Idle
  BY DEF GatewayInv, Disconnect
<1>1. TypeOK'
  <2>1. faults' \in 0..MaxFaults
    BY <1>0, FaultType DEF Disconnect
  <2>2. gone' \in [Requests -> BOOLEAN]
    BY <1>0 DEF TypeOK, Disconnect
  <2> QED  BY <1>0, <2>1, <2>2 DEF TypeOK, Disconnect, mainVars
<1>2. RequestInv(r)'
  BY <1>0, OthersKeep DEF Disconnect
<1>3. HandlerFrame(r)
  BY <1>0 DEF HandlerFrame, Disconnect, mainVars, RequestInv, Idle, ShutdownInv
<1> QED  BY <1>1, <1>2, <1>3, HandlerStep

\* What holds of a handler inside WriteMessages.
LEMMA SendingFacts ==
    ASSUME GatewayInv, NEW r \in Requests, pc[r] = "send"
    PROVE  /\ TypeOK /\ RequestInv(r) /\ pc[r] \notin Idle /\ reply[r] = "none"
           /\ phase # "closed"
           /\ next[r] \in Indices /\ next[r] \in 1..Len(input[r].records)
<1>1. TypeOK /\ RequestInv(r) /\ ShutdownInv
  BY DEF GatewayInv
<1>2. next[r] >= 1 /\ next[r] \in 0..MaxRecords /\ next[r] <= Len(input[r].records)
  BY <1>1 DEF TypeOK, RequestInv
<1>3. Len(input[r].records) \in 0..MaxRecords /\ MaxRecords \in Nat
  BY <1>1, InputFacts
<1> QED  BY <1>1, <1>2, <1>3 DEF RequestInv, ShutdownInv, Idle, Indices

\* Messages in flight land: the topic keeps what it has, and an event that is on it
\* now is not behind the one its handler is at.
LEMMA LandInFlight ==
    ASSUME GatewayInv, NEW S \in SUBSET InFlight, Land(S), NEW r \in Requests
    PROVE  /\ topic' \in [Requests -> [Indices -> Nat]]
           /\ \A i \in Indices : topic[r][i] > 0 => topic'[r][i] > 0
           /\ \A i \in Indices : topic'[r][i] > 0 \/ <<r, i>> \in orphans => i <= next[r]
           /\ \A i \in 1..(next[r] - 1) : topic'[r][i] > 0
           /\ (\A i \in Indices : <<r, i>> \notin S) => topic'[r] = topic[r]
<1>0. TypeOK /\ RequestInv(r)
  BY DEF GatewayInv
<1>1. /\ topic' \in [Requests -> [Indices -> Nat]]
      /\ \A i \in Indices :
            topic'[r][i] = IF <<r, i>> \in S THEN topic[r][i] + 1 ELSE topic[r][i]
      /\ (\A i \in Indices : <<r, i>> \notin S) => topic'[r] = topic[r]
  BY <1>0, LandFacts
<1>2. \A i \in Indices : topic[r][i] \in Nat
  BY <1>0 DEF TypeOK
<1>3. ASSUME NEW i \in Indices, topic[r][i] > 0 PROVE topic'[r][i] > 0
  <2>1. topic'[r][i] = topic[r][i] + 1 \/ topic'[r][i] = topic[r][i]
    BY <1>1
  <2> QED  BY <1>2, <1>3, <2>1
<1>4. ASSUME NEW i \in Indices, topic'[r][i] > 0 \/ <<r, i>> \in orphans
      PROVE  i <= next[r]
  <2>1. CASE <<r, i>> \in S
    <3>1. <<r, i>> \in orphans \/ (pc[r] = "send" /\ i = next[r])
      BY <2>1, InFlightIs
    <3>2. i = next[r] => i <= next[r]
      BY GatewayAssumption DEF Indices
    <3> QED  BY <1>0, <3>1, <3>2 DEF RequestInv, Trace
  <2>2. CASE <<r, i>> \notin S
    BY <1>0, <1>1, <1>4, <2>2 DEF RequestInv, Trace
  <2> QED  BY <2>1, <2>2
<1>5. ASSUME NEW i \in 1..(next[r] - 1) PROVE topic'[r][i] > 0
  <2>1. next[r] \in 0..MaxRecords /\ MaxRecords \in Nat
    BY <1>0, GatewayAssumption DEF TypeOK
  <2>2. i \in Indices
    BY <2>1 DEF Indices
  <2> QED  BY <1>0, <1>3, <2>2 DEF RequestInv
<1> QED  BY <1>1, <1>3, <1>4, <1>5

\* The same, for the event that the handler of r is at.
LEMMA LandAtNext ==
    ASSUME GatewayInv, NEW r \in Requests, pc[r] = "send",
           NEW S \in SUBSET {<<r, next[r]>>}, Land(S)
    PROVE  /\ topic' \in [Requests -> [Indices -> Nat]]
           /\ \A q \in Requests : q # r => topic'[q] = topic[q]
           /\ \A i \in 1..(next[r] - 1) : topic'[r][i] > 0
           /\ S # {} => \A i \in 1..next[r] : topic'[r][i] > 0
           /\ \A i \in Indices : topic'[r][i] > 0 \/ <<r, i>> \in orphans => i <= next[r]
<1>1. TypeOK /\ next[r] \in Indices /\ MaxRecords \in Nat
  BY SendingFacts, GatewayAssumption
<1>2. S \in SUBSET InFlight
  BY InFlightIs
<1>3. /\ topic' \in [Requests -> [Indices -> Nat]]
      /\ \A i \in 1..(next[r] - 1) : topic'[r][i] > 0
      /\ \A i \in Indices : topic'[r][i] > 0 \/ <<r, i>> \in orphans => i <= next[r]
  BY <1>2, LandInFlight
<1>4. \A q \in Requests : q # r => topic'[q] = topic[q]
  BY <1>1, LandFacts
<1>5. ASSUME S # {}, NEW i \in 1..next[r] PROVE topic'[r][i] > 0
  <2>1. CASE i = next[r]
    <3>1. <<r, i>> \in S
      BY <1>5, <2>1
    <3>2. topic'[r][i] = topic[r][i] + 1 /\ topic[r][i] \in Nat
      BY <1>1, <2>1, <3>1, LandFacts DEF TypeOK
    <3> QED  BY <3>2
  <2>2. CASE i # next[r]
    <3>1. i \in 1..(next[r] - 1)
      BY <1>1, <2>2 DEF Indices
    <3> QED  BY <1>3, <3>1
  <2> QED  BY <2>1, <2>2
<1> QED  BY <1>3, <1>4, <1>5

\* The ack: the index moves on past an event that is on the topic, and the last
\* ack is the answer.
LEMMA WriteOKInv == ASSUME GatewayInv, NEW r \in Requests, WriteOK(r) PROVE GatewayInv'
<1>0. pc[r] = "send"
  BY DEF WriteOK
<1>1. /\ TypeOK /\ RequestInv(r) /\ pc[r] \notin Idle /\ reply[r] = "none"
      /\ phase # "closed"
      /\ next[r] \in Indices /\ next[r] \in 1..Len(input[r].records)
  BY <1>0, SendingFacts
<1>2. Land({<<r, next[r]>>})
  BY DEF WriteOK
<1>3. /\ topic' \in [Requests -> [Indices -> Nat]]
      /\ \A q \in Requests : q # r => topic'[q] = topic[q]
      /\ \A i \in 1..next[r] : topic'[r][i] > 0
      /\ \A i \in Indices : topic'[r][i] > 0 \/ <<r, i>> \in orphans => i <= next[r]
  BY <1>0, <1>2, LandAtNext
<1>4. faults' \in 0..MaxFaults
  BY <1>1 DEF WriteOK, TypeOK
<1>5. UNCHANGED <<phase, timedOut, crashed, bus, input, gone, orphans>>
  BY DEF WriteOK, mainVars
<1>6. Len(input[r].records) \in 0..MaxRecords /\ MaxRecords \in Nat
  BY <1>1, InputFacts
<1>7. CASE /\ next[r] < Len(input[r].records)
           /\ next' = [next EXCEPT ![r] = @ + 1]
           /\ pc' = [pc EXCEPT ![r] = "publish"]
           /\ UNCHANGED <<reply, metrics>>
  <2>1. /\ next'[r] = next[r] + 1 /\ pc'[r] = "publish"
        /\ \A q \in Requests : q # r => next'[q] = next[q] /\ pc'[q] = pc[q]
    BY <1>1, <1>7 DEF TypeOK
  <2>2. next' \in [Requests -> 0..MaxRecords]
    <3>1. next[r] + 1 \in 0..MaxRecords
      BY <1>1, <1>6, <1>7
    <3> QED  BY <1>1, <1>7, <3>1 DEF TypeOK
  <2>3. \A q \in Requests : next'[q] <= Len(input'[q].records)
    <3>1. next[r] + 1 <= Len(input[r].records)
      BY <1>1, <1>6, <1>7
    <3> QED  BY <1>1, <1>5, <2>1, <3>1 DEF TypeOK
  <2>4. pc' \in [Requests -> Idle \cup Steps]
    BY <1>1, <1>7 DEF TypeOK, Steps
  <2>5. TypeOK'
    BY <1>1, <1>3, <1>4, <1>5, <1>7, <2>2, <2>3, <2>4 DEF TypeOK, Steps
  <2>6. next[r] \in Nat
    BY <1>1
  <2>7. \A i \in Indices : Trace(r, i)' => i <= next'[r]
    BY <1>3, <1>5, <2>1, <2>6 DEF Trace, Indices
  <2>8. \A i \in 1..(next'[r] - 1) : topic'[r][i] > 0
    BY <1>3, <2>1, <2>6
  <2>9. RequestInv(r)'
    <3>1. \A i \in Indices : <<r, i>> \notin orphans'
      BY <1>0, <1>1, <1>5 DEF RequestInv
    <3> QED  BY <1>1, <1>7, <2>1, <2>6, <2>7, <2>8, <3>1 DEF RequestInv
  <2>10. HandlerFrame(r)
    BY <1>1, <1>3, <1>5, <1>7, <2>1 DEF HandlerFrame
  <2> QED  BY <2>5, <2>9, <2>10, HandlerStep
<1>8. CASE /\ next[r] = Len(input[r].records)
           /\ UNCHANGED next
           /\ Replied(r, "ok")
           /\ CountOK(r)
  <2>1. /\ pc' \in [Requests -> Idle \cup Steps]
        /\ reply' \in [Requests -> Answers]
        /\ pc'[r] = "replied" /\ reply'[r] = "ok"
        /\ \A q \in Requests : q # r => pc'[q] = pc[q] /\ reply'[q] = reply[q]
    BY <1>1, <1>8, RepliedFacts DEF Replies
  <2>2. metrics' \in [Counters -> Nat]
    BY <1>1, <1>8, CountOKType
  <2>3. TypeOK'
    BY <1>1, <1>3, <1>4, <1>5, <1>8, <2>1, <2>2 DEF TypeOK, Steps, Answers, Replies
  <2>4. \A i \in Indices : Trace(r, i)' => i <= next'[r]
    BY <1>3, <1>5, <1>8 DEF Trace
  <2>5. /\ \A i \in 1..(next'[r] - 1) : topic'[r][i] > 0
        /\ \A i \in 1..Len(input'[r].records) : topic'[r][i] > 0
    BY <1>1, <1>3, <1>5, <1>8
  <2>6. RequestInv(r)'
    <3>1. \A i \in Indices : <<r, i>> \notin orphans'
      BY <1>0, <1>1, <1>5 DEF RequestInv
    <3> QED  BY <2>1, <2>4, <2>5, <3>1 DEF RequestInv
  <2>7. HandlerFrame(r)
    BY <1>1, <1>3, <1>5, <1>8, <2>1 DEF HandlerFrame
  <2> QED  BY <2>3, <2>6, <2>7, HandlerStep
<1> QED  BY <1>7, <1>8 DEF WriteOK, Advance, StayAtLast

\* A write that fails, or is given up: the event may be on the topic, or may
\* still get there, and nothing behind it can.
LEMMA FailedWriteInv ==
    ASSUME GatewayInv, NEW r \in Requests, pc[r] = "send", Failed(r, "failed"),
           NEW S \in SUBSET {<<r, next[r]>>}, Land(S),
           orphans' \subseteq orphans \cup {<<r, next[r]>>}, faults' \in 0..MaxFaults,
           UNCHANGED <<mainVars, input, next, gone>>
    PROVE  GatewayInv'
<1>1. /\ TypeOK /\ RequestInv(r) /\ pc[r] \notin Idle /\ reply[r] = "none"
      /\ phase # "closed"
      /\ next[r] \in Indices /\ next[r] \in 1..Len(input[r].records)
  BY SendingFacts
<1>2. /\ topic' \in [Requests -> [Indices -> Nat]]
      /\ \A q \in Requests : q # r => topic'[q] = topic[q]
      /\ \A i \in 1..(next[r] - 1) : topic'[r][i] > 0
      /\ \A i \in Indices : topic'[r][i] > 0 \/ <<r, i>> \in orphans => i <= next[r]
  BY LandAtNext
<1>3. /\ pc' \in [Requests -> Idle \cup Steps]
      /\ reply' \in [Requests -> Answers]
      /\ pc'[r] = "replied" /\ reply'[r] = "failed"
      /\ \A q \in Requests : q # r => pc'[q] = pc[q] /\ reply'[q] = reply[q]
  BY <1>1, RepliedFacts DEF Failed, Replies
<1>4. metrics' \in [Counters -> Nat]
  BY <1>1, CountErrType DEF Failed
<1>5. orphans' \subseteq Requests \X Indices
  BY <1>1 DEF TypeOK
<1>6. TypeOK'
  BY <1>1, <1>2, <1>3, <1>4, <1>5 DEF TypeOK, mainVars, Steps, Answers, Replies
<1>7. \A i \in Indices : Trace(r, i)' => i <= next'[r]
  BY <1>1, <1>2 DEF Trace, Indices
<1>8. RequestInv(r)'
  BY <1>1, <1>2, <1>3, <1>7 DEF RequestInv
<1>9. HandlerFrame(r)
  BY <1>1, <1>2, <1>3 DEF HandlerFrame, mainVars
<1> QED  BY <1>6, <1>8, <1>9, HandlerStep

\* WriteMessages fails, with or without the event on the topic.
LEMMA WriteErrInv == ASSUME GatewayInv, NEW r \in Requests, WriteErr(r) PROVE GatewayInv'
<1>1. PICK S \in SUBSET {<<r, next[r]>>} : Land(S)
  BY DEF WriteErr
<1>2. faults' \in 0..MaxFaults
  BY FaultType DEF WriteErr, GatewayInv
<1> QED  BY <1>1, <1>2, FailedWriteInv DEF WriteErr, StopAtFirstError

\* WriteMessages returns with the context while its batch is still under way.
LEMMA WriteAbandonedInv ==
    ASSUME GatewayInv, NEW r \in Requests, WriteAbandoned(r) PROVE GatewayInv'
<1>1. TypeOK /\ next[r] \in Indices
  BY SendingFacts DEF WriteAbandoned
<1>2. Land({}) /\ {} \in SUBSET {<<r, next[r]>>}
  BY <1>1 DEF WriteAbandoned, TypeOK, Land
<1>3. faults' \in 0..MaxFaults
  BY <1>1 DEF WriteAbandoned, TypeOK
<1> QED  BY <1>2, <1>3, FailedWriteInv DEF WriteAbandoned, StopAtFirstError

\* A request whose handler stays where it is, or is cut off, keeps its invariant
\* when messages in flight land.
LEMMA LandingKeeps ==
    ASSUME GatewayInv, NEW S \in SUBSET InFlight, Land(S), orphans' \subseteq orphans,
           UNCHANGED <<input, next, reply>>, NEW r \in Requests,
           pc'[r] = pc[r] \/ (pc[r] \notin Idle /\ pc'[r] = "killed" /\ orphans' = {})
    PROVE  RequestInv(r)'
<1>0. TypeOK /\ RequestInv(r)
  BY DEF GatewayInv
<1>1. /\ \A i \in Indices : topic[r][i] > 0 => topic'[r][i] > 0
      /\ \A i \in Indices : topic'[r][i] > 0 \/ <<r, i>> \in orphans => i <= next[r]
      /\ \A i \in 1..(next[r] - 1) : topic'[r][i] > 0
  BY LandInFlight
<1>2. \A i \in Indices : Trace(r, i)' => i <= next'[r]
  BY <1>1 DEF Trace
<1>3. reply[r] = "ok" => \A i \in 1..Len(input[r].records) : topic'[r][i] > 0
  <2>1. Len(input[r].records) \in 0..MaxRecords /\ MaxRecords \in Nat
    BY <1>0, InputFacts
  <2>2. 1..Len(input[r].records) \subseteq Indices
    BY <2>1 DEF Indices
  <2> QED  BY <1>0, <1>1, <2>2 DEF RequestInv
<1>4. CASE pc'[r] = pc[r]
  BY <1>0, <1>1, <1>2, <1>3, <1>4 DEF RequestInv
<1>5. CASE pc[r] \notin Idle /\ pc'[r] = "killed" /\ orphans' = {}
  <2>1. reply[r] = "none"
    BY <1>0, <1>5 DEF RequestInv, Idle
  <2> QED  BY <1>1, <1>2, <1>5, <2>1 DEF RequestInv
<1> QED  BY <1>4, <1>5

\* Messages in flight land while the handlers stay where they are.
LEMMA LandStep ==
    ASSUME GatewayInv, NEW S \in SUBSET InFlight, Land(S), orphans' \subseteq orphans,
           faults' \in 0..MaxFaults,
           UNCHANGED <<mainVars, pc, input, next, gone, reply, metrics>>
    PROVE  GatewayInv'
<1>0. TypeOK /\ ShutdownInv
  BY DEF GatewayInv
<1>1. UNCHANGED <<phase, timedOut, crashed, bus, pc, input, next, gone, reply, metrics>>
  BY DEF mainVars
<1>2. TypeOK'
  <2>1. topic' \in [Requests -> [Indices -> Nat]]
    BY <1>0, LandFacts
  <2> QED  BY <1>0, <1>1, <2>1 DEF TypeOK
<1>3. ASSUME NEW r \in Requests PROVE RequestInv(r)'
  BY <1>1, <1>3, LandingKeeps
<1>4. ActiveHTTP' = ActiveHTTP /\ ActiveGRPC' = ActiveGRPC
  BY <1>1 DEF ActiveHTTP, ActiveGRPC
<1>5. ShutdownInv'
  BY <1>0, <1>1, <1>4 DEF ShutdownInv
<1>6. DrainedBeforeClose'
  BY <1>1 DEF GatewayInv, DrainedBeforeClose
<1> QED  BY <1>2, <1>3, <1>5, <1>6 DEF GatewayInv

\* A lost ack: the message lands, and is sent again.
LEMMA ResendInv ==
    ASSUME GatewayInv, NEW r \in Requests, NEW i \in Indices, Resend(r, i)
    PROVE  GatewayInv'
<1>1. {<<r, i>>} \in SUBSET InFlight /\ Land({<<r, i>>})
  BY DEF Resend
<1>2. faults' \in 0..MaxFaults
  BY FaultType DEF GatewayInv, Resend
<1> QED  BY <1>1, <1>2, LandStep DEF Resend

\* An orphan lands where it was known to land, or not at all.
LEMMA OrphanSettlesInv ==
    ASSUME GatewayInv, NEW r \in Requests, NEW i \in Indices, OrphanSettles(r, i)
    PROVE  GatewayInv'
<1>1. PICK S \in SUBSET {<<r, i>>} : Land(S)
  BY DEF OrphanSettles
<1>2. S \in SUBSET InFlight /\ orphans' \subseteq orphans
  BY DEF OrphanSettles, InFlight
<1>3. faults' \in 0..MaxFaults
  BY DEF GatewayInv, TypeOK, OrphanSettles
<1> QED  BY <1>1, <1>2, <1>3, LandStep DEF OrphanSettles

\* The steps of main up to its return leave the requests alone.
LEMMA MainStep ==
    ASSUME GatewayInv, UNCHANGED requestVars, UNCHANGED crashed, ShutdownInv', TypeOK',
           timedOut => timedOut'
    PROVE  GatewayInv'
<1>1. ASSUME NEW q \in Requests PROVE RequestInv(q)'
  BY OthersKeep DEF GatewayInv, requestVars
<1>2. DrainedBeforeClose'
  BY DEF GatewayInv, DrainedBeforeClose, requestVars
<1> QED  BY <1>1, <1>2 DEF GatewayInv

\* The signal starts srv.Shutdown.
LEMMA SignalInv == ASSUME GatewayInv, Signal PROVE GatewayInv'
<1>1. ShutdownInv'
  BY DEF GatewayInv, ShutdownInv, Signal, requestVars
<1>2. TypeOK'
  BY DEF GatewayInv, TypeOK, Signal, requestVars
<1> QED  BY <1>1, <1>2, MainStep DEF Signal

\* srv.Shutdown returns when the handlers are done, or at its timeout.
LEMMA ShutdownReturnsInv == ASSUME GatewayInv, ShutdownReturns PROVE GatewayInv'
<1>1. faults' \in 0..MaxFaults /\ timedOut' \in BOOLEAN
  BY DEF GatewayInv, TypeOK, ShutdownReturns
<1>2. TypeOK'
  BY <1>1 DEF GatewayInv, TypeOK, ShutdownReturns, requestVars
<1>3. ActiveHTTP' = ActiveHTTP /\ ActiveGRPC' = ActiveGRPC
  BY DEF ShutdownReturns, requestVars, ActiveHTTP, ActiveGRPC
<1>4. ShutdownInv'
  BY <1>3 DEF GatewayInv, ShutdownInv, ShutdownReturns, requestVars
<1>5. timedOut => timedOut'
  BY DEF ShutdownReturns
<1> QED  BY <1>2, <1>4, <1>5, MainStep DEF ShutdownReturns

\* GracefulStop returns when the gRPC handlers are done.
LEMMA GracefulStopReturnsInv == ASSUME GatewayInv, GracefulStopReturns PROVE GatewayInv'
<1>1. TypeOK'
  BY DEF GatewayInv, TypeOK, GracefulStopReturns, requestVars
<1>2. ActiveHTTP' = ActiveHTTP /\ ActiveGRPC' = ActiveGRPC
  BY DEF GracefulStopReturns, requestVars, ActiveHTTP, ActiveGRPC
<1>3. ShutdownInv'
  BY <1>2 DEF GatewayInv, ShutdownInv, GracefulStopReturns, RPCsEnded, requestVars
<1> QED  BY <1>1, <1>3, MainStep DEF GracefulStopReturns

\* Close returns when the writer has flushed what it holds.
LEMMA BusCloseReturnsInv == ASSUME GatewayInv, BusCloseReturns PROVE GatewayInv'
<1>1. TypeOK'
  BY DEF GatewayInv, TypeOK, BusCloseReturns, Closed, requestVars
<1>2. ActiveHTTP' = ActiveHTTP /\ ActiveGRPC' = ActiveGRPC
  BY DEF BusCloseReturns, Closed, requestVars, ActiveHTTP, ActiveGRPC
<1>3. ShutdownInv'
  BY <1>2 DEF GatewayInv, ShutdownInv, BusCloseReturns, Closed, requestVars
<1> QED  BY <1>1, <1>3, MainStep DEF BusCloseReturns, Closed

\* The end of the process: a handler it cuts off is an HTTP one that outlived
\* srv.Shutdown, or the process crashed.
LEMMA StopInv ==
    ASSUME GatewayInv, Stop, faults' \in 0..MaxFaults, crashed' \in BOOLEAN,
           crashed => crashed', phase = "closed" \/ crashed'
    PROVE  GatewayInv'
<1>0. TypeOK /\ ShutdownInv /\ DrainedBeforeClose
  BY DEF GatewayInv
<1>1. /\ \A r \in Requests : pc'[r] = IF pc[r] \in Idle THEN pc[r] ELSE "killed"
      /\ pc' \in [Requests -> Idle]
      /\ phase' = "exited" /\ orphans' = {}
      /\ UNCHANGED <<timedOut, bus, input, next, gone, reply, metrics>>
  BY <1>0 DEF TypeOK, Stop, Idle
<1>a. PICK S \in SUBSET InFlight : Land(S)
  BY DEF Stop
<1>2. TypeOK'
  <2>1. topic' \in [Requests -> [Indices -> Nat]]
    BY <1>0, <1>a, LandFacts
  <2> QED  BY <1>0, <1>1, <2>1 DEF TypeOK
<1>3. ASSUME NEW q \in Requests PROVE RequestInv(q)'
  BY <1>1, <1>a, LandingKeeps
<1>4. ShutdownInv'
  BY <1>1 DEF ShutdownInv, Idle
<1>5. ASSUME NEW q \in Requests, reply'[q] = "closed" \/ (pc'[q] = "killed" /\ ~crashed')
      PROVE  timedOut' /\ input'[q].via # "grpc"
  <2>1. CASE reply[q] = "closed" \/ (pc[q] = "killed" /\ ~crashed)
    BY <1>0, <1>1, <2>1 DEF DrainedBeforeClose
  <2>2. CASE pc[q] \notin Idle /\ phase = "closed"
    <3>1. bus # "open"
      BY <1>0, <2>2 DEF ShutdownInv
    <3> QED  BY <1>1, <2>2, <3>1, ActiveWhenClosing
  <2> QED  BY <1>1, <1>5, <2>1, <2>2
<1>6. DrainedBeforeClose'
  BY <1>5 DEF DrainedBeforeClose
<1> QED  BY <1>2, <1>3, <1>4, <1>6 DEF GatewayInv

\* main returns and takes the remaining handlers with it.
LEMMA MainReturnsInv == ASSUME GatewayInv, MainReturns PROVE GatewayInv'
BY StopInv DEF MainReturns, GatewayInv, TypeOK

\* A crash takes every handler with it.
LEMMA CrashInv == ASSUME GatewayInv, Crash PROVE GatewayInv'
BY StopInv, FaultType DEF Crash, GatewayInv, TypeOK

\* Nothing changes in a stuttering step.
LEMMA StutterInv == ASSUME GatewayInv, UNCHANGED vars PROVE GatewayInv'
<1>1. TypeOK'
  BY DEF GatewayInv, TypeOK, vars
<1>2. ActiveHTTP' = ActiveHTTP /\ ActiveGRPC' = ActiveGRPC
  BY DEF vars, ActiveHTTP, ActiveGRPC
<1>3. ShutdownInv'
  BY <1>2 DEF GatewayInv, ShutdownInv, vars
<1> QED  BY <1>1, <1>3, MainStep DEF vars, requestVars

\* Every step keeps the invariant.
LEMMA NextInv == GatewayInv /\ [Next]_vars => GatewayInv'
<1> SUFFICES ASSUME GatewayInv, [Next]_vars PROVE GatewayInv'
  OBVIOUS
<1>1. ASSUME NEW r \in Requests, Accept(r) \/ BodyArrives(r) \/ Handle(r) \/ Disconnect(r)
      PROVE  GatewayInv'
  BY <1>1, AcceptInv, AuthorizeInv, BodyArrivesInv, ReadFailsInv, RejectInv,
     AcceptEmptyInv, BeginPublishInv, PublishGoneInv, PublishStartInv, PublishLockInv,
     EnterWriteInv, WriteOKInv, WriteErrInv, WriteAbandonedInv, DisconnectInv DEF Handle
<1>2. CASE \E r \in Requests, i \in Indices : Resend(r, i) \/ OrphanSettles(r, i)
  BY <1>2, ResendInv, OrphanSettlesInv
<1>3. CASE Signal \/ Main \/ Crash
  BY <1>3, SignalInv, ShutdownReturnsInv, GracefulStopReturnsInv, BusCloseReturnsInv,
     MainReturnsInv, CrashInv DEF Main
<1>4. CASE Exited \/ UNCHANGED vars
  BY <1>4, StutterInv DEF Exited
<1> QED  BY <1>1, <1>2, <1>3, <1>4 DEF Next

\* The invariant does not depend on whose faults are counted.
LEMMA FaultsElsewhere ==
    ASSUME GatewayInv, faults' \in 0..MaxFaults,
           UNCHANGED <<phase, timedOut, crashed, bus, pc, input, next, gone, reply,
                       topic, orphans, metrics>>
    PROVE  GatewayInv'
<1>1. TypeOK'
  BY DEF GatewayInv, TypeOK
<1>2. ActiveHTTP' = ActiveHTTP /\ ActiveGRPC' = ActiveGRPC
  BY DEF ActiveHTTP, ActiveGRPC
<1>3. ShutdownInv'
  BY <1>2 DEF GatewayInv, ShutdownInv
<1> QED  BY <1>1, <1>3, MainStep DEF requestVars

-----------------------------------------------------------------------------
(* What a step may do to the answers and to the topic. *)

\* An answer is final.
LEMMA AnswersStay ==
    ASSUME GatewayInv, Next, NEW q \in Requests, reply[q] # "none"
    PROVE  reply'[q] = reply[q]
<1>1. pc[q] = "replied" /\ TypeOK
  BY DEF GatewayInv, RequestInv
<1>2. ASSUME NEW r \in Requests, NEW outcome, Replied(r, outcome), pc[r] # "replied"
      PROVE  reply'[q] = reply[q]
  BY <1>1, <1>2 DEF Replied, TypeOK
<1>3. ASSUME NEW r \in Requests, Accept(r) \/ BodyArrives(r) \/ Handle(r) \/ Disconnect(r)
      PROVE  reply'[q] = reply[q]
  BY <1>2, <1>3 DEF Handle, Accept, BodyArrives, Authorize, ReadFails, Reject,
     AcceptEmpty, BeginPublish, PublishGone, PublishStart, PublishLock, EnterWrite, WriteOK, Advance, WriteErr, WriteAbandoned,
     StopAtFirstError, Failed, Disconnect
<1>4. CASE Signal \/ Main \/ Crash \/ Exited
  BY <1>4 DEF Signal, Main, ShutdownReturns, GracefulStopReturns, BusCloseReturns,
     Closed, MainReturns, Crash, Stop, Exited, requestVars, vars
<1>5. CASE \E r \in Requests, i \in Indices : Resend(r, i) \/ OrphanSettles(r, i)
  BY <1>5 DEF Resend, OrphanSettles
<1> QED  BY <1>3, <1>4, <1>5 DEF Next

\* Event i of r lands in this step, once; it was in flight, and it does not land
\* again unless the step is a fault.
Lands(r, i) ==
    /\ <<r, i>> \in InFlight
    /\ topic'[r][i] = topic[r][i] + 1
    /\ ~MayLand(r, i)' \/ faults' = faults + 1

\* What a step does to the events: it lands some, and no other may land later on.
LandingStep ==
    /\ \A q \in Requests, i \in Indices : topic'[q][i] = topic[q][i] \/ Lands(q, i)
    /\ \A q \in Requests, i \in Indices : MayLand(q, i)' => MayLand(q, i)

\* A message in flight may land.
LEMMA InFlightMayLand ==
    ASSUME TypeOK, NEW r \in Requests, NEW i \in Indices, <<r, i>> \in InFlight
    PROVE  MayLand(r, i)
<1>1. <<r, i>> \in orphans \/ (pc[r] = "send" /\ i = next[r])
  BY InFlightIs
<1>2. i = next[r] => i >= next[r]
  BY GatewayAssumption DEF Indices
<1> QED  BY <1>1, <1>2 DEF MayLand

\* The end of WriteMessages for the event that the handler of r is at.
LEMMA WriteLands ==
    ASSUME GatewayInv, NEW r \in Requests, WriteOK(r) \/ WriteErr(r) \/ WriteAbandoned(r)
    PROVE  LandingStep
<1>0. pc[r] = "send"
  BY DEF WriteOK, WriteErr, WriteAbandoned
<1>1. /\ TypeOK /\ RequestInv(r) /\ pc[r] \notin Idle
      /\ next[r] \in Indices /\ next[r] \in Nat
  BY <1>0, SendingFacts DEF Indices
<1>2. \A i \in Indices : <<r, i>> \notin orphans
  BY <1>0, <1>1 DEF RequestInv
<1>3. PICK S \in SUBSET {<<r, next[r]>>} : Land(S) /\ (WriteAbandoned(r) => S = {})
  <2>1. WriteAbandoned(r) => Land({})
    BY <1>1 DEF WriteAbandoned, TypeOK, Land
  <2>2. WriteOK(r) => pc'[r] # pc[r]
    BY <1>0, <1>1 DEF WriteOK, Advance, Replied, TypeOK
  <2>3. CASE WriteAbandoned(r)
    BY <2>1, <2>3
  <2>4. CASE ~WriteAbandoned(r)
    BY <2>4 DEF WriteOK, WriteErr
  <2> QED  BY <2>3, <2>4
<1>4. /\ \A q \in Requests : q # r => pc'[q] = pc[q] /\ next'[q] = next[q]
      /\ \/ pc'[r] = "replied" /\ next'[r] = next[r]
         \/ WriteOK(r) /\ next'[r] = next[r] + 1
      /\ orphans' = orphans \/ (WriteAbandoned(r) /\ orphans' = orphans \cup {<<r, next[r]>>})
  BY <1>1 DEF WriteOK, Advance, StayAtLast, WriteErr, WriteAbandoned, StopAtFirstError,
     Failed, Replied, TypeOK
<1>5. ASSUME NEW q \in Requests, NEW i \in Indices, MayLand(q, i)' PROVE MayLand(q, i)
  <2>1. CASE q = r
    BY <1>0, <1>1, <1>2, <1>4, <1>5, <2>1 DEF MayLand, Indices
  <2>2. CASE q # r
    BY <1>4, <1>5, <2>2 DEF MayLand
  <2> QED  BY <2>1, <2>2
<1>6. PICK at \in Indices : at = next[r]
  BY <1>1
<1>7. ~WriteAbandoned(r) => ~MayLand(r, at)'
  BY <1>1, <1>2, <1>4, <1>6 DEF MayLand
<1>8. ASSUME NEW q \in Requests, NEW i \in Indices, topic'[q][i] # topic[q][i]
      PROVE  Lands(q, i)
  <2>1. <<q, i>> \in S /\ topic'[q][i] = topic[q][i] + 1
    BY <1>1, <1>3, <1>8, LandFacts
  <2>2. q = r /\ i = at /\ ~WriteAbandoned(r)
    BY <1>3, <1>6, <2>1
  <2>3. <<q, i>> \in InFlight
    BY <1>0, <1>6, <2>2, InFlightIs
  <2> QED  BY <1>7, <2>1, <2>2, <2>3 DEF Lands
<1> QED  BY <1>5, <1>8 DEF LandingStep

\* The Kafka writer sends a message again, or settles one that was abandoned.
LEMMA WriterLands ==
    ASSUME GatewayInv, NEW r \in Requests, NEW i \in Indices, Resend(r, i) \/ OrphanSettles(r, i)
    PROVE  LandingStep
<1>1. TypeOK /\ RequestInv(r) /\ UNCHANGED <<pc, next>> /\ orphans' \subseteq orphans
  BY DEF GatewayInv, Resend, OrphanSettles
<1>2. PICK S \in SUBSET {<<r, i>>} : Land(S)
  BY DEF Resend, OrphanSettles
<1>3. <<r, i>> \in InFlight
  BY DEF Resend, OrphanSettles, InFlight
<1>4. ~MayLand(r, i)' \/ faults' = faults + 1
  <2>1. CASE Resend(r, i)
    BY <2>1 DEF Resend, Fault
  <2>2. CASE OrphanSettles(r, i)
    <3>1. pc[r] = "replied" /\ <<r, i>> \notin orphans'
      BY <1>1, <2>2 DEF OrphanSettles, RequestInv
    <3> QED  BY <1>1, <3>1 DEF MayLand
  <2> QED  BY <2>1, <2>2
<1>5. \A q \in Requests, j \in Indices : MayLand(q, j)' => MayLand(q, j)
  BY <1>1 DEF MayLand
<1>6. ASSUME NEW q \in Requests, NEW j \in Indices, topic'[q][j] # topic[q][j]
      PROVE  Lands(q, j)
  <2>1. <<q, j>> \in S /\ topic'[q][j] = topic[q][j] + 1
    BY <1>1, <1>2, <1>6, LandFacts
  <2>2. q = r /\ j = i
    BY <1>2, <2>1
  <2> QED  BY <1>3, <1>4, <2>1, <2>2 DEF Lands
<1> QED  BY <1>5, <1>6 DEF LandingStep

\* The process ends, and with it all that may land.
LEMMA StopLands ==
    ASSUME GatewayInv, Stop
    PROVE  LandingStep
<1>1. TypeOK /\ orphans' = {} /\ next' = next
  BY DEF GatewayInv, Stop
<1>2. PICK S \in SUBSET InFlight : Land(S)
  BY DEF Stop
<1>3. \A q \in Requests : pc'[q] = IF pc[q] \in Idle THEN pc[q] ELSE "killed"
  BY DEF Stop
<1>4. \A q \in Requests, i \in Indices : MayLand(q, i)' => MayLand(q, i)
  BY <1>1, <1>3 DEF MayLand
<1>5. ASSUME NEW q \in Requests, NEW i \in Indices, topic'[q][i] # topic[q][i]
      PROVE  Lands(q, i)
  <2>1. <<q, i>> \in S /\ topic'[q][i] = topic[q][i] + 1
    BY <1>1, <1>2, <1>5, LandFacts
  <2>2. <<q, i>> \in orphans \/ pc[q] = "send"
    BY <1>2, <2>1, InFlightIs
  <2>3. pc'[q] \in {"replied", "killed"}
    BY <1>3, <2>2 DEF GatewayInv, RequestInv, Idle
  <2> QED  BY <1>1, <1>2, <2>1, <2>3 DEF Lands, MayLand
<1> QED  BY <1>4, <1>5 DEF LandingStep

\* Over all steps: an event lands once in a step and never again afterwards, or the
\* step is a fault; and one that cannot land any more stays so.
LEMMA StepLands ==
    ASSUME GatewayInv, Next
    PROVE  /\ LandingStep
           /\ faults' \in 0..MaxFaults /\ faults <= faults'
<1>0. TypeOK /\ \A r \in Requests : RequestInv(r)
  BY DEF GatewayInv
<1>1. faults' \in 0..MaxFaults /\ faults <= faults'
  <2>1. UNCHANGED faults \/ Fault
    BY DEF Next, Handle, Accept, BodyArrives, Authorize, ReadFails, Reject, AcceptEmpty,
       BeginPublish, PublishGone, PublishStart, PublishLock, EnterWrite, WriteOK, WriteErr,
       WriteAbandoned, Disconnect, Resend, OrphanSettles, Signal, Main, ShutdownReturns,
       GracefulStopReturns, BusCloseReturns, Closed, MainReturns, Crash, Exited, vars
  <2> QED  BY <1>0, <2>1, GatewayAssumption DEF Fault, TypeOK
\* A step that leaves the topic and the orphans alone moves one handler at most.
<1>2. ASSUME NEW r \in Requests,
             \/ Accept(r) \/ BodyArrives(r) \/ Authorize(r) \/ ReadFails(r) \/ Reject(r)
             \/ AcceptEmpty(r) \/ BeginPublish(r) \/ PublishGone(r) \/ PublishStart(r)
             \/ PublishLock(r) \/ EnterWrite(r) \/ Disconnect(r)
      PROVE  LandingStep
  <2>1. UNCHANGED <<topic, orphans>>
    BY <1>2 DEF Accept, BodyArrives, Authorize, ReadFails, Reject, AcceptEmpty,
       BeginPublish, PublishGone, PublishStart, PublishLock, EnterWrite, Disconnect
  <2>2. pc[r] \notin {"replied", "killed"}
    BY <1>2 DEF Accept, BodyArrives, Authorize, ReadFails, Reject, AcceptEmpty,
       BeginPublish, PublishGone, PublishStart, PublishLock, EnterWrite, Disconnect, Idle
  <2>3. \A q \in Requests : q # r => pc'[q] = pc[q] /\ next'[q] = next[q]
    BY <1>0, <1>2 DEF Accept, BodyArrives, Authorize, ReadFails, Reject, AcceptEmpty,
       BeginPublish, PublishGone, PublishStart, PublishLock, EnterWrite, Disconnect,
       Failed, Replied, TypeOK
  <2>4. next'[r] = next[r] \/ (next'[r] = 1 /\ pc[r] = "handle")
    BY <1>0, <1>2 DEF Accept, BodyArrives, Authorize, ReadFails, Reject, AcceptEmpty,
       BeginPublish, PublishGone, PublishStart, PublishLock, EnterWrite, Disconnect,
       TypeOK
  <2>5. pc[r] = "handle" => next[r] = 0
    BY <1>0 DEF RequestInv
  <2>6. ASSUME NEW q \in Requests, NEW i \in Indices, MayLand(q, i)' PROVE MayLand(q, i)
    <3>1. CASE q = r
      <4>1. i >= next'[r] => i >= next[r]
        BY <2>4, <2>5 DEF Indices
      <4> QED  BY <2>1, <2>2, <2>6, <3>1, <4>1 DEF MayLand
    <3>2. CASE q # r
      BY <2>1, <2>3, <2>6, <3>2 DEF MayLand
    <3> QED  BY <3>1, <3>2
  <2> QED  BY <2>1, <2>6 DEF LandingStep
<1>3. ASSUME Signal \/ ShutdownReturns \/ GracefulStopReturns \/ BusCloseReturns \/ Exited
      PROVE  LandingStep
  <2>1. UNCHANGED <<topic, next, orphans, pc>>
    BY <1>3 DEF Signal, ShutdownReturns, GracefulStopReturns, BusCloseReturns,
       Closed, Exited, requestVars, vars
  <2> QED  BY <2>1 DEF LandingStep, MayLand
<1>4. ASSUME MainReturns \/ Crash PROVE LandingStep
  BY <1>4, StopLands DEF MainReturns, Crash
<1>5. ASSUME NEW r \in Requests, NEW i \in Indices, Resend(r, i) \/ OrphanSettles(r, i)
      PROVE  LandingStep
  BY <1>5, WriterLands
<1>6. ASSUME NEW r \in Requests, WriteOK(r) \/ WriteErr(r) \/ WriteAbandoned(r)
      PROVE  LandingStep
  BY <1>6, WriteLands
<1> QED  BY <1>1, <1>2, <1>3, <1>4, <1>5, <1>6 DEF Next, Handle, Main

-----------------------------------------------------------------------------
(* The theorems. *)

\* The inductive invariant holds, and with it the types of the variables.
THEOREM GatewayInvariant == Spec => []GatewayInv
BY InitInv, NextInv, PTL DEF Spec

\* A request answered with success has all its events on the topic
\* (publishEvents and Redpanda.Publish), whatever interleaves.
THEOREM AckIsDurableHolds == Spec => []AckIsDurable
<1>1. GatewayInv => AckIsDurable
  <2> SUFFICES ASSUME GatewayInv, NEW r \in Requests, reply[r] = "ok",
                      NEW i \in 1..Len(input[r].records)
               PROVE  topic[r][i] >= 1
    BY DEF AckIsDurable
  <2>1. topic[r][i] > 0 /\ i \in Indices
    <3>1. Len(input[r].records) \in 0..MaxRecords /\ MaxRecords \in Nat
      BY InputFacts DEF GatewayInv
    <3> QED  BY <3>1 DEF GatewayInv, RequestInv, Indices
  <2>2. topic[r][i] \in Nat
    BY <2>1 DEF GatewayInv, TypeOK
  <2> QED  BY <2>1, <2>2
<1> QED  BY <1>1, GatewayInvariant, PTL

\* A request answered with 400 or 401, or cut off before its message was there, has
\* left nothing on the topic (ServeHTTP and Export validate before they publish).
THEOREM RejectedLeavesNoTraceHolds == Spec => []RejectedLeavesNoTrace
<1>1. GatewayInv => RejectedLeavesNoTrace
  <2> SUFFICES ASSUME GatewayInv, NEW r \in Requests,
                      reply[r] \in {"invalid", "unauthorized", "aborted"}, NEW i \in Indices
               PROVE  topic[r][i] = 0 /\ <<r, i>> \notin orphans
    BY DEF RejectedLeavesNoTrace
  <2>1. next[r] = 0 /\ MaxRecords \in Nat
    BY GatewayAssumption DEF GatewayInv, RequestInv
  <2>2. ~Trace(r, i)
    BY <2>1 DEF GatewayInv, RequestInv, Indices
  <2>3. topic[r][i] \in Nat
    BY DEF GatewayInv, TypeOK
  <2> QED  BY <2>2, <2>3 DEF Trace
<1> QED  BY <1>1, GatewayInvariant, PTL

\* What a request leaves is a gap-free prefix of its events.
THEOREM PublishedPrefixHolds == Spec => []PublishedPrefix
<1>1. GatewayInv => PublishedPrefix
  <2> SUFFICES ASSUME GatewayInv, NEW r \in Requests, NEW i \in Indices, Trace(r, i)
               PROVE  i <= next[r] /\ \A j \in 1..(i - 1) : topic[r][j] > 0
    BY DEF PublishedPrefix, Trace
  <2>1. i <= next[r] /\ next[r] \in Nat /\ i \in Nat
    BY GatewayAssumption DEF GatewayInv, RequestInv, TypeOK, Indices
  <2>2. \A j \in 1..(i - 1) : j \in 1..(next[r] - 1)
    BY <2>1
  <2> QED  BY <2>1, <2>2 DEF GatewayInv, RequestInv
<1> QED  BY <1>1, GatewayInvariant, PTL

\* The order of main's deferred calls drains every handler before the broker
\* closes, but for HTTP handlers that outlived srv.Shutdown's deadline.
THEOREM DrainedBeforeCloseHolds == Spec => []DrainedBeforeClose
<1>1. GatewayInv => DrainedBeforeClose
  BY DEF GatewayInv
<1> QED  BY <1>1, GatewayInvariant, PTL

\* Once Close has returned nothing is added to the topic.
THEOREM ClosedBusIsQuietHolds == Spec => ClosedBusIsQuiet
<1>1. GatewayInv /\ [Next]_vars => [bus = "closed" => UNCHANGED topic]_vars
  <2> SUFFICES ASSUME GatewayInv, Next, bus = "closed" PROVE UNCHANGED topic
    BY DEF vars
  <2>1. phase \in {"closed", "exited"}
    BY DEF GatewayInv, ShutdownInv, TypeOK
  <2>2. orphans = {} /\ \A r \in Requests : pc[r] # "send"
    BY <2>1 DEF GatewayInv, ShutdownInv
  <2>3. InFlight = {} /\ TypeOK
    BY <2>2 DEF InFlight, GatewayInv
  <2>4. \A r \in Requests, i \in Indices : topic'[r][i] = topic[r][i]
    BY <2>3, StepLands DEF LandingStep, Lands
  <2>5. /\ topic \in [Requests -> [Indices -> Nat]]
        /\ topic' \in [Requests -> [Indices -> Nat]]
    BY <2>3, NextInv DEF GatewayInv, TypeOK
  <2>6. \A r \in Requests : topic'[r] = topic[r]
    BY <2>4, <2>5
  <2> QED  BY <2>5, <2>6
<1> QED  BY <1>1, GatewayInvariant, PTL DEF Spec, ClosedBusIsQuiet

-----------------------------------------------------------------------------
(* The counters.  What they are compared with are cardinalities, so the     *)
(* invariant also says that finitely many requests have been answered.      *)

\* What the counters say, and that what they count is finite.
MetricsInv ==
    /\ MetricsMatchReplies
    /\ IsFiniteSet(Answered(Replies, {"rest", "otlp", "grpc"}))
    /\ IsFiniteSet(AckedLogs)

\* Any part of the answered requests is finite.
LEMMA AnsweredFinite ==
    ASSUME MetricsInv, NEW outcomes \in SUBSET Replies,
           NEW vias \in SUBSET {"rest", "otlp", "grpc"}
    PROVE  /\ IsFiniteSet(Answered(outcomes, vias))
           /\ Cardinality(Answered(outcomes, vias)) \in Nat
<1>1. Answered(outcomes, vias) \subseteq Answered(Replies, {"rest", "otlp", "grpc"})
  BY DEF Answered
<1>2. IsFiniteSet(Answered(outcomes, vias))
  BY <1>1, FS_Subset DEF MetricsInv
<1> QED  BY <1>2, FS_CardinalityType

\* An answer adds its request to the sets it belongs to and to no other.
LEMMA AnsweredGrows ==
    ASSUME TypeOK, MetricsInv, NEW r \in Requests, reply[r] = "none",
           NEW outcome \in Replies, Replied(r, outcome), UNCHANGED input,
           NEW outcomes \in SUBSET Replies,
           NEW vias \in SUBSET {"rest", "otlp", "grpc"}
    PROVE  IF outcome \in outcomes /\ input[r].via \in vias
           THEN /\ Answered(outcomes, vias)' = Answered(outcomes, vias) \cup {r}
                /\ r \notin Answered(outcomes, vias)
                /\ IsFiniteSet(Answered(outcomes, vias)')
                /\ Cardinality(Answered(outcomes, vias)') =
                      Cardinality(Answered(outcomes, vias)) + 1
           ELSE Answered(outcomes, vias)' = Answered(outcomes, vias)
<1> DEFINE A == Answered(outcomes, vias)
<1>1. IsFiniteSet(A) /\ Cardinality(A) \in Nat
  BY AnsweredFinite
<1>2. reply'[r] = outcome /\ \A q \in Requests : q # r => reply'[q] = reply[q]
  BY RepliedFacts DEF Replies
<1>3. "none" \notin outcomes
  BY DEF Replies
<1>4. r \notin A
  BY <1>3 DEF Answered
<1>5. CASE outcome \in outcomes /\ input[r].via \in vias
  <2>1. Answered(outcomes, vias)' = A \cup {r}
    BY <1>2, <1>5 DEF Answered
  <2>2. IsFiniteSet(A \cup {r}) /\ Cardinality(A \cup {r}) = Cardinality(A) + 1
    BY <1>1, <1>4, FS_AddElement
  <2> QED  BY <1>4, <1>5, <2>1, <2>2
<1>6. CASE ~(outcome \in outcomes /\ input[r].via \in vias)
  <2>1. Answered(outcomes, vias)' = A
    BY <1>2, <1>3, <1>6 DEF Answered
  <2> QED  BY <1>6, <2>1
<1> QED  BY <1>5, <1>6

\* The log records that an acknowledgement adds are those of its request.
LEMMA AckedLogsGrow ==
    ASSUME TypeOK, MetricsInv, NEW r \in Requests, reply[r] = "none",
           NEW outcome \in Replies, Replied(r, outcome), UNCHANGED input
    PROVE  IF outcome = "ok" /\ input[r].via # "rest"
           THEN /\ IsFiniteSet(AckedLogs')
                /\ Cardinality(AckedLogs') = Cardinality(AckedLogs) + Logs(r)
           ELSE AckedLogs' = AckedLogs
<1> DEFINE new == {r} \X (1..Logs(r))
           A == Answered({"ok"}, {"otlp", "grpc"})
<1>0. {"ok"} \in SUBSET Replies /\ {"otlp", "grpc"} \in SUBSET {"rest", "otlp", "grpc"}
  BY DEF Replies
<1>1. input[r].via \in {"rest", "otlp", "grpc"}
  BY InputFacts
<1>2. CASE outcome = "ok" /\ input[r].via # "rest"
  <2>1. Answered({"ok"}, {"otlp", "grpc"})' = A \cup {r} /\ r \notin A
    BY <1>0, <1>1, <1>2, AnsweredGrows
  <2>2. Logs(r) \in 0..MaxRecords /\ MaxRecords \in Nat
    BY InputFacts DEF Logs
  <2>3. AckedLogs' = AckedLogs \cup new
    <3>1. ASSUME NEW e PROVE e \in AckedLogs' <=> e \in AckedLogs \cup new
      <4>1. e \in AckedLogs' <=> /\ e \in Requests \X Indices
                                /\ e[1] \in A \cup {r}
                                /\ e[2] <= Len(input[e[1]].records)
        BY <2>1 DEF AckedLogs
      <4>2. e \in AckedLogs <=> /\ e \in Requests \X Indices
                               /\ e[1] \in A
                               /\ e[2] <= Len(input[e[1]].records)
        BY DEF AckedLogs
      <4>3. e \in new <=> /\ e \in Requests \X Indices
                         /\ e[1] = r
                         /\ e[2] <= Len(input[e[1]].records)
        BY <2>2 DEF Indices, Logs
      <4> QED  BY <4>1, <4>2, <4>3
    <3> QED  BY <3>1
  <2>4. AckedLogs \cap new = {}
    BY <2>1 DEF AckedLogs
  <2>5. IsFiniteSet(new) /\ Cardinality(new) = Logs(r)
    <3>1. IsFiniteSet({r}) /\ Cardinality({r}) = 1
      BY FS_Singleton
    <3>2. IsFiniteSet(1..Logs(r)) /\ Cardinality(1..Logs(r)) = Logs(r)
      BY <2>2, FS_Interval
    <3>3. IsFiniteSet(new) /\ Cardinality(new) = Cardinality({r}) * Cardinality(1..Logs(r))
      BY <3>1, <3>2, FS_Product
    <3> QED  BY <2>2, <3>1, <3>2, <3>3
  <2> HIDE DEF new
  <2>6. /\ IsFiniteSet(AckedLogs \cup new)
        /\ Cardinality(AckedLogs \cup new) =
              Cardinality(AckedLogs) + Cardinality(new) - Cardinality(AckedLogs \cap new)
    BY <2>5, FS_Union DEF MetricsInv
  <2>7. Cardinality(AckedLogs \cap new) = 0 /\ Cardinality(AckedLogs) \in Nat
    BY <2>4, FS_EmptySet, FS_CardinalityType DEF MetricsInv
  <2> QED  BY <1>2, <2>2, <2>3, <2>5, <2>6, <2>7
<1>3. CASE ~(outcome = "ok" /\ input[r].via # "rest")
  <2>1. Answered({"ok"}, {"otlp", "grpc"})' = A
    BY <1>0, <1>1, <1>3, AnsweredGrows
  <2> QED  BY <1>3, <2>1 DEF AckedLogs
<1> QED  BY <1>2, <1>3

\* A step that answers nobody leaves the counters alone.
LEMMA QuietMetrics ==
    ASSUME MetricsInv, UNCHANGED <<reply, metrics, input>> PROVE MetricsInv'
<1>1. AckedLogs' = AckedLogs
  BY DEF AckedLogs, Answered
<1>2. MetricsMatchReplies'
  BY <1>1 DEF MetricsInv, MetricsMatchReplies, Answered
<1>3. IsFiniteSet(Answered(Replies, {"rest", "otlp", "grpc"}))'
  BY DEF MetricsInv, Answered
<1> QED  BY <1>1, <1>2, <1>3 DEF MetricsInv

\* What an answer must do to the counters.
CountedAs(r, outcome) ==
    /\ reply[r] = "none" /\ Replied(r, outcome) /\ UNCHANGED input
    /\ outcome \in {"unauthorized", "aborted"} => UNCHANGED metrics
    /\ outcome = "ok" => CountOK(r)
    /\ outcome \in Errors => CountErr(r)

\* Answering and counting together keep the counters right.
LEMMA AnswerCounted ==
    ASSUME TypeOK, MetricsInv, NEW r \in Requests, NEW outcome \in Replies,
           CountedAs(r, outcome)
    PROVE  MetricsInv'
<1> DEFINE via == input[r].via
           otlp == {"otlp", "grpc"}
           restOK == Answered({"ok"}, {"rest"})
           restErr == Answered(Errors, {"rest"})
           otlpOK == Answered({"ok"}, otlp)
           otlpErr == Answered(Errors, otlp)
           Grows(A, B) == Cardinality(B) = Cardinality(A) + 1
<1>0. /\ {"ok"} \in SUBSET Replies /\ Errors \in SUBSET Replies
      /\ otlp \in SUBSET {"rest", "otlp", "grpc"}
      /\ {"rest"} \in SUBSET {"rest", "otlp", "grpc"}
  BY DEF Replies, Errors
<1>1. via \in {"rest", "otlp", "grpc"} /\ Logs(r) \in Nat
  BY InputFacts DEF Logs
<1>2. reply[r] = "none" /\ Replied(r, outcome) /\ UNCHANGED input
  BY DEF CountedAs
<1>a. ASSUME NEW outcomes \in SUBSET Replies, NEW vias \in SUBSET {"rest", "otlp", "grpc"}
      PROVE  IF outcome \in outcomes /\ via \in vias
             THEN Grows(Answered(outcomes, vias), Answered(outcomes, vias)')
             ELSE Answered(outcomes, vias)' = Answered(outcomes, vias)
  BY <1>2, AnsweredGrows
<1>b. via # "rest" <=> via \in otlp
  BY <1>1
<1>3. IF outcome = "ok" /\ via = "rest" THEN Grows(restOK, restOK') ELSE restOK' = restOK
  <2>1. IF outcome \in {"ok"} /\ via \in {"rest"} THEN Grows(restOK, restOK') ELSE restOK' = restOK
    BY ONLY <1>0, <1>a
  <2> QED  BY ONLY <2>1
<1>4. IF outcome \in Errors /\ via = "rest" THEN Grows(restErr, restErr') ELSE restErr' = restErr
  <2>1. IF outcome \in Errors /\ via \in {"rest"} THEN Grows(restErr, restErr') ELSE restErr' = restErr
    BY ONLY <1>0, <1>a
  <2> QED  BY ONLY <2>1
<1>5. IF outcome = "ok" /\ via # "rest" THEN Grows(otlpOK, otlpOK') ELSE otlpOK' = otlpOK
  <2>1. IF outcome \in {"ok"} /\ via \in otlp THEN Grows(otlpOK, otlpOK') ELSE otlpOK' = otlpOK
    BY ONLY <1>0, <1>a
  <2> QED  BY ONLY <1>b, <2>1
<1>6. IF outcome \in Errors /\ via # "rest" THEN Grows(otlpErr, otlpErr') ELSE otlpErr' = otlpErr
  <2>1. IF outcome \in Errors /\ via \in otlp THEN Grows(otlpErr, otlpErr') ELSE otlpErr' = otlpErr
    BY ONLY <1>0, <1>a
  <2> QED  BY ONLY <1>b, <2>1
<1>7. IF outcome = "ok" /\ via # "rest"
      THEN Cardinality(AckedLogs') = Cardinality(AckedLogs) + Logs(r)
      ELSE AckedLogs' = AckedLogs
  BY <1>2, AckedLogsGrow
<1>8. IsFiniteSet(Answered(Replies, {"rest", "otlp", "grpc"}))' /\ IsFiniteSet(AckedLogs)'
  <2>1. IsFiniteSet(Answered(Replies, {"rest", "otlp", "grpc"})')
    BY <1>1, <1>2, AnsweredGrows
  <2>2. IsFiniteSet(AckedLogs')
    BY <1>2, AckedLogsGrow DEF MetricsInv
  <2> QED  BY <2>1, <2>2
<1>9. metrics \in [Counters -> Nat]
  BY DEF TypeOK
<1>10. /\ metrics["restOK"] = Cardinality(restOK)
       /\ metrics["restErr"] = Cardinality(restErr)
       /\ metrics["otlpOK"] = Cardinality(otlpOK)
       /\ metrics["otlpErr"] = Cardinality(otlpErr)
       /\ metrics["otlpLogs"] = Cardinality(AckedLogs)
  BY DEF MetricsInv, MetricsMatchReplies
<1> SUFFICES /\ metrics'["restOK"] = Cardinality(restOK')
             /\ metrics'["restErr"] = Cardinality(restErr')
             /\ metrics'["otlpOK"] = Cardinality(otlpOK')
             /\ metrics'["otlpErr"] = Cardinality(otlpErr')
             /\ metrics'["otlpLogs"] = Cardinality(AckedLogs')
  BY <1>8 DEF MetricsInv, MetricsMatchReplies
<1> HIDE DEF restOK, restErr, otlpOK, otlpErr
<1>11. CASE outcome \in {"unauthorized", "aborted"}
  <2>1. metrics' = metrics /\ outcome # "ok" /\ outcome \notin Errors
    BY <1>11 DEF CountedAs, Errors
  <2> QED  BY <1>3, <1>4, <1>5, <1>6, <1>7, <1>10, <2>1
<1>12. CASE outcome = "ok"
  <2>1. CountOK(r) /\ outcome \notin Errors
    BY <1>12 DEF CountedAs, Errors
  <2>2. CASE via = "rest"
    <3>1. metrics' = [metrics EXCEPT !["restOK"] = @ + 1]
      BY <2>1, <2>2 DEF CountOK
    <3> QED  BY <1>3, <1>4, <1>5, <1>6, <1>7, <1>9, <1>10, <1>12, <2>1, <2>2, <3>1 DEF Counters
  <2>3. CASE via # "rest"
    <3>1. metrics' = [metrics EXCEPT !["otlpOK"] = @ + 1, !["otlpLogs"] = @ + Logs(r)]
      BY <2>1, <2>3 DEF CountOK
    <3> QED  BY <1>1, <1>3, <1>4, <1>5, <1>6, <1>7, <1>9, <1>10, <1>12, <2>1, <2>3, <3>1 DEF Counters
  <2> QED  BY <2>2, <2>3
<1>13. CASE outcome \in Errors
  <2>1. CountErr(r) /\ outcome # "ok"
    BY <1>13 DEF CountedAs, Errors
  <2>2. CASE via = "rest"
    <3>1. metrics' = [metrics EXCEPT !["restErr"] = @ + 1]
      BY <2>1, <2>2 DEF CountErr
    <3> QED  BY <1>3, <1>4, <1>5, <1>6, <1>7, <1>9, <1>10, <1>13, <2>1, <2>2, <3>1 DEF Counters
  <2>3. CASE via # "rest"
    <3>1. metrics' = [metrics EXCEPT !["otlpErr"] = @ + 1]
      BY <2>1, <2>3 DEF CountErr
    <3> QED  BY <1>3, <1>4, <1>5, <1>6, <1>7, <1>9, <1>10, <1>13, <2>1, <2>3, <3>1 DEF Counters
  <2> QED  BY <2>2, <2>3
<1> QED  BY <1>11, <1>12, <1>13 DEF Replies, Errors

\* Every step either answers one request and counts that answer, or neither.
LEMMA StepsCount ==
    ASSUME GatewayInv, Next
    PROVE  \/ UNCHANGED <<reply, metrics, input>>
           \/ \E r \in Requests, outcome \in Replies : CountedAs(r, outcome)
<1>1. ASSUME NEW r \in Requests, Handle(r)
      PROVE  \/ UNCHANGED <<reply, metrics, input>>
             \/ \E outcome \in Replies : CountedAs(r, outcome)
  <2>0. reply[r] = "none"
    <3>1. pc[r] # "replied"
      BY <1>1 DEF Handle, Authorize, ReadFails, Reject, AcceptEmpty, BeginPublish,
         PublishGone, PublishStart, PublishLock, EnterWrite, WriteOK, WriteErr, WriteAbandoned
    <3> QED  BY <3>1 DEF GatewayInv, RequestInv
  <2>1. UNCHANGED input
    BY <1>1 DEF Handle, Authorize, ReadFails, Reject, AcceptEmpty, BeginPublish,
       PublishGone, PublishStart, PublishLock, EnterWrite, WriteOK, WriteErr, WriteAbandoned
  <2>2. \A outcome \in Errors : Failed(r, outcome) => CountedAs(r, outcome)
    BY <2>0, <2>1 DEF CountedAs, Failed, Errors
  <2>3. Replied(r, "ok") /\ CountOK(r) => CountedAs(r, "ok")
    BY <2>0, <2>1 DEF CountedAs, Errors
  <2>4. \A outcome \in {"unauthorized", "aborted"} :
            Replied(r, outcome) /\ UNCHANGED metrics => CountedAs(r, outcome)
    BY <2>0, <2>1 DEF CountedAs, Errors
  <2>5. CASE Authorize(r)
    BY <2>1, <2>4, <2>5 DEF Authorize, Replies
  <2>6. CASE Reject(r) \/ PublishGone(r)
    BY <2>2, <2>6 DEF Reject, PublishGone, Replies, Errors
  <2>7. CASE AcceptEmpty(r)
    BY <2>3, <2>7 DEF AcceptEmpty, Replies
  <2>8. CASE BeginPublish(r) \/ PublishStart(r)
    BY <2>8 DEF BeginPublish, PublishStart
  <2>a. CASE ReadFails(r)
    BY <2>2, <2>4, <2>a DEF ReadFails, Replies, Errors
  <2>9. CASE PublishLock(r) \/ EnterWrite(r)
    BY <2>1, <2>2, <2>9 DEF PublishLock, EnterWrite, Replies, Errors
  <2>10. CASE WriteOK(r)
    BY <2>1, <2>3, <2>10 DEF WriteOK, Advance, Replies
  <2>11. CASE WriteErr(r) \/ WriteAbandoned(r)
    BY <2>2, <2>11 DEF WriteErr, WriteAbandoned, StopAtFirstError, Replies, Errors
  <2> QED  BY <1>1, <2>5, <2>6, <2>7, <2>8, <2>9, <2>10, <2>11, <2>a DEF Handle
<1>2. ASSUME NEW r \in Requests, Accept(r) \/ BodyArrives(r) \/ Disconnect(r)
      PROVE  UNCHANGED <<reply, metrics, input>>
  BY <1>2 DEF Accept, BodyArrives, Disconnect
<1>3. CASE \E r \in Requests, i \in Indices : Resend(r, i) \/ OrphanSettles(r, i)
  BY <1>3 DEF Resend, OrphanSettles
<1>4. CASE Signal \/ Main \/ Crash \/ Exited
  BY <1>4 DEF Signal, Main, ShutdownReturns, GracefulStopReturns, BusCloseReturns,
     Closed, MainReturns, Crash, Stop, Exited, requestVars, vars
<1> QED  BY <1>1, <1>2, <1>3, <1>4 DEF Next

\* The counters agree with the answers given (ingestMetrics): each answered
\* request is counted once and otlpLogs counts the acknowledged records.
THEOREM MetricsMatchRepliesHolds == Spec => []MetricsMatchReplies
<1>1. Init => MetricsInv
  <2> SUFFICES ASSUME Init PROVE MetricsInv
    OBVIOUS
  <2>1. \A outcomes \in SUBSET Replies : \A vias : Answered(outcomes, vias) = {}
    BY DEF Init, Answered, Replies
  <2>2. /\ Answered({"ok"}, {"rest"}) = {} /\ Answered(Errors, {"rest"}) = {}
        /\ Answered({"ok"}, {"otlp", "grpc"}) = {}
        /\ Answered(Errors, {"otlp", "grpc"}) = {}
        /\ Answered(Replies, {"rest", "otlp", "grpc"}) = {}
    BY <2>1 DEF Replies, Errors
  <2>3. AckedLogs = {}
    BY <2>2 DEF AckedLogs
  <2> QED  BY <2>2, <2>3, FS_EmptySet DEF Init, MetricsInv, MetricsMatchReplies, Counters
<1>2. GatewayInv /\ MetricsInv /\ [Next]_vars => MetricsInv'
  <2> SUFFICES ASSUME GatewayInv, MetricsInv, [Next]_vars PROVE MetricsInv'
    OBVIOUS
  <2>1. CASE Next
    <3>1. CASE UNCHANGED <<reply, metrics, input>>
      BY <3>1, QuietMetrics
    <3>2. ASSUME NEW r \in Requests, NEW outcome \in Replies, CountedAs(r, outcome)
          PROVE  MetricsInv'
      BY <3>2, AnswerCounted DEF GatewayInv
    <3> QED  BY <2>1, <3>1, <3>2, StepsCount
  <2>2. CASE UNCHANGED vars
    BY <2>2, QuietMetrics DEF vars
  <2> QED  BY <2>1, <2>2
<1>3. MetricsInv => MetricsMatchReplies
  BY DEF MetricsInv
<1> QED  BY <1>1, <1>2, <1>3, GatewayInvariant, PTL DEF Spec
=============================================================================
