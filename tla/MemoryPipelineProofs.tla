------------------------ MODULE MemoryPipelineProofs ------------------------
(***************************************************************************)
(* Proofs about MemoryBroker and MemoryPipeline, for any publishes,        *)
(* subscriptions and topics: the two critical sections of the in-process   *)
(* broker fit together, and no message is lost on its way to the store     *)
(* without somebody being told.                                            *)
(***************************************************************************)
EXTENDS MemoryPipeline, FiniteSetTheorems, FunctionTheorems, TLAPS

-----------------------------------------------------------------------------
(* The inductive invariants of the broker and of the store. *)

\* m has been published to some topic.
OnTopic(m) == \E t \in Topics : m \in Range(topics[t])

\* A message is appended once, by its Publish call.
AppendedOnce ==
    \A t, u \in Topics : \A j \in DOMAIN topics[t], k \in DOMAIN topics[u] :
        topics[t][j] = topics[u][k] => t = u /\ j = k

\* Handlers are called with messages of the topics only, and a Publish that has
\* not begun has appended nothing.
FromTopics ==
    /\ \A h \in Handlers : \A k \in DOMAIN todo[h] : OnTopic(todo[h][k])
    /\ \A h \in Handlers : \A k \in DOMAIN received[h] : OnTopic(received[h][k][1])
    /\ \A m \in Messages : pc[m] = "deliver" => OnTopic(m)
    /\ \A m \in Messages : pc[m] = "start" => ~OnTopic(m)

\* Each message once, with what the two critical sections rely on.
BrokerInv == TypeOK /\ AppendedOnce /\ FromTopics /\ EachMessageOnce

\* A Subscribe hands m to h, with its replay.
Replayed(h, m) == m \in Range(todo[h]) \/ <<m, "replay">> \in Range(received[h])

\* A handler gets a message from one of the two calls only, and a call that left
\* something undone was told so: what the store relies on.
CallerInv ==
    /\ \A h \in Handlers, t \in Topics : h \in Range(handlers[t]) => pc[h] # "start"
    /\ \A h \in Handlers, m \in Messages :
            Live(h, m) => pc[h] \notin {"start", "register"} /\ ~Replayed(h, m)
    /\ \A c \in Calls : pc[c] = "start" => todo[c] = <<>>
    /\ \A c \in Calls : pc[c] = "returned" => todo[c] = <<>> \/ result[c] = "error"

\* The call that has handed m to h.
HandedBy(h, m) == IF <<m, "live">> \in Range(received[h]) THEN m ELSE h

\* A row comes from a call of a handler, and one that left none was an error of
\* the call it was made by; with BrokerInv and CallerInv this is inductive.
StoreInv ==
    /\ storeClosed \in BOOLEAN
    /\ events \in Seq(Handlers \X Messages)
    /\ \A c \in Calls : result[c] = "error" => pc[c] = "returned"
    /\ \A h \in Handlers, m \in Messages :
        LET stored == Occurrences(<<h, m>>, events)
        IN  stored <= Called(h, m) /\ (stored < Called(h, m) => result[HandedBy(h, m)] = "error")

-----------------------------------------------------------------------------
(* Counting occurrences in sequences. *)

\* The set T moved by d.
Shifted(T, d) == {k + d : k \in T}

\* Shifting a finite set of integers keeps its cardinality.
LEMMA ShiftCardinality ==
    ASSUME NEW T \in SUBSET Int, IsFiniteSet(T), NEW d \in Int
    PROVE  /\ IsFiniteSet(Shifted(T, d))
           /\ Cardinality(Shifted(T, d)) = Cardinality(T)
<1> DEFINE U == Shifted(T, d)
           f == [k \in T |-> k + d]
<1>1. f \in Bijection(T, U)
  <2>1. f \in [T -> U] /\ \A u \in U : \E k \in T : f[k] = u
    BY DEF Shifted
  <2>2. \A j, k \in T : f[j] = f[k] => j = k
    OBVIOUS
  <2> QED  BY <2>1, <2>2 DEF Bijection, Injection, Surjection, IsInjective
<1>2. ExistsBijection(T, U)
  BY <1>1 DEF ExistsBijection
<1> QED  BY <1>2, FS_Bijection

\* The places of a sequence that hold x are finitely many.
LEMMA PlacesFinite ==
    ASSUME NEW S, NEW s \in Seq(S), NEW x
    PROVE  /\ IsFiniteSet({k \in DOMAIN s : s[k] = x})
           /\ {k \in DOMAIN s : s[k] = x} \in SUBSET Int
           /\ Occurrences(x, s) \in Nat
<1>1. DOMAIN s = 1..Len(s) /\ Len(s) \in Nat
  OBVIOUS
<1>2. IsFiniteSet(DOMAIN s)
  BY <1>1, FS_Interval
<1>3. IsFiniteSet({k \in DOMAIN s : s[k] = x})
  BY <1>2, FS_Subset
<1> QED  BY <1>1, <1>3, FS_CardinalityType DEF Occurrences

\* An element of a concatenation comes from one of its parts.
LEMMA ConcatElements ==
    ASSUME NEW S, NEW s \in Seq(S), NEW u \in Seq(S), NEW k \in DOMAIN (s \o u)
    PROVE  \/ k \in DOMAIN s /\ (s \o u)[k] = s[k]
           \/ \E j \in DOMAIN u : (s \o u)[k] = u[j]
<1>1. /\ Len(s) \in Nat /\ Len(u) \in Nat
      /\ DOMAIN s = 1..Len(s) /\ DOMAIN u = 1..Len(u)
      /\ DOMAIN (s \o u) = 1..(Len(s) + Len(u))
      /\ \A j \in 1..(Len(s) + Len(u)) :
            (s \o u)[j] = IF j <= Len(s) THEN s[j] ELSE u[j - Len(s)]
  OBVIOUS
<1>2. k <= Len(s) \/ k - Len(s) \in 1..Len(u)
  BY <1>1
<1> QED  BY <1>1, <1>2

\* x occurs in a sequence as often as in its two parts together.
LEMMA OccurrencesConcat ==
    ASSUME NEW S, NEW s \in Seq(S), NEW u \in Seq(S), NEW x
    PROVE  Occurrences(x, s \o u) = Occurrences(x, s) + Occurrences(x, u)
<1> DEFINE A == {k \in DOMAIN s : s[k] = x}
           B == {k \in DOMAIN u : u[k] = x}
           C == Shifted(B, Len(s))
<1>1. /\ Len(s) \in Nat /\ Len(u) \in Nat
      /\ DOMAIN s = 1..Len(s) /\ DOMAIN u = 1..Len(u)
      /\ s \o u \in Seq(S) /\ Len(s \o u) = Len(s) + Len(u)
      /\ DOMAIN (s \o u) = 1..(Len(s) + Len(u))
      /\ \A k \in 1..(Len(s) + Len(u)) :
            (s \o u)[k] = IF k <= Len(s) THEN s[k] ELSE u[k - Len(s)]
  OBVIOUS
<1>2. {k \in DOMAIN (s \o u) : (s \o u)[k] = x} = A \cup C
  <2>1. ASSUME NEW k \in 1..(Len(s) + Len(u)), (s \o u)[k] = x PROVE k \in A \cup C
    <3>1. CASE k <= Len(s)
      BY <1>1, <2>1, <3>1
    <3>2. CASE k > Len(s)
      <4>1. k - Len(s) \in B /\ k = (k - Len(s)) + Len(s)
        BY <1>1, <2>1, <3>2
      <4> QED  BY <4>1 DEF Shifted
    <3> QED  BY <1>1, <3>1, <3>2
  <2>2. ASSUME NEW k \in A PROVE k \in 1..(Len(s) + Len(u)) /\ (s \o u)[k] = x
    BY <1>1
  <2>3. ASSUME NEW j \in B
        PROVE  j + Len(s) \in 1..(Len(s) + Len(u)) /\ (s \o u)[j + Len(s)] = x
    BY <1>1
  <2> QED  BY <1>1, <2>1, <2>2, <2>3 DEF Shifted
<1>3. A \cap C = {}
  <2>1. \A k \in A : k \in Int /\ k <= Len(s)
    BY <1>1
  <2>2. \A k \in C : k \in Int /\ k > Len(s)
    BY <1>1 DEF Shifted
  <2> QED  BY <1>1, <2>1, <2>2
<1>4. IsFiniteSet(A) /\ IsFiniteSet(B) /\ B \in SUBSET Int
  BY PlacesFinite
<1>5. IsFiniteSet(C) /\ Cardinality(C) = Cardinality(B)
  <2> HIDE DEF B
  <2> QED  BY <1>1, <1>4, ShiftCardinality
<1> HIDE DEF A, B, C
<1>6. Cardinality(A \cup C) = Cardinality(A) + Cardinality(C) - Cardinality(A \cap C)
  BY <1>4, <1>5, FS_Union
<1>7. Cardinality(A \cap C) = 0 /\ Cardinality(A) \in Nat /\ Cardinality(C) \in Nat
  BY <1>3, <1>4, <1>5, FS_EmptySet, FS_CardinalityType
<1>8. Cardinality(A \cup C) = Cardinality(A) + Cardinality(B)
  BY <1>5, <1>6, <1>7
<1> QED  BY <1>2, <1>8 DEF Occurrences, A, B

\* In a sequence of one element.
LEMMA OccurrencesOne ==
    ASSUME NEW x, NEW y
    PROVE  Occurrences(x, <<y>>) = IF x = y THEN 1 ELSE 0
<1>1. DOMAIN <<y>> = {1} /\ <<y>>[1] = y
  OBVIOUS
<1>2. CASE x = y
  <2>1. {k \in DOMAIN <<y>> : <<y>>[k] = x} = {1}
    BY <1>1, <1>2
  <2> QED  BY <1>2, <2>1, FS_Singleton DEF Occurrences
<1>3. CASE x # y
  <2>1. {k \in DOMAIN <<y>> : <<y>>[k] = x} = {}
    BY <1>1, <1>3
  <2> QED  BY <1>3, <2>1, FS_EmptySet DEF Occurrences
<1> QED  BY <1>2, <1>3

\* At the end of a sequence.
LEMMA OccurrencesAppend ==
    ASSUME NEW S, NEW s \in Seq(S), NEW y \in S, NEW x
    PROVE  /\ Occurrences(x, Append(s, y)) = Occurrences(x, s) + (IF x = y THEN 1 ELSE 0)
           /\ Occurrences(x, s) \in Nat
<1>1. Append(s, y) = s \o <<y>> /\ <<y>> \in Seq(S)
  OBVIOUS
<1>2. Occurrences(x, s \o <<y>>) = Occurrences(x, s) + Occurrences(x, <<y>>)
  BY <1>1, OccurrencesConcat
<1>3. Occurrences(x, <<y>>) = IF x = y THEN 1 ELSE 0
  BY OccurrencesOne
<1>4. Occurrences(x, s) \in Nat
  BY PlacesFinite
<1> QED  BY <1>1, <1>2, <1>3, <1>4

\* At the front of a sequence.
LEMMA OccurrencesTail ==
    ASSUME NEW S, NEW s \in Seq(S), s # <<>>, NEW x
    PROVE  /\ Occurrences(x, s) = Occurrences(x, Tail(s)) + (IF x = Head(s) THEN 1 ELSE 0)
           /\ Occurrences(x, Tail(s)) \in Nat
<1> DEFINE first == <<Head(s)>>
           rest == Tail(s)
<1>1. s = first \o rest /\ first \in Seq(S) /\ rest \in Seq(S)
  OBVIOUS
<1>2. Occurrences(x, first) = IF x = Head(s) THEN 1 ELSE 0
  BY OccurrencesOne
<1> HIDE DEF first, rest
<1>3. Occurrences(x, first \o rest) = Occurrences(x, first) + Occurrences(x, rest)
  BY <1>1, OccurrencesConcat
<1>4. Occurrences(x, rest) \in Nat
  BY <1>1, PlacesFinite
<1>5. Occurrences(x, s) = Occurrences(x, first) + Occurrences(x, rest)
  BY <1>1, <1>3, Zenon
<1>6. Occurrences(x, s) = Occurrences(x, rest) + (IF x = Head(s) THEN 1 ELSE 0)
  BY <1>2, <1>4, <1>5
<1> QED  BY <1>4, <1>6 DEF rest

\* x does not occur.
LEMMA OccurrencesNone ==
    ASSUME NEW s, NEW x, \A k \in DOMAIN s : s[k] # x
    PROVE  Occurrences(x, s) = 0
<1>1. {k \in DOMAIN s : s[k] = x} = {}
  OBVIOUS
<1> QED  BY <1>1, FS_EmptySet DEF Occurrences

\* x occurs at one place.
LEMMA OccurrencesOnce ==
    ASSUME NEW s, NEW x, NEW j \in DOMAIN s, s[j] = x, \A k \in DOMAIN s : s[k] = x => k = j
    PROVE  Occurrences(x, s) = 1
<1>1. {k \in DOMAIN s : s[k] = x} = {j}
  OBVIOUS
<1> QED  BY <1>1, FS_Singleton DEF Occurrences

-----------------------------------------------------------------------------
(* Preservation of the broker's invariant. *)

\* The counts of EachMessageOnce are natural numbers.
LEMMA CountTypes ==
    ASSUME TypeOK, NEW h \in Handlers, NEW m \in Messages
    PROVE  /\ Called(h, m) \in Nat
           /\ Occurrences(h, todo[m]) \in Nat
           /\ Occurrences(m, todo[h]) \in Nat
           /\ \A t \in Topics : Occurrences(h, handlers[t]) \in Nat
<1>1. received[h] \in Seq(Messages \X {"live", "replay"})
  BY DEF TypeOK
<1>2. /\ Occurrences(<<m, "live">>, received[h]) \in Nat
      /\ Occurrences(<<m, "replay">>, received[h]) \in Nat
  BY <1>1, PlacesFinite
<1>3. todo[m] \in Seq(Handlers) /\ todo[h] \in Seq(Messages)
  BY DEF TypeOK
<1>4. \A t \in Topics : Occurrences(h, handlers[t]) \in Nat
  BY PlacesFinite DEF TypeOK
<1>5. Occurrences(h, todo[m]) \in Nat /\ Occurrences(m, todo[h]) \in Nat
  BY <1>3, PlacesFinite
<1> QED  BY <1>2, <1>4, <1>5 DEF Called

\* The broker starts empty.
LEMMA BrokerInitInv == Init => BrokerInv
<1> SUFFICES ASSUME Init PROVE BrokerInv
  OBVIOUS
<1>1. TypeOK
  <2>1. <<>> \in Seq(Messages) /\ <<>> \in Seq(Handlers) /\ <<>> \in Seq(Topics)
    OBVIOUS
  <2>2. <<>> \in Seq(Messages \X {"live", "replay"})
    OBVIOUS
  <2>3. /\ topics \in [Topics -> Seq(Messages)] /\ handlers \in [Topics -> Seq(Handlers)]
        /\ pending \in [Handlers -> Seq(Topics)]
        /\ received \in [Handlers -> Seq(Messages \X {"live", "replay"})]
    BY <2>1, <2>2, Zenon DEF Init
  <2>4. /\ todo \in [Calls -> Seq(Handlers) \cup Seq(Messages)]
        /\ \A c \in Calls : todo[c] = <<>>
    BY <2>1, Zenon DEF Init
  <2>5. /\ \A m \in Messages : todo[m] \in Seq(Handlers)
        /\ \A h \in Handlers : todo[h] \in Seq(Messages)
    BY <2>1, <2>4, Zenon DEF Calls
  <2>6. /\ pc \in [Calls -> {"start", "register", "deliver", "replay", "returned"}]
        /\ result \in [Calls -> {"none", "ctx", "invalid", "closed", "error", "ok"}]
        /\ closed \in BOOLEAN
    BY Zenon DEF Init
  <2>7. failures \in 0..MaxFailures
    <3>1. failures = 0 /\ MaxFailures \in Nat
      BY MemoryAssumption DEF Init
    <3> QED  BY <3>1
  <2> QED  BY <2>3, <2>4, <2>5, <2>6, <2>7, Zenon DEF TypeOK
<1>2. \A t \in Topics : DOMAIN topics[t] = {} /\ Range(topics[t]) = {}
  BY DEF Init, Range
<1>3. \A h \in Handlers : DOMAIN todo[h] = {} /\ DOMAIN received[h] = {}
  BY DEF Init, Calls
<1>4. \A m \in Messages : pc[m] = "start"
  BY DEF Init, Calls
<1> QED  BY <1>1, <1>2, <1>3, <1>4
         DEF BrokerInv, AppendedOnce, FromTopics, OnTopic, EachMessageOnce

\* A step outside the critical sections and the handlers.
LEMMA QuietStep ==
    ASSUME BrokerInv, TypeOK', UNCHANGED <<topics, handlers, todo, received>>,
           \A m \in Messages : /\ pc'[m] = "deliver" => pc[m] = "deliver"
                               /\ pc'[m] = "start" => pc[m] = "start"
    PROVE  BrokerInv'
<1>1. AppendedOnce'
  BY DEF BrokerInv, AppendedOnce
<1>2. \A m : OnTopic(m) <=> OnTopic(m)'
  BY DEF OnTopic
<1>3. FromTopics'
  BY <1>2 DEF BrokerInv, FromTopics, OnTopic
<1>4. EachMessageOnce'
  BY DEF BrokerInv, EachMessageOnce, Called, Owed
<1> QED  BY <1>1, <1>3, <1>4 DEF BrokerInv

\* The shape of an answer.
LEMMA ReturnsFacts ==
    ASSUME TypeOK, NEW c \in Calls, NEW r \in {"ctx", "invalid", "closed", "error", "ok"},
           Returns(c, r)
    PROVE  /\ pc' \in [Calls -> {"start", "register", "deliver", "replay", "returned"}]
           /\ result' \in [Calls -> {"none", "ctx", "invalid", "closed", "error", "ok"}]
           /\ pc'[c] = "returned" /\ result'[c] = r
           /\ \A d \in Calls : d # c => pc'[d] = pc[d] /\ result'[d] = result[d]
BY DEF TypeOK, Returns

\* A call that returns changes nothing else.
LEMMA AnswersInv ==
    ASSUME BrokerInv, NEW c \in Calls, Refused(c) \/ Completes(c) PROVE BrokerInv'
<1>0. TypeOK /\ Messages \subseteq Calls
  BY DEF BrokerInv, Calls
<1>1. PICK r \in {"ctx", "invalid", "closed", "error", "ok"} : Returns(c, r)
  BY DEF Refused, Completes
<1>2. /\ pc' \in [Calls -> {"start", "register", "deliver", "replay", "returned"}]
      /\ result' \in [Calls -> {"none", "ctx", "invalid", "closed", "error", "ok"}]
      /\ pc'[c] = "returned"
      /\ \A d \in Calls : d # c => pc'[d] = pc[d]
  BY <1>0, <1>1, ReturnsFacts
<1>3. UNCHANGED <<closed, topics, handlers, pending, todo, received, failures>>
  BY DEF Refused, Completes
<1>4. TypeOK'
  BY <1>0, <1>2, <1>3 DEF TypeOK
<1>5. \A m \in Messages : pc'[m] = pc[m] \/ pc'[m] = "returned"
  BY <1>0, <1>2
<1> QED  BY <1>3, <1>4, <1>5, QuietStep

\* Taking and giving back the lock changes nothing that is owed to a handler.
LEMMA LockInv ==
    ASSUME BrokerInv, NEW h \in Handlers, NEW list \in Seq(Topics),
           Lock(h, list) \/ Unlock(h)
    PROVE  BrokerInv'
<1>0. TypeOK /\ h \in Calls /\ Messages \subseteq Calls
  BY MemoryAssumption DEF BrokerInv, Calls
<1>1. /\ pc' \in [Calls -> {"start", "register", "deliver", "replay", "returned"}]
      /\ pc'[h] \in {"register", "replay"} /\ \A d \in Calls : d # h => pc'[d] = pc[d]
  BY <1>0 DEF TypeOK, Lock, Unlock
<1>2. pending' \in [Handlers -> Seq(Topics)]
  BY <1>0 DEF TypeOK, Lock, Unlock
<1>3. UNCHANGED <<closed, topics, handlers, result, todo, received, failures>>
  BY DEF Lock, Unlock
<1>4. TypeOK'
  BY <1>0, <1>1, <1>2, <1>3 DEF TypeOK
<1>5. \A m \in Messages : pc'[m] = pc[m] \/ pc'[m] \in {"register", "replay"}
  BY <1>0, <1>1
<1> QED  BY <1>3, <1>4, <1>5, QuietStep

\* Close changes nothing that is owed to a handler (memory.go:98-104).
LEMMA CloseInv == ASSUME BrokerInv, Close PROVE BrokerInv'
<1>1. TypeOK'
  BY DEF BrokerInv, TypeOK, Close
<1> QED  BY <1>1, QuietStep DEF Close

\* Publish: the message is new, so no handler was called with it nor is to
\* replay it, and its call is to reach the handlers registered now.
LEMMA PublishAppendInv ==
    ASSUME BrokerInv, NEW m \in Messages, NEW t \in Topics, PublishAppend(m, t)
    PROVE  BrokerInv'
<1>0. /\ TypeOK /\ AppendedOnce /\ FromTopics /\ EachMessageOnce
      /\ m \in Calls /\ Messages \subseteq Calls /\ Handlers \subseteq Calls
      /\ Messages \cap Handlers = {}
  BY MemoryAssumption DEF BrokerInv, Calls
<1>1. UNCHANGED <<closed, handlers, result, pending, received, failures>>
  BY DEF PublishAppend
<1>2. /\ topics' \in [Topics -> Seq(Messages)]
      /\ topics'[t] = Append(topics[t], m)
      /\ \A u \in Topics : u # t => topics'[u] = topics[u]
  BY <1>0 DEF PublishAppend, TypeOK
<1>3. /\ todo' \in [Calls -> Seq(Handlers) \cup Seq(Messages)]
      /\ todo'[m] = handlers[t] /\ handlers[t] \in Seq(Handlers)
      /\ \A c \in Calls : c # m => todo'[c] = todo[c]
  BY <1>0 DEF PublishAppend, TypeOK
<1>4. /\ pc' \in [Calls -> {"start", "register", "deliver", "replay", "returned"}]
      /\ pc[m] = "start" /\ pc'[m] = "deliver"
      /\ \A c \in Calls : c # m => pc'[c] = pc[c]
  BY <1>0 DEF PublishAppend, TypeOK
<1>5. TypeOK'
  <2>1. \A n \in Messages : todo'[n] \in Seq(Handlers)
    BY <1>0, <1>3 DEF TypeOK
  <2>2. \A h \in Handlers : todo'[h] \in Seq(Messages)
    BY <1>0, <1>3 DEF TypeOK
  <2> QED  BY <1>0, <1>1, <1>2, <1>3, <1>4, <2>1, <2>2 DEF TypeOK
<1>6. ~OnTopic(m)
  BY <1>0, <1>4 DEF FromTopics
<1>7. /\ Len(topics[t]) \in Nat /\ DOMAIN topics[t] = 1..Len(topics[t])
      /\ DOMAIN topics'[t] = 1..(Len(topics[t]) + 1)
      /\ topics'[t][Len(topics[t]) + 1] = m
      /\ \A k \in DOMAIN topics[t] : k \in DOMAIN topics'[t] /\ topics'[t][k] = topics[t][k]
  <2>1. topics[t] \in Seq(Messages)
    BY <1>0 DEF TypeOK
  <2> QED  BY <1>2, <2>1
<1>8. \A u \in Topics : \A j : j \in DOMAIN topics'[u] =>
        \/ j \in DOMAIN topics[u] /\ topics'[u][j] = topics[u][j] /\ topics'[u][j] # m
        \/ u = t /\ j = Len(topics[t]) + 1 /\ topics'[u][j] = m
  <2>1. \A u \in Topics : \A j : j \in DOMAIN topics[u] => topics[u][j] # m
    BY <1>6 DEF OnTopic, Range
  <2>2. \A j \in DOMAIN topics'[t] : j \in DOMAIN topics[t] \/ j = Len(topics[t]) + 1
    BY <1>7
  <2> QED  BY <1>2, <1>7, <2>1, <2>2
<1>9. AppendedOnce'
  BY <1>0, <1>8 DEF AppendedOnce
<1>10. \A x : OnTopic(x) => OnTopic(x)'
  BY <1>2, <1>7 DEF OnTopic, Range
<1>11. OnTopic(m)' /\ \A x : OnTopic(x)' => OnTopic(x) \/ x = m
  <2>1. m \in Range(topics'[t])
    BY <1>7 DEF Range
  <2> QED  BY <1>8, <2>1 DEF OnTopic, Range
<1>12. FromTopics'
  <2>1. \A h \in Handlers : h # m /\ todo'[h] = todo[h]
    BY <1>0, <1>3
  <2>2. ASSUME NEW h \in Handlers, NEW k \in DOMAIN todo'[h] PROVE OnTopic(todo[h][k])'
    <3>1. OnTopic(todo[h][k])
      BY <1>0, <2>1 DEF FromTopics
    <3>2. PICK u \in Topics : todo[h][k] \in Range(topics[u])
      BY <3>1 DEF OnTopic
    <3>3. Range(topics[u]) \subseteq Range(topics'[u])
      BY <1>2, <1>7 DEF Range
    <3>4. todo'[h][k] \in Range(topics'[u])
      BY <2>1, <3>2, <3>3
    <3> QED  BY <3>4 DEF OnTopic
  <2>3. ASSUME NEW h \in Handlers, NEW k \in DOMAIN received'[h]
        PROVE  OnTopic(received[h][k][1])'
    <3>1. OnTopic(received[h][k][1])
      BY <1>0, <1>1 DEF FromTopics
    <3>2. PICK u \in Topics : received[h][k][1] \in Range(topics[u])
      BY <3>1 DEF OnTopic
    <3>3. Range(topics[u]) \subseteq Range(topics'[u])
      BY <1>2, <1>7 DEF Range
    <3>4. received'[h][k][1] \in Range(topics'[u])
      BY <1>1, <3>2, <3>3
    <3> QED  BY <3>4 DEF OnTopic
  <2>4. \A n \in Messages : pc'[n] = "deliver" => OnTopic(n)'
    BY <1>0, <1>4, <1>10, <1>11 DEF FromTopics
  <2>5. \A n \in Messages : pc'[n] = "start" => ~OnTopic(n)'
    BY <1>0, <1>4, <1>11 DEF FromTopics
  <2> QED  BY <2>2, <2>3, <2>4, <2>5 DEF FromTopics
<1>13. EachMessageOnce'
  <2> SUFFICES ASSUME NEW h \in Handlers, NEW u \in Topics, NEW n \in Range(topics'[u])
               PROVE  Called(h, n)' + Owed(h, n)' = Occurrences(h, handlers'[u])
    BY DEF EachMessageOnce
  <2>1. h \in Calls /\ h # m /\ todo'[h] = todo[h]
    BY <1>0, <1>3
  <2>2. CASE n = m
    <3>1. u = t
      BY <1>8, <2>2 DEF Range
    <3>2. \A k \in DOMAIN received[h] : received[h][k] # <<m, "live">> /\ received[h][k] # <<m, "replay">>
      BY <1>0, <1>6 DEF FromTopics
    <3>3. Occurrences(<<m, "live">>, received[h]) = 0 /\ Occurrences(<<m, "replay">>, received[h]) = 0
      BY <3>2, OccurrencesNone
    <3>4. Called(h, m)' = 0
      BY <1>1, <3>3 DEF Called
    <3>5. Occurrences(m, todo[h]) = 0
      BY <1>0, <1>6, OccurrencesNone DEF FromTopics
    <3>6. Owed(h, m)' = Occurrences(h, handlers[t]) + 0
      BY <1>3, <2>1, <3>5 DEF Owed
    <3>7. Occurrences(h, handlers[t]) \in Nat
      BY <1>0, CountTypes
    <3> QED  BY <1>1, <2>2, <3>1, <3>4, <3>6, <3>7
  <2>3. CASE n # m
    <3>1. n \in Range(topics[u]) /\ n \in Messages
      BY <1>0, <1>8, <2>3 DEF Range, TypeOK
    <3>2. Called(h, n)' = Called(h, n)
      BY <1>1 DEF Called
    <3>3. Owed(h, n)' = Owed(h, n)
      BY <1>0, <1>3, <2>1, <2>3, <3>1 DEF Owed
    <3> QED  BY <1>0, <1>1, <3>1, <3>2, <3>3 DEF EachMessageOnce
  <2> QED  BY <2>2, <2>3
<1> QED  BY <1>5, <1>9, <1>12, <1>13 DEF BrokerInv

\* Subscribe: a registration on t is owed every message buffered on t, once.
LEMMA RegisterInv == ASSUME BrokerInv, NEW h \in Handlers, Register(h) PROVE BrokerInv'
<1> DEFINE t == Head(pending[h])
<1>0. /\ TypeOK /\ AppendedOnce /\ FromTopics /\ EachMessageOnce
      /\ h \in Calls /\ Messages \subseteq Calls /\ Handlers \subseteq Calls
      /\ Messages \cap Handlers = {}
  BY MemoryAssumption DEF BrokerInv, Calls
<1>1. UNCHANGED <<closed, topics, pc, result, received, failures>>
  BY DEF Register
<1>2. t \in Topics /\ Tail(pending[h]) \in Seq(Topics)
  <2>1. pending[h] \in Seq(Topics) /\ pending[h] # <<>>
    BY <1>0 DEF Register, TypeOK
  <2> QED  BY <2>1
<1>3. topics[t] \in Seq(Messages) /\ todo[h] \in Seq(Messages) /\ handlers[t] \in Seq(Handlers)
  BY <1>0, <1>2 DEF TypeOK
<1> HIDE DEF t
<1>4. /\ handlers' \in [Topics -> Seq(Handlers)]
      /\ handlers'[t] = Append(handlers[t], h)
      /\ \A u \in Topics : u # t => handlers'[u] = handlers[u]
  <2>1. Append(handlers[t], h) \in Seq(Handlers)
    BY <1>3
  <2> QED  BY <1>0, <1>2, <2>1 DEF Register, TypeOK, t
<1>5. /\ todo' \in [Calls -> Seq(Handlers) \cup Seq(Messages)]
      /\ todo'[h] = todo[h] \o topics[t] /\ todo'[h] \in Seq(Messages)
      /\ \A c \in Calls : c # h => todo'[c] = todo[c]
  <2>1. todo[h] \o topics[t] \in Seq(Messages)
    BY <1>3
  <2>2. todo' = [todo EXCEPT ![h] = todo[h] \o topics[t]]
    BY DEF Register, Buffered, t
  <2> QED  BY <1>0, <2>1, <2>2 DEF TypeOK
<1>6. pending' \in [Handlers -> Seq(Topics)]
  BY <1>0, <1>2 DEF Register, TypeOK
<1>7. TypeOK'
  <2>1. \A n \in Messages : todo'[n] \in Seq(Handlers)
    BY <1>0, <1>5 DEF TypeOK
  <2>2. \A g \in Handlers : todo'[g] \in Seq(Messages)
    BY <1>0, <1>5 DEF TypeOK
  <2> QED  BY <1>0, <1>1, <1>4, <1>5, <1>6, <2>1, <2>2 DEF TypeOK
<1>8. AppendedOnce'
  BY <1>0, <1>1 DEF AppendedOnce
<1>9. FromTopics'
  <2>1. ASSUME NEW g \in Handlers, NEW k \in DOMAIN todo'[g]
        PROVE  \E u \in Topics : todo'[g][k] \in Range(topics[u])
    <3>1. CASE g # h
      BY <1>0, <1>5, <3>1 DEF FromTopics, OnTopic
    <3>2. CASE g = h
      <4>1. \/ k \in DOMAIN todo[h] /\ todo'[h][k] = todo[h][k]
            \/ \E j \in DOMAIN topics[t] : todo'[h][k] = topics[t][j]
        <5>1. k \in DOMAIN (todo[h] \o topics[t]) /\ todo'[h][k] = (todo[h] \o topics[t])[k]
          BY <1>5, <2>1, <3>2, Zenon
        <5>2. \/ k \in DOMAIN todo[h] /\ (todo[h] \o topics[t])[k] = todo[h][k]
              \/ \E j \in DOMAIN topics[t] : (todo[h] \o topics[t])[k] = topics[t][j]
          <6> DEFINE a == todo[h]
                     b == topics[t]
          <6>1. a \in Seq(Messages) /\ b \in Seq(Messages) /\ k \in DOMAIN (a \o b)
            BY <1>3, <5>1, Zenon
          <6> HIDE DEF a, b
          <6>2. \/ k \in DOMAIN a /\ (a \o b)[k] = a[k]
                \/ \E j \in DOMAIN b : (a \o b)[k] = b[j]
            BY <6>1, ConcatElements
          <6> QED  BY <6>2, Zenon DEF a, b
        <5> QED  BY <5>1, <5>2, Zenon
      <4> QED  BY <1>0, <1>2, <3>2, <4>1 DEF FromTopics, OnTopic, Range
    <3> QED  BY <3>1, <3>2
  <2>2. \A g \in Handlers : \A k \in DOMAIN todo'[g] : OnTopic(todo[g][k])'
    BY <1>1, <2>1 DEF OnTopic
  <2> QED  BY <1>0, <1>1, <2>2 DEF FromTopics, OnTopic
<1>10. EachMessageOnce'
  <2> SUFFICES ASSUME NEW g \in Handlers, NEW u \in Topics, NEW n \in Range(topics[u])
               PROVE  Called(g, n)' + Owed(g, n)' = Occurrences(g, handlers'[u])
    BY <1>1 DEF EachMessageOnce
  <2>1. n \in Messages
    BY <1>0 DEF TypeOK, Range
  <2>2. todo'[n] = todo[n] /\ Called(g, n)' = Called(g, n)
    BY <1>0, <1>1, <1>5, <2>1 DEF Called
  <2>3. /\ Called(g, n) \in Nat /\ Occurrences(g, todo[n]) \in Nat
        /\ Occurrences(n, todo[g]) \in Nat /\ Occurrences(g, handlers[u]) \in Nat
    BY <1>0, <2>1, CountTypes
  <2>4. Called(g, n) + Owed(g, n) = Occurrences(g, handlers[u])
    BY <1>0 DEF EachMessageOnce
  <2>5. CASE g # h
    <3>1. Owed(g, n)' = Owed(g, n)
      BY <1>0, <1>5, <2>2, <2>5 DEF Owed
    <3>2. Occurrences(g, handlers'[u]) = Occurrences(g, handlers[u])
      <4>1. CASE u = t
        <5>1. Occurrences(g, Append(handlers[t], h)) = Occurrences(g, handlers[t]) + 0
          BY <1>3, <2>5, OccurrencesAppend
        <5>2. Occurrences(g, handlers'[u]) = Occurrences(g, Append(handlers[t], h))
          BY <1>4, <4>1, Zenon
        <5> QED  BY <2>3, <4>1, <5>1, <5>2
      <4>2. CASE u # t
        BY <1>4, <4>2
      <4> QED  BY <4>1, <4>2
    <3> QED  BY <2>2, <2>4, <3>1, <3>2
  <2>6. CASE g = h
    <3>1. Occurrences(n, todo'[h]) = Occurrences(n, todo[h]) + Occurrences(n, topics[t])
      BY <1>3, <1>5, OccurrencesConcat
    <3>2. CASE u = t
      <4>1. PICK j \in DOMAIN topics[t] : topics[t][j] = n
        BY <3>2 DEF Range
      <4>2. \A k \in DOMAIN topics[t] : topics[t][k] = n => k = j
        BY <1>0, <1>2, <4>1 DEF AppendedOnce
      <4>3. Occurrences(n, topics[t]) = 1
        BY <4>1, <4>2, OccurrencesOnce
      <4>4. Occurrences(h, Append(handlers[t], h)) = Occurrences(h, handlers[t]) + 1
        BY <1>3, OccurrencesAppend
      <4>5. Owed(h, n)' = Owed(h, n) + 1
        BY <2>2, <2>3, <2>6, <3>1, <4>3 DEF Owed
      <4>6. Owed(h, n) \in Nat
        BY <2>3, <2>6 DEF Owed
      <4>7. Occurrences(h, handlers'[u]) = Occurrences(h, Append(handlers[t], h))
        BY <1>4, <3>2, Zenon
      <4> QED  BY <2>2, <2>3, <2>4, <2>6, <3>2, <4>4, <4>5, <4>6, <4>7
    <3>3. CASE u # t
      <4>1. \A k \in DOMAIN topics[t] : topics[t][k] # n
        BY <1>0, <1>2, <3>3 DEF AppendedOnce, Range
      <4>2. Occurrences(n, topics[t]) = 0
        BY <4>1, OccurrencesNone
      <4>3. Owed(h, n)' = Owed(h, n)
        BY <2>2, <2>3, <2>6, <3>1, <4>2 DEF Owed
      <4> QED  BY <1>4, <2>2, <2>4, <2>6, <3>3, <4>3
    <3> QED  BY <3>2, <3>3
  <2> QED  BY <2>5, <2>6
<1> QED  BY <1>7, <1>8, <1>9, <1>10 DEF BrokerInv

\* A handler is called: one call less is owed.
LEMMA InvokeInv ==
    ASSUME BrokerInv, NEW c \in Calls, NEW h \in Handlers, NEW m \in Messages,
           NEW how \in {"live", "replay"}, OnTopic(m),
           todo[c] # <<>>, Invoke(c, h, m, how),
           \/ c = m /\ h = Head(todo[m]) /\ pc[m] = "deliver"
           \/ c = h /\ m = Head(todo[h])
    PROVE  /\ BrokerInv'
           /\ Called(h, m)' = Called(h, m) + 1
           /\ \A g \in Handlers, n \in Messages :
                ~(g = h /\ n = m) => Called(g, n)' = Called(g, n)
<1>0. /\ TypeOK /\ AppendedOnce /\ FromTopics /\ EachMessageOnce
      /\ Messages \subseteq Calls /\ Handlers \subseteq Calls
      /\ Messages \cap Handlers = {} /\ Calls = Messages \cup Handlers
      /\ MaxFailures \in Nat
  BY MemoryAssumption DEF BrokerInv, Calls
<1>1. UNCHANGED <<closed, topics, handlers, pending>>
  BY DEF Invoke
<1>2. /\ received[h] \in Seq(Messages \X {"live", "replay"})
      /\ received' \in [Handlers -> Seq(Messages \X {"live", "replay"})]
      /\ received'[h] = Append(received[h], <<m, how>>)
      /\ \A g \in Handlers : g # h => received'[g] = received[g]
  <2>1. /\ received \in [Handlers -> Seq(Messages \X {"live", "replay"})]
        /\ received[h] \in Seq(Messages \X {"live", "replay"})
    BY <1>0 DEF TypeOK
  <2>2. Append(received[h], <<m, how>>) \in Seq(Messages \X {"live", "replay"})
    BY <2>1
  <2> QED  BY <2>1, <2>2 DEF Invoke
<1>3. /\ todo'[c] = Tail(todo[c]) /\ \A d \in Calls : d # c => todo'[d] = todo[d]
      /\ DOMAIN todo' = Calls
  BY <1>0 DEF Invoke, TypeOK
<1>4. /\ \A n \in Messages : todo'[n] \in Seq(Handlers)
      /\ \A g \in Handlers : todo'[g] \in Seq(Messages)
  <2>1. c \in Messages => Tail(todo[c]) \in Seq(Handlers)
    BY <1>0 DEF TypeOK
  <2>2. c \in Handlers => Tail(todo[c]) \in Seq(Messages)
    BY <1>0 DEF TypeOK
  <2> QED  BY <1>0, <1>3, <2>1, <2>2 DEF TypeOK
<1>5. todo' \in [Calls -> Seq(Handlers) \cup Seq(Messages)]
  <2>1. Tail(todo[c]) \in Seq(Handlers) \cup Seq(Messages)
    BY <1>0, <1>3, <1>4
  <2> QED  BY <1>0, <2>1 DEF Invoke, TypeOK
<1>6. /\ pc' \in [Calls -> {"start", "register", "deliver", "replay", "returned"}]
      /\ result' \in [Calls -> {"none", "ctx", "invalid", "closed", "error", "ok"}]
      /\ \A d \in Calls : pc'[d] = pc[d] \/ pc'[d] = "returned"
      /\ failures' \in 0..MaxFailures
  <2>1. CASE UNCHANGED <<pc, result, failures>>
    BY <1>0, <2>1 DEF TypeOK
  <2>2. CASE failures < MaxFailures /\ failures' = failures + 1 /\ StopAtError(c)
    <3>1. /\ pc' \in [Calls -> {"start", "register", "deliver", "replay", "returned"}]
          /\ result' \in [Calls -> {"none", "ctx", "invalid", "closed", "error", "ok"}]
          /\ pc'[c] = "returned"
          /\ \A d \in Calls : d # c => pc'[d] = pc[d]
      BY <1>0, <2>2, ReturnsFacts DEF StopAtError
    <3>2. failures' \in 0..MaxFailures
      BY <1>0, <2>2 DEF TypeOK
    <3> QED  BY <3>1, <3>2
  <2> QED  BY <2>1, <2>2 DEF Invoke
<1>7. TypeOK'
  BY <1>0, <1>1, <1>2, <1>4, <1>5, <1>6 DEF TypeOK
<1>8. AppendedOnce'
  BY <1>0, <1>1 DEF AppendedOnce
<1>9. FromTopics'
  <2>0. \A x : OnTopic(x) <=> \E u \in Topics : x \in Range(topics'[u])
    BY <1>1 DEF OnTopic
  <2>1. ASSUME NEW g \in Handlers, NEW k \in DOMAIN todo'[g]
        PROVE  OnTopic(todo'[g][k])
    <3>1. CASE g # c
      BY <1>0, <1>3, <3>1 DEF FromTopics
    <3>2. CASE g = c
      <4>1. todo[g] \in Seq(Messages) /\ todo[g] # <<>> /\ todo'[g] = Tail(todo[g])
        BY <1>0, <1>3, <3>2 DEF TypeOK
      <4>2. k + 1 \in DOMAIN todo[g] /\ todo'[g][k] = todo[g][k + 1]
        BY <2>1, <4>1
      <4> QED  BY <1>0, <4>2 DEF FromTopics
    <3> QED  BY <3>1, <3>2
  <2>2. ASSUME NEW g \in Handlers, NEW k \in DOMAIN received'[g]
        PROVE  OnTopic(received'[g][k][1])
    <3>1. CASE g # h
      BY <1>0, <1>2, <3>1 DEF FromTopics
    <3>2. CASE g = h
      <4>1. \/ k \in DOMAIN received[h] /\ received'[h][k] = received[h][k]
            \/ received'[h][k] = <<m, how>>
        BY <1>2, <2>2, <3>2
      <4> QED  BY <1>0, <3>2, <4>1 DEF FromTopics
    <3> QED  BY <3>1, <3>2
  <2>3. \A n \in Messages : pc'[n] = "deliver" => OnTopic(n)
    BY <1>0, <1>6 DEF FromTopics
  <2>4. \A n \in Messages : pc'[n] = "start" => ~OnTopic(n)
    BY <1>0, <1>6 DEF FromTopics
  <2>5. /\ \A g \in Handlers : \A k \in DOMAIN todo'[g] : OnTopic(todo[g][k])'
        /\ \A g \in Handlers : \A k \in DOMAIN received'[g] : OnTopic(received[g][k][1])'
    BY <2>0, <2>1, <2>2 DEF OnTopic
  <2>6. \A n : OnTopic(n)' <=> OnTopic(n)
    BY <1>1 DEF OnTopic
  <2> QED  BY <2>3, <2>4, <2>5, <2>6 DEF FromTopics
<1>a. ASSUME NEW x
      PROVE  /\ Occurrences(x, received'[h]) =
                    Occurrences(x, received[h]) + (IF x = <<m, how>> THEN 1 ELSE 0)
             /\ Occurrences(x, received[h]) \in Nat
  <2> DEFINE E == Messages \X {"live", "replay"}
             e == <<m, how>>
  <2>1. e \in E /\ received[h] \in Seq(E) /\ received'[h] = Append(received[h], e)
    BY <1>2
  <2> HIDE DEF E, e
  <2>2. /\ Occurrences(x, Append(received[h], e)) =
                Occurrences(x, received[h]) + (IF x = e THEN 1 ELSE 0)
        /\ Occurrences(x, received[h]) \in Nat
    BY <2>1, OccurrencesAppend
  <2>3. Occurrences(x, received'[h]) = Occurrences(x, received[h]) + (IF x = e THEN 1 ELSE 0)
    BY <2>1, <2>2, Zenon
  <2> QED  BY <2>2, <2>3 DEF e
<1>10. Called(h, m)' = Called(h, m) + 1
  <2>1. how = "live" \/ how = "replay"
    OBVIOUS
  <2> QED  BY <1>a, <2>1 DEF Called
<1>11. ASSUME NEW g \in Handlers, NEW n \in Messages, ~(g = h /\ n = m)
       PROVE  Called(g, n)' = Called(g, n)
  <2>1. CASE g # h
    BY <1>2, <2>1 DEF Called
  <2>2. CASE g = h /\ n # m
    <3>1. \A x : x # <<m, how>> => Occurrences(x, received'[h]) = Occurrences(x, received[h])
      BY <1>a
    <3> QED  BY <2>2, <3>1 DEF Called
  <2> QED  BY <1>11, <2>1, <2>2
<1>12. EachMessageOnce'
  <2> SUFFICES ASSUME NEW g \in Handlers, NEW u \in Topics, NEW n \in Range(topics[u])
               PROVE  Called(g, n)' + Owed(g, n)' = Occurrences(g, handlers[u])
    BY <1>1 DEF EachMessageOnce
  <2>1. n \in Messages /\ g \in Calls /\ n \in Calls
    BY <1>0 DEF TypeOK, Range
  <2>2. /\ Called(g, n) \in Nat /\ Occurrences(g, todo[n]) \in Nat
        /\ Occurrences(n, todo[g]) \in Nat /\ Occurrences(g, handlers[u]) \in Nat
    BY <1>0, <2>1, CountTypes
  <2>3. Called(g, n) + Occurrences(g, todo[n]) + Occurrences(n, todo[g]) =
            Occurrences(g, handlers[u])
    BY <1>0, <2>2 DEF EachMessageOnce, Owed
  <2>4. CASE c = m /\ h = Head(todo[m])
    <3>1. todo[m] \in Seq(Handlers) /\ todo[m] # <<>> /\ todo'[m] = Tail(todo[m])
      BY <1>0, <1>3, <2>4 DEF TypeOK
    <3>2. todo'[g] = todo[g]
      BY <1>0, <1>3, <2>4
    <3>3. CASE n = m
      <4>1. /\ Occurrences(g, todo[m]) = Occurrences(g, Tail(todo[m])) + (IF g = h THEN 1 ELSE 0)
            /\ Occurrences(g, Tail(todo[m])) \in Nat
        BY <2>4, <3>1, OccurrencesTail
      <4>2. Occurrences(g, todo'[n]) = Occurrences(g, Tail(todo[m]))
        BY <3>1, <3>3, Zenon
      <4>3. Owed(g, n)' = Occurrences(g, Tail(todo[m])) + Occurrences(n, todo[g])
        BY <3>2, <4>2 DEF Owed
      <4>4. Called(g, n)' = Called(g, n) + (IF g = h THEN 1 ELSE 0)
        BY <1>10, <1>11, <2>1, <2>2, <3>3
      <4>5. Occurrences(g, todo[n]) = Occurrences(g, todo[m])
        BY <3>3
      <4> QED  BY <2>2, <2>3, <4>1, <4>3, <4>4, <4>5
    <3>4. CASE n # m
      <4>1. Called(g, n)' = Called(g, n) /\ todo'[n] = todo[n]
        BY <1>3, <1>11, <2>1, <2>4, <3>4
      <4> QED  BY <2>2, <2>3, <3>2, <4>1 DEF Owed
    <3> QED  BY <3>3, <3>4
  <2>5. CASE c = h /\ m = Head(todo[h])
    <3>1. todo[h] \in Seq(Messages) /\ todo[h] # <<>> /\ todo'[h] = Tail(todo[h])
      BY <1>0, <1>3, <2>5 DEF TypeOK
    <3>2. todo'[n] = todo[n]
      BY <1>0, <1>3, <2>1, <2>5
    <3>3. CASE g = h
      <4>1. /\ Occurrences(n, todo[h]) = Occurrences(n, Tail(todo[h])) + (IF n = m THEN 1 ELSE 0)
            /\ Occurrences(n, Tail(todo[h])) \in Nat
        BY <2>5, <3>1, OccurrencesTail
      <4>2. Occurrences(n, todo'[g]) = Occurrences(n, Tail(todo[h]))
        BY <3>1, <3>3, Zenon
      <4>3. Owed(g, n)' = Occurrences(g, todo[n]) + Occurrences(n, Tail(todo[h]))
        BY <3>2, <4>2 DEF Owed
      <4>4. Called(g, n)' = Called(g, n) + (IF n = m THEN 1 ELSE 0)
        BY <1>10, <1>11, <2>1, <2>2, <3>3
      <4>5. Occurrences(n, todo[g]) = Occurrences(n, todo[h])
        BY <3>3
      <4> QED  BY <2>2, <2>3, <4>1, <4>3, <4>4, <4>5
    <3>4. CASE g # h
      <4>1. Called(g, n)' = Called(g, n) /\ todo'[g] = todo[g]
        BY <1>3, <1>11, <2>1, <2>5, <3>4
      <4> QED  BY <2>2, <2>3, <3>2, <4>1 DEF Owed
    <3> QED  BY <3>3, <3>4
  <2> QED  BY <2>4, <2>5
<1> QED  BY <1>7, <1>8, <1>9, <1>10, <1>11, <1>12 DEF BrokerInv

\* What the call of h with m leaves, which the store is interested in.
CalledOnce(h, m) ==
    /\ Called(h, m)' = Called(h, m) + 1
    /\ \A g \in Handlers, n \in Messages :
            ~(g = h /\ n = m) => Called(g, n)' = Called(g, n)

\* The two loops that call handlers.
LEMMA DeliverFacts ==
    ASSUME BrokerInv, NEW m \in Messages, Deliver(m)
    PROVE  BrokerInv' /\ \E h \in Handlers : h = Head(todo[m]) /\ CalledOnce(h, m)
<1>1. PICK h \in Handlers : h = Head(todo[m])
  <2>1. todo[m] \in Seq(Handlers) /\ todo[m] # <<>>
    BY DEF BrokerInv, TypeOK, Deliver
  <2> QED  BY <2>1
<1>2. m \in Calls
  BY DEF Calls
<1>3. OnTopic(m) /\ pc[m] = "deliver" /\ todo[m] # <<>>
  BY DEF BrokerInv, FromTopics, Deliver
<1>4. Invoke(m, h, m, "live")
  BY <1>1 DEF Deliver
<1> QED  BY <1>1, <1>2, <1>3, <1>4, InvokeInv DEF CalledOnce

\* A replay calls the handler once, with the first message it still owes.
LEMMA ReplayFacts ==
    ASSUME BrokerInv, NEW h \in Handlers, Replay(h)
    PROVE  BrokerInv' /\ \E m \in Messages : m = Head(todo[h]) /\ CalledOnce(h, m)
<1>1. todo[h] \in Seq(Messages) /\ todo[h] # <<>>
  BY DEF BrokerInv, TypeOK, Replay
<1>2. PICK m \in Messages : m = Head(todo[h])
  BY <1>1
<1>3. OnTopic(m)
  <2>1. 1 \in DOMAIN todo[h] /\ todo[h][1] = m
    BY <1>1, <1>2
  <2> QED  BY <2>1 DEF BrokerInv, FromTopics
<1>4. Invoke(h, h, m, "replay") /\ h \in Calls
  BY <1>2 DEF Replay, Calls
<1> QED  BY <1>1, <1>2, <1>3, <1>4, InvokeInv DEF CalledOnce

\* The steps outside the handlers call none.
LEMMA OutsideFacts ==
    ASSUME BrokerInv, Outside
    PROVE  BrokerInv' /\ UNCHANGED received
<1>1. ASSUME NEW c \in Calls, Refused(c) \/ Completes(c) PROVE BrokerInv'
  BY <1>1, AnswersInv
<1>2. ASSUME NEW m \in Messages, NEW t \in Topics, PublishAppend(m, t) PROVE BrokerInv'
  BY <1>2, PublishAppendInv
<1>3. ASSUME NEW h \in Handlers, NEW list \in Subscriptions, Lock(h, list) PROVE BrokerInv'
  BY <1>3, LockInv, MemoryAssumption
<1>4. ASSUME NEW h \in Handlers, Register(h) PROVE BrokerInv'
  BY <1>4, RegisterInv
<1>5. ASSUME NEW h \in Handlers, Unlock(h) PROVE BrokerInv'
  <2>1. <<>> \in Seq(Topics)
    OBVIOUS
  <2> QED  BY <1>5, <2>1, LockInv
<1>6. ASSUME Close PROVE BrokerInv'
  BY <1>6, CloseInv
<1>7. BrokerInv'
  BY <1>1, <1>2, <1>3, <1>4, <1>5, <1>6 DEF Outside
<1>8. UNCHANGED received
  BY DEF Outside, Refused, Completes, PublishAppend, Lock, Register, Unlock, Close
<1> QED  BY <1>7, <1>8

\* A stuttering step keeps the invariant.
LEMMA BrokerStutter == ASSUME BrokerInv, UNCHANGED vars PROVE BrokerInv'
<1>1. TypeOK'
  BY DEF BrokerInv, TypeOK, vars
<1> QED  BY <1>1, QuietStep DEF vars

\* Every step of the broker keeps its invariant.
LEMMA BrokerNextInv == BrokerInv /\ [Next]_vars => BrokerInv'
BY OutsideFacts, DeliverFacts, ReplayFacts, BrokerStutter DEF Next

-----------------------------------------------------------------------------
(* Who hands a message to a handler. *)

\* What a sequence has when its first element goes, and when one is appended.
LEMMA RangeFacts ==
    ASSUME NEW S, NEW s \in Seq(S)
    PROVE  /\ s # <<>> => Head(s) \in Range(s) /\ Range(Tail(s)) \subseteq Range(s)
           /\ \A x \in S : Range(Append(s, x)) = Range(s) \cup {x}
<1>1. ASSUME s # <<>> PROVE Head(s) \in Range(s) /\ Range(Tail(s)) \subseteq Range(s)
  <2>1. 1 \in DOMAIN s /\ s[1] = Head(s)
    BY <1>1
  <2>2. \A k \in DOMAIN Tail(s) : k + 1 \in DOMAIN s /\ Tail(s)[k] = s[k + 1]
    BY <1>1
  <2> QED  BY <2>1, <2>2 DEF Range
<1>2. ASSUME NEW x \in S PROVE Range(Append(s, x)) = Range(s) \cup {x}
  <2> DEFINE a == Append(s, x)
             n == Len(s)
  <2>1. /\ n \in Nat /\ DOMAIN s = 1..n /\ DOMAIN a = 1..(n + 1) /\ a[n + 1] = x
        /\ \A k \in 1..n : a[k] = s[k]
    OBVIOUS
  <2> HIDE DEF a, n
  <2>2. \A k \in 1..(n + 1) : k \in 1..n \/ k = n + 1
    BY <2>1
  <2>3. Range(a) \subseteq Range(s) \cup {x}
    BY <2>1, <2>2 DEF Range
  <2>4. x \in Range(a) /\ Range(s) \subseteq Range(a)
    <3>1. n + 1 \in 1..(n + 1) /\ 1..n \subseteq 1..(n + 1)
      BY <2>1
    <3> QED  BY <2>1, <3>1 DEF Range
  <2> QED  BY <2>3, <2>4 DEF a
<1> QED  BY <1>1, <1>2

\* Nothing has been handed to anybody.
LEMMA CallerInitInv == Init => CallerInv
<1> SUFFICES ASSUME Init PROVE CallerInv
  OBVIOUS
<1>1. Range(<<>>) = {}
  BY DEF Range
<1>2. /\ \A t \in Topics : handlers[t] = <<>>
      /\ \A c \in Calls : pc[c] = "start" /\ todo[c] = <<>>
      /\ \A h \in Handlers : received[h] = <<>>
  BY DEF Init
<1> QED  BY <1>1, <1>2 DEF CallerInv, Live, Calls

\* A step that hands nothing over.
LEMMA CallerQuiet ==
    ASSUME CallerInv, UNCHANGED <<handlers, todo, received>>,
           \A c \in Calls :
              /\ pc'[c] = "start" => pc[c] = "start"
              /\ pc'[c] = "register" => pc[c] \in {"start", "register"}
              /\ pc'[c] = "returned" => \/ pc[c] = "returned" /\ result'[c] = result[c]
                                        \/ todo[c] = <<>>
    PROVE  CallerInv'
<1>0. Handlers \subseteq Calls
  BY DEF Calls
<1>1. \A h \in Handlers, m \in Messages :
          (Live(h, m)' <=> Live(h, m)) /\ (Replayed(h, m)' <=> Replayed(h, m))
  BY DEF Live, Replayed
<1>2. \A h \in Handlers, t \in Topics : h \in Range(handlers'[t]) => pc'[h] # "start"
  BY <1>0 DEF CallerInv
<1>3. \A h \in Handlers, m \in Messages :
          Live(h, m)' => pc'[h] \notin {"start", "register"} /\ ~Replayed(h, m)'
  BY <1>0, <1>1 DEF CallerInv
<1>4. /\ \A c \in Calls : pc'[c] = "start" => todo'[c] = <<>>
      /\ \A c \in Calls : pc'[c] = "returned" => todo'[c] = <<>> \/ result'[c] = "error"
  BY DEF CallerInv
<1> QED  BY <1>2, <1>3, <1>4 DEF CallerInv

\* The calls that return without a handler's error have nothing left to do.
LEMMA CallerAnswers ==
    ASSUME BrokerInv, CallerInv, NEW c \in Calls, Refused(c) \/ Completes(c) PROVE CallerInv'
<1>0. TypeOK
  BY DEF BrokerInv
<1>1. PICK r \in {"ctx", "invalid", "closed", "error", "ok"} : Returns(c, r)
  BY DEF Refused, Completes
<1>2. /\ pc'[c] = "returned"
      /\ \A d \in Calls : d # c => pc'[d] = pc[d] /\ result'[d] = result[d]
  BY <1>0, <1>1, ReturnsFacts
<1>3. todo[c] = <<>> /\ UNCHANGED <<handlers, todo, received>>
  BY DEF Refused, Completes, Through, CallerInv
<1> QED  BY <1>2, <1>3, CallerQuiet

\* A new message is on nobody's list, and those it will be handed to are through
\* with registering, since the mutex is free.
LEMMA CallerPublish ==
    ASSUME BrokerInv, CallerInv, NEW m \in Messages, NEW t \in Topics, PublishAppend(m, t)
    PROVE  CallerInv'
<1>0. /\ TypeOK /\ FromTopics /\ m \in Calls /\ Messages \subseteq Calls
      /\ Handlers \subseteq Calls /\ Messages \cap Handlers = {}
  BY MemoryAssumption DEF BrokerInv, Calls
<1>1. /\ UNCHANGED <<handlers, received, result>> /\ pc[m] = "start" /\ Unlocked
      /\ todo' = [todo EXCEPT ![m] = handlers[t]]
      /\ pc' = [pc EXCEPT ![m] = "deliver"]
  BY DEF PublishAppend
<1>2. /\ todo'[m] = handlers[t] /\ \A c \in Calls : c # m => todo'[c] = todo[c]
      /\ pc'[m] = "deliver" /\ \A c \in Calls : c # m => pc'[c] = pc[c]
  BY <1>0, <1>1 DEF TypeOK
<1>3. ~OnTopic(m)
  BY <1>0, <1>1 DEF FromTopics
<1>4. \A h \in Handlers : ~Replayed(h, m)
  BY <1>0, <1>3 DEF Replayed, FromTopics, Range
<1>5. \A h \in Handlers, n \in Messages :
        /\ Live(h, n)' => Live(h, n) \/ (n = m /\ h \in Range(handlers[t]))
        /\ Replayed(h, n)' => Replayed(h, n)
        /\ pc'[h] = pc[h]
  BY <1>0, <1>1, <1>2 DEF Live, Replayed
<1>6. \A h \in Handlers : h \in Range(handlers[t]) => pc[h] \notin {"start", "register"}
  BY <1>0, <1>1 DEF CallerInv, Unlocked
<1>7. \A h \in Handlers, u \in Topics : h \in Range(handlers'[u]) => pc'[h] # "start"
  BY <1>1, <1>5 DEF CallerInv
<1>8. \A h \in Handlers, n \in Messages :
          Live(h, n)' => pc'[h] \notin {"start", "register"} /\ ~Replayed(h, n)'
  BY <1>4, <1>5, <1>6 DEF CallerInv
<1>9. /\ \A c \in Calls : pc'[c] = "start" => todo'[c] = <<>>
      /\ \A c \in Calls : pc'[c] = "returned" => todo'[c] = <<>> \/ result'[c] = "error"
  BY <1>1, <1>2 DEF CallerInv
<1> QED  BY <1>7, <1>8, <1>9 DEF CallerInv

\* Whoever is registering has not been handed anything live.
LEMMA CallerRegister ==
    ASSUME BrokerInv, CallerInv, NEW h \in Handlers, Register(h) PROVE CallerInv'
<1> DEFINE t == Head(pending[h])
<1>0. /\ TypeOK /\ h \in Calls /\ Messages \subseteq Calls
      /\ Handlers \subseteq Calls /\ Messages \cap Handlers = {}
  BY MemoryAssumption DEF BrokerInv, Calls
<1>1. UNCHANGED <<pc, received, result>> /\ pc[h] = "register"
  BY DEF Register
<1>2. \A c \in Calls : c # h => todo'[c] = todo[c]
  BY <1>0 DEF Register, TypeOK
<1>3. \A g \in Handlers, u \in Topics : g \in Range(handlers'[u]) => pc'[g] # "start"
  <2>1. pending[h] \in Seq(Topics) /\ pending[h] # <<>>
    BY <1>0 DEF Register, TypeOK
  <2>2. t \in Topics
    BY <2>1
  <2>3. handlers' = [handlers EXCEPT ![t] = Append(@, h)]
    BY DEF Register
  <2> HIDE DEF t
  <2>4. handlers'[t] = Append(handlers[t], h) /\ handlers[t] \in Seq(Handlers)
    BY <1>0, <2>2, <2>3 DEF TypeOK
  <2>5. Range(handlers'[t]) = Range(handlers[t]) \cup {h}
    BY <2>4, RangeFacts
  <2>6. \A u \in Topics : u # t => handlers'[u] = handlers[u]
    BY <1>0, <2>2, <2>3 DEF TypeOK
  <2> QED  BY <1>1, <2>2, <2>5, <2>6 DEF CallerInv
<1>4. \A g \in Handlers, n \in Messages : Live(g, n)' <=> Live(g, n)
  BY <1>0, <1>1, <1>2 DEF Live
<1>5. \A n \in Messages : ~Live(h, n)
  BY <1>1 DEF CallerInv
<1>6. \A g \in Handlers, n \in Messages : g # h => (Replayed(g, n)' <=> Replayed(g, n))
  BY <1>0, <1>1, <1>2 DEF Replayed
<1>7. \A g \in Handlers, n \in Messages :
          Live(g, n)' => pc'[g] \notin {"start", "register"} /\ ~Replayed(g, n)'
  BY <1>1, <1>4, <1>5, <1>6 DEF CallerInv
<1>8. /\ \A c \in Calls : pc'[c] = "start" => todo'[c] = <<>>
      /\ \A c \in Calls : pc'[c] = "returned" => todo'[c] = <<>> \/ result'[c] = "error"
  BY <1>1, <1>2 DEF CallerInv
<1> QED  BY <1>3, <1>7, <1>8 DEF CallerInv

\* How the call of h with m changes what has been and is to be handed over.
HandsOver(c, h, m, how) ==
    /\ received'[h] = Append(received[h], <<m, how>>)
    /\ \A g \in Handlers : g # h => received'[g] = received[g]
    /\ todo[c] # <<>> /\ todo'[c] = Tail(todo[c])
    /\ \A d \in Calls : d # c => todo'[d] = todo[d]

\* What is handed over was on the list of the call that does it.
LEMMA CallerInvoke ==
    ASSUME BrokerInv, CallerInv, NEW c \in Calls, NEW h \in Handlers, NEW m \in Messages,
           NEW how \in {"live", "replay"}, todo[c] # <<>>, Invoke(c, h, m, how),
           \/ c = m /\ h = Head(todo[m]) /\ how = "live" /\ pc[c] = "deliver"
           \/ c = h /\ m = Head(todo[h]) /\ how = "replay" /\ pc[c] = "replay"
    PROVE  /\ CallerInv'
           /\ how = "live" <=> Live(h, m)
           /\ \A g \in Handlers, n \in Messages :
                <<n, "live">> \in Range(received'[g]) <=>
                    \/ <<n, "live">> \in Range(received[g])
                    \/ g = h /\ n = m /\ how = "live"
<1>0. /\ TypeOK /\ Messages \subseteq Calls /\ Handlers \subseteq Calls
      /\ Messages \cap Handlers = {} /\ Calls = Messages \cup Handlers
  BY MemoryAssumption DEF BrokerInv, Calls
<1>1. HandsOver(c, h, m, how) /\ UNCHANGED handlers
  BY <1>0 DEF Invoke, HandsOver, TypeOK
<1>2. Range(received'[h]) = Range(received[h]) \cup {<<m, how>>}
  <2> DEFINE E == Messages \X {"live", "replay"}
             e == <<m, how>>
  <2>1. received[h] \in Seq(E) /\ e \in E /\ received'[h] = Append(received[h], e)
    BY <1>0, <1>1 DEF TypeOK, HandsOver
  <2> HIDE DEF E, e
  <2>2. Range(Append(received[h], e)) = Range(received[h]) \cup {e}
    BY <2>1, RangeFacts
  <2>3. Range(received'[h]) = Range(received[h]) \cup {e}
    BY <2>1, <2>2
  <2> QED  BY <2>3 DEF e
<1>3. Head(todo[c]) \in Range(todo[c]) /\ Range(todo'[c]) \subseteq Range(todo[c])
  <2>1. todo[c] \in Seq(Handlers) \/ todo[c] \in Seq(Messages)
    BY <1>0 DEF TypeOK
  <2>2. Head(todo[c]) \in Range(todo[c]) /\ Range(Tail(todo[c])) \subseteq Range(todo[c])
    BY <2>1, RangeFacts
  <2> QED  BY <1>1, <2>2 DEF HandsOver
<1>4. \A d \in Calls : Range(todo'[d]) \subseteq Range(todo[d])
  BY <1>1, <1>3 DEF HandsOver
<1>5. /\ how = "live" => Live(h, m)
      /\ how = "replay" => Replayed(h, m)
  BY <1>3 DEF Live, Replayed
<1>6. how = "live" <=> Live(h, m)
  BY <1>5 DEF CallerInv
<1>7. \A g \in Handlers, n \in Messages :
        /\ <<n, "live">> \in Range(received'[g]) <=>
              \/ <<n, "live">> \in Range(received[g])
              \/ g = h /\ n = m /\ how = "live"
        /\ <<n, "replay">> \in Range(received'[g]) <=>
              \/ <<n, "replay">> \in Range(received[g])
              \/ g = h /\ n = m /\ how = "replay"
  <2>1. \A g \in Handlers : g # h => received'[g] = received[g]
    BY <1>1 DEF HandsOver
  <2>2. \A n, kind : <<n, kind>> = <<m, how>> <=> n = m /\ kind = how
    OBVIOUS
  <2>3. \A n, kind : <<n, kind>> \in Range(received'[h]) <=>
            <<n, kind>> \in Range(received[h]) \/ (n = m /\ kind = how)
    BY <1>2, <2>2
  <2> QED  BY <2>1, <2>3
<1>8. \A g \in Handlers, n \in Messages :
        (Live(g, n)' => Live(g, n)) /\ (Replayed(g, n)' => Replayed(g, n))
  BY <1>0, <1>4, <1>5, <1>7 DEF Live, Replayed
<1>9. /\ \A d \in Calls : pc'[d] = pc[d] \/ pc'[d] = "returned"
      /\ \A d \in Calls : pc'[d] = "returned" =>
            (pc[d] = "returned" /\ result'[d] = result[d]) \/ result'[d] = "error"
  <2>1. CASE UNCHANGED <<pc, result>>
    BY <2>1
  <2>2. CASE StopAtError(c)
    <3>1. /\ pc'[c] = "returned" /\ result'[c] = "error"
          /\ \A d \in Calls : d # c => pc'[d] = pc[d] /\ result'[d] = result[d]
      BY <1>0, <2>2, ReturnsFacts DEF StopAtError
    <3> QED  BY <3>1
  <2> QED  BY <2>1, <2>2 DEF Invoke
<1>10. \A g \in Handlers, u \in Topics : g \in Range(handlers'[u]) => pc'[g] # "start"
  BY <1>0, <1>1, <1>9 DEF CallerInv
<1>11. \A g \in Handlers, n \in Messages :
          Live(g, n)' => pc'[g] \notin {"start", "register"} /\ ~Replayed(g, n)'
  BY <1>0, <1>8, <1>9 DEF CallerInv
<1>12. \A d \in Calls : pc'[d] = "start" => todo'[d] = <<>>
  <2>1. pc'[c] # "start"
    BY <1>9
  <2> QED  BY <1>1, <1>9, <2>1 DEF CallerInv, HandsOver
<1>13. \A d \in Calls : pc'[d] = "returned" => todo'[d] = <<>> \/ result'[d] = "error"
  <2>1. pc[c] # "returned"
    OBVIOUS
  <2> QED  BY <1>1, <1>9, <2>1 DEF CallerInv, HandsOver
<1> QED  BY <1>6, <1>7, <1>10, <1>11, <1>12, <1>13 DEF CallerInv

\* A delivery and a replay, as the store meets them.
LEMMA CallerHandlers ==
    ASSUME BrokerInv, CallerInv, NEW h \in Handlers, NEW m \in Messages,
           NEW how \in {"live", "replay"},
           \/ how = "live" /\ Deliver(m) /\ h = Head(todo[m])
           \/ how = "replay" /\ Replay(h) /\ m = Head(todo[h])
    PROVE  /\ CallerInv'
           /\ how = "live" <=> Live(h, m)
           /\ \A g \in Handlers, n \in Messages :
                <<n, "live">> \in Range(received'[g]) <=>
                    \/ <<n, "live">> \in Range(received[g])
                    \/ g = h /\ n = m /\ how = "live"
<1>0. h \in Calls /\ m \in Calls
  BY DEF Calls
<1>1. CASE how = "live" /\ Deliver(m) /\ h = Head(todo[m])
  <2>1. todo[m] # <<>> /\ Invoke(m, h, m, "live") /\ pc[m] = "deliver"
    BY <1>1 DEF Deliver
  <2> QED  BY <1>0, <1>1, <2>1, CallerInvoke
<1>2. CASE how = "replay" /\ Replay(h) /\ m = Head(todo[h])
  <2>1. todo[h] # <<>> /\ Invoke(h, h, m, "replay") /\ pc[h] = "replay"
    BY <1>2 DEF Replay
  <2> QED  BY <1>0, <1>2, <2>1, CallerInvoke
<1> QED  BY <1>1, <1>2

\* Every step of the broker keeps the two calls apart.
LEMMA CallerNextInv == BrokerInv /\ CallerInv /\ [Next]_vars => CallerInv'
<1> SUFFICES ASSUME BrokerInv, CallerInv, Next \/ UNCHANGED vars PROVE CallerInv'
  OBVIOUS
<1>0. TypeOK /\ Handlers \subseteq Calls
  BY DEF BrokerInv, Calls
<1>1. ASSUME NEW h \in Handlers, NEW list \in Subscriptions, Lock(h, list) PROVE CallerInv'
  <2>1. /\ UNCHANGED <<handlers, todo, received, result>> /\ pc[h] = "start"
        /\ pc' = [pc EXCEPT ![h] = "register"]
    BY <1>1 DEF Lock
  <2>2. pc'[h] = "register" /\ \A c \in Calls : c # h => pc'[c] = pc[c]
    BY <1>0, <2>1 DEF TypeOK
  <2> QED  BY <2>1, <2>2, CallerQuiet
<1>2. ASSUME NEW h \in Handlers, Unlock(h) PROVE CallerInv'
  <2>1. /\ UNCHANGED <<handlers, todo, received, result>>
        /\ pc' = [pc EXCEPT ![h] = "replay"]
    BY <1>2 DEF Unlock
  <2>2. pc'[h] = "replay" /\ \A c \in Calls : c # h => pc'[c] = pc[c]
    BY <1>0, <2>1 DEF TypeOK
  <2> QED  BY <2>1, <2>2, CallerQuiet
<1>3. ASSUME Close \/ UNCHANGED vars PROVE CallerInv'
  <2>1. UNCHANGED <<handlers, todo, received, result, pc>>
    BY <1>3 DEF Close, vars
  <2> QED  BY <2>1, CallerQuiet
<1>4. ASSUME NEW m \in Messages, Deliver(m) PROVE CallerInv'
  <2>1. todo[m] \in Seq(Handlers) /\ todo[m] # <<>>
    BY <1>0, <1>4 DEF TypeOK, Deliver
  <2>2. PICK h \in Handlers : h = Head(todo[m])
    BY <2>1
  <2> QED  BY <1>4, <2>2, CallerHandlers
<1>5. ASSUME NEW h \in Handlers, Replay(h) PROVE CallerInv'
  <2>1. todo[h] \in Seq(Messages) /\ todo[h] # <<>>
    BY <1>0, <1>5 DEF TypeOK, Replay
  <2>2. PICK m \in Messages : m = Head(todo[h])
    BY <2>1
  <2> QED  BY <1>5, <2>2, CallerHandlers
<1> QED  BY <1>1, <1>2, <1>3, <1>4, <1>5, CallerAnswers, CallerPublish, CallerRegister
         DEF Next, Outside

-----------------------------------------------------------------------------
(* Preservation of the store's invariant. *)

\* The store starts empty.
LEMMA StoreInitInv == PipeInit => StoreInv
<1> SUFFICES ASSUME PipeInit PROVE StoreInv
  OBVIOUS
<1>1. events = <<>> /\ storeClosed \in BOOLEAN /\ events \in Seq(Handlers \X Messages)
  <2>1. <<>> \in Seq(Handlers \X Messages)
    OBVIOUS
  <2> QED  BY <2>1, Zenon DEF PipeInit
<1>2. \A c \in Calls : result[c] # "error"
  BY DEF PipeInit, Init
<1>3. ASSUME NEW h \in Handlers, NEW m \in Messages
      PROVE  Occurrences(<<h, m>>, events) = 0 /\ Called(h, m) = 0
  <2>1. DOMAIN events = {} /\ DOMAIN received[h] = {}
    BY <1>1 DEF PipeInit, Init
  <2>2. Occurrences(<<h, m>>, events) = 0
    BY <2>1, OccurrencesNone
  <2>3. Occurrences(<<m, "live">>, received[h]) = 0 /\ Occurrences(<<m, "replay">>, received[h]) = 0
    BY <2>1, OccurrencesNone
  <2> QED  BY <2>2, <2>3 DEF Called
<1> QED  BY <1>1, <1>2, <1>3 DEF StoreInv

\* An answer that was an error stays one.
LEMMA ErrorsStay ==
    ASSUME BrokerInv, StoreInv, PipeNext \/ UNCHANGED pipeVars
    PROVE  /\ \A c \in Calls : result[c] = "error" => result'[c] = "error"
           /\ \A c \in Calls : result'[c] = "error" => pc'[c] = "returned"
<1>0. TypeOK /\ Messages \subseteq Calls /\ Handlers \subseteq Calls
  BY DEF BrokerInv, Calls
<1>1. ASSUME NEW c \in Calls, pc[c] # "returned",
             NEW r \in {"ctx", "invalid", "closed", "error", "ok"}, Returns(c, r)
      PROVE  /\ \A d \in Calls : result[d] = "error" => result'[d] = "error"
             /\ \A d \in Calls : result'[d] = "error" => pc'[d] = "returned"
  <2>1. /\ pc'[c] = "returned" /\ result[c] # "error"
        /\ \A d \in Calls : d # c => pc'[d] = pc[d] /\ result'[d] = result[d]
    BY <1>0, <1>1, ReturnsFacts DEF StoreInv
  <2> QED  BY <2>1 DEF StoreInv
<1>2. ASSUME NEW c \in Calls, pc[c] # "returned", NEW to \in {"register", "deliver", "replay"},
             pc' = [pc EXCEPT ![c] = to], UNCHANGED result
      PROVE  /\ \A d \in Calls : result[d] = "error" => result'[d] = "error"
             /\ \A d \in Calls : result'[d] = "error" => pc'[d] = "returned"
  BY <1>0, <1>2 DEF StoreInv, TypeOK
<1>3. CASE UNCHANGED <<pc, result>>
  BY <1>3 DEF StoreInv
<1>4. ASSUME NEW c \in Calls, Refused(c) \/ Completes(c)
      PROVE  \E r \in {"ctx", "invalid", "closed", "error", "ok"} :
                pc[c] # "returned" /\ Returns(c, r)
  BY <1>4 DEF Refused, Completes
<1>5. ASSUME NEW c \in Calls, NEW h, NEW m, NEW how, Invoke(c, h, m, how)
      PROVE  UNCHANGED <<pc, result>> \/ Returns(c, "error")
  BY <1>5 DEF Invoke, StopAtError
<1>6. CASE \E m \in Messages : LiveHandler(m)
  <2>1. PICK m \in Messages : Deliver(m)
    BY <1>6 DEF LiveHandler
  <2>2. m \in Calls /\ pc[m] # "returned"
    BY <1>0, <2>1 DEF Deliver
  <2>3. UNCHANGED <<pc, result>> \/ Returns(m, "error")
    BY <1>5, <2>1, <2>2 DEF Deliver
  <2> QED  BY <1>1, <1>3, <2>2, <2>3
<1>7. CASE \E h \in Handlers : ReplayHandler(h)
  <2>1. PICK h \in Handlers : Replay(h)
    BY <1>7 DEF ReplayHandler
  <2>2. h \in Calls /\ pc[h] # "returned"
    BY <1>0, <2>1 DEF Replay
  <2>3. UNCHANGED <<pc, result>> \/ Returns(h, "error")
    BY <1>5, <2>1, <2>2 DEF Replay
  <2> QED  BY <1>1, <1>3, <2>2, <2>3
<1>8. CASE Outside
  <2>1. CASE \E c \in Calls : Refused(c) \/ Completes(c)
    BY <1>1, <1>4, <2>1
  <2>2. CASE \E m \in Messages, t \in Topics : PublishAppend(m, t)
    BY <1>0, <1>2, <2>2 DEF PublishAppend
  <2>3. CASE \E h \in Handlers, list \in Subscriptions : Lock(h, list)
    BY <1>0, <1>2, <2>3 DEF Lock
  <2>4. CASE \E h \in Handlers : Register(h)
    BY <1>3, <2>4 DEF Register
  <2>5. CASE \E h \in Handlers : Unlock(h)
    BY <1>0, <1>2, <2>5 DEF Unlock
  <2>6. CASE Close
    BY <1>3, <2>6 DEF Close
  <2> QED  BY <1>8, <2>1, <2>2, <2>3, <2>4, <2>5, <2>6 DEF Outside
<1>9. CASE CloseStore \/ UNCHANGED pipeVars
  BY <1>3, <1>9 DEF CloseStore, pipeVars, vars
<1> QED  BY <1>6, <1>7, <1>8, <1>9 DEF PipeNext

\* The handler of h is called with m: a row for it, or an error for the caller.
LEMMA HandlerStep ==
    ASSUME BrokerInv, CallerInv, StoreInv, NEW h \in Handlers, NEW m \in Messages,
           CalledOnce(h, m), NEW how \in {"live", "replay"}, how = "live" <=> Live(h, m),
           \A g \in Handlers, n \in Messages :
                <<n, "live">> \in Range(received'[g]) <=>
                    \/ <<n, "live">> \in Range(received[g])
                    \/ g = h /\ n = m /\ how = "live",
           NEW c, c = (IF how = "live" THEN m ELSE h), BrokerInv', UNCHANGED storeClosed,
           \/ events' = events \o << <<h, m>> >>
           \/ events' = events /\ result'[c] = "error",
           \A d \in Calls : result[d] = "error" => result'[d] = "error",
           \A d \in Calls : result'[d] = "error" => pc'[d] = "returned"
    PROVE  StoreInv'
<1> DEFINE E == Handlers \X Messages
           e == <<h, m>>
<1>0. TypeOK /\ h \in Calls /\ m \in Calls /\ e \in E /\ events \in Seq(E) /\ <<e>> \in Seq(E)
  BY DEF BrokerInv, Calls, StoreInv
<1>1. events' \in Seq(E)
  <2>1. events \o <<e>> \in Seq(E)
    BY <1>0
  <2> QED  BY <1>0, <2>1
<1>2. ASSUME NEW x
      PROVE  /\ Occurrences(x, events) \in Nat
             /\ \/ Occurrences(x, events') = Occurrences(x, events) + (IF x = e THEN 1 ELSE 0)
                \/ events' = events /\ result'[c] = "error"
  <2>1. Occurrences(x, events) \in Nat
    BY <1>0, PlacesFinite
  <2> HIDE DEF e, E
  <2>2. Occurrences(x, events \o <<e>>) = Occurrences(x, events) + Occurrences(x, <<e>>)
    BY <1>0, OccurrencesConcat
  <2>3. Occurrences(x, <<e>>) = IF x = e THEN 1 ELSE 0
    BY OccurrencesOne
  <2>4. CASE events' = events \o <<e>>
    <3>1. Occurrences(x, events') = Occurrences(x, events) + (IF x = e THEN 1 ELSE 0)
      BY <2>2, <2>3, <2>4, Zenon
    <3> QED  BY <2>1, <3>1
  <2>5. CASE events' = events /\ result'[c] = "error"
    BY <2>1, <2>5
  <2> QED  BY <2>4, <2>5 DEF e
<1>h. ASSUME NEW g \in Handlers, NEW n \in Messages
      PROVE  /\ HandedBy(g, n)' = IF g = h /\ n = m THEN c ELSE HandedBy(g, n)
             /\ HandedBy(g, n) \in Calls
  <2>1. CASE g = h /\ n = m
    <3>1. <<n, "live">> \in Range(received[g]) => how = "live"
      BY <2>1 DEF Live
    <3>2. <<n, "live">> \in Range(received'[g]) <=> how = "live"
      BY <2>1, <3>1
    <3> QED  BY <1>0, <2>1, <3>2 DEF HandedBy, Calls
  <2>2. CASE ~(g = h /\ n = m)
    BY <2>2 DEF HandedBy, Calls
  <2> QED  BY <2>1, <2>2
\* The caller was the same before, or h had not been called with m.
<1>i. /\ Called(h, m) \in Nat /\ c \in Calls
      /\ Called(h, m) > 0 => HandedBy(h, m) = c
  <2>1. Called(h, m) \in Nat /\ c \in Calls
    BY <1>0, CountTypes
  <2>2. CASE <<m, "live">> \in Range(received[h])
    BY <2>1, <2>2 DEF HandedBy, Live
  <2>3. CASE <<m, "live">> \notin Range(received[h]) /\ how = "live"
    <3>1. <<m, "replay">> \notin Range(received[h])
      BY <2>3 DEF CallerInv, Replayed
    <3>2. /\ \A k \in DOMAIN received[h] : received[h][k] # <<m, "live">>
          /\ \A k \in DOMAIN received[h] : received[h][k] # <<m, "replay">>
      BY <2>3, <3>1 DEF Range
    <3>3. Called(h, m) = 0
      BY <3>2, OccurrencesNone DEF Called
    <3> QED  BY <2>1, <3>3
  <2>4. CASE <<m, "live">> \notin Range(received[h]) /\ how = "replay"
    BY <2>1, <2>4 DEF HandedBy
  <2> QED  BY <2>1, <2>2, <2>3, <2>4
<1>3. ASSUME NEW g \in Handlers, NEW n \in Messages
      PROVE  LET stored == Occurrences(<<g, n>>, events')
             IN  /\ stored <= Called(g, n)'
                 /\ stored < Called(g, n)' => result'[HandedBy(g, n)'] = "error"
  <2>1. Called(g, n) \in Nat /\ Occurrences(<<g, n>>, events) \in Nat
    BY <1>0, <1>2, CountTypes
  <2>2. /\ Occurrences(<<g, n>>, events) <= Called(g, n)
        /\ Occurrences(<<g, n>>, events) < Called(g, n) => result[HandedBy(g, n)] = "error"
    BY DEF StoreInv
  <2>3. CASE g = h /\ n = m
    <3>1. Called(g, n)' = Called(g, n) + 1 /\ HandedBy(g, n)' = c
      BY <1>h, <2>3 DEF CalledOnce
    <3>2. \/ Occurrences(<<g, n>>, events') = Occurrences(<<g, n>>, events) + 1
          \/ events' = events /\ result'[c] = "error"
      BY <1>2, <2>3
    <3>3. Occurrences(<<g, n>>, events) < Called(g, n) => result'[c] = "error"
      <4>1. Occurrences(<<g, n>>, events) < Called(g, n) => Called(g, n) > 0
        BY <2>1
      <4> QED  BY <1>i, <2>2, <2>3, <4>1
    <3>4. Occurrences(<<g, n>>, events') <= Called(g, n) + 1
      BY <2>1, <2>2, <3>2
    <3>5. Occurrences(<<g, n>>, events') < Called(g, n) + 1 => result'[c] = "error"
      BY <2>1, <2>2, <3>2, <3>3
    <3> QED  BY <3>1, <3>4, <3>5
  <2>4. CASE ~(g = h /\ n = m)
    <3>1. Called(g, n)' = Called(g, n) /\ HandedBy(g, n)' = HandedBy(g, n)
      BY <1>h, <2>4 DEF CalledOnce
    <3>2. Occurrences(<<g, n>>, events') = Occurrences(<<g, n>>, events)
      BY <1>2, <2>1, <2>4
    <3>3. HandedBy(g, n) \in Calls
      BY <1>h
    <3> QED  BY <2>2, <3>1, <3>2, <3>3
  <2> QED  BY <2>3, <2>4
<1> QED  BY <1>1, <1>3 DEF StoreInv

\* No handler is called: the rows and the counts stay as they are.
LEMMA StoreRests ==
    ASSUME BrokerInv, StoreInv, PipeNext \/ UNCHANGED pipeVars,
           UNCHANGED <<received, events>>, storeClosed' \in BOOLEAN
    PROVE  StoreInv'
<1>1. /\ \A c \in Calls : result[c] = "error" => result'[c] = "error"
      /\ \A c \in Calls : result'[c] = "error" => pc'[c] = "returned"
  BY ErrorsStay
<1>2. ASSUME NEW h \in Handlers, NEW m \in Messages
      PROVE  LET stored == Occurrences(<<h, m>>, events')
             IN  /\ stored <= Called(h, m)'
                 /\ stored < Called(h, m)' => result'[HandedBy(h, m)'] = "error"
  <2>1. Called(h, m)' = Called(h, m) /\ HandedBy(h, m)' = HandedBy(h, m)
    BY DEF Called, HandedBy
  <2>2. HandedBy(h, m) \in Calls
    BY DEF Calls, HandedBy
  <2> QED  BY <1>1, <2>1, <2>2 DEF StoreInv
<1> QED  BY <1>1, <1>2 DEF StoreInv

\* A step of the pipeline is a step of the broker, or leaves it alone.
LEMMA PipeStepIsBrokerStep == PipeNext => Next \/ UNCHANGED vars
BY DEF PipeNext, LiveHandler, ReplayHandler, CloseStore, Next

\* Every step of broker and store keeps what the store holds of the messages.
LEMMA StoreNextInv == BrokerInv /\ CallerInv /\ StoreInv /\ [PipeNext]_pipeVars => StoreInv'
<1> SUFFICES ASSUME BrokerInv, CallerInv, StoreInv, PipeNext \/ UNCHANGED pipeVars
             PROVE  StoreInv'
  OBVIOUS
<1>1. /\ \A c \in Calls : result[c] = "error" => result'[c] = "error"
      /\ \A c \in Calls : result'[c] = "error" => pc'[c] = "returned"
  BY ErrorsStay
<1>0. TypeOK /\ Messages \subseteq Calls /\ Handlers \subseteq Calls
  BY DEF BrokerInv, Calls
\* A step in which the handler fails is the one that returns its error.
<1>2. ASSUME NEW c \in Calls, NEW h, NEW m, NEW how, Invoke(c, h, m, how), ~HandlerOK
      PROVE  result'[c] = "error"
  <2>1. Returns(c, "error")
    BY <1>2 DEF Invoke, HandlerOK, StopAtError
  <2> QED  BY <1>0, <2>1 DEF Returns, TypeOK
<1>3. CASE \E m \in Messages : LiveHandler(m)
  <2>1. PICK m \in Messages : LiveHandler(m)
    BY <1>3
  <2>2. Deliver(m) /\ UNCHANGED storeClosed
    BY <2>1 DEF LiveHandler
  <2>3. BrokerInv' /\ \E h \in Handlers : h = Head(todo[m]) /\ CalledOnce(h, m)
    BY <2>2, DeliverFacts
  <2>4. PICK h \in Handlers : h = Head(todo[m]) /\ CalledOnce(h, m)
    BY <2>3
  <2>5. WriteBatch(<< <<h, m>> >>) /\ Invoke(m, h, m, "live")
    BY <2>1, <2>4 DEF LiveHandler, Deliver
  <2>6. \/ events' = events \o << <<h, m>> >>
        \/ events' = events /\ result'[m] = "error"
    BY <1>0, <1>2, <2>5 DEF WriteBatch
  <2>7. /\ Live(h, m)
        /\ \A g \in Handlers, n \in Messages :
              <<n, "live">> \in Range(received'[g]) <=>
                  <<n, "live">> \in Range(received[g]) \/ (g = h /\ n = m)
    BY <2>2, <2>4, CallerHandlers
  <2> QED  BY <1>1, <2>2, <2>3, <2>4, <2>6, <2>7, HandlerStep
<1>4. CASE \E h \in Handlers : ReplayHandler(h)
  <2>1. PICK h \in Handlers : ReplayHandler(h)
    BY <1>4
  <2>2. Replay(h) /\ UNCHANGED storeClosed
    BY <2>1 DEF ReplayHandler
  <2>3. BrokerInv' /\ \E m \in Messages : m = Head(todo[h]) /\ CalledOnce(h, m)
    BY <2>2, ReplayFacts
  <2>4. PICK m \in Messages : m = Head(todo[h]) /\ CalledOnce(h, m)
    BY <2>3
  <2>5. WriteBatch(<< <<h, m>> >>) /\ Invoke(h, h, m, "replay")
    BY <2>1, <2>4 DEF ReplayHandler, Replay
  <2>6. \/ events' = events \o << <<h, m>> >>
        \/ events' = events /\ result'[h] = "error"
    BY <1>0, <1>2, <2>5 DEF WriteBatch
  <2>7. /\ ~Live(h, m)
        /\ \A g \in Handlers, n \in Messages :
              <<n, "live">> \in Range(received'[g]) <=> <<n, "live">> \in Range(received[g])
    BY <2>2, <2>4, CallerHandlers
  <2> QED  BY <1>1, <2>2, <2>3, <2>4, <2>6, <2>7, HandlerStep
<1>5. CASE Outside /\ UNCHANGED storeVars
  <2>1. UNCHANGED <<received, events>> /\ storeClosed' \in BOOLEAN
    BY <1>5, OutsideFacts DEF storeVars, StoreInv
  <2> QED  BY <2>1, StoreRests
<1>6. CASE CloseStore \/ UNCHANGED pipeVars
  <2>1. UNCHANGED <<received, events>> /\ storeClosed' \in BOOLEAN
    BY <1>6 DEF CloseStore, pipeVars, storeVars, vars, StoreInv
  <2> QED  BY <2>1, StoreRests
<1> QED  BY <1>3, <1>4, <1>5, <1>6 DEF PipeNext

-----------------------------------------------------------------------------
(* The theorems. *)

\* However the Publish and Subscribe calls of the in-process broker overlap,
\* each registration gets each buffered message exactly once
\* (pkg/broker/memory.go:29-89): for any number of calls and topics.
THEOREM EachMessageOnceHolds == Spec => []EachMessageOnce
<1>1. BrokerInv => EachMessageOnce
  BY DEF BrokerInv
<1> QED  BY BrokerInitInv, BrokerNextInv, <1>1, PTL DEF Spec

\* The broker with the store behind its handlers is still the broker: the
\* store only decides which of its outcomes a handler has.
THEOREM PipelineImplementsBroker == PipeSpec => Spec
<1>1. PipeInit => Init
  BY DEF PipeInit
<1>2. [PipeNext]_pipeVars => [Next]_vars
  BY PipeStepIsBrokerStep DEF pipeVars
<1> QED  BY <1>1, <1>2, PTL DEF PipeSpec, Spec

\* The invariants of the broker and the store together.
THEOREM PipelineInvariant == PipeSpec => [](BrokerInv /\ CallerInv /\ StoreInv)
<1>1. PipeInit => BrokerInv /\ CallerInv /\ StoreInv
  BY BrokerInitInv, CallerInitInv, StoreInitInv DEF PipeInit
<1>2. BrokerInv /\ CallerInv /\ StoreInv /\ [PipeNext]_pipeVars
        => BrokerInv' /\ CallerInv' /\ StoreInv'
  <2>1. [PipeNext]_pipeVars => [Next]_vars
    BY PipeStepIsBrokerStep DEF pipeVars
  <2> QED  BY <2>1, BrokerNextInv, CallerNextInv, StoreNextInv
<1> QED  BY <1>1, <1>2, PTL DEF PipeSpec

\* A message that a subscriber should have stored is stored, or still to be stored
\* by the call that hands it over, as long as that call runs; when that call has
\* returned and the row is missing, the call has returned an error
\* (memory.go:50-56 and 81-87 of the broker, WriteBatch of the store).
THEOREM NothingSilentlyLostHolds == PipeSpec => []NothingSilentlyLost
<1>1. BrokerInv /\ CallerInv /\ StoreInv => NothingSilentlyLost
  <2> SUFFICES ASSUME BrokerInv, CallerInv, StoreInv,
                      NEW h \in Handlers, NEW t \in Topics, NEW m \in Range(topics[t])
               PROVE  LET stored == Occurrences(<<h, m>>, events)
                          due == Occurrences(h, handlers[t])
                          call == CallerOf(h, m)
                      IN  /\ stored <= due
                          /\ stored < due => IF pc[call] = "returned" THEN result[call] = "error"
                                             ELSE stored + Owed(h, m) = due
    BY DEF NothingSilentlyLost
  <2> DEFINE stored == Occurrences(<<h, m>>, events)
             due == Occurrences(h, handlers[t])
             call == CallerOf(h, m)
             called == Called(h, m)
             live == Occurrences(h, todo[m])
             replay == Occurrences(m, todo[h])
  <2>1. TypeOK /\ m \in Messages
    BY DEF BrokerInv, TypeOK, Range
  <2>2. called \in Nat /\ live \in Nat /\ replay \in Nat /\ due \in Nat
    BY <2>1, CountTypes
  <2>3. stored \in Nat
    BY PlacesFinite DEF StoreInv
  <2>4. called + Owed(h, m) = due /\ Owed(h, m) = live + replay
    BY DEF BrokerInv, EachMessageOnce, Owed
  <2>5. stored <= called /\ (stored < called => result[HandedBy(h, m)] = "error")
    BY <2>1 DEF StoreInv
  <2>6. call \in Calls /\ (pc[call] # "returned" => result[call] # "error")
    BY <2>1 DEF CallerOf, Calls, StoreInv
  <2>7. called > 0 => HandedBy(h, m) = call
    <3>1. CASE <<m, "live">> \in Range(received[h])
      BY <3>1 DEF HandedBy, CallerOf, Live
    <3>2. CASE <<m, "live">> \notin Range(received[h]) /\ Live(h, m)
      <4>1. <<m, "replay">> \notin Range(received[h])
        BY <2>1, <3>2 DEF CallerInv, Replayed
      <4>2. /\ \A k \in DOMAIN received[h] : received[h][k] # <<m, "live">>
            /\ \A k \in DOMAIN received[h] : received[h][k] # <<m, "replay">>
        BY <3>2, <4>1 DEF Range
      <4>3. called = 0
        BY <4>2, OccurrencesNone DEF Called
      <4> QED  BY <4>3
    <3>3. CASE ~Live(h, m)
      BY <3>3 DEF HandedBy, CallerOf, Live
    <3> QED  BY <3>1, <3>2, <3>3
  <2>8. stored < called => result[call] = "error"
    <3> HIDE DEF stored, called, call
    <3> QED  BY <2>2, <2>3, <2>5, <2>7
  <2>9. live + replay > 0 => todo[call] # <<>>
    <3>1. CASE Live(h, m)
      <4>1. \A k \in DOMAIN todo[h] : todo[h][k] # m
        BY <2>1, <3>1 DEF CallerInv, Replayed, Range
      <4>2. replay = 0
        BY <4>1, OccurrencesNone
      <4>3. todo[m] = <<>> => live = 0
        BY OccurrencesNone
      <4> QED  BY <2>2, <3>1, <4>2, <4>3 DEF CallerOf
    <3>2. CASE ~Live(h, m)
      <4>1. \A k \in DOMAIN todo[m] : todo[m][k] # h
        BY <3>2 DEF Live, Range
      <4>2. live = 0
        BY <4>1, OccurrencesNone
      <4>3. todo[h] = <<>> => replay = 0
        BY OccurrencesNone
      <4> QED  BY <2>2, <3>2, <4>2, <4>3 DEF CallerOf
    <3> QED  BY <3>1, <3>2
  <2>10. pc[call] = "returned" => todo[call] = <<>> \/ result[call] = "error"
    BY <2>6 DEF CallerInv
  <2> HIDE DEF stored, due, call, called, live, replay
  <2>11. stored <= due
    BY <2>2, <2>3, <2>4, <2>5
  <2>12. ASSUME stored < due, pc[call] = "returned" PROVE result[call] = "error"
    <3>1. stored < called \/ live + replay > 0
      BY <2>2, <2>3, <2>4, <2>5, <2>12
    <3> QED  BY <2>8, <2>9, <2>10, <2>12, <3>1
  <2>13. ASSUME stored < due, pc[call] # "returned" PROVE stored + Owed(h, m) = due
    <3>1. stored = called
      BY <2>2, <2>3, <2>5, <2>6, <2>8, <2>13
    <3> QED  BY <2>4, <3>1
  <2> QED  BY <2>11, <2>12, <2>13 DEF stored, due, call
<1> QED  BY <1>1, PipelineInvariant, PTL
=============================================================================
