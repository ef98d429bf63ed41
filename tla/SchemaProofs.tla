---------------------------- MODULE SchemaProofs ----------------------------
(***************************************************************************)
(* Proofs about Schema: the two services agree about every event, whatever *)
(* the payload, the attributes and the widths of the integers are.         *)
(***************************************************************************)
EXTENDS Schema, FiniteSetTheorems, TLAPS

-----------------------------------------------------------------------------
(* The inductive invariant. *)

\* The fields of LogEvent.
Fields == {"ts", "level", "message", "service", "host", "status", "duration", "attrs"}

\* What the gateway's mapping yields: a valid event with a normalised level.
MappedEvent(e) ==
    DOMAIN e = Fields /\ Validate(e) /\ e.level \in {Level(word) : word \in LogLevels}

\* What each stage knows of the event.
SchemaInv ==
    /\ \/ input.via = "rest" /\ input.body \in RESTInputs
       \/ input.via = "otlp" /\ input.body \in OTLPInputs
    /\ stage \in {"received", "rejected", "mapped", "published", "unencodable", "decoded"}
    /\ stage \in {"received", "rejected"} => ~event.ok
    /\ stage \in {"mapped", "published", "unencodable", "decoded"} =>
         /\ event = IF input.via = "rest" THEN FromREST(input.body) ELSE FromOTLP(input.body)
         /\ event.ok /\ MappedEvent(event.event)
    /\ stage \in {"published", "decoded"} => wire = Accepted(JSONEvent(event.event))
    /\ stage = "unencodable" => ~Encodes(event.event)
    /\ stage = "decoded" => decoded = Accepted(JSONEvent(event.event))

\* One turn of keyValuesToMap's loop, with its arguments in the order of a fold.
AddPair(kv, out) == AddKeyValue(out, kv)

\* FoldLeft goes through a sequence from its last element down.
Largest(S) == Max(S)

\* The folds of keyValuesToMap.
KV == INSTANCE FoldInduction WITH op <- AddPair, base <- NoAttrs, choose <- Largest

\* A width of one bit more doubles the range.
LEMMA HalfOf ==
    ASSUME NEW bits \in Nat \ {0}
    PROVE  2 ^ (bits - 1) \in Nat \ {0} /\ 2 ^ bits = 2 * 2 ^ (bits - 1)
<1> DEFINE n == bits - 1
<1>1. n \in Nat /\ n + 1 = bits
  OBVIOUS
<1> HIDE DEF n
<1>2. 2 ^ n \in Nat /\ 2 ^ n >= 1 /\ 2 ^ (n + 1) = 2 * 2 ^ n
  BY <1>1, KV!PowerDoubles
<1> DEFINE half == 2 ^ n
<1>3. half \in Nat /\ half >= 1
  BY <1>2
<1> HIDE DEF half
<1>4. half \in Nat \ {0}
  BY <1>3
<1> QED  BY <1>1, <1>2, <1>4 DEF half, n

\* Validated returns an event only if Validate accepts it.
LEMMA ValidatedFacts ==
    ASSUME NEW e
    PROVE  /\ Validated(e).ok <=> Validate(e)
           /\ Validate(e) => Validated(e) = Accepted(e) /\ Validated(e).event = e
BY DEF Validated, Accepted, Rejected

\* A level that both normalises and validates is one of the five.
LEMMA NormalizedLevel ==
    ASSUME NEW level, LET n == NormalizeLogLevel(level) IN n = Level("") \/ ValidLogLevel(n)
    PROVE  NormalizeLogLevel(level) \in {Level(word) : word \in LogLevels}
BY DEF NormalizeLogLevel, Level, ValidLogLevel, LogLevels

\* To normalise a level again changes nothing.
LEMMA NormalizeIdempotent ==
    ASSUME NEW word \in LogLevels
    PROVE  NormalizeLogLevel(Level(word)) = Level(word) /\ ValidLogLevel(Level(word))
BY DEF NormalizeLogLevel, Level, ValidLogLevel, LogLevels

\* FromREST and FromOTLPLike build their event in the same way.
LEMMA MappedRecord ==
    ASSUME NEW ts, NEW level, NEW message, NEW service, NEW host, NEW status,
           NEW duration, NEW attrs,
           NEW e, e = [ts |-> ts, level |-> NormalizeLogLevel(level), message |-> message,
                       service |-> service, host |-> host, status |-> status,
                       duration |-> duration, attrs |-> attrs],
           Validated(e).ok
    PROVE  /\ Validated(e).event = e /\ MappedEvent(e)
           /\ e.ts = ts /\ e.duration = duration
<1>1. Validate(e) /\ Validated(e).event = e
  BY ValidatedFacts
<1>2. DOMAIN e = Fields /\ e.level = NormalizeLogLevel(level) /\ e.ts = ts /\ e.duration = duration
  BY DEF Fields
<1>3. e.level \in {Level(word) : word \in LogLevels}
  BY <1>1, <1>2, NormalizedLevel DEF Validate
<1> QED  BY <1>1, <1>2, <1>3 DEF MappedEvent

\* What FromREST makes of a payload it accepts.
LEMMA FromRESTFacts ==
    ASSUME NEW p, FromREST(p).ok
    PROVE  /\ MappedEvent(FromREST(p).event)
           /\ FromREST(p).event.ts = IF p.ts = 0 THEN Now ELSE TimeUnixMilli(Wrap(p.ts, TimeBits))
           /\ FromREST(p).event.duration = p.duration
BY MappedRecord DEF FromREST, RESTLevel

\* What FromOTLPLike makes of a record it accepts.
LEMMA FromOTLPLikeFacts ==
    ASSUME NEW ts, NEW severity, NEW body, NEW resourceAttrs, NEW logAttrs,
           FromOTLPLike(ts, severity, body, resourceAttrs, logAttrs).ok
    PROVE  LET e == FromOTLPLike(ts, severity, body, resourceAttrs, logAttrs).event
           IN  MappedEvent(e) /\ e.ts = IF ts = ZeroTime THEN Now ELSE ts
BY MappedRecord DEF FromOTLPLike

\* What LogEventsFromOTLP makes of a record it accepts.
LEMMA FromOTLPFacts ==
    ASSUME NEW r, FromOTLP(r).ok
    PROVE  LET ts == IF r.ts = 0 THEN Now ELSE Wrap(r.ts, NanoBits)
           IN  /\ MappedEvent(FromOTLP(r).event)
               /\ FromOTLP(r).event.ts = IF ts = ZeroTime THEN Now ELSE ts
<1> DEFINE ts == IF r.ts = 0 THEN Now ELSE Wrap(r.ts, NanoBits)
           severity == IF r.severityText = Level("") THEN severityNumberToText(r.severityNumber)
                       ELSE r.severityText
           body == anyValueToString(r.body)
           resource == keyValuesToMap(r.resource)
           attributes == keyValuesToMap(r.attributes)
<1>1. FromOTLP(r) = FromOTLPLike(ts, severity, body, resource, attributes)
  BY DEF FromOTLP
<1> HIDE DEF ts, severity, body, resource, attributes
<1>2. /\ MappedEvent(FromOTLP(r).event)
      /\ FromOTLP(r).event.ts = IF ts = ZeroTime THEN Now ELSE ts
  BY <1>1, FromOTLPLikeFacts
<1> QED  BY <1>2 DEF ts

\* JSON changes neither what Validate looks at nor the shape of an event.
LEMMA JSONFacts ==
    ASSUME NEW e, MappedEvent(e)
    PROVE  /\ DOMAIN JSONEvent(e) = Fields
           /\ JSONEvent(e).level = e.level /\ JSONEvent(e).ts = e.ts
           /\ Validate(JSONEvent(e))
           /\ [JSONEvent(e) EXCEPT !.level = NormalizeLogLevel(@)] = JSONEvent(e)
<1> DEFINE j == JSONEvent(e)
<1>1. /\ DOMAIN j = Fields /\ j = [k \in Fields |-> j[k]]
      /\ j.level = e.level /\ j.ts = e.ts
      /\ j.message = JSONText(e.message) /\ j.service = JSONText(e.service)
  BY DEF MappedEvent, Fields, JSONEvent
<1>2. \A t : IsBlank(JSONText(t)) => IsBlank(t)
  BY DEF JSONText, IsBlank, Text
<1>3. PICK word \in LogLevels : e.level = Level(word)
  BY DEF MappedEvent
<1> HIDE DEF j
<1>4. Validate(j)
  BY <1>1, <1>2 DEF Validate, MappedEvent
<1>5. NormalizeLogLevel(j.level) = j.level
  BY <1>1, <1>3, NormalizeIdempotent
<1>6. [j EXCEPT !.level = NormalizeLogLevel(@)] = j
  BY <1>1, <1>5
<1> QED  BY <1>1, <1>4, <1>6 DEF j

\* int64 of an unsigned time stays within its width, and so between the years
\* 1677 and 2262, which JSON can carry.
LEMMA NanoTimeEncodes ==
    ASSUME NEW n \in 0..(2 ^ NanoBits - 1)
    PROVE  Wrap(n, NanoBits) \in EncMin..EncMax
<1> DEFINE half == 2 ^ (NanoBits - 1)
           full == 2 ^ NanoBits
           shifted == (n + half) % full
<1>1. half \in Nat \ {0} /\ full = 2 * half
  BY HalfOf, SchemaAssumption
<1>2. n \in Nat /\ n + half \in Nat
  BY <1>1
<1>3. EncMin < ZeroTime /\ ZeroTime < -half /\ half <= EncMax
  BY SchemaAssumption
<1>4. Wrap(n, NanoBits) = shifted - half
  BY DEF Wrap
<1> HIDE DEF half, full
<1>5. shifted \in 0..(full - 1)
  BY <1>1, <1>2
<1> HIDE DEF shifted
<1>6. EncMin \in Int /\ ZeroTime \in Int /\ EncMax \in Int
  BY SchemaAssumption
<1>7. shifted - half \in Int /\ EncMin <= shifted - half /\ shifted - half <= EncMax
  BY <1>1, <1>3, <1>5, <1>6
<1> QED  BY <1>4, <1>6, <1>7

\* The present is a year that encodes.
LEMMA NowEncodes == Now \in EncMin..EncMax
BY SchemaAssumption

\* To multiply by a positive number keeps the order.
LEMMA TimesMonotonic ==
    ASSUME NEW g \in Nat \ {0}, NEW a \in Int, NEW b \in Int
    PROVE  /\ g * a \in Int
           /\ a <= b => g * a <= g * b
           /\ g * a < g * b => a < b
OBVIOUS

\* A whole number of units is not changed by rounding to units.
LEMMA DivideBack ==
    ASSUME NEW g \in Nat \ {0}, NEW w \in Int
    PROVE  (g * w) \div g = w
OBVIOUS

\* Rounding down loses less than a unit.
LEMMA DivideRounds ==
    ASSUME NEW g \in Nat \ {0}, NEW w \in Nat, g <= w
    PROVE  /\ w \div g \in Nat /\ w \div g >= 1
           /\ g * (w \div g) <= w /\ w < g * (w \div g) + g
OBVIOUS

-----------------------------------------------------------------------------
(* The invariant. *)

\* Nothing has been mapped yet.
LEMMA InitInv == Init => SchemaInv
BY DEF Init, SchemaInv, Nothing

\* The gateway maps the input or rejects it.
LEMMA MapInv == ASSUME SchemaInv, Map PROVE SchemaInv'
<1>1. /\ input' = input /\ stage' \in {"mapped", "rejected"}
      /\ event' = IF input.via = "rest" THEN FromREST(input.body) ELSE FromOTLP(input.body)
      /\ stage' = "mapped" <=> event'.ok
  BY DEF Map
<1>2. stage' = "mapped" => MappedEvent(event'.event)
  <2> SUFFICES ASSUME stage' = "mapped" PROVE MappedEvent(event'.event)
    OBVIOUS
  <2>1. CASE input.via = "rest"
    BY <1>1, <2>1, FromRESTFacts
  <2>2. CASE input.via # "rest"
    BY <1>1, <2>2, FromOTLPFacts
  <2> QED  BY <2>1, <2>2
<1> QED  BY <1>1, <1>2 DEF SchemaInv

\* Publish encodes the event or fails.
LEMMA PublishInv == ASSUME SchemaInv, Publish PROVE SchemaInv'
<1>1. /\ UNCHANGED <<input, event>> /\ stage = "mapped"
      /\ wire' = MarshalEvent(event.event)
      /\ stage' = IF wire'.ok THEN "published" ELSE "unencodable"
  BY DEF Publish
<1>2. event.ok /\ MappedEvent(event.event) /\ Validate(event.event)
  BY <1>1 DEF SchemaInv, MappedEvent
<1>3. CASE Encodes(event.event)
  <2>1. wire' = Accepted(JSONEvent(event.event)) /\ wire'.ok
    BY <1>1, <1>2, <1>3 DEF MarshalEvent, Accepted
  <2> QED  BY <1>1, <2>1 DEF SchemaInv
<1>4. CASE ~Encodes(event.event)
  <2>1. ~wire'.ok
    BY <1>1, <1>4 DEF MarshalEvent, Rejected
  <2> QED  BY <1>1, <1>4, <2>1 DEF SchemaInv
<1> QED  BY <1>3, <1>4

\* The writer decodes the message or fails.
LEMMA ConsumeInv == ASSUME SchemaInv, Consume PROVE SchemaInv'
<1> DEFINE j == JSONEvent(event.event)
<1>1. /\ UNCHANGED <<input, event, wire>> /\ stage = "published"
      /\ decoded' = UnmarshalEvent(wire.event)
      /\ stage' = IF decoded'.ok THEN "decoded" ELSE "poison"
  BY DEF Consume
<1>2. MappedEvent(event.event) /\ wire = Accepted(j)
  BY <1>1 DEF SchemaInv
<1>3. Validate(j) /\ [j EXCEPT !.level = NormalizeLogLevel(@)] = j
  BY <1>2, JSONFacts
<1>4. wire.event = j
  BY <1>2 DEF Accepted
<1> HIDE DEF j
<1>5. decoded' = Validated(j)
  BY <1>1, <1>3, <1>4 DEF UnmarshalEvent
<1>6. decoded' = Accepted(j) /\ decoded'.ok
  BY <1>3, <1>5, ValidatedFacts
<1> QED  BY <1>1, <1>2, <1>6 DEF SchemaInv, j

\* Every step keeps what is known of the event.
LEMMA NextInv == SchemaInv /\ [Next]_vars => SchemaInv'
<1> SUFFICES ASSUME SchemaInv, [Next]_vars PROVE SchemaInv'
  OBVIOUS
<1>1. CASE UNCHANGED vars
  BY <1>1 DEF vars, SchemaInv
<1> QED  BY <1>1, MapInv, PublishInv, ConsumeInv DEF Next

-----------------------------------------------------------------------------
(* The theorems. *)

\* What each stage of the conversions knows of the event.
THEOREM SchemaInvariant == Spec => []SchemaInv
BY InitInv, NextInv, PTL DEF Spec

\* The writer decodes every event the gateway encodes, to the event the gateway
\* mapped (MarshalEvent, UnmarshalEvent): no request yields a poison message.
THEOREM WireFaithfulHolds == Spec => []WireFaithful
<1>1. SchemaInv => WireFaithful
  <2> SUFFICES ASSUME SchemaInv PROVE WireFaithful
    OBVIOUS
  <2>1. \A e : Accepted(e).event = e
    BY DEF Accepted
  <2> QED  BY <2>1 DEF SchemaInv, WireFaithful
<1> QED  BY <1>1, SchemaInvariant, PTL

-----------------------------------------------------------------------------
(* The way back to REST. *)

\* A remainder is what it is.
LEMMA SmallRemainder ==
    ASSUME NEW n \in Nat, NEW full \in Nat \ {0}, n < full
    PROVE  n % full = n
OBVIOUS

\* Wrap takes the upper half of the unsigned numbers to negative ones.
LEMMA WrapIs ==
    ASSUME NEW bits \in Nat \ {0}, NEW n \in 0..(2 ^ bits - 1)
    PROVE  Wrap(n, bits) = IF n < 2 ^ (bits - 1) THEN n ELSE n - 2 ^ bits
<1> DEFINE half == 2 ^ (bits - 1)
           full == 2 ^ bits
<1>1. half \in Nat \ {0} /\ full = 2 * half
  BY HalfOf
<1>2. Wrap(n, bits) = ((n + half) % full) - half
  BY DEF Wrap
<1>3. n \in 0..(full - 1)
  OBVIOUS
<1> HIDE DEF half, full
<1>4. CASE n < half
  <2> DEFINE m == n + half
  <2>1. m \in Nat /\ m < full /\ full \in Nat \ {0}
    BY <1>1, <1>3, <1>4
  <2> HIDE DEF m
  <2>2. m % full = m
    BY <2>1, SmallRemainder
  <2>3. m - half = n
    BY <1>1, <1>3 DEF m
  <2> QED  BY <1>2, <1>4, <2>2, <2>3 DEF m, half
<1>5. CASE ~(n < half)
  <2> DEFINE m == n + half
             d == n - half
  <2>1. d \in Nat /\ d < full /\ full \in Nat \ {0} /\ m = d + full
    BY <1>1, <1>3, <1>5
  <2> HIDE DEF m, d
  <2>2. (d + full) % full = d % full
    BY <2>1
  <2>3. m % full = d
    BY <2>1, <2>2, SmallRemainder
  <2>4. d - half = n - full
    BY <1>1, <1>3 DEF d
  <2> QED  BY <1>2, <1>5, <2>3, <2>4 DEF m, half, full
<1> QED  BY <1>4, <1>5

\* The way there and back: uint64(int64(n)) is n, and a date is one again.
LEMMA WrapBack ==
    ASSUME NEW bits \in Nat \ {0}, NEW n \in 0..(2 ^ bits - 1)
    PROVE  Wrap(n, bits) % 2 ^ bits = n
<1> DEFINE half == 2 ^ (bits - 1)
           full == 2 ^ bits
           w == Wrap(n, bits)
<1>1. half \in Nat \ {0} /\ full = 2 * half
  BY HalfOf
<1>2. w = IF n < half THEN n ELSE n - full
  BY WrapIs
<1>3. n \in 0..(full - 1)
  OBVIOUS
<1> HIDE DEF half, full, w
<1>4. n \in Nat /\ n < full /\ full \in Nat \ {0}
  BY <1>1, <1>3
<1>5. n % full = n
  BY <1>4, SmallRemainder
<1>6. (n - full) % full = n % full
  BY <1>4
<1>7. w % full = n
  BY <1>2, <1>5, <1>6
<1> QED  BY <1>7 DEF w, full

\* A time a payload names comes back from the unsigned milliseconds ToREST makes of it;
\* one that FromREST supplied loses its fraction of a millisecond.
LEMMA TimeBack ==
    ASSUME NEW n \in 0..(2 ^ TimeBits - 1), NEW ts,
           ts = IF n = 0 THEN Now ELSE TimeUnixMilli(Wrap(n, TimeBits))
    PROVE  LET u == UnixMilli(ts) % 2 ^ TimeBits
               back == IF u = 0 THEN Now ELSE TimeUnixMilli(Wrap(u, TimeBits))
           IN  /\ ts - back \in 0..(IF n = 0 THEN NanosPerMilli - 1 ELSE 0)
               /\ back = ts \/ back > ZeroTime
<1> DEFINE g == NanosPerMilli
           half == 2 ^ (TimeBits - 1)
           full == 2 ^ TimeBits
           u == UnixMilli(ts) % full
           back == IF u = 0 THEN Now ELSE TimeUnixMilli(Wrap(u, TimeBits))
<1>1. half \in Nat \ {0} /\ full = 2 * half /\ TimeBits \in Nat \ {0} /\ g \in Nat \ {0}
  BY HalfOf, SchemaAssumption
<1>2. CASE n # 0
  <2> DEFINE w == Wrap(n, TimeBits)
  <2>1. w = (IF n < half THEN n ELSE n - full) /\ w % full = n
    BY <1>1, WrapIs, WrapBack
  <2>2. w \in Int
    <3> HIDE DEF half, full, w
    <3> QED  BY <1>1, <2>1
  <2>3. ts = g * w
    BY <1>2 DEF TimeUnixMilli
  <2> HIDE DEF w, g
  <2>4. ts \in Int /\ ts \div g = w
    BY <1>1, <2>2, <2>3, TimesMonotonic, DivideBack
  <2>5. u = n
    BY <2>1, <2>4 DEF UnixMilli, g
  <2>6. back = ts
    BY <1>2, <2>5
  <2>7. ts - ts = 0
    BY <2>4
  <2> QED  BY <1>2, <2>6, <2>7
<1>3. CASE n = 0
  <2> DEFINE m == Now \div g
  <2>1. ts = Now /\ Now \in Nat /\ g <= Now /\ Now <= EncMax /\ EncMax < g * half
    <3>1. Now \in g..EncMax /\ EncMax \in Int /\ EncMax < g * half
      BY SchemaAssumption
    <3> HIDE DEF g, half
    <3> QED  BY <1>1, <1>3, <3>1
  <2>2. m \in Nat /\ m >= 1 /\ g * m <= Now /\ Now < g * m + g /\ g * m \in Int
    <3> HIDE DEF g
    <3> QED  BY <1>1, <2>1, DivideRounds, TimesMonotonic
  <2>3. m < half
    <3> HIDE DEF g, half, m
    <3>1. g * half \in Int /\ EncMax \in Int
      BY <1>1, TimesMonotonic, SchemaAssumption
    <3>2. g * m < g * half
      BY <2>1, <2>2, <3>1
    <3> QED  BY <1>1, <2>2, <3>2, TimesMonotonic
  <2>4. m < full /\ m \in 0..(full - 1) /\ full \in Nat \ {0}
    <3> HIDE DEF half, full, m
    <3> QED  BY <1>1, <2>2, <2>3
  <2>5. u = m
    <3>1. UnixMilli(ts) = m
      BY <2>1 DEF UnixMilli
    <3> HIDE DEF full, m
    <3>2. m % full = m
      BY <2>2, <2>4, SmallRemainder
    <3> QED  BY <3>1, <3>2
  <2>6. Wrap(m, TimeBits) = m
    <3> HIDE DEF m
    <3> QED  BY <1>1, <2>3, <2>4, WrapIs
  <2>7. back = g * m
    <3> HIDE DEF m
    <3> QED  BY <2>2, <2>5, <2>6 DEF TimeUnixMilli
  <2>8. ts - back \in 0..(g - 1)
    <3> HIDE DEF m, g, u, back
    <3> QED  BY <1>1, <2>1, <2>2, <2>7
  <2>9. back > ZeroTime
    <3>1. ZeroTime \in Int /\ ZeroTime < 0
      BY SchemaAssumption
    <3>2. g * m >= 0
      <4> HIDE DEF m, g
      <4>1. g * 0 <= g * m
        BY <1>1, <2>2, TimesMonotonic
      <4> QED  BY <1>1, <4>1
    <3> HIDE DEF m, g, u, back
    <3> QED  BY <2>2, <2>7, <3>1, <3>2
  <2> QED  BY <1>3, <2>8, <2>9
<1> QED  BY <1>2, <1>3

\* Merged attributes have no empty key, and to merge them again changes nothing.
LEMMA MergeBack ==
    ASSUME NEW first, NEW second, NEW attrs, attrs = mergeAttrs(first, second)
    PROVE  mergeAttrs(NoAttrs, attrs) = attrs
<1>1. attrs = [k \in DOMAIN attrs |-> attrs[k]] /\ "" \notin DOMAIN attrs
  BY DEF mergeAttrs
<1>2. DOMAIN NoAttrs = {}
  BY DEF NoAttrs
<1>3. mergeAttrs(NoAttrs, attrs) = [k \in DOMAIN attrs |-> attrs[k]]
  BY <1>1, <1>2 DEF mergeAttrs
<1> QED  BY <1>1, <1>3

\* The event of a REST payload, field by field.
LEMMA RESTEvent ==
    ASSUME NEW p \in RESTInputs, FromREST(p).ok
    PROVE  LET e == FromREST(p).event
           IN  /\ FromREST(p) = Accepted(e) /\ Validate(e)
               /\ e = [ts |-> e.ts, level |-> e.level, message |-> e.message,
                       service |-> e.service, host |-> e.host, status |-> e.status,
                       duration |-> e.duration, attrs |-> e.attrs]
               /\ e.status = p.status % 2 ^ StatusBits
               /\ e.attrs = mergeAttrs(p.sourceExtra, p.metadataExtra)
<1> DEFINE e == [ts |-> IF p.ts = 0 THEN Now ELSE TimeUnixMilli(Wrap(p.ts, TimeBits)),
                 level |-> RESTLevel(p),
                 message |-> p.message, service |-> p.service, host |-> p.host,
                 status |-> p.status % 2 ^ StatusBits,
                 duration |-> p.duration,
                 attrs |-> mergeAttrs(p.sourceExtra, p.metadataExtra)]
<1>1. FromREST(p) = Validated(e)
  BY DEF FromREST
<1>2. /\ e = [ts |-> e.ts, level |-> e.level, message |-> e.message,
              service |-> e.service, host |-> e.host, status |-> e.status,
              duration |-> e.duration, attrs |-> e.attrs]
      /\ e.status = p.status % 2 ^ StatusBits
      /\ e.attrs = mergeAttrs(p.sourceExtra, p.metadataExtra)
  OBVIOUS
<1> HIDE DEF e
<1>3. Validate(e) /\ Validated(e) = Accepted(e) /\ Validated(e).event = e
  BY <1>1, ValidatedFacts
<1>4. FromREST(p).event = e
  BY <1>1, <1>3
<1> QED  BY <1>1, <1>2, <1>3, <1>4

\* A REST event survives the way through ToREST and FromREST, but for the fraction
\* of a millisecond of a time FromREST supplied.
LEMMA RoundTrip ==
    ASSUME NEW p \in RESTInputs, FromREST(p).ok
    PROVE  LET e == FromREST(p).event
               back == FromREST(ToREST(e))
           IN  /\ back.ok /\ back.event = [e EXCEPT !.ts = back.event.ts]
               /\ e.ts - back.event.ts \in 0..(IF p.ts = 0 THEN NanosPerMilli - 1 ELSE 0)
<1> DEFINE e == FromREST(p).event
           q == ToREST(e)
           ts == IF q.ts = 0 THEN Now ELSE TimeUnixMilli(Wrap(q.ts, TimeBits))
           b == [e EXCEPT !.ts = ts]
<1>1. /\ Validate(e)
      /\ e = [ts |-> e.ts, level |-> e.level, message |-> e.message,
              service |-> e.service, host |-> e.host, status |-> e.status,
              duration |-> e.duration, attrs |-> e.attrs]
      /\ e.status = p.status % 2 ^ StatusBits
      /\ e.attrs = mergeAttrs(p.sourceExtra, p.metadataExtra)
  BY RESTEvent
<1>2. MappedEvent(e) /\ e.ts = IF p.ts = 0 THEN Now ELSE TimeUnixMilli(Wrap(p.ts, TimeBits))
  BY FromRESTFacts
<1>3. p.ts \in 0..(2 ^ TimeBits - 1) /\ p.status \in Int
  BY InputsAssumption
<1> HIDE DEF e
<1>4. /\ q.ts = UnixMilli(e.ts) % 2 ^ TimeBits /\ q.level = e.level /\ q.message = e.message
      /\ q.service = e.service /\ q.host = e.host /\ q.status = e.status
      /\ q.duration = e.duration /\ q.sourceExtra = NoAttrs /\ q.metadataExtra = e.attrs
  BY DEF ToREST, RESTExtra
<1> HIDE DEF q
<1>5. /\ e.ts - ts \in 0..(IF p.ts = 0 THEN NanosPerMilli - 1 ELSE 0)
      /\ ts = e.ts \/ ts > ZeroTime
  <2> DEFINE t == e.ts
             n == p.ts
             u == UnixMilli(t) % 2 ^ TimeBits
             r == IF u = 0 THEN Now ELSE TimeUnixMilli(Wrap(u, TimeBits))
  <2>1. n \in 0..(2 ^ TimeBits - 1) /\ t = IF n = 0 THEN Now ELSE TimeUnixMilli(Wrap(n, TimeBits))
    BY <1>2, <1>3
  <2>2. ts = r
    BY <1>4
  <2> HIDE DEF t, n, ts
  <2>3. t - r \in 0..(IF n = 0 THEN NanosPerMilli - 1 ELSE 0) /\ (r = t \/ r > ZeroTime)
    BY <2>1, TimeBack
  <2> HIDE DEF r
  <2> QED  BY <2>2, <2>3 DEF t, n
<1>6. NormalizeLogLevel(q.level) = e.level
  <2>1. PICK word \in LogLevels : e.level = Level(word)
    BY <1>2 DEF MappedEvent
  <2> QED  BY <1>4, <2>1, NormalizeIdempotent
<1>7. q.status % 2 ^ StatusBits = e.status
  <2> DEFINE full == 2 ^ StatusBits
             s == e.status
             n == p.status
  <2>1. full \in Nat \ {0}
    <3>1. full \in Nat /\ full >= 1
      BY SchemaAssumption, KV!PowerDoubles
    <3> HIDE DEF full
    <3> QED  BY <3>1
  <2>2. s = n % full /\ n \in Int
    BY <1>1, <1>3
  <2> HIDE DEF full, s, n
  <2>3. s \in Nat /\ s < full
    BY <2>1, <2>2
  <2>4. s % full = s
    BY <2>1, <2>3, SmallRemainder
  <2> QED  BY <1>4, <2>4 DEF s, full
<1>8. mergeAttrs(q.sourceExtra, q.metadataExtra) = e.attrs
  BY <1>1, <1>4, MergeBack
<1> HIDE DEF ts
<1>9. /\ b = [ts |-> ts, level |-> e.level, message |-> e.message,
             service |-> e.service, host |-> e.host, status |-> e.status,
             duration |-> e.duration, attrs |-> e.attrs]
      /\ b.ts = ts /\ b.message = e.message /\ b.service = e.service /\ b.level = e.level
  BY <1>1
<1>10. FromREST(q) = Validated(b)
  <2> HIDE DEF b
  <2> QED  BY <1>4, <1>6, <1>7, <1>8, <1>9 DEF FromREST, RESTLevel, ts
<1>11. Validate(b)
  <2>1. ts # ZeroTime
    <3>1. ZeroTime \in Int /\ e.ts # ZeroTime
      BY <1>1, SchemaAssumption DEF Validate
    <3>2. ~(ZeroTime > ZeroTime)
      BY <3>1
    <3> QED  BY <1>5, <3>1, <3>2
  <2> HIDE DEF b
  <2> QED  BY <1>1, <1>9, <2>1 DEF Validate
<1>12. FromREST(q).ok /\ FromREST(q).event = b
  <2> HIDE DEF b
  <2> QED  BY <1>10, <1>11, ValidatedFacts
<1>13. b = [e EXCEPT !.ts = b.ts] /\ b.ts = ts
  BY <1>9
<1> HIDE DEF b
<1> QED  BY <1>5, <1>12, <1>13 DEF q, e

\* FromREST after ToREST gives back what FromREST yields: the unsigned timestamp
\* and status, the level and the merged attributes come back as they were
\* (event.go:124-178), and of a time the gateway supplied all but the fraction of
\* a millisecond.
THEOREM RESTRoundTripHolds == Spec => []RESTRoundTrip
<1>1. SchemaInv => RESTRoundTrip
  <2> SUFFICES ASSUME SchemaInv, event.ok, input.via = "rest"
               PROVE  LET back == FromREST(ToREST(event.event))
                      IN  /\ back.ok
                          /\ back.event = [event.event EXCEPT !.ts = back.event.ts]
                          /\ event.event.ts - back.event.ts \in
                               0..(IF input.body.ts = 0 THEN NanosPerMilli - 1 ELSE 0)
    BY DEF RESTRoundTrip
  <2>1. event = FromREST(input.body) /\ input.body \in RESTInputs
    BY DEF SchemaInv
  <2> QED  BY <2>1, RoundTrip
<1> QED  BY <1>1, SchemaInvariant, PTL

-----------------------------------------------------------------------------
(* Attributes. *)

\* A set of positions has a largest one.
LEMMA LargestIs ==
    ASSUME NEW n \in Nat, NEW T \in SUBSET (1..n), T # {}
    PROVE  Max(T) \in T /\ \A y \in T : Max(T) >= y
<1> DEFINE D == {d \in Nat : n - d \in T}
<1>1. D \in SUBSET Nat /\ D # {}
  <2>1. PICK y \in T : TRUE
    OBVIOUS
  <2>2. n - y \in Nat /\ n - (n - y) = y
    OBVIOUS
  <2>3. n - y \in D
    BY <2>2
  <2> QED  BY <2>3
<1>2. PICK d \in D : \A k \in D : d <= k
  <2> HIDE DEF D
  <2> QED  BY <1>1, KV!LeastNat
<1>3. d \in Nat /\ n - d \in T
  BY <1>2
<1>4. ASSUME NEW y \in T PROVE n - d >= y
  <2>1. n - y \in Nat /\ n - (n - y) = y /\ y \in Nat
    OBVIOUS
  <2>2. n - y \in D
    BY <2>1
  <2>3. d <= n - y
    BY <1>2, <2>2
  <2> QED  BY <1>3, <2>1, <2>3
<1>5. \E x \in T : \A y \in T : x >= y
  BY <1>3, <1>4
<1> QED  BY <1>5 DEF Max

\* The positions of a key among those in S.
At(kvs, S, key) == {i \in S : kvs[i].key = key}

\* The last of the positions of a key.
LastAt(kvs, S, key, i) == i \in At(kvs, S, key) /\ \A j \in At(kvs, S, key) : j <= i

\* What the loop has made of the pairs in S: the keys there are, but for the empty
\* one, each with the value of its last pair.
MapOf(kvs, S, attrs) ==
    /\ \A key : key \in DOMAIN attrs <=> key # "" /\ At(kvs, S, key) # {}
    /\ \A key, i : key # "" /\ LastAt(kvs, S, key, i) =>
                        attrs[key] = anyValueToString(kvs[i].value)

\* keyValuesToMap is a fold.
LEMMA MapIsFold ==
    ASSUME NEW kvs
    PROVE  keyValuesToMap(kvs) = KV!Fold(kvs, DOMAIN kvs)
BY DEF keyValuesToMap, FoldLeft, MapThenFoldSet, KV!Fold, KV!Solves, AddPair, Largest

\* One turn of the loop.
LEMMA AddKeyValueMap ==
    ASSUME NEW kvs, NEW n \in Nat, NEW S \in SUBSET (1..n), NEW M \in S,
           \A j \in S : M >= j, NEW old, MapOf(kvs, S \ {M}, old)
    PROVE  MapOf(kvs, S, AddKeyValue(old, kvs[M]))
<1> DEFINE r == S \ {M}
           k == kvs[M].key
           new == AddKeyValue(old, kvs[M])
<1>0. \A key : At(kvs, S, key) = IF key = k THEN At(kvs, r, key) \cup {M} ELSE At(kvs, r, key)
  BY DEF At
<1>a. M \in Int /\ \A j \in S : j \in Int
  OBVIOUS
<1>1. CASE k = ""
  <2>1. new = old
    BY <1>1 DEF AddKeyValue
  <2>2. \A key : key # "" => At(kvs, S, key) = At(kvs, r, key)
    BY <1>0, <1>1
  <2> HIDE DEF new, r
  <2>3. \A key : key \in DOMAIN new <=> key # "" /\ At(kvs, S, key) # {}
    BY <2>1, <2>2 DEF MapOf, r
  <2>4. \A key, i : key # "" /\ LastAt(kvs, S, key, i) =>
                        new[key] = anyValueToString(kvs[i].value)
    BY <2>1, <2>2 DEF MapOf, r, LastAt
  <2> QED  BY <2>3, <2>4 DEF MapOf, new
<1>2. CASE k # ""
  <2> DEFINE val == anyValueToString(kvs[M].value)
  <2>1. new = [x \in DOMAIN old \cup {k} |-> IF x = k THEN val ELSE old[x]]
    BY <1>2 DEF AddKeyValue
  <2> HIDE DEF new, r, val
  <2>2. /\ \A key : key \in DOMAIN new <=> key = k \/ key \in DOMAIN old
        /\ new[k] = val /\ \A key : key \in DOMAIN old /\ key # k => new[key] = old[key]
    BY <2>1
  <2>3. ASSUME NEW key PROVE key \in DOMAIN new <=> key # "" /\ At(kvs, S, key) # {}
    <3>1. key \in DOMAIN old <=> key # "" /\ At(kvs, r, key) # {}
      BY DEF MapOf, r
    <3>2. At(kvs, S, key) = IF key = k THEN At(kvs, r, key) \cup {M} ELSE At(kvs, r, key)
      BY <1>0
    <3> HIDE DEF k
    <3> QED  BY <1>2, <2>2, <3>1, <3>2
  <2>4. ASSUME NEW key, NEW i, key # "", LastAt(kvs, S, key, i)
        PROVE  new[key] = anyValueToString(kvs[i].value)
    <3>1. CASE key = k
      <4>1. M \in At(kvs, S, key) /\ i \in S
        BY <3>1, <2>4 DEF At, LastAt
      <4>2. M <= i /\ i <= M
        BY <2>4, <4>1 DEF LastAt
      <4>3. i = M
        BY <1>a, <4>1, <4>2
      <4> QED  BY <2>2, <3>1, <4>3 DEF val
    <3>2. CASE key # k
      <4>1. At(kvs, S, key) = At(kvs, r, key)
        BY <1>0, <3>2
      <4>2. LastAt(kvs, r, key, i) /\ At(kvs, r, key) # {}
        BY <2>4, <4>1 DEF LastAt
      <4>3. key \in DOMAIN old /\ old[key] = anyValueToString(kvs[i].value)
        BY <2>4, <4>2 DEF MapOf, r
      <4> QED  BY <2>2, <3>2, <4>3
    <3> QED  BY <3>1, <3>2
  <2> QED  BY <2>3, <2>4 DEF MapOf, new
<1> QED  BY <1>1, <1>2

\* keyValuesToMap keeps the last value of every key but the empty one.
LEMMA MapKeepsLast ==
    ASSUME NEW kvs \in KeyValues
    PROVE  MapOf(kvs, DOMAIN kvs, keyValuesToMap(kvs))
<1> DEFINE n == Len(kvs)
           D == 1..n
           Bad == {S \in SUBSET D : ~MapOf(kvs, S, KV!Fold(kvs, S))}
<1>1. n \in Nat /\ DOMAIN kvs = D
  BY DEF KeyValues
<1>2. KV!IsFiniteSet(D) /\ KV!Chooses(D)
  <2>1. IsFiniteSet(D)
    BY <1>1, FS_Interval
  <2>2. KV!IsFiniteSet(D)
    BY <2>1 DEF IsFiniteSet, KV!IsFiniteSet
  <2>3. KV!Chooses(D)
    BY <1>1, LargestIs DEF KV!Chooses, Largest
  <2> QED  BY <2>2, <2>3
<1>3. Bad = {}
  <2> SUFFICES ASSUME Bad # {} PROVE FALSE
    OBVIOUS
  <2>1. PICK S \in Bad : \A U \in Bad : U \subseteq S => U = S
    <3>1. Bad \in SUBSET (SUBSET D)
      OBVIOUS
    <3> HIDE DEF Bad, D
    <3> QED  BY <1>2, <3>1, KV!LeastSubset
  <2>2. S \in SUBSET D /\ ~MapOf(kvs, S, KV!Fold(kvs, S))
    BY <2>1
  <2>3. KV!IsFiniteSet(S) /\ KV!Chooses(S)
    <3>1. IsFiniteSet(D)
      BY <1>1, FS_Interval
    <3>2. IsFiniteSet(S)
      BY <2>2, <3>1, FS_Subset
    <3>3. KV!IsFiniteSet(S)
      BY <3>2 DEF IsFiniteSet, KV!IsFiniteSet
    <3> HIDE DEF D
    <3> QED  BY <1>2, <2>2, <3>3 DEF KV!Chooses
  <2>4. KV!Fold(kvs, S) = IF S = {} THEN NoAttrs
                          ELSE AddPair(kvs[Largest(S)], KV!Fold(kvs, S \ {Largest(S)}))
    BY <2>3, KV!FoldEquation
  <2>5. CASE S = {}
    <3>1. KV!Fold(kvs, S) = NoAttrs /\ DOMAIN NoAttrs = {}
      BY <2>4, <2>5 DEF NoAttrs
    <3>2. \A key : At(kvs, S, key) = {}
      BY <2>5 DEF At
    <3>3. MapOf(kvs, S, NoAttrs)
      BY <3>1, <3>2 DEF MapOf, LastAt
    <3> QED  BY <2>2, <3>1, <3>3
  <2>6. CASE S # {}
    <3> DEFINE M == Largest(S)
               r == S \ {M}
               old == KV!Fold(kvs, r)
    <3>1. M \in S /\ \A j \in S : M >= j
      BY <1>1, <2>2, <2>6, LargestIs DEF Largest
    <3>2. r \in SUBSET D /\ r \subseteq S /\ r # S
      BY <2>2, <3>1
    <3>3. MapOf(kvs, r, old)
      <4>1. r \notin Bad
        BY <2>1, <3>2
      <4> QED  BY <3>2, <4>1
    <3>4. KV!Fold(kvs, S) = AddKeyValue(old, kvs[M])
      BY <2>4, <2>6 DEF AddPair
    <3> HIDE DEF M, old, Bad
    <3>5. MapOf(kvs, S, AddKeyValue(old, kvs[M]))
      BY <1>1, <2>2, <3>1, <3>3, AddKeyValueMap
    <3> QED  BY <2>2, <3>4, <3>5
  <2> QED  BY <2>5, <2>6
<1>4. MapOf(kvs, D, KV!Fold(kvs, D))
  BY <1>3
<1> QED  BY <1>1, <1>4, MapIsFold

\* The last pair with a key in a sequence is the value Attribute looks for.
LEMMA AttributeIs ==
    ASSUME NEW r, NEW key, NEW all, all = r.resource \o r.attributes, all \in KeyValues, NEW i,
           LastAt(all, DOMAIN all, key, i)
    PROVE  Attribute(r, key) = anyValueToString(all[i].value)
<1> DEFINE at == {j \in DOMAIN all : all[j].key = key}
           c == CHOOSE j \in at : \A k \in at : k <= j
<1>1. at = At(all, DOMAIN all, key)
  BY DEF At
<1>2. i \in at /\ \A k \in at : k <= i
  BY <1>1 DEF LastAt
<1>3. \A k \in at : k \in Int
  BY DEF KeyValues
<1>4. Attribute(r, key) = IF at = {} THEN Empty ELSE anyValueToString(all[c].value)
  BY DEF Attribute
<1>5. c = i
  <2> HIDE DEF at
  <2>1. c \in at /\ \A k \in at : k <= c
    BY <1>2
  <2> HIDE DEF c
  <2>2. c <= i /\ i <= c /\ c \in Int /\ i \in Int
    BY <1>2, <1>3, <2>1
  <2> QED  BY <2>2
<1> QED  BY <1>2, <1>4, <1>5

\* A key that some pair has has a last one.
LEMMA LastExists ==
    ASSUME NEW kvs \in KeyValues, NEW key, At(kvs, DOMAIN kvs, key) # {}
    PROVE  \E i : LastAt(kvs, DOMAIN kvs, key, i)
<1> DEFINE n == Len(kvs)
           T == At(kvs, DOMAIN kvs, key)
<1>1. n \in Nat /\ T \in SUBSET (1..n) /\ T # {}
  BY DEF KeyValues, At
<1>2. Max(T) \in T /\ \A y \in T : Max(T) >= y
  <2> HIDE DEF T, n
  <2> QED  BY <1>1, LargestIs
<1>3. \A y \in T : y <= Max(T)
  <2>1. \A y \in T : y \in Int
    BY <1>1
  <2> HIDE DEF T
  <2> QED  BY <1>2, <2>1
<1> QED  BY <1>2, <1>3 DEF LastAt

\* The pairs of the record come after those of its resource.
LEMMA ConcatAt ==
    ASSUME NEW R \in KeyValues, NEW L \in KeyValues, NEW all, all = R \o L, NEW key
    PROVE  /\ all \in KeyValues
           /\ \A i : LastAt(L, DOMAIN L, key, i) =>
                        /\ LastAt(all, DOMAIN all, key, Len(R) + i)
                        /\ all[Len(R) + i] = L[i]
           /\ \A i : LastAt(R, DOMAIN R, key, i) /\ At(L, DOMAIN L, key) = {} =>
                        LastAt(all, DOMAIN all, key, i) /\ all[i] = R[i]
           /\ At(R, DOMAIN R, key) = {} /\ At(L, DOMAIN L, key) = {} =>
                        At(all, DOMAIN all, key) = {}
<1> DEFINE a == Len(R)
           b == Len(L)
<1>1. /\ a \in Nat /\ b \in Nat /\ DOMAIN R = 1..a /\ DOMAIN L = 1..b
      /\ DOMAIN all = 1..(a + b) /\ all \in KeyValues
  BY DEF KeyValues
<1>2. /\ \A i \in 1..a : all[i] = R[i]
      /\ \A i \in 1..b : all[a + i] = L[i]
  BY DEF KeyValues
<1>3. ASSUME NEW j \in 1..(a + b)
      PROVE  j \in 1..a \/ (j - a \in 1..b /\ j = a + (j - a))
  <2> HIDE DEF a, b
  <2> QED  BY <1>1
<1> HIDE DEF a, b
<1>4. \A j \in At(all, DOMAIN all, key) :
        j \in At(R, DOMAIN R, key) \/ j - a \in At(L, DOMAIN L, key)
  BY <1>1, <1>2, <1>3 DEF At
<1>5. ASSUME NEW i, LastAt(L, DOMAIN L, key, i)
      PROVE  LastAt(all, DOMAIN all, key, a + i) /\ all[a + i] = L[i]
  <2>1. i \in 1..b /\ L[i].key = key /\ \A j \in At(L, DOMAIN L, key) : j <= i
    BY <1>1, <1>5 DEF LastAt, At
  <2>2. a + i \in 1..(a + b) /\ all[a + i] = L[i]
    BY <1>1, <1>2, <2>1
  <2>3. a + i \in At(all, DOMAIN all, key)
    BY <1>1, <2>1, <2>2 DEF At
  <2>4. ASSUME NEW j \in At(all, DOMAIN all, key) PROVE j <= a + i
    <3>1. CASE j \in At(R, DOMAIN R, key)
      <4>1. j \in 1..a
        BY <1>1, <3>1 DEF At
      <4> QED  BY <1>1, <2>1, <4>1
    <3>2. CASE j - a \in At(L, DOMAIN L, key)
      <4>1. j - a <= i /\ j \in 1..(a + b)
        BY <1>1, <2>1, <3>2 DEF At
      <4> QED  BY <1>1, <2>1, <4>1
    <3> QED  BY <1>4, <3>1, <3>2
  <2> QED  BY <2>2, <2>3, <2>4 DEF LastAt
<1>6. ASSUME NEW i, LastAt(R, DOMAIN R, key, i), At(L, DOMAIN L, key) = {}
      PROVE  LastAt(all, DOMAIN all, key, i) /\ all[i] = R[i]
  <2>1. i \in 1..a /\ R[i].key = key /\ \A j \in At(R, DOMAIN R, key) : j <= i
    BY <1>1, <1>6 DEF LastAt, At
  <2>2. i \in 1..(a + b) /\ all[i] = R[i]
    BY <1>1, <1>2, <2>1
  <2>3. i \in At(all, DOMAIN all, key)
    BY <1>1, <2>1, <2>2 DEF At
  <2>4. \A j \in At(all, DOMAIN all, key) : j <= i
    BY <1>4, <1>6, <2>1
  <2> QED  BY <2>2, <2>3, <2>4 DEF LastAt
<1>7. At(R, DOMAIN R, key) = {} /\ At(L, DOMAIN L, key) = {} => At(all, DOMAIN all, key) = {}
  BY <1>4
<1> QED  BY <1>1, <1>5, <1>6, <1>7 DEF a

\* What a map says of a key.
Lookup(attrs, key) == IF key \in DOMAIN attrs THEN attrs[key] ELSE Empty

\* The merged map says of a key what its last pair does.
LEMMA MergedLookup ==
    ASSUME NEW r, r.resource \in KeyValues, r.attributes \in KeyValues, NEW key, key # "", NEW attrs,
           attrs = mergeAttrs(keyValuesToMap(r.resource), keyValuesToMap(r.attributes))
    PROVE  Lookup(attrs, key) = Attribute(r, key)
<1> DEFINE R == r.resource
           L == r.attributes
           all == R \o L
           mR == keyValuesToMap(R)
           mL == keyValuesToMap(L)
<1>1. MapOf(R, DOMAIN R, mR) /\ MapOf(L, DOMAIN L, mL)
  BY MapKeepsLast
<1>2. /\ key \in DOMAIN mR <=> At(R, DOMAIN R, key) # {}
      /\ key \in DOMAIN mL <=> At(L, DOMAIN L, key) # {}
      /\ \A i : LastAt(R, DOMAIN R, key, i) => mR[key] = anyValueToString(R[i].value)
      /\ \A i : LastAt(L, DOMAIN L, key, i) => mL[key] = anyValueToString(L[i].value)
  <2> HIDE DEF mR, mL, R, L
  <2> QED  BY <1>1 DEF MapOf
<1>3. /\ key \in DOMAIN attrs <=> key \in DOMAIN mR \/ key \in DOMAIN mL
      /\ key \in DOMAIN mL => attrs[key] = mL[key]
      /\ key \in DOMAIN mR /\ key \notin DOMAIN mL => attrs[key] = mR[key]
  <2>1. attrs = mergeAttrs(mR, mL)
    OBVIOUS
  <2> HIDE DEF mR, mL
  <2> QED  BY <2>1 DEF mergeAttrs
<1>4. R \in KeyValues /\ L \in KeyValues /\ all = r.resource \o r.attributes
  OBVIOUS
<1> HIDE DEF R, L, all, mR, mL
<1>c. /\ all \in KeyValues
      /\ \A i : LastAt(L, DOMAIN L, key, i) =>
                   /\ LastAt(all, DOMAIN all, key, Len(R) + i)
                   /\ all[Len(R) + i] = L[i]
      /\ \A i : LastAt(R, DOMAIN R, key, i) /\ At(L, DOMAIN L, key) = {} =>
                   LastAt(all, DOMAIN all, key, i) /\ all[i] = R[i]
      /\ At(R, DOMAIN R, key) = {} /\ At(L, DOMAIN L, key) = {} =>
                   At(all, DOMAIN all, key) = {}
  BY <1>4, ConcatAt DEF all
<1>d. ASSUME NEW i, LastAt(all, DOMAIN all, key, i)
      PROVE  Attribute(r, key) = anyValueToString(all[i].value)
  <2>1. all = r.resource \o r.attributes
    BY <1>4
  <2>2. all \in KeyValues
    BY <1>c
  <2> QED  BY ONLY <1>d, <2>1, <2>2, AttributeIs, Zenon
<1>5. CASE At(L, DOMAIN L, key) # {}
  <2>1. PICK i : LastAt(L, DOMAIN L, key, i)
    BY <1>4, <1>5, LastExists
  <2>2. LastAt(all, DOMAIN all, key, Len(R) + i) /\ all[Len(R) + i] = L[i]
    BY <1>c, <2>1
  <2>3. Attribute(r, key) = anyValueToString(all[Len(R) + i].value)
    BY <1>d, <2>2
  <2>4. Attribute(r, key) = anyValueToString(L[i].value)
    BY <2>2, <2>3
  <2> QED  BY <1>2, <1>3, <1>5, <2>1, <2>4 DEF Lookup
<1>6. CASE At(L, DOMAIN L, key) = {} /\ At(R, DOMAIN R, key) # {}
  <2>1. PICK i : LastAt(R, DOMAIN R, key, i)
    BY <1>4, <1>6, LastExists
  <2>2. LastAt(all, DOMAIN all, key, i) /\ all[i] = R[i]
    BY <1>c, <1>6, <2>1
  <2>3. Attribute(r, key) = anyValueToString(all[i].value)
    BY <1>d, <2>2
  <2>4. Attribute(r, key) = anyValueToString(R[i].value)
    BY <2>2, <2>3
  <2> QED  BY <1>2, <1>3, <1>6, <2>1, <2>4 DEF Lookup
<1>7. CASE At(L, DOMAIN L, key) = {} /\ At(R, DOMAIN R, key) = {}
  <2>1. {i \in DOMAIN all : all[i].key = key} = {}
    BY <1>c, <1>7 DEF At
  <2>2. Attribute(r, key) = Empty
    BY <1>4, <2>1 DEF Attribute
  <2> QED  BY <1>2, <1>3, <1>7, <2>2 DEF Lookup
<1> QED  BY <1>5, <1>6, <1>7

\* The first of two keys, unless it is absent or empty.
LEMMA FirstOfTwo ==
    ASSUME NEW attrs, NEW one, NEW two
    PROVE  firstAttr(attrs, <<one, two>>) =
             IF Lookup(attrs, one) # Empty THEN Lookup(attrs, one) ELSE Lookup(attrs, two)
<1> DEFINE keys == <<one, two>>
           at == {i \in DOMAIN keys : keys[i] \in DOMAIN attrs /\ attrs[keys[i]] # Empty}
<1>1. firstAttr(attrs, keys) = IF at = {} THEN Empty ELSE attrs[keys[Min(at)]]
  BY DEF firstAttr, firstAt, Present
<1>2. DOMAIN keys = {1, 2} /\ keys[1] = one /\ keys[2] = two
  OBVIOUS
<1>3. /\ 1 \in at <=> Lookup(attrs, one) # Empty
      /\ 2 \in at <=> Lookup(attrs, two) # Empty
      /\ at \subseteq {1, 2}
  BY <1>2 DEF Lookup
<1>4. at # {} => Min(at) = IF 1 \in at THEN 1 ELSE 2
  <2> HIDE DEF at
  <2>1. CASE 1 \in at
    <3>1. \A y \in at : 1 <= y
      BY <1>3
    <3>2. \A x \in at : (\A y \in at : x <= y) => x = 1
      BY <1>3, <2>1
    <3> QED  BY <2>1, <3>1, <3>2 DEF Min
  <2>2. CASE at = {2}
    BY <2>2 DEF Min
  <2> QED  BY <1>3, <2>1, <2>2
<1> HIDE DEF at
<1>5. CASE 1 \in at
  BY <1>1, <1>2, <1>3, <1>4, <1>5 DEF Lookup
<1>6. CASE 1 \notin at /\ 2 \in at
  BY <1>1, <1>2, <1>3, <1>4, <1>6 DEF Lookup
<1>7. CASE at = {}
  BY <1>1, <1>3, <1>7
<1> QED  BY <1>3, <1>5, <1>6, <1>7

\* The service of an OTLP event.
LEMMA OTLPService ==
    ASSUME NEW r, FromOTLP(r).ok
    PROVE  FromOTLP(r).event.service =
             firstAttr(mergeAttrs(keyValuesToMap(r.resource), keyValuesToMap(r.attributes)),
                       <<"service.name", "service">>)
<1> DEFINE attrs == mergeAttrs(keyValuesToMap(r.resource), keyValuesToMap(r.attributes))
           ts == IF r.ts = 0 THEN Now ELSE Wrap(r.ts, NanoBits)
           severity == IF r.severityText = Level("") THEN severityNumberToText(r.severityNumber)
                       ELSE r.severityText
           service == firstAttr(attrs, <<"service.name", "service">>)
           e == [ts |-> IF ts = ZeroTime THEN Now ELSE ts,
                 level |-> NormalizeLogLevel(severity),
                 message |-> anyValueToString(r.body),
                 service |-> service,
                 host |-> firstAttr(attrs, <<"host.name", "host">>),
                 status |-> parseUint16Attr(attrs, <<"status_code", "responseStatus">>),
                 duration |-> parseFloatAttr(attrs, <<"duration", "responseDuration">>),
                 attrs |-> attrs]
<1>1. FromOTLP(r) = Validated(e)
  BY DEF FromOTLP, FromOTLPLike
<1>2. e.service = service
  OBVIOUS
<1> HIDE DEF e, service
<1>3. Validated(e).event = e
  BY <1>1, ValidatedFacts
<1> QED  BY <1>1, <1>2, <1>3 DEF service

\* keyValuesToMap, mergeAttrs and firstAttr together (otlp.go:43-55,
\* event.go:229-263): of all pairs with a key the last one counts, the record's
\* before its resource's, and service.name before service unless it is empty.
THEOREM AttributePrecedenceHolds == Spec => []AttributePrecedence
<1>1. SchemaInv => AttributePrecedence
  <2> SUFFICES ASSUME SchemaInv, event.ok, input.via = "otlp"
               PROVE  LET name == Attribute(input.body, "service.name")
                      IN  event.event.service = (IF name # Empty THEN name
                                                 ELSE Attribute(input.body, "service"))
    BY DEF AttributePrecedence
  <2> DEFINE r == input.body
             attrs == mergeAttrs(keyValuesToMap(r.resource), keyValuesToMap(r.attributes))
  <2>1. event = FromOTLP(r) /\ r \in OTLPInputs
    BY DEF SchemaInv
  <2>2. r.resource \in KeyValues /\ r.attributes \in KeyValues
    BY <2>1, InputsAssumption
  <2>3. event.event.service = firstAttr(attrs, <<"service.name", "service">>)
    BY <2>1, OTLPService
  <2>4. /\ Lookup(attrs, "service.name") = Attribute(r, "service.name")
        /\ Lookup(attrs, "service") = Attribute(r, "service")
    BY <2>2, MergedLookup
  <2> HIDE DEF attrs, r
  <2>5. event.event.service =
          IF Lookup(attrs, "service.name") # Empty THEN Lookup(attrs, "service.name")
          ELSE Lookup(attrs, "service")
    BY <2>3, FirstOfTwo
  <2> QED  BY <2>4, <2>5 DEF r
<1> QED  BY <1>1, SchemaInvariant, PTL

-----------------------------------------------------------------------------
(* What does not encode. *)

\* A parsed duration is one of the values of its keys, or zero.
LEMMA FloatOfTwo ==
    ASSUME NEW attrs, NEW one, NEW two, parseFloatAttr(attrs, <<one, two>>).form = "nan"
    PROVE  Lookup(attrs, one).form = "nan" \/ Lookup(attrs, two).form = "nan"
<1> DEFINE keys == <<one, two>>
           at == {i \in Present(attrs, keys) : attrs[keys[i]].form \in {"number", "nan"}}
<1>1. parseFloatAttr(attrs, keys) = IF at = {} THEN Number(0) ELSE attrs[keys[Min(at)]]
  BY DEF parseFloatAttr, firstAt
<1>2. DOMAIN keys = {1, 2} /\ keys[1] = one /\ keys[2] = two
  OBVIOUS
<1>3. at \subseteq {1, 2} /\ \A i \in at : keys[i] \in DOMAIN attrs
  BY <1>2 DEF Present
<1>4. at # {}
  <2>1. Number(0).form # "nan"
    BY DEF Number
  <2> HIDE DEF at
  <2> QED  BY <1>1, <2>1
<1> HIDE DEF at
<1>5. Min(at) \in at
  <2>1. CASE 1 \in at
    <3>1. \A y \in at : 1 <= y
      BY <1>3
    <3> QED  BY <2>1, <3>1 DEF Min
  <2>2. CASE at = {2}
    BY <2>2 DEF Min
  <2> QED  BY <1>3, <1>4, <2>1, <2>2
<1>6. attrs[keys[Min(at)]].form = "nan" /\ keys[Min(at)] \in DOMAIN attrs
  BY <1>1, <1>3, <1>4, <1>5
<1>7. keys[Min(at)] \in {one, two}
  BY <1>2, <1>3, <1>5
<1> QED  BY <1>6, <1>7 DEF Lookup

\* The duration of an OTLP event.
LEMMA OTLPDuration ==
    ASSUME NEW r, FromOTLP(r).ok
    PROVE  FromOTLP(r).event.duration =
             parseFloatAttr(mergeAttrs(keyValuesToMap(r.resource), keyValuesToMap(r.attributes)),
                            <<"duration", "responseDuration">>)
<1> DEFINE attrs == mergeAttrs(keyValuesToMap(r.resource), keyValuesToMap(r.attributes))
           ts == IF r.ts = 0 THEN Now ELSE Wrap(r.ts, NanoBits)
           severity == IF r.severityText = Level("") THEN severityNumberToText(r.severityNumber)
                       ELSE r.severityText
           duration == parseFloatAttr(attrs, <<"duration", "responseDuration">>)
           e == [ts |-> IF ts = ZeroTime THEN Now ELSE ts,
                 level |-> NormalizeLogLevel(severity),
                 message |-> anyValueToString(r.body),
                 service |-> firstAttr(attrs, <<"service.name", "service">>),
                 host |-> firstAttr(attrs, <<"host.name", "host">>),
                 status |-> parseUint16Attr(attrs, <<"status_code", "responseStatus">>),
                 duration |-> duration,
                 attrs |-> attrs]
<1>1. FromOTLP(r) = Validated(e)
  BY DEF FromOTLP, FromOTLPLike
<1>2. e.duration = duration
  OBVIOUS
<1> HIDE DEF e, duration
<1>3. Validated(e).event = e
  BY <1>1, ValidatedFacts
<1> QED  BY <1>1, <1>2, <1>3 DEF duration

\* An OTLP event whose duration is no number got it from one of two attributes.
LEMMA NaNAttribute ==
    ASSUME NEW r \in OTLPInputs, FromOTLP(r).ok, FromOTLP(r).event.duration.form = "nan"
    PROVE  \E key \in {"duration", "responseDuration"} : Attribute(r, key).form = "nan"
<1> DEFINE attrs == mergeAttrs(keyValuesToMap(r.resource), keyValuesToMap(r.attributes))
<1>1. r.resource \in KeyValues /\ r.attributes \in KeyValues
  BY InputsAssumption
<1>2. parseFloatAttr(attrs, <<"duration", "responseDuration">>).form = "nan"
  BY OTLPDuration
<1>3. /\ Lookup(attrs, "duration") = Attribute(r, "duration")
      /\ Lookup(attrs, "responseDuration") = Attribute(r, "responseDuration")
  BY <1>1, MergedLookup
<1> HIDE DEF attrs
<1>4. Lookup(attrs, "duration").form = "nan" \/ Lookup(attrs, "responseDuration").form = "nan"
  BY <1>2, FloatOfTwo
<1> QED  BY <1>3, <1>4

\* A REST timestamp that does not encode is too late as it stands, and too early
\* when the upper half of its range is read as negative.
LEMMA UnencodableTime ==
    ASSUME NEW n \in 0..(2 ^ TimeBits - 1),
           TimeUnixMilli(Wrap(n, TimeBits)) \notin EncMin..EncMax
    PROVE  NanosPerMilli * n > EncMax /\ NanosPerMilli * (n - 2 ^ TimeBits) < EncMin
<1> DEFINE g == NanosPerMilli
           half == 2 ^ (TimeBits - 1)
           full == 2 ^ TimeBits
           w == Wrap(n, TimeBits)
           h == -half
           d == n - full
<1>1. half \in Nat \ {0} /\ full = 2 * half /\ TimeBits \in Nat \ {0} /\ g \in Nat \ {0}
  BY HalfOf, SchemaAssumption
<1>2. w = IF n < half THEN n ELSE n - full
  BY <1>1, WrapIs
<1>3. g * w \notin EncMin..EncMax
  BY DEF TimeUnixMilli
<1>4. /\ EncMin \in Int /\ EncMax \in Int /\ EncMin < 0 /\ 0 < EncMax
      /\ EncMax < g * half /\ -(g * half) < EncMin
  BY SchemaAssumption
<1>5. n \in 0..(full - 1)
  OBVIOUS
<1> HIDE DEF g, half, full, w
<1>6. n \in Int /\ half \in Int /\ h \in Int /\ d \in Int /\ 0 \in Int
  BY <1>1, <1>5
<1>7. g * h = -(g * half) /\ g * 0 = 0
  BY <1>1
<1>8. g * n \in Int /\ g * d \in Int /\ g * half \in Int
  BY <1>1, <1>6, TimesMonotonic
<1>9. CASE n < half
  <2>1. 0 <= n /\ d <= h /\ w = n
    BY <1>1, <1>2, <1>5, <1>9
  <2> HIDE DEF h, d
  <2>2. g * 0 <= g * n /\ g * d <= g * h
    BY <1>1, <1>6, <2>1, TimesMonotonic
  <2>3. g * d < EncMin
    BY <1>4, <1>7, <1>8, <2>2
  <2>4. g * n > EncMax
    BY <1>3, <1>4, <1>7, <1>8, <2>1, <2>2
  <2> QED  BY <2>3, <2>4 DEF g, d, full
<1>10. CASE ~(n < half)
  <2>1. half <= n /\ d <= 0 /\ w = d
    BY <1>1, <1>2, <1>5, <1>10
  <2> HIDE DEF h, d
  <2>2. g * half <= g * n /\ g * d <= g * 0
    BY <1>1, <1>6, <2>1, TimesMonotonic
  <2>3. g * n > EncMax
    BY <1>4, <1>8, <2>2
  <2>4. g * d < EncMin
    BY <1>3, <1>4, <1>7, <1>8, <2>1, <2>2
  <2> QED  BY <2>3, <2>4 DEF g, d, full
<1> QED  BY <1>9, <1>10

\* Validation is all the encoder needs, but for REST timestamps outside the years
\* 0 to 9999 (event.go:127) and OTLP attributes that make the duration a NaN
\* (event.go:277-287): no other payload gets through FromREST or FromOTLPLike
\* and then fails in MarshalEvent.
THEOREM UnencodableCauseHolds == Spec => []UnencodableCause
<1>1. SchemaInv => UnencodableCause
  <2> SUFFICES ASSUME SchemaInv, stage = "unencodable"
               PROVE  \/ /\ input.via = "rest"
                         /\ NanosPerMilli * input.body.ts > EncMax
                         /\ NanosPerMilli * (input.body.ts - 2 ^ TimeBits) < EncMin
                      \/ /\ input.via = "otlp"
                         /\ \E key \in {"duration", "responseDuration"} :
                               Attribute(input.body, key).form = "nan"
    BY DEF UnencodableCause
  <2>1. /\ event = IF input.via = "rest" THEN FromREST(input.body) ELSE FromOTLP(input.body)
        /\ event.ok /\ ~Encodes(event.event)
    BY DEF SchemaInv
  <2>2. CASE input.via = "rest" /\ input.body \in RESTInputs
    <3> DEFINE n == input.body.ts
    <3>1. /\ event.event.ts = IF n = 0 THEN Now ELSE TimeUnixMilli(Wrap(n, TimeBits))
          /\ event.event.duration = input.body.duration
      BY <2>1, <2>2, FromRESTFacts
    <3>2. n \in 0..(2 ^ TimeBits - 1) /\ event.event.ts \notin EncMin..EncMax
      BY <2>1, <2>2, <3>1, InputsAssumption DEF Encodes
    <3> HIDE DEF n
    <3>3. TimeUnixMilli(Wrap(n, TimeBits)) \notin EncMin..EncMax
      BY <3>1, <3>2, NowEncodes
    <3>4. NanosPerMilli * n > EncMax /\ NanosPerMilli * (n - 2 ^ TimeBits) < EncMin
      BY <3>2, <3>3, UnencodableTime
    <3> QED  BY <2>2, <3>4 DEF n
  <2>3. CASE input.via = "otlp" /\ input.body \in OTLPInputs
    <3> DEFINE ts == IF input.body.ts = 0 THEN Now ELSE Wrap(input.body.ts, NanoBits)
    <3>1. event.event.ts = IF ts = ZeroTime THEN Now ELSE ts
      BY <2>1, <2>3, FromOTLPFacts
    <3>2. input.body.ts \in 0..(2 ^ NanoBits - 1)
      BY <2>3, InputsAssumption
    <3>3. event.event.ts \in EncMin..EncMax
      BY <3>1, <3>2, NanoTimeEncodes, NowEncodes
    <3>4. event.event.duration.form = "nan" /\ event = FromOTLP(input.body)
      BY <2>1, <2>3, <3>3 DEF Encodes
    <3>5. \E key \in {"duration", "responseDuration"} : Attribute(input.body, key).form = "nan"
      BY <2>1, <2>3, <3>4, NaNAttribute
    <3> QED  BY <2>3, <3>5
  <2> QED  BY <2>2, <2>3 DEF SchemaInv
<1> QED  BY <1>1, SchemaInvariant, PTL
=============================================================================
