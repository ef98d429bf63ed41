------------------------------- MODULE Schema -------------------------------
(***************************************************************************)
(* The event schema (pkg/schema): how a REST payload or an OTLP log record *)
(* becomes a LogEvent, how the gateway encodes it for the broker, and how  *)
(* the writer decodes it.  One event goes through these conversions.       *)
(*                                                                         *)
(* Data is abstracted to what the code tells apart.  A text is one of a    *)
(* few forms; host stands for all text fields that are merely copied.      *)
(* Times are integers in nanoseconds since 1970, scaled down with the      *)
(* widths of the integers: the order EncMin < ZeroTime < 0 < EncMax is     *)
(* that of the years 0, 1, 1970 and 9999.                                  *)
(***************************************************************************)
EXTENDS Integers, Sequences, FiniteSets, SequencesExt

CONSTANTS
    NanosPerMilli,
    TimeBits,    \* width of Timestamp in RESTPayload (64), which is in milliseconds
                 \* and reaches far beyond the year 9999 and before the year 0
    NanoBits,    \* width of TimeUnixNano (64), which reaches the years 1677 to 2262
    StatusBits,  \* width of ResponseStatus (16)
    Now,         \* what time.Now() answers
    ZeroTime,    \* time.Time{}, 1 January of year 1
    EncMin,      \* the times json.Marshal accepts: years 0 ...
    EncMax,      \* ... to 9999
    RESTInputs, OTLPInputs

ASSUME SchemaAssumption ==
    /\ NanosPerMilli \in Nat \ {0}
    /\ TimeBits \in Nat \ {0} /\ NanoBits \in Nat \ {0} /\ StatusBits \in Nat \ {0}
    /\ EncMin \in Int /\ ZeroTime \in Int /\ EncMax \in Int
    /\ EncMin < ZeroTime /\ ZeroTime < 0 /\ 0 < EncMax
    /\ Now \in NanosPerMilli..EncMax
    /\ ZeroTime < -(2 ^ (NanoBits - 1)) /\ 2 ^ (NanoBits - 1) <= EncMax
    /\ EncMax < NanosPerMilli * 2 ^ (TimeBits - 1)
    /\ -(NanosPerMilli * 2 ^ (TimeBits - 1)) < EncMin

\* The repeated KeyValue fields of OTLP.
KeyValues == Seq([key : STRING, value : [type : STRING, val : [form : STRING, n : Int]]])

\* Integers fit into their width, and JSON has no NaN.
ASSUME InputsAssumption ==
    /\ \A r \in OTLPInputs : /\ r.ts \in 0..(2 ^ NanoBits - 1)
                             /\ r.resource \in KeyValues /\ r.attributes \in KeyValues
    /\ \A p \in RESTInputs : /\ p.ts \in 0..(2 ^ TimeBits - 1) /\ p.status \in Int
                             /\ p.duration.form # "nan"

VARIABLES stage, input, event, wire, decoded
vars == <<stage, input, event, wire, decoded>>

-----------------------------------------------------------------------------
(* Texts, levels and numbers. *)

\* A text is empty, white space, a word, bytes that are not UTF-8, what JSON
\* makes of them, a number, or something that reads as not-a-number.
Text(form) == [form |-> form, n |-> 0]
Number(n) == [form |-> "number", n |-> n]
Empty == Text("empty")

\* strings.TrimSpace(t) == ""
IsBlank(t) == t.form \in {"empty", "blank"}

\* A level is a word, possibly dressed in lower case or white space.
LogLevels == {"DEBUG", "INFO", "WARN", "ERROR", "FATAL"}
Level(word) == [word |-> word, dressed |-> FALSE]

ValidLogLevel(level) == level.word \in LogLevels

NormalizeLogLevel(level) == Level(IF level.word = "" THEN "INFO" ELSE level.word)

severityNumberToText(n) ==
    Level(CASE n >= 21 -> "FATAL"
            [] n >= 17 /\ n < 21 -> "ERROR"
            [] n >= 13 /\ n < 17 -> "WARN"
            [] n >= 9 /\ n < 13 -> "INFO"
            [] n >= 5 /\ n < 9 -> "DEBUG"
            [] n < 5 -> "INFO")

\* int64(n) of an unsigned n, for integers of the given width.
Wrap(n, bits) == ((n + 2 ^ (bits - 1)) % 2 ^ bits) - 2 ^ (bits - 1)

\* Mutant: time.Unix in the place of time.UnixMilli, which takes seconds.
UnixSeconds(n) == 1000 * NanosPerMilli * n

\* The time n milliseconds after 1970.
TimeUnixMilli(n) == NanosPerMilli * n

\* The method UnixMilli of a time: the milliseconds since 1970, rounded down.
UnixMilli(ts) == ts \div NanosPerMilli

-----------------------------------------------------------------------------
(* Attribute maps. *)

NoAttrs == [k \in {} |-> Empty]

\* Mutant: the first map wins.
mergeFirstWins(first, second) ==
    [k \in (DOMAIN first \cup DOMAIN second) \ {""} |->
        IF k \in DOMAIN first THEN first[k] ELSE second[k]]

\* The second map wins; the empty key is dropped.
mergeAttrs(first, second) ==
    [k \in (DOMAIN first \cup DOMAIN second) \ {""} |->
        IF k \in DOMAIN second THEN second[k] ELSE first[k]]

\* What a KeyValue's AnyValue prints as.
anyValueToString(v) ==
    CASE v.type = "none" -> Empty
      [] v.type \in {"bool", "array", "kvlist"} -> Text("word")
      [] v.type \in {"string", "int", "double", "bytes"} -> v.val

\* The loop's body: a key that comes again is overwritten, the empty one dropped.
AddKeyValue(out, kv) ==
    IF kv.key = "" THEN out
    ELSE [k \in DOMAIN out \cup {kv.key} |->
            IF k = kv.key THEN anyValueToString(kv.value) ELSE out[k]]

keyValuesToMap(kvs) == FoldLeft(AddKeyValue, NoAttrs, kvs)

\* The positions of the keys that are present and not empty.
Present(attrs, keys) ==
    {i \in DOMAIN keys : keys[i] \in DOMAIN attrs /\ attrs[keys[i]] # Empty}

\* The loops return at the first position that will do.
firstAt(attrs, keys, at, default) == IF at = {} THEN default ELSE attrs[keys[Min(at)]]

firstAttr(attrs, keys) == firstAt(attrs, keys, Present(attrs, keys), Empty)

\* The first value that scans as an unsigned integer in range; others are passed over.
parseUint16Attr(attrs, keys) ==
    LET scans == {i \in Present(attrs, keys) :
                    LET v == attrs[keys[i]]
                    IN  v.form = "number" /\ v.n \in 0..(2 ^ StatusBits - 1)}
    IN  firstAt(attrs, keys, scans, Number(0)).n

\* The first value that scans as a float, which may be NaN or Inf.
parseFloatAttr(attrs, keys) ==
    LET scans == {i \in Present(attrs, keys) : attrs[keys[i]].form \in {"number", "nan"}}
    IN  firstAt(attrs, keys, scans, Number(0))

-----------------------------------------------------------------------------
(* Mapping.  A conversion that can fail returns an event or Rejected. *)

Rejected == [ok |-> FALSE]
Accepted(e) == [ok |-> TRUE, event |-> e]

Validate(e) ==
    /\ ~IsBlank(e.message)
    /\ ~IsBlank(e.service)
    /\ e.level = Level("") \/ ValidLogLevel(e.level)
    /\ e.ts # ZeroTime

Validated(e) == IF Validate(e) THEN Accepted(e) ELSE Rejected

\* Mutant: a REST level is taken as it comes.
RawLevel(p) == p.level

RESTLevel(p) == NormalizeLogLevel(p.level)

FromREST(p) ==
    Validated([ts |-> IF p.ts = 0 THEN Now ELSE TimeUnixMilli(Wrap(p.ts, TimeBits)),
               level |-> RESTLevel(p),
               message |-> p.message, service |-> p.service, host |-> p.host,
               status |-> p.status % 2 ^ StatusBits,
               duration |-> p.duration,
               attrs |-> mergeAttrs(p.sourceExtra, p.metadataExtra)])

\* Mutant: the attributes are not carried over.
DropExtra(e) == NoAttrs

\* cloneMap(e.Attrs)
RESTExtra(e) == e.attrs

\* Back to the REST shape: all attributes become metadata.
ToREST(e) ==
    [ts |-> UnixMilli(e.ts) % 2 ^ TimeBits, level |-> e.level, message |-> e.message,
     service |-> e.service, host |-> e.host, status |-> e.status,
     duration |-> e.duration, sourceExtra |-> NoAttrs, metadataExtra |-> RESTExtra(e)]

FromOTLPLike(ts, severity, body, resourceAttrs, logAttrs) ==
    LET attrs == mergeAttrs(resourceAttrs, logAttrs)
    IN  Validated([ts |-> IF ts = ZeroTime THEN Now ELSE ts,
                   level |-> NormalizeLogLevel(severity),
                   message |-> body,
                   service |-> firstAttr(attrs, <<"service.name", "service">>),
                   host |-> firstAttr(attrs, <<"host.name", "host">>),
                   status |-> parseUint16Attr(attrs, <<"status_code", "responseStatus">>),
                   duration |-> parseFloatAttr(attrs, <<"duration", "responseDuration">>),
                   attrs |-> attrs])

\* LogEventsFromOTLP for one record.
FromOTLP(r) ==
    FromOTLPLike(IF r.ts = 0 THEN Now ELSE Wrap(r.ts, NanoBits),
                 IF r.severityText = Level("") THEN severityNumberToText(r.severityNumber)
                                               ELSE r.severityText,
                 anyValueToString(r.body),
                 keyValuesToMap(r.resource), keyValuesToMap(r.attributes))

-----------------------------------------------------------------------------
(* The broker's wire format: JSON. *)

\* External, encoding/json: bytes that are not UTF-8 are replaced.
JSONText(t) == IF t.form = "bytes" THEN Text("replaced") ELSE t

JSONEvent(e) ==
    [e EXCEPT !.message = JSONText(@), !.service = JSONText(@), !.host = JSONText(@),
              !.attrs = [k \in DOMAIN @ |-> JSONText(@[k])]]

\* External, encoding/json: years beyond 0..9999, NaN and Inf do not encode.
Encodes(e) == e.ts \in EncMin..EncMax /\ e.duration.form # "nan"

MarshalEvent(e) == IF Validate(e) /\ Encodes(e) THEN Accepted(JSONEvent(e)) ELSE Rejected

UnmarshalEvent(data) == Validated([data EXCEPT !.level = NormalizeLogLevel(@)])

-----------------------------------------------------------------------------
(* The way of one event. *)

Nothing == [ok |-> FALSE]

Init ==
    /\ stage = "received"
    /\ input \in [via : {"rest"}, body : RESTInputs] \cup [via : {"otlp"}, body : OTLPInputs]
    /\ event = Nothing /\ wire = Nothing /\ decoded = Nothing

Map ==
    /\ stage = "received"
    /\ event' = IF input.via = "rest" THEN FromREST(input.body) ELSE FromOTLP(input.body)
    /\ stage' = IF event'.ok THEN "mapped" ELSE "rejected"
    /\ UNCHANGED <<input, wire, decoded>>

Publish ==
    /\ stage = "mapped"
    /\ wire' = MarshalEvent(event.event)
    /\ stage' = IF wire'.ok THEN "published" ELSE "unencodable"
    /\ UNCHANGED <<input, event, decoded>>

Consume ==
    /\ stage = "published"
    /\ decoded' = UnmarshalEvent(wire.event)
    /\ stage' = IF decoded'.ok THEN "decoded" ELSE "poison"
    /\ UNCHANGED <<input, event, wire>>

Next == Map \/ Publish \/ Consume

Spec == Init /\ [][Next]_vars

-----------------------------------------------------------------------------
(* Properties. *)

\* What the gateway publishes the writer decodes, to the event that was mapped
\* (but for bytes JSON cannot carry): no request can put a poison message on
\* the topic, although both sides validate and normalise on their own.
WireFaithful ==
    /\ stage # "poison"
    /\ stage = "decoded" => decoded.event = JSONEvent(event.event)

\* The attribute a key of an OTLP record ends with: that of the last pair with
\* the key among the record's attributes, or else among the resource's.
Attribute(r, key) ==
    LET all == r.resource \o r.attributes
        at == {i \in DOMAIN all : all[i].key = key}
    IN  IF at = {} THEN Empty
        ELSE anyValueToString(all[CHOOSE i \in at : \A j \in at : j <= i].value)

\* A valid event that cannot be encoded comes from a REST timestamp n both of
\* whose readings, n itself and n - 2 ^ TimeBits (int64 takes one of them,
\* event.go:127), lie outside the years 0 to 9999, or from an OTLP attribute that
\* makes the duration a NaN; a client's other choices never turn into a publish
\* error after validation.
UnencodableCause ==
    stage = "unencodable" =>
        \/ /\ input.via = "rest"
           /\ NanosPerMilli * input.body.ts > EncMax
           /\ NanosPerMilli * (input.body.ts - 2 ^ TimeBits) < EncMin
        \/ /\ input.via = "otlp"
           /\ \E key \in {"duration", "responseDuration"} :
                 Attribute(input.body, key).form = "nan"

\* Attributes of the record override those of its resource, and the well-known
\* key of a field overrides its alternative unless it is empty.
AttributePrecedence ==
    event.ok /\ input.via = "otlp" =>
        LET name == Attribute(input.body, "service.name")
        IN  event.event.service = (IF name # Empty THEN name
                                   ELSE Attribute(input.body, "service"))

\* An event that came in over REST maps to a REST payload and back to itself.
\* Only a time the gateway supplied (event.go:127-130) loses its fraction of a
\* millisecond on the way (event.go:159).
RESTRoundTrip ==
    event.ok /\ input.via = "rest" =>
        LET back == FromREST(ToREST(event.event))
        IN  /\ back.ok
            /\ back.event = [event.event EXCEPT !.ts = back.event.ts]
            /\ event.event.ts - back.event.ts \in
                 0..(IF input.body.ts = 0 THEN NanosPerMilli - 1 ELSE 0)
=============================================================================
