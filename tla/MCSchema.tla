------------------------------ MODULE MCSchema ------------------------------
(* Instances of Schema for TLC. *)
EXTENDS Schema, TLC

MCZeroTime == -6

MCEncMin == -8

Texts == {Empty, Text("blank"), Text("word")}

Levels == {[word |-> w, dressed |-> d] : w \in {"", "INFO", "OTHER"}, d \in BOOLEAN}

Extras == {NoAttrs, ("" :> Text("word")), ("a" :> Text("word")), ("a" :> Empty @@ "b" :> Text("word"))}

\* Every timestamp of the scaled width (the zero time and both ends of the years
\* that encode among them), statuses around 0 and the scaled limit.
MCRESTInputs ==
    [ts : 0..(2 ^ TimeBits - 1), level : Levels, message : Texts, service : Texts,
     host : {Empty}, status : {-1, 0, 7, 8}, duration : {Number(3)},
     sourceExtra : Extras, metadataExtra : Extras]

Str(t) == [type |-> "string", val |-> t]

KV(key, value) == [key |-> key, value |-> value]

ServiceKVs ==
    {KV("service.name", Str(Empty)), KV("service.name", Str(Text("word"))),
     KV("service.name", [type |-> "bytes", val |-> Text("bytes")]),
     KV("service", [type |-> "bool", val |-> Empty]),
     KV("service", [type |-> "int", val |-> Number(5)]),
     KV("service", [type |-> "none", val |-> Empty]), KV("", Str(Text("word")))}

NumberKVs ==
    {KV("status_code", [type |-> "int", val |-> Number(9)]), KV("status_code", Str(Text("word"))),
     KV("responseStatus", [type |-> "int", val |-> Number(7)]),
     KV("duration", [type |-> "double", val |-> Text("nan")]),
     KV("responseDuration", [type |-> "double", val |-> Number(2)])}

KVLists(S) == {<<>>} \cup {<<a>> : a \in S} \cup {<<a, b>> : a, b \in S}

MCOTLPInputs ==
    [ts : 0..(2 ^ NanoBits - 1), severityText : {Level(""), Level("OTHER"), [word |-> "WARN", dressed |-> TRUE]},
     severityNumber : {0, 4, 5, 21}, body : {Str(Text("word")), [type |-> "bytes", val |-> Text("bytes")]},
     resource : KVLists(ServiceKVs), attributes : {<<kv>> : kv \in ServiceKVs}]
    \cup
    [ts : {0, 1}, severityText : {Level("")}, severityNumber : {9, 13, 17},
     body : {Str(Text("word")), [type |-> "none", val |-> Empty]},
     resource : {<<KV("service", Str(Text("word")))>>}, attributes : KVLists(NumberKVs)]
=============================================================================
