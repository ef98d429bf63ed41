----------------------------- MODULE MCGateway -----------------------------
(* Instances of Gateway for TLC. *)
EXTENDS Gateway

REST(record, key, ok) ==
    [via |-> "rest", authorized |-> key, wellFormed |-> ok, records |-> <<record>>]

OTLP(via, key, records) ==
    [via |-> via, authorized |-> key, wellFormed |-> TRUE, records |-> records]

\* Every outcome of every handler: bad bodies, bad records, no records, a record
\* that cannot be encoded behind one that can.
MCInputs ==
    {REST("good", TRUE, TRUE), REST("invalid", TRUE, TRUE), REST("good", TRUE, FALSE),
     REST("good", FALSE, TRUE), REST("unencodable", TRUE, TRUE),
     OTLP("otlp", TRUE, <<>>), OTLP("otlp", TRUE, <<"good", "good">>),
     OTLP("otlp", TRUE, <<"good", "invalid">>),
     OTLP("otlp", TRUE, <<"good", "unencodable">>),
     OTLP("grpc", FALSE, <<>>), OTLP("grpc", FALSE, <<"good", "good">>),
     OTLP("grpc", FALSE, <<"good", "invalid">>)}
=============================================================================
