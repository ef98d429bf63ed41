----------------------------- MODULE MCPipeline -----------------------------
(* Instances of Pipeline for TLC. *)
EXTENDS Pipeline

AllModes == {"rest", "otlp", "both", "other"}
=============================================================================
