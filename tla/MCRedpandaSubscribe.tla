------------------------ MODULE MCRedpandaSubscribe ------------------------
(* Instances of RedpandaSubscribe for TLC. *)
EXTENDS RedpandaSubscribe
=============================================================================
