--------------------------- MODULE MCMemoryBroker ---------------------------
(* Instances of MemoryBroker for TLC. *)
EXTENDS MemoryBroker

CONSTANTS m1, m2, h1, t1

OneTopic == {<<t1>>}
=============================================================================
