-------------------------- MODULE MCMemoryPipeline --------------------------
(* Instances of MemoryPipeline for TLC. *)
EXTENDS MemoryPipeline, TLC

CONSTANTS m1, m2, h1, h2, t1, t2

Symmetry == Permutations({m1, m2}) \cup Permutations({h1, h2})

\* One topic, both, and one topic twice.
MCSubscriptions == {<<t1>>, <<t1, t2>>, <<t1, t1>>}
=============================================================================
