------------------------------ MODULE MCWriter ------------------------------
(* Instances of Writer for TLC. *)
EXTENDS Writer, TLC

\* Writers and partitions are interchangeable in the safety runs.
Symmetry == Permutations(Writers) \cup Permutations(Partitions)
=============================================================================
