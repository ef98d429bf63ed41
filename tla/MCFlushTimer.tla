---------------------------- MODULE MCFlushTimer ----------------------------
(* Instances of FlushTimer for TLC. *)
EXTENDS FlushTimer

Number(k) == [form |-> "number", value |-> k]

NoNumber == {[form |-> f, value |-> 0] : f \in {"unset", "malformed"}}

\* Negative, zero, shorter than the deadline, equal to it, and longer.
MCIntervals == NoNumber \cup {Number(k) : k \in {-1, 0, 1, 3, 5, 7}}

MCBatches == NoNumber \cup {Number(k) : k \in {-1, 0, 1, 2, 4}}
=============================================================================
