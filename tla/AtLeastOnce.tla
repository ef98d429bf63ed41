---------------------------- MODULE AtLeastOnce ----------------------------
(***************************************************************************)
(* What the write path promises a reader of the table, without writers,    *)
(* batches or retries: messages are appended to partitions, events come to *)
(* be in the table and stay there, and the group's offset on a partition   *)
(* only ever moves (forwards or back) to a point behind which every        *)
(* message is in the table.  Consumption is "at-least-once"                *)
(* (pkg/broker/README.md:35): after any failure the next writer resumes at *)
(* the offset, so whatever is not in the table is read again.              *)
(***************************************************************************)
EXTENDS Integers, Sequences

CONSTANTS Partitions, Payloads, MaxOffset

VARIABLES
    log,        \* log[p]: the messages of partition p
    committed,  \* committed[p]: number of messages of p committed by the group
    stored      \* the messages that are in the table

vars == <<log, committed, stored>>

Message == [part : Partitions, offset : 1..MaxOffset]

\* The messages a writer may store: those that are on the topic, decode
\* and fit the table's columns.
Storable == {m \in Message : /\ m.offset <= Len(log[m.part])
                             /\ log[m.part][m.offset] = "event"}

Init ==
    /\ log = [p \in Partitions |-> <<>>]
    /\ committed = [p \in Partitions |-> 0]
    /\ stored = {}

Produce ==
    /\ \E p \in Partitions, payload \in Payloads :
            log' = [log EXCEPT ![p] = Append(@, payload)]
    /\ UNCHANGED <<committed, stored>>

Store ==
    /\ stored \subseteq stored'
    /\ stored' \subseteq stored \cup Storable
    /\ UNCHANGED <<log, committed>>

Commit ==
    /\ committed' \in [Partitions -> 0..MaxOffset]
    /\ \A m \in Message : m.offset <= committed'[m.part] => m \in stored
    /\ UNCHANGED <<log, stored>>

Next == Produce \/ Store \/ Commit

Spec == Init /\ [][Next]_vars
=============================================================================
