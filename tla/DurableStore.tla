--------------------------- MODULE DurableStore ---------------------------
(***************************************************************************)
(* What the write path promises to its callers, without memtables, logs or *)
(* files: a growing sequence of records, written a whole batch at a time   *)
(* in the order of their numbers.  A record may be acknowledged once it is *)
(* stored.  An acknowledged record is never taken back; one whose write    *)
(* failed may be, where writes can fail.                                   *)
(***************************************************************************)
EXTENDS Integers

CONSTANT MayDiscard  \* may a write fail after its records were stored?

VARIABLES
    stored,  \* records a restart would find
    acked    \* records whose writers were told they are written

vars == <<stored, acked>>

Init == stored = {} /\ acked = {}

(* A batch of consecutive numbers, all above what is stored, becomes durable *)
(* as one.                                                                   *)
StoreBatch ==
    /\ stored \subseteq stored'
    /\ LET new == stored' \ stored IN
         /\ \A s \in new, t \in stored : t < s
         /\ \A s, t \in new : s .. t \subseteq new
    /\ UNCHANGED acked

(* Writers learn of records that are stored. *)
Acknowledge ==
    /\ acked \subseteq acked'
    /\ acked' \subseteq stored
    /\ UNCHANGED stored

(* Records nobody was told of go away. *)
Discard ==
    /\ MayDiscard
    /\ stored' \subseteq stored
    /\ acked \subseteq stored'
    /\ UNCHANGED acked

Next == StoreBatch \/ Acknowledge \/ Discard

Spec == Init /\ [][Next]_vars
=============================================================================
