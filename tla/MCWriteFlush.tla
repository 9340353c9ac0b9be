--------------------------- MODULE MCWriteFlush ---------------------------
(* WriteFlush for TLC: tasks are interchangeable. *)
EXTENDS WriteFlushInv, TLC

Symmetric == Permutations(Writers) \cup Permutations(Admins)
=============================================================================
