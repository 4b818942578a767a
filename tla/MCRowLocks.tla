----------------------------- MODULE MCRowLocks -----------------------------
(* The row locks for TLC. *)
EXTENDS RowLocks, TLC

\* Connections are interchangeable.
Interchangeable == Permutations(Connections)
=============================================================================
