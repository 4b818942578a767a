---------------------------- MODULE MCLifecycle ----------------------------
(* Instances of MigrationLifecycle for TLC: the .cfg files choose the sizes. *)
EXTENDS MigrationLifecycle, TLC

\* Request slots, keys and job slots are interchangeable.
Symmetry == Permutations(Requests) \cup Permutations(Keys) \cup Permutations(JobSlots)
=============================================================================
