---------------------------- MODULE MCPublication ----------------------------
(* Instances of Publication for TLC: the .cfg files choose the sizes. *)
EXTENDS Publication, TLC

\* Concurrent decision requests are interchangeable.
Symmetry == Permutations(Deciders)

=============================================================================
