---------------------------- MODULE MCSourceSync ----------------------------
(* Instances of SourceSync for TLC: the .cfg files choose the sizes. *)
EXTENDS SourceSync, TLC

CONSTANTS e1, e2

\* Enough for a sync to find gone what an overlapping one has found added.
Chain == {{}, {e1}, {e1, e2}}

\* Repositories, keys and workers are interchangeable.
Symmetry == Permutations(Repositories) \cup Permutations(Keys)
            \cup Permutations(Workers)

=============================================================================
