-------------------------- MODULE MCArtifactStore --------------------------
(* The artifact store for TLC. *)
EXTENDS ArtifactStore, TLC

\* Processes are interchangeable.
Interchangeable == Permutations(Processes)
=============================================================================
