------------------------- MODULE MCProviderHealth -------------------------
(* The ingestion transactions for TLC. *)
EXTENDS ProviderHealth, TLC

\* Sources are interchangeable, and so are connections.
Interchangeable == Permutations(Sources) \cup Permutations(Workers)
=============================================================================
