---- MODULE MCDeltaCodeApp ----
\* The frontend for TLC: two polls may be in flight, two tabs are open on a run.
EXTENDS DeltaCodeApp
====
