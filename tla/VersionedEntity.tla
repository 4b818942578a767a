-------------------------- MODULE VersionedEntity --------------------------
(***************************************************************************)
(* What the control plane promises of any versioned row: its status moves  *)
(* only along the edges of the lifecycle table, and its version counts the *)
(* edges travelled.  One transaction may travel several edges at once      *)
(* (complete_attempt runs a migration through "verifying" and an attempt   *)
(* through "verifying" and "reviewing"); it then pays for each of them.    *)
(***************************************************************************)
EXTENDS Transitions

CONSTANTS Table,        \* the lifecycle: status -> set of next statuses
          Start         \* the status in which a row is born

VARIABLES status, version

entity == <<status, version>>

Init == status = Start /\ version = 1

Advance(n) == /\ Path(Table, status, status', n)
              /\ version' = version + n

Next == \E n \in 1..3 : Advance(n)

Spec == Init /\ [][Next]_entity

=============================================================================
