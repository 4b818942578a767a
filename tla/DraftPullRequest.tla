-------------------------- MODULE DraftPullRequest --------------------------
(***************************************************************************)
(* What the publisher promises about the pull request of one migration: it *)
(* is opened once, as a draft; its content changes only while it is a      *)
(* draft, and only to a later attempt; a developer's decision makes it     *)
(* ready for review or closes it, and nothing reopens it.                  *)
(***************************************************************************)
EXTENDS Naturals

VARIABLES pull,     \* "none", "draft", "ready" or "closed"
          content   \* the attempt whose commit is its head

Init == pull = "none" /\ content = 0

Open == pull = "none" /\ pull' = "draft" /\ content' \in Nat \ {0}

Update == pull = "draft" /\ content' \in Nat /\ content' > content /\ UNCHANGED pull

MarkReady == pull = "draft" /\ pull' = "ready" /\ UNCHANGED content

Close == pull \in {"draft", "ready"} /\ pull' = "closed" /\ UNCHANGED content

Next == Open \/ Update \/ MarkReady \/ Close

Spec == Init /\ [][Next]_<<pull, content>>

=============================================================================
