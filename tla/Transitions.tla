---------------------------- MODULE Transitions ----------------------------
(***************************************************************************)
(* The lifecycle tables of app/control_plane/state.py and the optimistic   *)
(* check every writer of a versioned row goes through.                     *)
(***************************************************************************)
EXTENDS Integers

MigrationTransitions ==
  [ queued         |-> {"planning"},
    planning       |-> {"generating", "blocked"},
    generating     |-> {"verifying", "needs_revision", "blocked"},
    verifying      |-> {"ready", "needs_revision", "blocked"},
    ready          |-> {"pr_opening", "needs_revision", "snoozed", "declined"},
    needs_revision |-> {"planning"},
    blocked        |-> {"planning", "pr_opening"},
    pr_opening     |-> {"pr_opened", "blocked"},
    pr_opened      |-> {"approved", "needs_revision", "snoozed", "declined"},
    snoozed        |-> {"queued"},
    declined       |-> {"queued"},
    approved       |-> {"completed"},
    completed      |-> {} ]

AttemptTransitions ==
  [ created    |-> {"planning", "cancelled"},
    planning   |-> {"generating", "failed", "cancelled"},
    generating |-> {"verifying", "failed", "cancelled"},
    verifying  |-> {"reviewing", "failed", "cancelled"},
    reviewing  |-> {"completed", "failed", "cancelled"},
    completed  |-> {},
    failed     |-> {},
    cancelled  |-> {} ]

MigrationStatus == DOMAIN MigrationTransitions
AttemptStatus   == DOMAIN AttemptTransitions

Decisions  == {"approve", "revise", "snooze", "decline"}
Operations == {"generate", "publish"} \cup Decisions

\* The status each operation asks for; ACTION_STATES for the decisions.
TargetStatus ==
  [ generate |-> "planning",       publish |-> "pr_opening",
    approve  |-> "approved",       revise  |-> "needs_revision",
    snooze   |-> "snoozed",        decline |-> "declined" ]

IgnoreVersion(table, from, to, version, expected) == to \in table[from]   \* mutant

\* validate_transition: the version is compared first, then the table; both
\* failures are conflicts to the caller, so one predicate stands for both.
ValidTransition(table, from, to, version, expected) ==
  /\ version = expected
  /\ to \in table[from]

\* `to` is reached from `from` along exactly n edges of the table.
Path(table, from, to, n) ==
  CASE n = 1 -> to \in table[from]
    [] n = 2 -> \E a \in table[from] : to \in table[a]
    [] n = 3 -> \E a \in table[from] : \E b \in table[a] : to \in table[b]

=============================================================================
