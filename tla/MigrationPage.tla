--------------------------- MODULE MigrationPage ---------------------------
(***************************************************************************)
(* The page of one migration: MigrationDetailView and its ActionPanel in    *)
(* app/MigrationWorkspace.tsx, with the row it shows and changes.           *)
(*                                                                          *)
(* A request is answered from the row as it is when the server reads it;    *)
(* the page hears the answer at any later time, so two polls may arrive in  *)
(* the other order and every answer may be stale when it is used.  The row  *)
(* moves under the page: its workers, and other developers.  What those do  *)
(* in detail is module MigrationLifecycle.                                  *)
(*                                                                          *)
(* Of an attempt the page's controls depend on one thing only, whether its  *)
(* evidence recommends approval with every check passed: `evidence`.        *)
(***************************************************************************)
EXTENDS ApiClient, Transitions, FiniteSets

CONSTANTS Polls,        \* bound: reads of the five-second timer in flight at once
          MaxVersion    \* bound: versions of the migration row

ASSUME MaxVersionAssumption == MaxVersion \in Nat \ {0}

VARIABLES server,       \* the migrations row: status, version, evidence
          view,         \* `migration`: the row as the page last merged it
          loading, error,
          load, details,      \* the two awaits of the load effect
          poll,               \* reads started by the timer effect
          pending,            \* ActionPanel's open form
          command             \* ActionPanel's request; busy while there is one

migrationVars == <<live, server, view, loading, error, load, details, poll,
                   pending, command>>

-----------------------------------------------------------------------------
Row(status, version, evidence) ==
  [status |-> status, version |-> version, evidence |-> evidence]
Rows == [ status : MigrationStatus, version : Nat,
          evidence : {"none", "publishable", "other"} ]

NoRow   == [status |-> "null", version |-> 0, evidence |-> "none"]
NoCall  == [pc |-> "idle", row |-> NoRow]
Sent    == [pc |-> "sent", row |-> NoRow]
Failed  == [pc |-> "failed", row |-> NoRow]
Answered(row) == [pc |-> "answered", row |-> row]

NoCommand == [pc |-> "idle", op |-> "none", shown |-> NoRow, reply |-> NoRow]

\* hasPublishableEvidence, of an attempt that has evidence
Evidence(action, checks) ==
  IF action = "approve" /\ checks \subseteq {"passed"} THEN "publishable" ELSE "other"
BaseEvidence == Evidence("approve", {"passed"})

ActiveButPublishing == {"planning", "generating", "verifying"}            \* mutant
ActiveStatuses == {"planning", "generating", "verifying", "pr_opening"}

CanDecide(v) == v.status \in {"ready", "pr_opened"}
CanGenerate(v) == \/ v.status \in {"queued", "needs_revision"}
                  \/ v.status = "blocked" /\ v.evidence # "publishable"
CanPublishBlocked(v) == v.status \in {"ready", "blocked"}                 \* mutant
CanPublish(v) == \/ v.status = "ready"
                 \/ v.status = "blocked" /\ v.evidence = "publishable"

Buttons(v) == {op \in Operations :
                 \/ op = "publish"  /\ CanPublish(v)
                 \/ op = "generate" /\ CanGenerate(v)
                 \/ op = "approve"  /\ v.status = "pr_opened"}
Forms == {"revise", "snooze", "decline"}

\* What a click or a submitted form can ask for now.
Offered == Buttons(view) \cup ({pending} \cap Forms)

\* The panel is on the page.
Shown == ~loading /\ ~error /\ view # NoRow

\* The row a committed operation leaves; generate and revise start an attempt
\* that has no evidence yet.
Commit(row, op) ==
  Row(TargetStatus[op], row.version + 1,
      IF op \in {"generate", "revise"} THEN "none" ELSE row.evidence)

AcceptsAnyVersion(row, op, expected) ==                                   \* mutant
  /\ TargetStatus[op] \in MigrationTransitions[row.status]
  /\ op = "publish" => row.evidence = "publishable"
Accepts(row, op, expected) ==
  /\ ValidTransition(MigrationTransitions, row.status, TargetStatus[op],
                     row.version, expected)
  /\ op = "publish" => row.evidence = "publishable"

MergesRecordStatus(v, op, version) ==                                     \* mutant
  CASE op = "generate" -> Row("planning", version, v.evidence)
    [] op = "publish"  -> Row("publishing", version, v.evidence)
    [] op = "revise"   -> Row("needs_revision", version, "none")
    [] OTHER -> Row(TargetStatus[op], version, v.evidence)
\* The answer of an operation, laid over the row the page had.  A decision
\* answers with the row; queue_attempt and queue_publication answer with a
\* status and a version, and the latter's status is the publication's.
Merge(v, op, version) ==
  CASE op = "generate" -> Row("planning", version, v.evidence)
    [] op = "publish"  -> Row("queued", version, v.evidence)
    [] op = "revise"   -> Row("needs_revision", version, "none")
    [] OTHER -> Row(TargetStatus[op], version, v.evidence)

DemoMigrations == [ ready |-> 8, pr_opened |-> 10, generating |-> 4, blocked |-> 6,
                    snoozed |-> 7 ]
\* demoMigrationDetails: an attempt that ended well carries baseEvidence.
Demo == { Row(s, DemoMigrations[s], IF s \in {"ready", "pr_opened", "snoozed"}
                                    THEN BaseEvidence ELSE "none") :
            s \in DOMAIN DemoMigrations }

-----------------------------------------------------------------------------
\* The page opens while the row goes through its life; a preview shows one of
\* the demonstration migrations, or none for an id it does not know.
MigrationInit ==
  /\ server = Row("queued", 1, "none")
  /\ view \in IF live THEN {NoRow} ELSE Demo \cup {NoRow}
  /\ loading = live /\ error = FALSE
  /\ load = (IF live THEN Sent ELSE NoCall)
  /\ details = NoCall
  /\ poll = [p \in Polls |-> NoCall]
  /\ pending = "none" /\ command = NoCommand

-----------------------------------------------------------------------------
(* The row moves on its own *)

ServerMoves(row) ==
  /\ live /\ row.version <= MaxVersion
  /\ server' = row
  /\ UNCHANGED <<live, view, loading, error, load, details, poll, pending, command>>

\* claim_attempt
AttemptClaimed ==
  /\ server.status = "planning"
  /\ ServerMoves(Row("generating", server.version + 1, server.evidence))

\* complete_attempt goes through "verifying" in the same transaction.
AttemptCompleted ==
  /\ server.status = "generating"
  /\ \E to \in {"ready", "needs_revision", "blocked"} :
       ServerMoves(Row(to, server.version + 2,
                       IF to = "ready" THEN Evidence("approve", {"passed"}) ELSE "other"))

\* fail_attempt
AttemptFailed ==
  /\ server.status \in {"planning", "generating"}
  /\ ServerMoves(Row("blocked", server.version + 1, server.evidence))

\* complete_publication, fail_publication
PublicationEnds ==
  /\ server.status = "pr_opening"
  /\ \E to \in {"pr_opened", "blocked"} :
       ServerMoves(Row(to, server.version + 1, server.evidence))

\* Another developer's command.
OtherDeveloper ==
  \E op \in Operations : /\ Accepts(server, op, server.version)
                         /\ ServerMoves(Commit(server, op))

-----------------------------------------------------------------------------
(* Reading the row *)

\* The server answers a read, or the read fails on the way.
Served(r) == IF FetchMigration(r) = "value" THEN Answered(server) ELSE Failed

ServeLoad ==
  /\ load = Sent
  /\ load' \in {Served(r) : r \in Responses}
  /\ UNCHANGED <<live, server, view, loading, error, details, poll, pending, command>>

\* The timer effect is torn down, and its reads aborted, when the status it
\* was set up for is no longer shown.
PollsAfter(v) == IF v.status # view.status THEN [p \in Polls |-> NoCall] ELSE poll

\* .then shows the row and awaits the change and the publication; .catch shows
\* the error instead.
ArriveLoad ==
  /\ load.pc \in {"answered", "failed"}
  /\ IF load.pc = "answered"
     THEN /\ view' = load.row /\ details' = Sent /\ poll' = PollsAfter(load.row)
          /\ UNCHANGED <<loading, error>>
     ELSE /\ error' = TRUE /\ loading' = FALSE
          /\ UNCHANGED <<view, details, poll>>
  /\ load' = NoCall
  /\ UNCHANGED <<live, server, pending, command>>

DetailsFailed(change, publication) ==
  \/ FetchChange(change) # "value"
  \/ FetchPublication(publication) \notin {"value", "null"}

\* Both requests, the change and the publication, have ended.  Success clears
\* whatever error a poll has left meanwhile.
ArriveDetails ==
  /\ details = Sent
  /\ error' \in { DetailsFailed(change, publication) : change, publication \in Responses }
  /\ details' = NoCall /\ loading' = FALSE
  /\ UNCHANGED <<live, server, view, load, poll, pending, command>>

Polled(v) == v.status \in ActiveStatuses

\* The interval fires; it does not wait for the read before.
StartPoll(p) ==
  /\ live /\ Polled(view) /\ poll[p] = NoCall
  /\ poll' = [poll EXCEPT ![p] = Sent]
  /\ UNCHANGED <<live, server, view, loading, error, load, details, pending, command>>

ServePoll(p) ==
  /\ poll[p] = Sent
  /\ \E answer \in {Served(r) : r \in Responses} : poll' = [poll EXCEPT ![p] = answer]
  /\ UNCHANGED <<live, server, view, loading, error, load, details, pending, command>>

ArrivePoll(p) ==
  /\ poll[p].pc \in {"answered", "failed"}
  /\ IF poll[p].pc = "answered"
     THEN /\ view' = poll[p].row
          /\ poll' = [PollsAfter(poll[p].row) EXCEPT ![p] = NoCall]
          /\ UNCHANGED error
     ELSE /\ error' = TRUE /\ poll' = [poll EXCEPT ![p] = NoCall]
          /\ UNCHANGED view
  /\ UNCHANGED <<live, server, loading, load, details, pending, command>>

-----------------------------------------------------------------------------
(* ActionPanel *)

\* The three form buttons stay enabled while a request is out.
OpenForm(op) ==
  /\ Shown /\ CanDecide(view) /\ pending # op
  /\ pending' = op
  /\ UNCHANGED <<live, server, view, loading, error, load, details, poll, command>>

CancelForm ==
  /\ Shown /\ pending # "none"
  /\ pending' = "none"
  /\ UNCHANGED <<live, server, view, loading, error, load, details, poll, command>>

\* execute against the API: a button, or the open form, sends the version shown.
Execute(op) ==
  /\ live /\ Shown /\ command = NoCommand
  /\ op \in Offered
  /\ command' = [pc |-> "sent", op |-> op, shown |-> view, reply |-> NoRow]
  /\ UNCHANGED <<live, server, view, loading, error, load, details, poll, pending>>

\* The operation commits; its answer, or the defer of its job, may still fail.
CommitCommand ==
  /\ command.pc = "sent"
  /\ server.version < MaxVersion
  /\ Accepts(server, command.op, command.shown.version)
  /\ server' = Commit(server, command.op)
  /\ command' \in { [command EXCEPT !.pc = "accepted", !.reply = server'],
                    [command EXCEPT !.pc = "refused"] }
  /\ UNCHANGED <<live, view, loading, error, load, details, poll, pending>>

\* A conflict, a GitHub refusal before the transaction, a lost request.
RefuseCommand ==
  /\ command.pc = "sent"
  /\ command' = [command EXCEPT !.pc = "refused"]
  /\ UNCHANGED <<live, server, view, loading, error, load, details, poll, pending>>

FormStaysOpen == pending                                                  \* mutant
FormAfterSuccess == "none"

\* Success merges the answer and closes the form; failure leaves a message and
\* everything else as it was.  `finally` clears busy.
ArriveCommand ==
  /\ command.pc \in {"accepted", "refused"}
  /\ IF command.pc = "accepted"
     THEN LET v == Merge(view, command.op, command.reply.version)
          IN  view' = v /\ poll' = PollsAfter(v) /\ pending' = FormAfterSuccess
     ELSE UNCHANGED <<view, poll, pending>>
  /\ command' = NoCommand
  /\ UNCHANGED <<live, server, loading, error, load, details>>

\* execute in a preview: no request, the status of the page's own table.
PreviewStatus ==
  [ generate |-> "planning", publish |-> "pr_opening", approve |-> "approved",
    revise |-> "needs_revision", snooze |-> "snoozed", decline |-> "declined" ]

ExecutePreview(op) ==
  /\ ~live /\ Shown /\ op \in Offered
  /\ view' = Row(PreviewStatus[op], view.version + 1, view.evidence)
  /\ pending' = FormAfterSuccess
  /\ UNCHANGED <<live, server, loading, error, load, details, poll, command>>

-----------------------------------------------------------------------------
MigrationNext ==
  \/ AttemptClaimed \/ AttemptCompleted \/ AttemptFailed
  \/ PublicationEnds \/ OtherDeveloper
  \/ ServeLoad \/ ArriveLoad \/ ArriveDetails
  \/ \E p \in Polls : StartPoll(p) \/ ServePoll(p) \/ ArrivePoll(p)
  \/ \E op \in Forms : OpenForm(op)
  \/ CancelForm
  \/ \E op \in Operations : Execute(op) \/ ExecutePreview(op)
  \/ CommitCommand \/ RefuseCommand \/ ArriveCommand

\* The interval keeps firing while it is set up; requests end, the browser's
\* network stack sees to that, and their callbacks run.
MigrationFairness ==
  /\ WF_migrationVars(ArriveLoad \/ ArriveDetails)
  /\ \A p \in Polls : WF_migrationVars(StartPoll(p) \/ ServePoll(p) \/ ArrivePoll(p))

-----------------------------------------------------------------------------
(* Properties *)

\* Every variable of the page holds what its code can put there.
MigrationTypeOK ==
  /\ live \in BOOLEAN /\ loading \in BOOLEAN /\ error \in BOOLEAN
  /\ server \in Rows /\ view \in Rows \cup {NoRow}
  /\ load \in {NoCall, Sent, Failed} \cup {Answered(row) : row \in {load.row}}
  /\ load.row \in Rows \cup {NoRow}
  /\ details \in {NoCall, Sent}
  /\ \A p \in Polls : /\ poll[p].pc \in {"idle", "sent", "answered", "failed"}
                      /\ poll[p].row \in Rows \cup {NoRow}
  /\ pending \in Forms \cup {"none"}
  /\ command.pc \in {"idle", "sent", "accepted", "refused"}
  /\ command.op \in Operations \cup {"none"}
  /\ {command.shown, command.reply} \subseteq Rows \cup {NoRow}

\* "Blocked migrations ... expose retry only through a valid state transition"
\* (phase-6-migration-inbox.md): while the page shows the row as it is, the
\* control plane accepts every button on it and the form that is open.
OfferedIsAccepted ==
  live /\ Shown /\ view.version = server.version /\ view.status = server.status
    => \A op \in Offered : Accepts(server, op, view.version)

\* "Every request sends the visible migration version": whatever the page's
\* operation commits on is what the developer was looking at, status, version
\* and evidence, however stale or out of order the answers that led there.
DecidedOnWhatWasShown ==
  [][server' # server /\ command' # command => command.shown = server]_migrationVars

\* The statuses a migration has while a worker is to move it on.
Working == {"planning", "generating", "verifying", "pr_opening"}

\* A page that shows work as active does not show an outdated row for ever: it
\* reads the row anew until it shows it as it is, or shows that it cannot.
Outdated == /\ live /\ Shown /\ view.status \in Working
            /\ view.version # server.version
ActiveWorkIsRefreshed == Outdated ~> ~Outdated

\* In a preview the developer walks the control plane's own table: the page's
\* status map, its buttons and its form never take an edge the API would refuse.
Preview == INSTANCE VersionedEntity WITH Table <- MigrationTransitions,
             Start <- "ready", status <- view.status, version <- view.version
PreviewFollowsTheTable ==
  [][~live /\ view' # view => Preview!Advance(1)]_migrationVars

\* "Active migration details refresh every five seconds"
\* (phase-6-migration-inbox.md:62).
ActiveWorkIsPolled ==
  live /\ Shown /\ view.version = server.version /\ server.status \in Working
    => Polled(view)

=============================================================================
