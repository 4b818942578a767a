------------------------------ MODULE RowLocks ------------------------------
(***************************************************************************)
(* The transactions on one migration, its attempts and its pull-request    *)
(* record, statement by statement, with the row locks they take.           *)
(* MigrationLifecycle takes each of these transactions as one action; this *)
(* module says why it may, and that they do not wait for one another for   *)
(* ever.                                                                   *)
(*                                                                         *)
(* A request locks the migration first and the attempt or the record next, *)
(* a worker the other way round.  A statement with FOR UPDATE, or an       *)
(* UPDATE, locks the row its WHERE clause finds until the transaction      *)
(* ends; a row that its clause does not match is passed over, not waited   *)
(* for, and after a wait the clause is evaluated again (READ COMMITTED).   *)
(* Writes are seen by others from the commit on.  Versions are left out: a *)
(* request with a version that is no longer current ends where one with a  *)
(* transition that is not in the table does.                               *)
(***************************************************************************)
EXTENDS Transitions, Sequences, FiniteSets

CONSTANTS Connections,   \* web requests and workers, each with its connection
          MaxAttempts,   \* bound: attempts of the migration
          Faults         \* what may go wrong besides

ASSUME MaxAttemptsAssumption == MaxAttempts \in Nat \ {0}
ASSUME FaultsAssumption == Faults \subseteq {"death", "work", "answer", "claim"}

VARIABLES migration,   \* the migrations row: status, current attempt
          attempt,     \* migration_attempts, by number
          record,      \* the pull_request_records row
          conn,        \* what each connection is doing, and the rows it holds
          raised       \* history: the operations whose worker fails what may be another's

vars == <<migration, attempt, record, conn, raised>>
rows == <<migration, attempt, record>>

-----------------------------------------------------------------------------
Numbers   == 1..MaxAttempts
NoAttempt == [status |-> "absent", approved |-> FALSE]
NoRecord  == [status |-> "absent", attempt |-> 0]
Latest    == Cardinality({n \in Numbers : attempt[n] # NoAttempt})

Transactions == Operations \cup {"claim_attempt", "complete_attempt", "fail_attempt",
  "claim_publication", "complete_publication", "fail_publication"}

\* The tables each transaction reads or writes, statement by statement; the
\* idempotency record and the audit event are rows of its own.
Statements(op) ==
  CASE op \in Decisions -> <<"migration">>
    [] op = "generate"  -> <<"migration", "attempt">>
    [] op = "publish"   -> <<"migration", "evidence", "record">>
    [] op \in {"claim_attempt", "complete_attempt", "fail_attempt"} -> <<"attempt", "migration">>
    [] op = "claim_publication" -> <<"record">>
    [] op \in {"complete_publication", "fail_publication"} -> <<"record", "migration">>

ReadsBeforeDeciding(op, table) ==                                       \* mutant
  table # "evidence" /\ op \notin Decisions
\* All but the attempt's evidence is read for update, or updated.
Locks(op, table) == table # "evidence"

Idle == [pc |-> "idle", op |-> "none", n |-> 0, step |-> 1, held |-> {}, claims |-> FALSE]

\* The analysis has made the migration.
Init ==
  /\ migration = [status |-> "queued", current |-> 0]
  /\ attempt = [n \in Numbers |-> NoAttempt] /\ record = NoRecord
  /\ conn = [c \in Connections |-> Idle] /\ raised = {}

Is(c, pc)     == conn[c].pc = pc
Op(c)         == conn[c].op
Of(c)         == IF Op(c) \in {"generate", "publish"} THEN migration.current ELSE conn[c].n
Goes(c, to)   == conn' = [conn EXCEPT ![c] = to]
Starts(c, op) == Goes(c, [conn[c] EXCEPT !.pc = "open", !.op = op, !.step = 1, !.held = {}])
Fails(c)      == Goes(c, [conn[c] EXCEPT !.pc = "failing", !.held = {}])
Table(c)      == Statements(Op(c))[conn[c].step]
Row(c, table) == <<table, IF table = "attempt" THEN Of(c) ELSE 0>>

-----------------------------------------------------------------------------
(* The statements *)

ClaimsAnyStatus(c, table) ==                                            \* mutant
  CASE Op(c) = "generate" /\ table = "attempt" -> migration.current # 0
    [] Op(c) = "publish"  /\ table = "record"  -> record # NoRecord
    [] Op(c) = "claim_attempt" -> table = "attempt" \/ migration.current = Of(c)
    [] OTHER -> TRUE
\* The WHERE clause of a transaction's statement on a table finds a row.
Finds(c, table) ==
  CASE Op(c) = "generate" /\ table = "attempt" -> migration.current # 0
    [] Op(c) = "publish"  /\ table = "record"  -> record # NoRecord
    [] Op(c) = "claim_attempt" ->
         /\ table = "attempt"   => attempt[Of(c)].status = "planning"
         /\ table = "migration" => migration = [status |-> "planning", current |-> Of(c)]
    [] Op(c) \in {"complete_attempt", "fail_attempt"} ->
         table = "migration" => migration.current = Of(c)
    [] Op(c) = "claim_publication" -> record.status = "queued"
    [] Op(c) = "complete_publication" ->
         /\ table = "record"    => record.status = "publishing"
         /\ table = "migration" => migration = [status |-> "pr_opening", current |-> Of(c)]
    [] Op(c) = "fail_publication" ->
         /\ table = "record"    => record.status = "publishing"
         /\ table = "migration" => migration.status = "pr_opening"
    [] OTHER -> TRUE

\* A statement that finds nothing ends the transaction: quietly, or by raising.
Optional(c, table) ==
  \/ Op(c) \in {"generate", "publish"}
  \/ Op(c) \in {"fail_attempt", "fail_publication"} /\ table = "migration"
MissRaises(c, table) ==
  \/ Op(c) \in {"claim_attempt", "complete_attempt"} /\ table = "migration"
  \/ Op(c) = "complete_publication"

ValidatesLate(c, table) ==                                              \* mutant
  CASE Op(c) = "generate" ->
         table = "attempt" => TargetStatus[Op(c)] \in MigrationTransitions[migration.status]
    [] Op(c) \in Operations /\ table = "migration" ->
         TargetStatus[Op(c)] \in MigrationTransitions[migration.status]
    [] Op(c) = "publish" /\ table = "evidence" ->
         attempt[Of(c)] = [status |-> "completed", approved |-> TRUE]
    [] Op(c) = "complete_attempt" /\ table = "migration" ->
         attempt[Of(c)].status = "generating" /\ migration.status = "generating"
    [] Op(c) = "fail_attempt" /\ table = "attempt" ->
         "failed" \in AttemptTransitions[attempt[Of(c)].status]
    [] OTHER -> TRUE
\* What the code then asks of the row it has read.
Accepts(c, table) ==
  CASE Op(c) \in Operations /\ table = "migration" ->
         TargetStatus[Op(c)] \in MigrationTransitions[migration.status]
    [] Op(c) = "publish" /\ table = "evidence" ->
         attempt[Of(c)] = [status |-> "completed", approved |-> TRUE]
    [] Op(c) = "complete_attempt" /\ table = "migration" ->
         attempt[Of(c)].status = "generating" /\ migration.status = "generating"
    [] Op(c) = "fail_attempt" /\ table = "attempt" ->
         "failed" \in AttemptTransitions[attempt[Of(c)].status]
    [] OTHER -> TRUE

HeldByOthers(c) == UNION {conn[d].held : d \in Connections \ {c}}
Running(c)      == Is(c, "open") /\ conn[c].step <= Len(Statements(Op(c)))
Wanted(c)       == IF Running(c) /\ Locks(Op(c), Table(c)) /\ Finds(c, Table(c))
                   THEN {Row(c, Table(c))} ELSE {}

Statement(c) ==
  /\ Running(c) /\ Wanted(c) \cap HeldByOthers(c) = {}
  /\ LET table == Table(c)
         next  == [conn[c] EXCEPT !.step = @ + 1, !.held = @ \cup Wanted(c)]
     IN  CASE Finds(c, table) /\ Accepts(c, table)     -> Goes(c, next)
           [] Finds(c, table) /\ ~Accepts(c, table)    ->
                IF Op(c) = "complete_attempt" THEN Fails(c) ELSE Goes(c, Idle)
           [] ~Finds(c, table) /\ Optional(c, table)   -> Goes(c, next)
           [] ~Finds(c, table) /\ MissRaises(c, table) -> Fails(c)
           [] OTHER                                    -> Goes(c, Idle)
  /\ UNCHANGED rows

-----------------------------------------------------------------------------
(* The commits *)

MigrationIs(status) == migration' = [migration EXCEPT !.status = status]
AttemptIs(n, value) == attempt' = [attempt EXCEPT ![n] = value]
Status(value)       == [status |-> value, approved |-> FALSE]
HoldsMigration(c)   == <<"migration", 0>> \in conn[c].held

\* What a transaction has written is seen.  A request whose new attempt is out
\* of bounds is given up.
Writes(c) ==
  \/ /\ Op(c) = "generate"
     /\ \E n \in Numbers :
          /\ IF migration.current # 0 /\ attempt[migration.current].status = "created"
             THEN n = migration.current ELSE n = Latest + 1
          /\ AttemptIs(n, Status("planning"))
          /\ migration' = [status |-> "planning", current |-> n]
     /\ UNCHANGED record
  \/ /\ Op(c) = "publish"
     /\ record' = [status |-> "queued", attempt |-> migration.current]
     /\ MigrationIs("pr_opening") /\ UNCHANGED attempt
  \/ /\ Op(c) = "revise" /\ Latest + 1 \in Numbers
     /\ AttemptIs(Latest + 1, Status("created"))
     /\ migration' = [status |-> "needs_revision", current |-> Latest + 1]
     /\ UNCHANGED record
  \/ /\ Op(c) \in Decisions \ {"revise"}
     /\ MigrationIs(TargetStatus[Op(c)]) /\ UNCHANGED <<attempt, record>>
  \/ /\ Op(c) = "claim_attempt"
     /\ AttemptIs(Of(c), Status("generating")) /\ MigrationIs("generating")
     /\ UNCHANGED record
  \/ /\ Op(c) = "complete_attempt"
     /\ \E to \in {"ready", "needs_revision", "blocked"} :
          /\ AttemptIs(Of(c), [status |-> "completed", approved |-> to = "ready"])
          /\ MigrationIs(to)
     /\ UNCHANGED record
  \/ /\ Op(c) = "fail_attempt"
     /\ AttemptIs(Of(c), Status("failed"))
     /\ IF HoldsMigration(c) /\ "blocked" \in MigrationTransitions[migration.status]
        THEN MigrationIs("blocked") ELSE UNCHANGED migration
     /\ UNCHANGED record
  \/ /\ Op(c) = "claim_publication"
     /\ record' = [record EXCEPT !.status = "publishing"]
     /\ UNCHANGED <<migration, attempt>>
  \/ /\ Op(c) = "complete_publication"
     /\ record' = [record EXCEPT !.status = "completed"]
     /\ MigrationIs("pr_opened") /\ UNCHANGED attempt
  \/ /\ Op(c) = "fail_publication"
     /\ record' = [record EXCEPT !.status = "failed"]
     /\ IF HoldsMigration(c) THEN MigrationIs("blocked") ELSE UNCHANGED migration
     /\ UNCHANGED attempt

Claims(op)  == op \in {"claim_attempt", "claim_publication"}
CanCommit(c) == Is(c, "open") /\ ~Running(c)

\* A claim hands the worker its context.
Claimed(c) == [conn[c] EXCEPT !.pc = "working", !.held = {}, !.claims = TRUE,
                              !.n = IF Op(c) = "claim_publication" THEN record.attempt ELSE @]

Commit(c) ==
  /\ CanCommit(c) /\ Writes(c)
  /\ Goes(c, IF Claims(Op(c)) THEN Claimed(c) ELSE Idle)

GiveUp(c) ==
  /\ CanCommit(c) /\ Op(c) \in {"generate", "revise"} /\ Latest = MaxAttempts
  /\ Goes(c, Idle) /\ UNCHANGED rows

-----------------------------------------------------------------------------
(* Requests and workers *)

BeginRequest(c, op) == Is(c, "idle") /\ Starts(c, op) /\ UNCHANGED rows

\* A job of an attempt that has been planned, or of the publication; there may
\* be several of each, and late ones.
BeginJob(c) ==
  /\ Is(c, "idle")
  /\ \/ \E n \in Numbers :
          /\ attempt[n].status \notin {"absent", "created"}
          /\ Goes(c, [Idle EXCEPT !.pc = "open", !.op = "claim_attempt", !.n = n])
     \/ /\ record # NoRecord
        /\ Goes(c, [Idle EXCEPT !.pc = "open", !.op = "claim_publication", !.n = record.attempt])
  /\ UNCHANGED rows

OfAttempt(op) == op \in {"claim_attempt", "complete_attempt", "fail_attempt"}

BeginCompletion(c) ==
  /\ Is(c, "working") /\ UNCHANGED rows
  /\ Starts(c, IF OfAttempt(Op(c)) THEN "complete_attempt" ELSE "complete_publication")

\* The except clause of either task.
BeginFailure(c) ==
  /\ Is(c, "failing") /\ UNCHANGED rows
  /\ Starts(c, IF OfAttempt(Op(c)) THEN "fail_attempt" ELSE "fail_publication")

WorkRaises(c) ==
  /\ "work" \in Faults /\ Is(c, "working") /\ Fails(c) /\ UNCHANGED rows

\* The answer of a commit is lost: a request ends anyhow, a worker fails.  A
\* publication that is complete may be followed by the next before it does.
AnswerIsLost(c) ==
  /\ "answer" \in Faults /\ CanCommit(c) /\ Writes(c)
  /\ Op(c) \in {"claim_attempt", "complete_attempt", "claim_publication", "complete_publication"}
  /\ Goes(c, [Claimed(c) EXCEPT !.pc = "failing"])
  /\ raised' = raised \cup ({Op(c)} \cap {"complete_publication"})

\* The database refuses a connection, or a statement, before the claim is made.
ClaimRaises(c) ==
  /\ "claim" \in Faults /\ Is(c, "open") /\ Claims(Op(c))
  /\ Fails(c) /\ raised' = raised \cup {Op(c)} /\ UNCHANGED rows

\* The process dies, or loses its connection: PostgreSQL rolls back and unlocks.
Dies(c) ==
  /\ "death" \in Faults /\ ~Is(c, "idle") /\ Goes(c, Idle) /\ UNCHANGED rows

Step(c) ==
  \/ /\ \/ \E op \in Operations : BeginRequest(c, op)
        \/ BeginJob(c) \/ BeginCompletion(c) \/ BeginFailure(c)
        \/ Statement(c) \/ Commit(c) \/ GiveUp(c)
        \/ WorkRaises(c) \/ Dies(c)
     /\ UNCHANGED raised
  \/ AnswerIsLost(c) \/ ClaimRaises(c)

Next == \E c \in Connections : Step(c)

Spec == Init /\ [][Next]_vars

-----------------------------------------------------------------------------
(* Properties *)

RowNames == {<<"migration", 0>>, <<"record", 0>>} \cup {<<"attempt", n>> : n \in Numbers}

\* Every variable has its type, and no row is held twice.
TypeOK ==
  /\ migration \in [status : MigrationStatus, current : 0..MaxAttempts]
  /\ attempt \in [Numbers -> [status : AttemptStatus \cup {"absent"}, approved : BOOLEAN]]
  /\ record \in [status : {"absent", "queued", "publishing", "completed", "failed"},
                 attempt : 0..MaxAttempts]
  /\ conn \in [Connections ->
       [pc : {"idle", "open", "working", "failing"}, op : Transactions \cup {"none"},
        n : 0..MaxAttempts, step : 1..4, held : SUBSET RowNames, claims : BOOLEAN]]
  /\ raised \subseteq Transactions
  /\ \A c, d \in Connections : c # d => conn[c].held \cap conn[d].held = {}

\* Although requests and workers take the rows in opposite orders, they never
\* wait for one another in a circle: validate_transition refuses, under the
\* migration's lock, every request whose second row a worker can be holding.  A
\* claim that raises takes the work of another away from it, and with it the
\* migration out of the statuses in which requests are refused.
WaitsFor(c, d) == c # d /\ Wanted(c) \cap conn[d].held # {}

NoDeadlock ==
  "claim_attempt" \notin raised =>
    \A some \in (SUBSET Connections) \ {{}} :
      \E c \in some : \A d \in some : ~WaitsFor(c, d)

\* What a transaction has read and checked still holds when it commits, also what
\* it read without a lock or did not find: each commit is as if the transaction
\* had run alone at that moment, which is how MigrationLifecycle models it.
StillHolds(c, table) ==
  /\ Locks(Op(c), table) => (Finds(c, table) <=> Row(c, table) \in conn[c].held)
  /\ Finds(c, table) => Accepts(c, table)

ChecksHold ==
  \A c \in Connections :
    CanCommit(c) => \A i \in DOMAIN Statements(Op(c)) : StillHolds(c, Statements(Op(c))[i])

\* "Workers claim transitions with compare-and-set semantics; stale jobs may not
\* advance entities whose expected state or version changed" (domain-model.md:267):
\* a claimed attempt is ended by the worker that claimed it, unless the claim of
\* another job of it has raised; a claimed publication too, unless an earlier
\* claim has raised or the answer of an earlier completion was lost.  The except
\* clause then fails what by that time is the publication of a later attempt: the
\* record has no mark of whose it is.
EndedBy(c, n) == conn[c].claims /\ conn'[c] # conn[c] /\ conn[c].n = n

ClaimantsSettle ==
  [][/\ "claim_attempt" \notin raised =>
          \A n \in Numbers : attempt[n].status = "generating" /\ attempt'[n] # attempt[n] =>
            \E c \in Connections : EndedBy(c, n) /\ OfAttempt(Op(c))
     /\ raised \cap {"claim_publication", "complete_publication"} = {} =>
          (record.status = "publishing" /\ record' # record =>
             \E c \in Connections : EndedBy(c, record.attempt) /\ ~OfAttempt(Op(c)))]_vars

=============================================================================
