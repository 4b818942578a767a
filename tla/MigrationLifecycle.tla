------------------------ MODULE MigrationLifecycle ------------------------
(***************************************************************************)
(* One migration row, its attempts, its pull-request record, the HTTP      *)
(* requests that act on it and the queue jobs that execute its work.       *)
(*                                                                         *)
(* Every database transaction of the stores is one action: the row lock    *)
(* (FOR UPDATE, or the UPDATE itself) is taken before anything is          *)
(* validated and held until commit.  What is NOT in one transaction is     *)
(* kept apart: the idempotency lookup, the locked transaction, the defer   *)
(* of the job after commit, the claim by a worker, the long external work, *)
(* and the completion or failure transaction.                              *)
(*                                                                         *)
(* Attempts are identified by their number, which is unique per migration. *)
(***************************************************************************)
EXTENDS Transitions, FiniteSets

CONSTANTS Requests,     \* HTTP requests the web process may hold at once
          Keys,         \* Idempotency-Key values clients send
          ClientOps,    \* the operations clients use: all, or fewer in an instance
          JobSlots,     \* bound: queue rows that are waiting or executing
          MaxAttempts   \* bound: attempts of the migration

ASSUME MaxAttemptsAssumption == MaxAttempts \in Nat \ {0}

VARIABLES status, version, current,   \* the migrations row
          attempt,                    \* migration_attempts, by number
          publication,                \* the migration's pull_request_records row
          idem,                       \* idempotency_records
          req,                        \* requests being served
          job                         \* procrastinate jobs and their workers

row  == <<status, version, current>>
db   == <<row, attempt, publication, idem>>
vars == <<status, version, current, attempt, publication, idem, req, job>>

-----------------------------------------------------------------------------
AttemptIds == 1..MaxAttempts

ASSUME ClientOpsAssumption == ClientOps \subseteq Operations

OutcomeDecides == [ approve |-> "ready",   revise  |-> "needs_revision",  \* mutant
                    snooze  |-> "blocked", decline |-> "declined" ]
\* Where complete_attempt takes the migration, by recommended action.
Outcome == [ approve |-> "ready",   revise  |-> "needs_revision",
             snooze  |-> "blocked", decline |-> "blocked" ]

\* What executor.execute can return: a "passed" result with a check that did
\* not pass, or with an unconfirmed teardown, is rejected there.
Executions ==
  { e \in [ status : {"passed", "failed", "blocked", "infrastructure_error"},
            checksPassed : BOOLEAN, destroyed : BOOLEAN ] :
      e.status = "passed" => e.checksPassed /\ e.destroyed }

\* _guard_recommendation
Guarded(action, e) ==
  IF action # "approve" \/ (e.status = "passed" /\ e.destroyed) THEN action
  ELSE IF e.status = "failed" THEN "revise" ELSE "snooze"

NoAttempt == [ status |-> "absent", version |-> 0, key |-> "none", prev |-> 0,
               verdict |-> "none", verified |-> FALSE ]
NewAttempt(key, prev) == [ NoAttempt EXCEPT !.status = "created", !.version = 1,
                                            !.key = key, !.prev = prev ]
\* UPDATE ... SET status = to, version = version + edges
Moved(a, to, edges) == [a EXCEPT !.status = to, !.version = @ + edges]

Serving(pc, op, key, expected, n) ==
  [ pc |-> pc, op |-> op, key |-> key, expected |-> expected, attempt |-> n ]
NoRequest == Serving("idle", "none", "none", 0, 0)
NoJob     == [ pc |-> "free", kind |-> "none", attempt |-> 0 ]

-----------------------------------------------------------------------------
Init ==
  /\ status = "queued" /\ version = 1 /\ current = 0
  /\ attempt = [n \in AttemptIds |-> NoAttempt]
  /\ publication = [status |-> "absent", attempt |-> 0]
  /\ idem = {}
  /\ req = [r \in Requests |-> NoRequest]
  /\ job = [j \in JobSlots |-> NoJob]

-----------------------------------------------------------------------------
(* Requests *)

Existing == {n \in AttemptIds : attempt[n].status # "absent"}

\* COALESCE(MAX(number), 0)
LatestUnfailed ==                                                       \* mutant
  LET S == {n \in Existing : attempt[n].status # "failed"}
  IN  IF S = {} THEN 0 ELSE CHOOSE n \in S : \A m \in S : m <= n
LatestNumber ==
  IF Existing = {} THEN 0
  ELSE CHOOSE n \in Existing : \A m \in Existing : m <= n

\* UNIQUE (workspace_id, migration_id, idempotency_key) on migration_attempts
KeyUnused(key) == \A n \in Existing : attempt[n].key # key

Prior(op, key) == {i \in idem : i.op = op /\ i.key = key}

HasCreatedAttempt == current # 0 /\ attempt[current].status = "created"

\* The current attempt may be handed to the publisher.
Publishable == /\ current # 0
               /\ attempt[current].status = "completed"
               /\ attempt[current].verdict = "approve"
               /\ attempt[current].verified

AcceptedUnchecked(q) ==                                                 \* mutant
  /\ ValidTransition(MigrationTransitions, status, TargetStatus[q.op],
                     version, q.expected)
  /\ Prior(q.op, q.key) = {}
  /\ q.op = "generate" => HasCreatedAttempt \/ KeyUnused(q.key)
  /\ q.op = "revise"   => KeyUnused(q.key)

\* The request's transaction commits; otherwise it raises and rolls back.
Accepted(q) ==
  /\ ValidTransition(MigrationTransitions, status, TargetStatus[q.op],
                     version, q.expected)
  /\ Prior(q.op, q.key) = {}
  /\ q.op = "generate" => HasCreatedAttempt \/ KeyUnused(q.key)
  /\ q.op = "revise"   => KeyUnused(q.key)
  /\ q.op = "publish"  => Publishable

\* The response is stored under the key in the same transaction.
Remember(q, n, v) ==
  idem' = idem \cup {[ op |-> q.op, key |-> q.key, expected |-> q.expected,
                       attempt |-> n, version |-> v ]}

\* A request arrives with a version its client has read, or is sent again as it
\* was, and the idempotency lookup runs without a lock.  A hit with the same
\* payload replays the stored response, and generate and publish defer once
\* more; a hit with another payload is a conflict.
BeginRequest(r, op, key, expected) ==
  /\ req[r].pc = "idle"
  /\ req' = [req EXCEPT ![r] =
       IF Prior(op, key) = {} THEN Serving("checked", op, key, expected, 0)
       ELSE LET i == CHOOSE i \in Prior(op, key) : TRUE
            IN  IF i.expected = expected /\ op \in {"generate", "publish"}
                THEN Serving("committed", op, key, expected, i.attempt)
                ELSE NoRequest]
  /\ UNCHANGED <<row, attempt, publication, idem, job>>

\* queue_attempt: reuse the attempt a revision created, or insert the next one.
QueueAttempt(r) ==
  LET q == req[r]
      n == IF HasCreatedAttempt THEN current ELSE LatestNumber + 1
      a == IF HasCreatedAttempt THEN attempt[current]
           ELSE NewAttempt(q.key, current)
  IN  /\ q.pc = "checked" /\ q.op = "generate" /\ Accepted(q)
      /\ n \in AttemptIds
      /\ attempt' = [attempt EXCEPT ![n] = Moved(a, "planning", 1)]
      /\ status' = "planning" /\ version' = version + 1 /\ current' = n
      /\ Remember(q, n, version + 1)
      /\ req' = [req EXCEPT ![r] = [q EXCEPT !.pc = "committed", !.attempt = n]]
      /\ UNCHANGED <<publication, job>>

\* queue_publication: insert the migration's record or queue it again.
QueuePublication(r) ==
  LET q == req[r]
  IN  /\ q.pc = "checked" /\ q.op = "publish" /\ Accepted(q)
      /\ publication' = [status |-> "queued", attempt |-> current]
      /\ status' = "pr_opening" /\ version' = version + 1
      /\ Remember(q, current, version + 1)
      /\ req' = [req EXCEPT ![r] = [q EXCEPT !.pc = "committed", !.attempt = current]]
      /\ UNCHANGED <<current, attempt, job>>

\* apply_developer_action: a revision also creates the next attempt.
ApplyDeveloperAction(r) ==
  LET q == req[r]
      n == IF q.op = "revise" THEN LatestNumber + 1 ELSE current
  IN  /\ q.pc = "checked" /\ q.op \in Decisions /\ Accepted(q)
      /\ q.op = "revise" => n \in AttemptIds
      /\ attempt' = IF q.op = "revise"
                    THEN [attempt EXCEPT ![n] = NewAttempt(q.key, LatestNumber)]
                    ELSE attempt
      /\ status' = TargetStatus[q.op] /\ version' = version + 1 /\ current' = n
      /\ Remember(q, n, version + 1)
      /\ req' = [req EXCEPT ![r] = NoRequest]
      /\ UNCHANGED <<publication, job>>

\* The transaction raised: 404, 409 or, on a violated constraint, 500.
RejectRequest(r) ==
  /\ req[r].pc = "checked" /\ ~Accepted(req[r])
  /\ req' = [req EXCEPT ![r] = NoRequest]
  /\ UNCHANGED <<db, job>>

\* After the commit the router defers the job, then answers.
DeferJob(r, j) ==
  /\ req[r].pc = "committed" /\ job[j].pc = "free"
  /\ job' = [job EXCEPT ![j] =
       IF req[r].op = "generate"
       THEN [pc |-> "todo", kind |-> "generation", attempt |-> req[r].attempt]
       ELSE [pc |-> "todo", kind |-> "publication", attempt |-> 0]]
  /\ req' = [req EXCEPT ![r] = NoRequest]
  /\ UNCHANGED db

-----------------------------------------------------------------------------
(* The generation worker *)

Waiting(j, kind) == job[j].pc = "todo"    /\ job[j].kind = kind
Running(j, kind) == job[j].pc = "running" /\ job[j].kind = kind
Failing(j, kind) == job[j].pc = "failing" /\ job[j].kind = kind

\* The compare-and-set of the claim
ClaimableTwice(n) == attempt[n].status \in {"planning", "generating"}      \* mutant
Claimable(n) == attempt[n].status = "planning"

\* claim_attempt.  An attempt that is not "planning" is skipped; a migration
\* that no longer owns it rolls the claim back; inputs that turn out to be
\* missing are only noticed after the claim has been committed.
ClaimAttempt(j, inputsFound) ==
  LET n == job[j].attempt
  IN  /\ Waiting(j, "generation")
      /\ IF ~Claimable(n)
         THEN job' = [job EXCEPT ![j] = NoJob] /\ UNCHANGED db
         ELSE IF status = "planning" /\ current = n
         THEN /\ attempt' = [attempt EXCEPT ![n] = Moved(@, "generating", 1)]
              /\ status' = "generating" /\ version' = version + 1
              /\ job' = [job EXCEPT ![j].pc =
                           IF inputsFound THEN "running" ELSE "failing"]
              /\ UNCHANGED <<current, publication, idem>>
         ELSE job' = [job EXCEPT ![j].pc = "failing"] /\ UNCHANGED db
      /\ UNCHANGED req

\* Checkout, digest comparison, model, patch policy, sandbox or review raised.
GenerationRaises(j) ==
  /\ Running(j, "generation")
  /\ job' = [job EXCEPT ![j].pc = "failing"]
  /\ UNCHANGED <<db, req>>

\* complete_attempt, with the recommendation the service has guarded.
CompleteAttempt(j, action, e) ==
  LET n       == job[j].attempt
      verdict == Guarded(action, e)
  IN  /\ Running(j, "generation")
      /\ IF /\ attempt[n].status = "generating"
            /\ status = "generating" /\ current = n
            /\ Outcome[verdict] = "ready" => e.checksPassed
         THEN /\ attempt' = [attempt EXCEPT ![n] =
                             [Moved(@, "completed", 3) EXCEPT
                                !.verdict = verdict, !.verified = e.checksPassed]]
              /\ status' = Outcome[verdict] /\ version' = version + 2
              /\ job' = [job EXCEPT ![j] = NoJob]
              /\ UNCHANGED <<current, publication, idem>>
         ELSE job' = [job EXCEPT ![j].pc = "failing"] /\ UNCHANGED db
      /\ UNCHANGED req

\* A failing attempt takes its migration with it while that still owns it.
BlocksAnyway(n) == "blocked" \in MigrationTransitions[status]              \* mutant
BlocksOnlyPlanning(n) == current = n /\ status = "planning"               \* mutant
Blocks(n) == current = n /\ "blocked" \in MigrationTransitions[status]

\* fail_attempt, in the task's except clause.
FailAttempt(j) ==
  LET n == job[j].attempt
  IN  /\ Failing(j, "generation")
      /\ IF attempt[n].status \in AttemptStatus
            /\ "failed" \in AttemptTransitions[attempt[n].status]
         THEN /\ attempt' = [attempt EXCEPT ![n] = Moved(@, "failed", 1)]
              /\ IF Blocks(n)
                 THEN status' = "blocked" /\ version' = version + 1
                 ELSE UNCHANGED <<status, version>>
         ELSE UNCHANGED <<attempt, status, version>>
      /\ job' = [job EXCEPT ![j] = NoJob]
      /\ UNCHANGED <<current, publication, idem, req>>

-----------------------------------------------------------------------------
(* The publication worker; what it does to GitHub is module Publication. *)

\* claim_publication
ClaimPublication(j, inputsFound) ==
  /\ Waiting(j, "publication")
  /\ IF publication.status = "queued"
     THEN /\ publication' = [publication EXCEPT !.status = "publishing"]
          /\ job' = [job EXCEPT ![j] =
                       [@ EXCEPT !.pc = IF inputsFound THEN "running" ELSE "failing",
                                 !.attempt = publication.attempt]]
     ELSE /\ job' = [job EXCEPT ![j] = NoJob]
          /\ UNCHANGED publication
  /\ UNCHANGED <<row, attempt, idem, req>>

\* The release gate, the patch loader or GitHub raised.
PublicationRaises(j) ==
  /\ Running(j, "publication")
  /\ job' = [job EXCEPT ![j].pc = "failing"]
  /\ UNCHANGED <<db, req>>

\* complete_publication
CompletePublication(j) ==
  /\ Running(j, "publication")
  /\ IF /\ publication.status = "publishing"
        /\ status = "pr_opening" /\ current = job[j].attempt
     THEN /\ publication' = [publication EXCEPT !.status = "completed"]
          /\ status' = "pr_opened" /\ version' = version + 1
          /\ job' = [job EXCEPT ![j] = NoJob]
          /\ UNCHANGED <<current, attempt, idem>>
     ELSE job' = [job EXCEPT ![j].pc = "failing"] /\ UNCHANGED db
  /\ UNCHANGED req

FailPublicationOnly(j) ==                                               \* mutant
  /\ Failing(j, "publication")
  /\ publication' = [publication EXCEPT !.status = "failed"]
  /\ job' = [job EXCEPT ![j] = NoJob]
  /\ UNCHANGED <<row, attempt, idem, req>>

\* fail_publication
FailPublication(j) ==
  /\ Failing(j, "publication")
  /\ IF publication.status = "publishing"
     THEN /\ publication' = [publication EXCEPT !.status = "failed"]
          /\ IF status = "pr_opening"
             THEN status' = "blocked" /\ version' = version + 1
             ELSE UNCHANGED <<status, version>>
     ELSE UNCHANGED <<publication, status, version>>
  /\ job' = [job EXCEPT ![j] = NoJob]
  /\ UNCHANGED <<current, attempt, idem, req>>

-----------------------------------------------------------------------------
(* Faults: the web process dies, or the connection is lost, between two     *)
(* steps of a request; a worker process dies and its job is never resumed.  *)

WebCrash(r) ==
  /\ req[r].pc \in {"checked", "committed"}
  /\ req' = [req EXCEPT ![r] = NoRequest]
  /\ UNCHANGED <<db, job>>

WorkerCrash(j) ==
  /\ job[j].pc \in {"running", "failing"}
  /\ job' = [job EXCEPT ![j] = NoJob]
  /\ UNCHANGED <<db, req>>

-----------------------------------------------------------------------------
Request(r) ==
  \/ \E op \in ClientOps, key \in Keys :
       \E expected \in {version} \cup {i.expected : i \in Prior(op, key)} :
         BeginRequest(r, op, key, expected)
  \/ QueueAttempt(r)
  \/ QueuePublication(r)
  \/ ApplyDeveloperAction(r)
  \/ RejectRequest(r)
  \/ \E j \in JobSlots : DeferJob(r, j)

Worker(j) ==
  \/ \E found \in BOOLEAN : ClaimAttempt(j, found) \/ ClaimPublication(j, found)
  \/ GenerationRaises(j)
  \/ \E action \in Decisions, e \in Executions : CompleteAttempt(j, action, e)
  \/ FailAttempt(j)
  \/ PublicationRaises(j)
  \/ CompletePublication(j)
  \/ FailPublication(j)

Fault == \/ \E r \in Requests : WebCrash(r)
         \/ \E j \in JobSlots : WorkerCrash(j)

Step == \/ \E r \in Requests : Request(r)
        \/ \E j \in JobSlots : Worker(j)

Next == Step \/ Fault

Spec == Init /\ [][Next]_vars

\* A request the server has committed is carried to its defer, and a worker
\* that has taken a job goes on with it.  Clients are under no obligation.
\* Strong fairness of the defer only undoes the bound on the queue's length:
\* a slot that frees again and again is eventually the request's.
Fairness == /\ \A r \in Requests : SF_vars(\E j \in JobSlots : DeferJob(r, j))
            /\ \A j \in JobSlots : WF_vars(Worker(j))

CalmSpec   == Init /\ [][Step]_vars /\ Fairness    \* nothing crashes
CrashySpec == Init /\ [][Next]_vars /\ Fairness    \* anything may

-----------------------------------------------------------------------------
(* Properties *)

JobPc == {"free", "todo", "running", "failing"}

AttemptRow ==
  [ status : AttemptStatus \cup {"absent"}, version : Nat,
    key : Keys \cup {"none"}, prev : 0..MaxAttempts,
    verdict : Decisions \cup {"none"}, verified : BOOLEAN ]
IdemRow ==
  [ op : Operations, key : Keys, expected : Nat, attempt : 0..MaxAttempts,
    version : Nat ]
RequestRecord ==
  {NoRequest} \cup
  [ pc : {"checked", "committed"}, op : Operations, key : Keys, expected : Nat,
    attempt : 0..MaxAttempts ]
JobRecord ==
  [ pc : JobPc, kind : {"none", "generation", "publication"},
    attempt : 0..MaxAttempts ]

\* Every variable has its type.
TypeOK ==
  /\ status \in MigrationStatus /\ version \in Nat /\ current \in 0..MaxAttempts
  /\ attempt \in [AttemptIds -> AttemptRow]
  /\ publication \in [ status : {"absent", "queued", "publishing", "completed", "failed"},
                       attempt : 0..MaxAttempts ]
  /\ idem \in SUBSET IdemRow
  /\ req \in [Requests -> RequestRecord]
  /\ job \in [JobSlots -> JobRecord]

\* A migration that may reach, is reaching or has reached GitHub stands on a
\* current attempt that completed, was recommended for approval and passed
\* every check, whatever decisions, retries and late jobs came in between.
PublishedIsVerified ==
  status \in {"ready", "pr_opening", "pr_opened", "approved"} => Publishable

\* The current attempt is always the newest one, and each attempt names its
\* predecessor: a revision takes MAX(number) while a generation request takes
\* current_attempt_id, and the two never disagree.
HistoryIsAChain ==
  /\ Existing = 1..current
  /\ \A n \in Existing : attempt[n].prev = n - 1

\* The current attempt is in step with its migration.  An attempt that is not
\* current has ended, or is the one a developer revised while it was being
\* generated ("generating" -> "needs_revision" is an edge of the table): it was
\* never started twice and is never planned again.
AttemptFollowsMigration ==
  /\ current # 0 =>
       /\ status = "planning"   <=> attempt[current].status = "planning"
       /\ status = "generating" <=> attempt[current].status = "generating"
       /\ attempt[current].status = "created" => status = "needs_revision"
  /\ \A n \in Existing \ {current} :
       attempt[n].status \in {"generating", "completed", "failed"}

\* The pull-request record is active exactly while the migration is pr_opening,
\* is completed once it is pr_opened, and is then about the current attempt.
PublicationFollowsMigration ==
  /\ status = "pr_opening" <=> publication.status \in {"queued", "publishing"}
  /\ status \in {"pr_opened", "approved"} => publication.status = "completed"
  /\ status \in {"pr_opening", "pr_opened", "approved"} =>
       publication.attempt = current

\* Past its claim a worker has its attempt, or the publication, to itself:
\* duplicate jobs (a replayed request defers again) and stale jobs are all
\* turned away at the claim.
Busy(j, kind) == job[j].kind = kind /\ job[j].pc \in {"running", "failing"}

WorkerOwnsItsWork ==
  /\ \A j \in JobSlots :
       /\ Busy(j, "generation") => /\ job[j].attempt \in Existing
                                   /\ attempt[job[j].attempt].status = "generating"
       /\ Busy(j, "publication") => /\ status = "pr_opening"
                                    /\ current = job[j].attempt
                                    /\ publication.status = "publishing"
  /\ \A i, j \in JobSlots : \A kind \in {"generation", "publication"} :
       Busy(i, kind) /\ Busy(j, kind) /\ job[i].attempt = job[j].attempt => i = j

\* Two accepted requests never acted on the same version of the migration, and
\* no key was accepted twice: a request either saw the state it changed, or
\* was refused (contracts.md, "Concurrent or stale actions fail").
NoLostDecision ==
  \A i, k \in idem :
    i.expected = k.expected \/ (i.op = k.op /\ i.key = k.key) => i = k

\* An attempt that is completed or failed is never written again.
TerminalAttemptsStay ==
  [][\A n \in AttemptIds : attempt[n].status \in {"completed", "failed"} =>
       attempt'[n] = attempt[n]]_vars

\* A job of an attempt that is no longer current changes nothing but that
\* attempt, and can only fail it (domain-model.md, "stale jobs may not advance
\* entities").
StaleJobsAdvanceNothing ==
  [][\A n \in AttemptIds :
       attempt'[n] # attempt[n] /\ n \notin {current, current'} =>
         attempt'[n].status = "failed" /\ UNCHANGED <<row, publication, idem>>]_vars

\* The migration implements the versioned row: it moves along the table only
\* and its version counts the edges, also where one transaction makes several.
Row == INSTANCE VersionedEntity WITH Table <- MigrationTransitions, Start <- "queued"
MigrationIsVersioned == Row!Spec

\* So does each attempt, from its creation on.
AttemptTable == [ s \in AttemptStatus \cup {"absent"} |->
                    IF s = "absent" THEN {"created"} ELSE AttemptTransitions[s] ]
Entity(n) == INSTANCE VersionedEntity
               WITH Table <- AttemptTable, Start <- "absent",
                    status <- attempt[n].status, version <- attempt[n].version
AttemptsAreVersioned ==
  [][\A n \in AttemptIds : attempt'[n] = attempt[n] \/ Entity(n)!Next]_vars

\* Without crashes every generation that was requested reaches a verdict or a
\* visible failure (CalmSpec).
GenerationSettles ==
  status \in {"planning", "generating"} ~>
    status \in {"ready", "needs_revision", "blocked"}

\* Without crashes every publication that was requested is opened or blocked.
PublicationSettles ==
  status = "pr_opening" ~> status \in {"pr_opened", "blocked"}

\* contracts.md:359-360, "poison jobs become a visible blocked/failed state":
\* also when the job takes its worker process down (CrashySpec).  A developer may
\* revise a migration that is generating, but nobody has to.
PoisonJobsBecomeVisible ==
  status = "generating" ~> status \in {"ready", "needs_revision", "blocked"}

=============================================================================
