---------------------- MODULE MigrationLifecycleProofs ----------------------
(***************************************************************************)
(* What MigrationLifecycle guarantees for every number of requests, keys,  *)
(* job slots and attempts.                                                 *)
(*                                                                         *)
(* The argument has one base, the inductive invariant Base: the rows have  *)
(* their types and the attempts form a chain that ends in the current one. *)
(* Every other invariant is preserved by each step that starts in a state  *)
(* satisfying Base and the invariants proved before it.                    *)
(***************************************************************************)
EXTENDS MigrationLifecycle, TLAPS

-----------------------------------------------------------------------------
(* The tables, row by row, and the operators the actions are built from. *)

\* The migration table read off edge by edge (control_plane/state.py,
\* MIGRATION_TRANSITIONS); the provers never expand the function itself.
LEMMA MigrationRows ==
  /\ MigrationStatus = { "queued", "planning", "generating", "verifying", "ready",
                         "needs_revision", "blocked", "pr_opening", "pr_opened",
                         "snoozed", "declined", "approved", "completed" }
  /\ MigrationTransitions["queued"]         = {"planning"}
  /\ MigrationTransitions["planning"]       = {"generating", "blocked"}
  /\ MigrationTransitions["generating"]     = {"verifying", "needs_revision", "blocked"}
  /\ MigrationTransitions["verifying"]      = {"ready", "needs_revision", "blocked"}
  /\ MigrationTransitions["ready"]          = {"pr_opening", "needs_revision",
                                               "snoozed", "declined"}
  /\ MigrationTransitions["needs_revision"] = {"planning"}
  /\ MigrationTransitions["blocked"]        = {"planning", "pr_opening"}
  /\ MigrationTransitions["pr_opening"]     = {"pr_opened", "blocked"}
  /\ MigrationTransitions["pr_opened"]      = {"approved", "needs_revision",
                                               "snoozed", "declined"}
  /\ MigrationTransitions["snoozed"]        = {"queued"}
  /\ MigrationTransitions["declined"]       = {"queued"}
  /\ MigrationTransitions["approved"]       = {"completed"}
  /\ MigrationTransitions["completed"]      = {}
BY DEF MigrationStatus, MigrationTransitions

\* The attempt table likewise (ATTEMPT_TRANSITIONS).
LEMMA AttemptRows ==
  /\ AttemptStatus = { "created", "planning", "generating", "verifying",
                       "reviewing", "completed", "failed", "cancelled" }
  /\ AttemptTransitions["created"]    = {"planning", "cancelled"}
  /\ AttemptTransitions["planning"]   = {"generating", "failed", "cancelled"}
  /\ AttemptTransitions["generating"] = {"verifying", "failed", "cancelled"}
  /\ AttemptTransitions["verifying"]  = {"reviewing", "failed", "cancelled"}
  /\ AttemptTransitions["reviewing"]  = {"completed", "failed", "cancelled"}
  /\ AttemptTransitions["completed"]  = {}
  /\ AttemptTransitions["failed"]     = {}
  /\ AttemptTransitions["cancelled"]  = {}
BY DEF AttemptStatus, AttemptTransitions

\* A row that moves keeps everything but its status and version.
LEMMA MovedRow ==
  ASSUME NEW a \in AttemptRow, NEW to \in AttemptStatus, NEW edges \in Nat
  PROVE  /\ Moved(a, to, edges) \in AttemptRow
         /\ Moved(a, to, edges).status   = to
         /\ Moved(a, to, edges).version  = a.version + edges
         /\ Moved(a, to, edges).key      = a.key
         /\ Moved(a, to, edges).prev     = a.prev
         /\ Moved(a, to, edges).verdict  = a.verdict
         /\ Moved(a, to, edges).verified = a.verified
<1> DEFINE v == a.version + edges
<1>1. v \in Nat
  BY DEF AttemptRow
<1>2. Moved(a, to, edges) = [a EXCEPT !.status = to, !.version = v]
  BY DEF Moved
<1> HIDE DEF v
<1>3. [a EXCEPT !.status = to, !.version = v] \in AttemptRow
  BY <1>1 DEF AttemptRow
<1>4. QED
  BY <1>2, <1>3 DEF AttemptRow, v

\* A new attempt is a well-formed row in its first version.
LEMMA NewAttemptRow ==
  ASSUME NEW key \in Keys, NEW prev \in 0..MaxAttempts
  PROVE  /\ NewAttempt(key, prev) \in AttemptRow
         /\ NewAttempt(key, prev).status = "created"
         /\ NewAttempt(key, prev).version = 1
         /\ NewAttempt(key, prev).prev = prev
BY AttemptRows DEF NewAttempt, NoAttempt, AttemptRow

\* The guard of the recommendation lets an approval through only for an
\* execution that passed, and then every check has passed.
LEMMA GuardedVerdict ==
  ASSUME NEW action \in Decisions, NEW e \in Executions
  PROVE  /\ Guarded(action, e) \in Decisions
         /\ Guarded(action, e) = "approve" => e.checksPassed
         /\ Outcome[Guarded(action, e)] \in {"ready", "needs_revision", "blocked"}
         /\ Outcome[Guarded(action, e)] = "ready" => Guarded(action, e) = "approve"
BY DEF Decisions, Executions, Guarded, Outcome

\* A request in service is a well-formed record.
LEMMA ServingRecord ==
  ASSUME NEW pc \in {"checked", "committed"}, NEW op \in Operations,
         NEW key \in Keys, NEW expected \in Nat, NEW n \in 0..MaxAttempts
  PROVE  Serving(pc, op, key, expected, n) \in RequestRecord
BY DEF Serving, RequestRecord

\* A request that is being served has an operation, a key and a version.
LEMMA ServedRequest ==
  ASSUME NEW q \in RequestRecord, q.pc # "idle"
  PROVE  /\ q.op \in Operations /\ q.key \in Keys /\ q.expected \in Nat
         /\ q.attempt \in 0..MaxAttempts
         /\ \A n \in 0..MaxAttempts :
              [q EXCEPT !.pc = "committed", !.attempt = n] \in RequestRecord
<1>1. q \in [ pc : {"checked", "committed"}, op : Operations, key : Keys,
              expected : Nat, attempt : 0..MaxAttempts ]
  BY DEF RequestRecord, NoRequest, Serving
<1>2. QED
  BY <1>1 DEF RequestRecord

\* A response that is stored is a well-formed record.
LEMMA RememberedRows ==
  ASSUME idem \in SUBSET IdemRow, NEW q \in RequestRecord, q.pc # "idle",
         NEW n \in 0..MaxAttempts, NEW v \in Nat, Remember(q, n, v)
  PROVE  idem' \in SUBSET IdemRow
<1>1. [ op |-> q.op, key |-> q.key, expected |-> q.expected, attempt |-> n,
        version |-> v ] \in IdemRow
  BY ServedRequest DEF IdemRow
<1>2. QED
  BY <1>1 DEF Remember

\* A job that moves on, or ends, is a well-formed record.
LEMMA JobRecords ==
  /\ NoJob \in JobRecord
  /\ \A q \in JobRecord, pc \in JobPc : [q EXCEPT !.pc = pc] \in JobRecord
BY MaxAttemptsAssumption DEF NoJob, JobRecord, JobPc

\* Moving one job along keeps the queue well-formed.
LEMMA JobMoves ==
  ASSUME job \in [JobSlots -> JobRecord], NEW j \in JobSlots, NEW pc \in JobPc
  PROVE  [job EXCEPT ![j].pc = pc] \in [JobSlots -> JobRecord]
<1>1. [job[j] EXCEPT !.pc = pc] \in JobRecord
  BY JobRecords
<1>2. QED
  BY <1>1

\* What a worker does to the queue with one job: it drops it, starts it, or
\* leaves it to be tried again.
LEMMA JobSteps ==
  ASSUME job \in [JobSlots -> JobRecord], NEW j \in JobSlots
  PROVE  /\ [job EXCEPT ![j] = NoJob] \in [JobSlots -> JobRecord]
         /\ [job EXCEPT ![j].pc = "failing"] \in [JobSlots -> JobRecord]
         /\ [job EXCEPT ![j].pc = "running"] \in [JobSlots -> JobRecord]
<1>1. [job EXCEPT ![j] = NoJob] \in [JobSlots -> JobRecord]
  BY JobRecords
<1>2. "failing" \in JobPc /\ "running" \in JobPc
  BY DEF JobPc
<1>3. QED
  BY <1>1, <1>2, JobMoves

-----------------------------------------------------------------------------
(* Types, and the chain of attempts. *)

\* A job, a request to be deferred and a stored response of a generation name
\* an attempt that exists.
ReferencesExist ==
  /\ \A j \in JobSlots : job[j].kind = "generation" => job[j].attempt \in Existing
  /\ \A r \in Requests : req[r].pc = "committed" /\ req[r].op = "generate" =>
       req[r].attempt \in Existing
  /\ \A i \in idem : i.op = "generate" => i.attempt \in Existing

Base == TypeOK /\ HistoryIsAChain /\ ReferencesExist

\* With the attempts in a chain, the next number is the one after the current.
LEMMA LatestIsCurrent == Base => LatestNumber = current
<1> SUFFICES ASSUME Base PROVE LatestNumber = current
  OBVIOUS
<1>1. current \in 0..MaxAttempts /\ Existing = 1..current
  BY DEF Base, TypeOK, HistoryIsAChain
<1>2. CASE current = 0
  BY <1>1, <1>2 DEF LatestNumber
<1>3. CASE current # 0
  <2>1. current \in Existing /\ \A m \in Existing : m <= current
    BY <1>1, <1>3
  <2>2. \A n \in Existing : (\A m \in Existing : m <= n) => n = current
    BY <1>1, <2>1
  <2>3. QED
    BY <2>1, <2>2 DEF LatestNumber
<1>4. QED
  BY <1>2, <1>3

\* An update that keeps a row's predecessor, and a row that is there, keeps the
\* chain as it is.
LEMMA UpdateKeepsBase ==
  ASSUME Base, NEW n \in Existing, NEW a \in AttemptRow,
         attempt' = [attempt EXCEPT ![n] = a],
         a.status # "absent", a.prev = attempt[n].prev, UNCHANGED current
  PROVE  /\ attempt' \in [AttemptIds -> AttemptRow] /\ HistoryIsAChain'
         /\ Existing' = Existing \cup {n}
BY DEF Base, TypeOK, HistoryIsAChain, Existing, AttemptIds

\* Inserting the number after the current one makes the chain longer by one.
LEMMA InsertKeepsBase ==
  ASSUME Base, current + 1 \in AttemptIds, NEW a \in AttemptRow,
         attempt' = [attempt EXCEPT ![current + 1] = a],
         a.status # "absent", a.prev = current, current' = current + 1
  PROVE  /\ attempt' \in [AttemptIds -> AttemptRow] /\ HistoryIsAChain'
         /\ Existing' = Existing \cup {current + 1}
<1>1. attempt' \in [AttemptIds -> AttemptRow]
  BY DEF Base, TypeOK
<1>2. /\ current \in 0..MaxAttempts
      /\ Existing = 1..current
      /\ \A n \in Existing : attempt[n].prev = n - 1
  BY DEF Base, TypeOK, HistoryIsAChain
<1>3. Existing' = Existing \cup {current + 1}
  BY DEF Existing, Base, TypeOK
<1>4. \A n \in Existing' : attempt'[n].prev = n - 1
  BY <1>2, <1>3 DEF Existing, Base, TypeOK
<1>5. QED
  BY <1>1, <1>2, <1>3, <1>4 DEF HistoryIsAChain

\* A freshly discovered migration, without attempts and requests, satisfies the base.
LEMMA BaseInit == Init => Base
<1> SUFFICES ASSUME Init PROVE Base
  OBVIOUS
<1>1. NoAttempt \in AttemptRow /\ NoAttempt.status = "absent"
  BY MaxAttemptsAssumption DEF NoAttempt, AttemptRow
<1>2. NoJob \in JobRecord /\ NoJob.kind = "none"
  BY MaxAttemptsAssumption DEF NoJob, JobRecord, JobPc
<1>3. NoRequest \in RequestRecord /\ NoRequest.pc = "idle"
  BY DEF NoRequest, Serving, RequestRecord
<1>4. Existing = {}
  BY <1>1 DEF Init, Existing
<1>5. TypeOK
  BY <1>1, <1>2, <1>3, MaxAttemptsAssumption, MigrationRows DEF Init, TypeOK
<1>6. HistoryIsAChain /\ ReferencesExist
  BY <1>2, <1>3, <1>4 DEF Init, HistoryIsAChain, ReferencesExist
<1>7. QED
  BY <1>5, <1>6 DEF Base

\* A step that leaves the attempts and the current one alone keeps the chain.
LEMMA FrameKeepsChain ==
  HistoryIsAChain /\ UNCHANGED <<attempt, current>> =>
    HistoryIsAChain' /\ UNCHANGED Existing
BY DEF HistoryIsAChain, Existing

\* A step that only moves requests and jobs along keeps the rows.
LEMMA FrameKeepsRows ==
  ASSUME Base, UNCHANGED db,
         req' \in [Requests -> RequestRecord], job' \in [JobSlots -> JobRecord]
  PROVE  TypeOK' /\ HistoryIsAChain'
BY FrameKeepsChain DEF Base, TypeOK, db, row

\* Every step keeps the rows well-formed, one action at a time.
LEMMA RowsStep == Base /\ [Next]_vars => TypeOK' /\ HistoryIsAChain'
<1> SUFFICES ASSUME Base, [Next]_vars PROVE TypeOK' /\ HistoryIsAChain'
  OBVIOUS
<1>1. ASSUME NEW r \in Requests, NEW op \in ClientOps, NEW key \in Keys,
             NEW expected \in {version} \cup {i.expected : i \in Prior(op, key)},
             BeginRequest(r, op, key, expected)
      PROVE  TypeOK' /\ HistoryIsAChain'
  <2>1. expected \in Nat /\ op \in Operations
    BY ClientOpsAssumption DEF Base, TypeOK, Prior, IdemRow
  <2>2. PICK q \in RequestRecord : req' = [req EXCEPT ![r] = q]
    <3>1. CASE Prior(op, key) = {}
      <4>1. Serving("checked", op, key, expected, 0) \in RequestRecord
        BY <2>1, ServingRecord, MaxAttemptsAssumption
      <4>2. QED
        BY <1>1, <3>1, <4>1 DEF BeginRequest
    <3>2. CASE Prior(op, key) # {}
      <4>1. PICK i \in Prior(op, key) :
              req' = [req EXCEPT ![r] =
                        IF i.expected = expected /\ op \in {"generate", "publish"}
                        THEN Serving("committed", op, key, expected, i.attempt)
                        ELSE NoRequest]
        BY <1>1, <3>2 DEF BeginRequest
      <4>2. i.attempt \in 0..MaxAttempts
        BY DEF Prior, IdemRow, Base, TypeOK
      <4>3. QED
        BY <2>1, <4>1, <4>2, ServingRecord DEF RequestRecord
    <3>3. QED
      BY <3>1, <3>2
  <2>3. QED
    BY <1>1, <2>2, FrameKeepsRows DEF BeginRequest, Base, TypeOK, db
<1>2. ASSUME NEW r \in Requests, QueueAttempt(r)
      PROVE  TypeOK' /\ HistoryIsAChain'
  <2> DEFINE q == req[r]
             n == IF HasCreatedAttempt THEN current ELSE LatestNumber + 1
             a == IF HasCreatedAttempt THEN attempt[current]
                  ELSE NewAttempt(q.key, current)
             b == Moved(a, "planning", 1)
  <2>1. /\ q \in RequestRecord /\ q.pc # "idle" /\ n \in AttemptIds
        /\ attempt' = [attempt EXCEPT ![n] = b]
        /\ status' = "planning" /\ version' = version + 1 /\ current' = n
        /\ Remember(q, n, version + 1)
        /\ req' = [req EXCEPT ![r] = [q EXCEPT !.pc = "committed", !.attempt = n]]
        /\ UNCHANGED <<publication, job>>
    BY <1>2 DEF QueueAttempt, Base, TypeOK
  <2>2. HasCreatedAttempt => n = current /\ a = attempt[current]
    OBVIOUS
  <2>3. ~HasCreatedAttempt => n = current + 1 /\ a = NewAttempt(q.key, current)
    BY LatestIsCurrent
  <2> HIDE DEF q, n, a
  <2>4. ASSUME HasCreatedAttempt
        PROVE  attempt' \in [AttemptIds -> AttemptRow] /\ HistoryIsAChain'
    <3>1. current \in Existing /\ a \in AttemptRow
      BY <2>2, <2>4 DEF HasCreatedAttempt, Existing, AttemptIds, Base, TypeOK
    <3>2. b \in AttemptRow /\ b.status = "planning" /\ b.prev = a.prev
      <4>1. "planning" \in AttemptStatus /\ 1 \in Nat
        BY AttemptRows
      <4>2. QED
        BY <3>1, <4>1, MovedRow
    <3>3. QED
      BY <2>1, <2>2, <2>4, <3>1, <3>2, UpdateKeepsBase
  <2>5. ASSUME ~HasCreatedAttempt
        PROVE  attempt' \in [AttemptIds -> AttemptRow] /\ HistoryIsAChain'
    <3>1. a \in AttemptRow /\ a.prev = current
      <4>1. q.key \in Keys /\ current \in 0..MaxAttempts
        BY <2>1, ServedRequest DEF Base, TypeOK
      <4>2. QED
        BY <2>3, <2>5, <4>1, NewAttemptRow
    <3>2. b \in AttemptRow /\ b.status = "planning" /\ b.prev = a.prev
      <4>1. "planning" \in AttemptStatus /\ 1 \in Nat
        BY AttemptRows
      <4>2. QED
        BY <3>1, <4>1, MovedRow
    <3>3. QED
      BY <2>1, <2>3, <2>5, <3>1, <3>2, InsertKeepsBase
  <2>6. idem' \in SUBSET IdemRow /\ req' \in [Requests -> RequestRecord]
    <3>1. n \in 0..MaxAttempts
      BY <2>1 DEF AttemptIds
    <3>2. version + 1 \in Nat /\ idem \in SUBSET IdemRow
      BY DEF Base, TypeOK
    <3>3. QED
      BY <2>1, <3>1, <3>2, ServedRequest, RememberedRows DEF Base, TypeOK
  <2>7. QED
    BY <2>1, <2>4, <2>5, <2>6, MigrationRows DEF Base, TypeOK, AttemptIds
<1>3. ASSUME NEW r \in Requests, QueuePublication(r)
      PROVE  TypeOK' /\ HistoryIsAChain'
  <2> DEFINE q == req[r]
  <2>1. q \in RequestRecord /\ q.pc # "idle"
    BY <1>3 DEF QueuePublication, Base, TypeOK
  <2>2. version + 1 \in Nat /\ current \in 0..MaxAttempts /\ idem \in SUBSET IdemRow
    BY DEF Base, TypeOK
  <2>3. idem' \in SUBSET IdemRow
    BY <1>3, <2>1, <2>2, RememberedRows DEF QueuePublication
  <2>4. req' \in [Requests -> RequestRecord]
    BY <1>3, <2>1, <2>2, ServedRequest DEF QueuePublication, Base, TypeOK
  <2>5. QED
    BY <1>3, <2>2, <2>3, <2>4, FrameKeepsChain, MigrationRows
    DEF QueuePublication, Base, TypeOK
<1>4. ASSUME NEW r \in Requests, ApplyDeveloperAction(r)
      PROVE  TypeOK' /\ HistoryIsAChain'
  <2> DEFINE q == req[r]
             n == IF q.op = "revise" THEN LatestNumber + 1 ELSE current
             a == NewAttempt(q.key, LatestNumber)
  <2>1. /\ q \in RequestRecord /\ q.pc # "idle" /\ q.op \in Decisions
        /\ q.op = "revise" => n \in AttemptIds
        /\ attempt' = IF q.op = "revise" THEN [attempt EXCEPT ![n] = a] ELSE attempt
        /\ status' = TargetStatus[q.op] /\ version' = version + 1 /\ current' = n
        /\ Remember(q, n, version + 1)
        /\ req' = [req EXCEPT ![r] = NoRequest]
        /\ UNCHANGED <<publication, job>>
    BY <1>4 DEF ApplyDeveloperAction, Base, TypeOK
  <2>2. /\ LatestNumber = current /\ current \in 0..MaxAttempts
        /\ q.key \in Keys /\ version + 1 \in Nat /\ idem \in SUBSET IdemRow
    <3>1. q.key \in Keys
      BY <2>1, ServedRequest
    <3>2. QED
      BY <3>1, LatestIsCurrent DEF Base, TypeOK
  <2>3. n \in 0..MaxAttempts
    BY <2>1, <2>2 DEF AttemptIds
  <2>4. attempt' \in [AttemptIds -> AttemptRow] /\ HistoryIsAChain'
    <3>1. CASE q.op = "revise"
      <4>1. a \in AttemptRow /\ a.status # "absent" /\ a.prev = current
        BY <2>2, NewAttemptRow
      <4>2. n = current + 1
        BY <2>2, <3>1
      <4>3. current + 1 \in AttemptIds /\ current' = current + 1
            /\ attempt' = [attempt EXCEPT ![current + 1] = a]
        BY <2>1, <3>1, <4>2
      <4> HIDE DEF a
      <4>4. QED
        BY <4>1, <4>3, InsertKeepsBase
    <3>2. CASE q.op # "revise"
      BY <2>1, <3>2, FrameKeepsChain DEF Base, TypeOK
    <3>3. QED
      BY <3>1, <3>2
  <2>5. status' \in MigrationStatus
    BY <2>1, MigrationRows DEF TargetStatus, Decisions
  <2>6. idem' \in SUBSET IdemRow
    BY <2>1, <2>2, <2>3, RememberedRows
  <2>7. req' \in [Requests -> RequestRecord]
    BY <2>1 DEF Base, TypeOK, RequestRecord
  <2>8. QED
    BY <2>1, <2>2, <2>3, <2>4, <2>5, <2>6, <2>7 DEF Base, TypeOK
<1>5. ASSUME NEW r \in Requests, RejectRequest(r) \/ WebCrash(r)
      PROVE  TypeOK' /\ HistoryIsAChain'
  BY <1>5, FrameKeepsRows DEF RejectRequest, WebCrash, Base, TypeOK, RequestRecord
<1>6. ASSUME NEW r \in Requests, NEW j \in JobSlots, DeferJob(r, j)
      PROVE  TypeOK' /\ HistoryIsAChain'
  <2>1. req[r].attempt \in 0..MaxAttempts
    BY <1>6, ServedRequest DEF DeferJob, Base, TypeOK
  <2>2. /\ [pc |-> "todo", kind |-> "generation", attempt |-> req[r].attempt] \in JobRecord
        /\ [pc |-> "todo", kind |-> "publication", attempt |-> 0] \in JobRecord
    BY <2>1, MaxAttemptsAssumption DEF JobRecord, JobPc
  <2>3. job' \in [JobSlots -> JobRecord] /\ req' \in [Requests -> RequestRecord]
    BY <1>6, <2>2 DEF DeferJob, Base, TypeOK, RequestRecord
  <2>4. QED
    BY <1>6, <2>3, FrameKeepsRows DEF DeferJob
<1>7. ASSUME NEW j \in JobSlots, NEW found \in BOOLEAN, ClaimAttempt(j, found)
      PROVE  TypeOK' /\ HistoryIsAChain'
  <2> DEFINE n == job[j].attempt
             a == Moved(attempt[n], "generating", 1)
  <2>1. job' \in [JobSlots -> JobRecord] /\ req' \in [Requests -> RequestRecord]
    <3>1. \/ job' = [job EXCEPT ![j] = NoJob]
          \/ job' = [job EXCEPT ![j].pc = "failing"]
          \/ job' = [job EXCEPT ![j].pc = "running"]
      BY <1>7 DEF ClaimAttempt
    <3>2. job' \in [JobSlots -> JobRecord]
      BY <3>1, JobSteps DEF Base, TypeOK
    <3>3. UNCHANGED req
      BY <1>7 DEF ClaimAttempt
    <3>4. QED
      BY <3>2, <3>3 DEF Base, TypeOK
  <2>2. CASE Claimable(n) /\ status = "planning" /\ current = n
    <3>1. n \in Existing /\ attempt[n] \in AttemptRow
      BY <1>7 DEF ClaimAttempt, Waiting, Base, TypeOK, ReferencesExist, Existing
    <3>2. a \in AttemptRow /\ a.status = "generating" /\ a.prev = attempt[n].prev
      <4>1. "generating" \in AttemptStatus /\ 1 \in Nat
        BY AttemptRows
      <4>2. QED
        BY <3>1, <4>1, MovedRow
    <3>3. /\ attempt' = [attempt EXCEPT ![n] = a]
          /\ status' = "generating" /\ version' = version + 1
          /\ UNCHANGED <<current, publication, idem>>
      BY <1>7, <2>2 DEF ClaimAttempt
    <3> HIDE DEF n, a
    <3>4. attempt' \in [AttemptIds -> AttemptRow] /\ HistoryIsAChain'
      BY <3>1, <3>2, <3>3, UpdateKeepsBase
    <3>5. QED
      BY <2>1, <3>3, <3>4, MigrationRows DEF Base, TypeOK
  <2>3. CASE ~(Claimable(n) /\ status = "planning" /\ current = n)
    <3>1. UNCHANGED db
      BY <1>7, <2>3 DEF ClaimAttempt
    <3>2. QED
      BY <2>1, <3>1, FrameKeepsRows
  <2>4. QED
    BY <2>2, <2>3
<1>8. ASSUME NEW j \in JobSlots, GenerationRaises(j) \/ PublicationRaises(j)
      PROVE  TypeOK' /\ HistoryIsAChain'
  <2>1. job' \in [JobSlots -> JobRecord]
    BY <1>8, JobSteps DEF GenerationRaises, PublicationRaises, Base, TypeOK
  <2>2. QED
    BY <1>8, <2>1, FrameKeepsRows DEF GenerationRaises, PublicationRaises, Base, TypeOK
<1>9. ASSUME NEW j \in JobSlots, NEW action \in Decisions, NEW e \in Executions,
             CompleteAttempt(j, action, e)
      PROVE  TypeOK' /\ HistoryIsAChain'
  <2> DEFINE n == job[j].attempt
             verdict == Guarded(action, e)
             b == Moved(attempt[n], "completed", 3)
             a == [b EXCEPT !.verdict = verdict, !.verified = e.checksPassed]
             ok == /\ attempt[n].status = "generating"
                   /\ status = "generating" /\ current = n
                   /\ Outcome[verdict] = "ready" => e.checksPassed
  <2>1. job' \in [JobSlots -> JobRecord] /\ req' \in [Requests -> RequestRecord]
    <3>1. job' = [job EXCEPT ![j] = NoJob] \/ job' = [job EXCEPT ![j].pc = "failing"]
      BY <1>9 DEF CompleteAttempt
    <3>2. job' \in [JobSlots -> JobRecord]
      BY <3>1, JobSteps DEF Base, TypeOK
    <3>3. UNCHANGED req
      BY <1>9 DEF CompleteAttempt
    <3>4. QED
      BY <3>2, <3>3 DEF Base, TypeOK
  <2>2. CASE ok
    <3>1. n \in Existing /\ attempt[n] \in AttemptRow
      BY <1>9 DEF CompleteAttempt, Running, Base, TypeOK, ReferencesExist, Existing
    <3>2. b \in AttemptRow /\ b.status = "completed" /\ b.prev = attempt[n].prev
      <4>1. "completed" \in AttemptStatus /\ 3 \in Nat
        BY AttemptRows
      <4>2. QED
        BY <3>1, <4>1, MovedRow
    <3>3. verdict \in Decisions /\ e.checksPassed \in BOOLEAN
      BY GuardedVerdict DEF Executions
    <3>4. Outcome[verdict] \in MigrationStatus
      BY GuardedVerdict, MigrationRows
    <3>5. /\ attempt' = [attempt EXCEPT ![n] = a]
          /\ status' = Outcome[verdict] /\ version' = version + 2
          /\ UNCHANGED <<current, publication, idem>>
      BY <1>9, <2>2 DEF CompleteAttempt
    <3> HIDE DEF n, verdict, b
    <3>6. a \in AttemptRow /\ a.status = b.status /\ a.prev = b.prev
      BY <3>2, <3>3 DEF AttemptRow
    <3> HIDE DEF a
    <3>7. attempt' \in [AttemptIds -> AttemptRow] /\ HistoryIsAChain'
      BY <3>1, <3>2, <3>5, <3>6, UpdateKeepsBase
    <3>8. QED
      BY <2>1, <3>4, <3>5, <3>7 DEF Base, TypeOK
  <2>3. CASE ~ok
    BY <1>9, <2>1, <2>3, FrameKeepsRows DEF CompleteAttempt
  <2>4. QED
    BY <2>2, <2>3
<1>10. ASSUME NEW j \in JobSlots, FailAttempt(j)
       PROVE  TypeOK' /\ HistoryIsAChain'
  <2> DEFINE n == job[j].attempt
             a == Moved(attempt[n], "failed", 1)
             fails == /\ attempt[n].status \in AttemptStatus
                      /\ "failed" \in AttemptTransitions[attempt[n].status]
  <2>1. job' \in [JobSlots -> JobRecord] /\ req' \in [Requests -> RequestRecord]
    BY <1>10, JobRecords DEF FailAttempt, Base, TypeOK
  <2>2. status' \in MigrationStatus /\ version' \in Nat
    BY <1>10, MigrationRows DEF FailAttempt, Base, TypeOK
  <2>3. attempt' \in [AttemptIds -> AttemptRow] /\ HistoryIsAChain'
    <3>1. CASE fails
      <4>1. n \in Existing /\ attempt[n] \in AttemptRow
        BY <1>10 DEF FailAttempt, Failing, Base, TypeOK, ReferencesExist, Existing
      <4>2. a \in AttemptRow /\ a.status = "failed" /\ a.prev = attempt[n].prev
        <5>1. "failed" \in AttemptStatus /\ 1 \in Nat
          BY AttemptRows
        <5>2. QED
          BY <4>1, <5>1, MovedRow
      <4>3. attempt' = [attempt EXCEPT ![n] = a] /\ UNCHANGED current
        BY <1>10, <3>1 DEF FailAttempt
      <4> HIDE DEF n, a
      <4>4. QED
        BY <4>1, <4>2, <4>3, UpdateKeepsBase
    <3>2. CASE ~fails
      BY <1>10, <3>2, FrameKeepsChain DEF FailAttempt, Base, TypeOK
    <3>3. QED
      BY <3>1, <3>2
  <2>4. QED
    BY <1>10, <2>1, <2>2, <2>3 DEF FailAttempt, Base, TypeOK
<1>11. ASSUME NEW j \in JobSlots, NEW found \in BOOLEAN, ClaimPublication(j, found)
       PROVE  TypeOK' /\ HistoryIsAChain'
  <2>1. publication.attempt \in 0..MaxAttempts
    BY DEF Base, TypeOK
  <2>2. job' \in [JobSlots -> JobRecord]
    <3>1. job[j] \in JobRecord /\ NoJob \in JobRecord
      BY JobRecords DEF Base, TypeOK
    <3>2. \A pc \in JobPc :
            [job[j] EXCEPT !.pc = pc, !.attempt = publication.attempt] \in JobRecord
      BY <2>1, <3>1 DEF JobRecord
    <3>3. QED
      BY <1>11, <3>1, <3>2 DEF ClaimPublication, Base, TypeOK, JobPc
  <2>3. QED
    BY <1>11, <2>2, FrameKeepsChain DEF ClaimPublication, Base, TypeOK, row
<1>12. ASSUME NEW j \in JobSlots, CompletePublication(j) \/ FailPublication(j)
       PROVE  TypeOK' /\ HistoryIsAChain'
  <2>1. job' \in [JobSlots -> JobRecord]
    BY <1>12, JobSteps DEF CompletePublication, FailPublication, Base, TypeOK
  <2>2. status' \in MigrationStatus /\ version' \in Nat
    BY <1>12, MigrationRows
    DEF CompletePublication, FailPublication, Base, TypeOK, db, row
  <2>3. QED
    BY <1>12, <2>1, <2>2, FrameKeepsChain
    DEF CompletePublication, FailPublication, Base, TypeOK, db, row
<1>13. ASSUME NEW j \in JobSlots, WorkerCrash(j)
       PROVE  TypeOK' /\ HistoryIsAChain'
  BY <1>13, FrameKeepsRows, JobRecords DEF WorkerCrash, Base, TypeOK
<1>14. CASE UNCHANGED vars
  BY <1>14, FrameKeepsRows DEF vars, db, row, Base, TypeOK
<1>15. QED
  BY <1>1, <1>2, <1>3, <1>4, <1>5, <1>6, <1>7, <1>8, <1>9, <1>10, <1>11, <1>12,
     <1>13, <1>14
  DEF Next, Step, Fault, Request, Worker

\* Attempts are only added, at the end.
LEMMA AttemptsGrow ==
  ASSUME Base, [Next]_vars, HistoryIsAChain', TypeOK'
  PROVE  current' \in {current, current + 1} /\ Existing \subseteq Existing'
<1>1. LatestNumber = current /\ current \in Nat
  BY LatestIsCurrent DEF Base, TypeOK
<1>2. current' \in {current, current + 1}
  <2>1. ASSUME NEW r \in Requests, QueueAttempt(r)
        PROVE  current' \in {current, current + 1}
    BY <1>1, <2>1 DEF QueueAttempt
  <2>2. ASSUME NEW r \in Requests, ApplyDeveloperAction(r)
        PROVE  current' \in {current, current + 1}
    BY <1>1, <2>2 DEF ApplyDeveloperAction
  <2>3. QED
    BY <2>1, <2>2
    DEF Next, Step, Fault, Request, Worker, vars, db, row, BeginRequest,
        QueuePublication, RejectRequest, DeferJob, ClaimAttempt, GenerationRaises,
        CompleteAttempt, FailAttempt, ClaimPublication, PublicationRaises,
        CompletePublication, FailPublication, WebCrash, WorkerCrash
<1>3. QED
  BY <1>1, <1>2 DEF Base, HistoryIsAChain

\* No step forgets an attempt that something still names.
LEMMA ReferencesStep == Base /\ [Next]_vars => ReferencesExist'
<1> SUFFICES ASSUME Base, [Next]_vars PROVE ReferencesExist'
  OBVIOUS
<1>1. /\ Existing \subseteq Existing' /\ ReferencesExist
      /\ req \in [Requests -> RequestRecord] /\ job \in [JobSlots -> JobRecord]
  BY RowsStep, AttemptsGrow DEF Base, TypeOK
<1>2. ASSUME NEW r \in Requests, NEW op \in ClientOps, NEW key \in Keys,
             NEW expected \in {version} \cup {i.expected : i \in Prior(op, key)},
             BeginRequest(r, op, key, expected)
      PROVE  ReferencesExist'
  <2>1. CASE Prior(op, key) = {}
    BY <1>1, <1>2, <2>1 DEF BeginRequest, ReferencesExist, Serving
  <2>2. CASE Prior(op, key) # {}
    <3>1. PICK i \in Prior(op, key) :
            req' = [req EXCEPT ![r] =
                      IF i.expected = expected /\ op \in {"generate", "publish"}
                      THEN Serving("committed", op, key, expected, i.attempt)
                      ELSE NoRequest]
      BY <1>2, <2>2 DEF BeginRequest
    <3>2. op = "generate" => i.attempt \in Existing
      BY <1>1 DEF Prior, ReferencesExist
    <3> DEFINE q == IF i.expected = expected /\ op \in {"generate", "publish"}
                    THEN Serving("committed", op, key, expected, i.attempt)
                    ELSE NoRequest
    <3>3. q.op = "generate" => q.attempt \in Existing
      BY <3>2 DEF Serving, NoRequest
    <3>4. req' = [req EXCEPT ![r] = q]
      BY <3>1
    <3> HIDE DEF q
    <3>5. QED
      BY <1>1, <1>2, <3>3, <3>4 DEF BeginRequest, ReferencesExist
  <2>3. QED
    BY <2>1, <2>2
<1>3. ASSUME NEW r \in Requests, QueueAttempt(r)
      PROVE  ReferencesExist'
  <2>1. current' \in AttemptIds
    BY <1>3 DEF QueueAttempt
  <2>2. current' \in Existing'
    BY <2>1, RowsStep DEF HistoryIsAChain, AttemptIds
  <2>3. /\ UNCHANGED job
        /\ \E v : Remember(req[r], current', v)
        /\ req' = [req EXCEPT ![r] =
                     [req[r] EXCEPT !.pc = "committed", !.attempt = current']]
    BY <1>3 DEF QueueAttempt
  <2>4. req[r] \in RequestRecord /\ req[r].pc # "idle"
    BY <1>1, <1>3 DEF QueueAttempt
  <2>5. [req[r] EXCEPT !.pc = "committed", !.attempt = current'].attempt = current'
    BY <2>4, ServedRequest DEF RequestRecord, NoRequest, Serving
  <2>6. QED
    BY <1>1, <2>2, <2>3, <2>5 DEF ReferencesExist, Remember
<1>4. ASSUME NEW r \in Requests, QueuePublication(r)
      PROVE  ReferencesExist'
  <2>1. /\ UNCHANGED job /\ req[r].op = "publish"
        /\ \E v : Remember(req[r], current, v)
        /\ req' = [req EXCEPT ![r] =
                     [req[r] EXCEPT !.pc = "committed", !.attempt = current]]
    BY <1>4 DEF QueuePublication
  <2>2. [req[r] EXCEPT !.pc = "committed", !.attempt = current].op = "publish"
    BY <1>1, <2>1 DEF RequestRecord, NoRequest, Serving
  <2>3. QED
    BY <1>1, <2>1, <2>2 DEF ReferencesExist, Remember
<1>5. ASSUME NEW r \in Requests, ApplyDeveloperAction(r)
      PROVE  ReferencesExist'
  <2>1. /\ UNCHANGED job /\ req[r].op # "generate"
        /\ \E n, v : Remember(req[r], n, v)
        /\ req' = [req EXCEPT ![r] = NoRequest]
    BY <1>5 DEF ApplyDeveloperAction, Decisions
  <2>2. QED
    BY <1>1, <2>1 DEF ReferencesExist, Remember, NoRequest, Serving
<1>6. ASSUME NEW r \in Requests, RejectRequest(r) \/ WebCrash(r)
      PROVE  ReferencesExist'
  BY <1>1, <1>6 DEF RejectRequest, WebCrash, ReferencesExist, NoRequest, Serving, db
<1>7. ASSUME NEW r \in Requests, NEW j \in JobSlots, DeferJob(r, j)
      PROVE  ReferencesExist'
  BY <1>1, <1>7 DEF DeferJob, ReferencesExist, NoRequest, Serving, db
<1>8. ASSUME NEW j \in JobSlots, Worker(j) \/ WorkerCrash(j)
      PROVE  ReferencesExist'
  <2>1. UNCHANGED <<req, idem>>
    BY <1>8
    DEF Worker, ClaimAttempt, GenerationRaises, CompleteAttempt, FailAttempt,
        ClaimPublication, PublicationRaises, CompletePublication, FailPublication,
        WorkerCrash, db
  <2>2. \A pc \in JobPc : [job[j] EXCEPT !.pc = pc].kind = job[j].kind
                       /\ [job[j] EXCEPT !.pc = pc].attempt = job[j].attempt
    BY <1>1 DEF JobRecord
  <2>3. NoJob.kind # "generation"
    BY DEF NoJob
  <2>4. \/ \E pc \in JobPc : job' = [job EXCEPT ![j].pc = pc]
        \/ job' = [job EXCEPT ![j] = NoJob]
        \/ /\ job[j].kind = "publication"
           /\ \E pc \in JobPc : job' = [job EXCEPT ![j] =
                  [job[j] EXCEPT !.pc = pc, !.attempt = publication.attempt]]
    BY <1>8
    DEF Worker, ClaimAttempt, GenerationRaises, CompleteAttempt, FailAttempt,
        ClaimPublication, PublicationRaises, CompletePublication, FailPublication,
        WorkerCrash, Waiting, JobPc
  <2>5. \A i \in JobSlots : job'[i].kind = "generation" =>
          job[i].kind = "generation" /\ job'[i].attempt = job[i].attempt
    <3>1. CASE \E pc \in JobPc : job' = [job EXCEPT ![j].pc = pc]
      BY <1>1, <2>2, <3>1
    <3>2. CASE job' = [job EXCEPT ![j] = NoJob]
      BY <1>1, <2>3, <3>2
    <3>3. CASE /\ job[j].kind = "publication"
               /\ \E pc \in JobPc : job' = [job EXCEPT ![j] =
                      [job[j] EXCEPT !.pc = pc, !.attempt = publication.attempt]]
      <4>1. \A pc \in JobPc :
              [job[j] EXCEPT !.pc = pc, !.attempt = publication.attempt].kind
                = "publication"
        BY <1>1, <3>3 DEF JobRecord
      <4>2. QED
        BY <1>1, <3>3, <4>1
    <3>4. QED
      BY <2>4, <3>1, <3>2, <3>3
  <2>6. QED
    BY <1>1, <2>1, <2>5 DEF ReferencesExist
<1>9. CASE UNCHANGED vars
  BY <1>1, <1>9 DEF vars, ReferencesExist
<1>10. QED
  BY <1>2, <1>3, <1>4, <1>5, <1>6, <1>7, <1>8, <1>9 DEF Next, Step, Fault, Request

\* The base is inductive: every transaction and every crash preserves it.
LEMMA BaseStep == Base /\ [Next]_vars => Base'
BY RowsStep, ReferencesStep DEF Base

\* The base holds in every reachable state.
LEMMA BaseHolds == Spec => []Base
<1>1. QED
  BY BaseInit, BaseStep, PTL DEF Spec

\* Every variable keeps its type.
THEOREM TypeCorrect == Spec => []TypeOK
<1>1. Base => TypeOK
  BY DEF Base
<1>2. QED
  BY BaseHolds, <1>1, PTL

\* The attempts of a migration form one chain, numbered without gaps, whose last
\* element is the current attempt: a revision, which takes MAX(number), and a
\* generation request, which takes current_attempt_id, never disagree.
THEOREM AttemptsFormAChain == Spec => []HistoryIsAChain
<1>1. Base => HistoryIsAChain
  BY DEF Base
<1>2. QED
  BY BaseHolds, <1>1, PTL

-----------------------------------------------------------------------------
(* What a step may do to the rows.  Each effect names the one attempt it      *)
(* writes and the row a it leaves there; the theorems below reason about the  *)
(* effects and never about requests and jobs.                                 *)

Writes(n, a) == attempt' = [attempt EXCEPT ![n] = a]

Quiet == UNCHANGED <<row, attempt, publication>>

Plans(n, a) ==
  /\ status \in {"queued", "needs_revision", "blocked"} /\ status' = "planning"
  /\ version' = version + 1 /\ current' = n /\ UNCHANGED publication
  /\ Writes(n, a) /\ a.status = "planning"
  /\ \/ n = current /\ attempt[n].status = "created" /\ a.version = attempt[n].version + 1
     \/ n = current + 1 /\ ~HasCreatedAttempt /\ a.version = 2

Revises(n, a) ==
  /\ status \in {"generating", "verifying", "ready", "pr_opened"}
  /\ status' = "needs_revision" /\ version' = version + 1
  /\ n = current + 1 /\ current' = n /\ UNCHANGED publication
  /\ Writes(n, a) /\ a.status = "created" /\ a.version = 1

Decides ==
  /\ status \in {"ready", "pr_opened"} /\ status' \in {"approved", "snoozed", "declined"}
  /\ status' = "approved" => status = "pr_opened"
  /\ version' = version + 1 /\ UNCHANGED <<current, attempt, publication>>

QueuesPublication ==
  /\ status \in {"ready", "blocked"} /\ Publishable
  /\ status' = "pr_opening" /\ version' = version + 1
  /\ publication'.status = "queued" /\ publication'.attempt = current
  /\ UNCHANGED <<current, attempt>>

Claims(n, a) ==
  /\ status = "planning" /\ status' = "generating" /\ version' = version + 1
  /\ n = current /\ UNCHANGED <<current, publication>>
  /\ attempt[n].status = "planning"
  /\ Writes(n, a) /\ a.status = "generating" /\ a.version = attempt[n].version + 1

Completes(n, a) ==
  /\ status = "generating" /\ status' \in {"ready", "needs_revision", "blocked"}
  /\ version' = version + 2 /\ n = current /\ UNCHANGED <<current, publication>>
  /\ attempt[n].status = "generating"
  /\ Writes(n, a) /\ a.status = "completed" /\ a.version = attempt[n].version + 3
  /\ status' = "ready" => a.verdict = "approve" /\ a.verified

Fails(n, a) ==
  /\ attempt[n].status \in {"planning", "generating", "verifying", "reviewing"}
  /\ Writes(n, a) /\ a.status = "failed" /\ a.version = attempt[n].version + 1
  /\ IF n = current /\ status \in {"planning", "generating", "verifying", "pr_opening"}
     THEN status' = "blocked" /\ version' = version + 1
     ELSE UNCHANGED <<status, version>>
  /\ UNCHANGED <<current, publication>>

Publishes ==
  /\ UNCHANGED <<attempt, current>> /\ publication'.attempt = publication.attempt
  /\ \/ publication.status = "queued" /\ publication'.status = "publishing"
        /\ UNCHANGED row
     \/ publication.status = "publishing" /\ publication'.status = "completed"
        /\ status = "pr_opening" /\ status' = "pr_opened" /\ version' = version + 1
     \/ publication.status = "publishing" /\ publication'.status = "failed"
        /\ IF status = "pr_opening" THEN status' = "blocked" /\ version' = version + 1
           ELSE UNCHANGED row

\* A generation request plans the current created attempt, or the next one.
LEMMA QueueAttemptPlans ==
  ASSUME Base, NEW r \in Requests, QueueAttempt(r)
  PROVE  \E n \in AttemptIds, a \in AttemptRow : Plans(n, a)
<1> DEFINE q == req[r]
           n == IF HasCreatedAttempt THEN current ELSE LatestNumber + 1
           a == IF HasCreatedAttempt THEN attempt[current]
                ELSE NewAttempt(q.key, current)
           b == Moved(a, "planning", 1)
<1>1. /\ q \in RequestRecord /\ q.pc # "idle" /\ n \in AttemptIds
      /\ attempt' = [attempt EXCEPT ![n] = b]
      /\ status' = "planning" /\ version' = version + 1 /\ current' = n
      /\ UNCHANGED publication
  BY DEF QueueAttempt, Base, TypeOK
<1>2. status \in {"queued", "needs_revision", "blocked"}
  BY MigrationRows
  DEF QueueAttempt, Accepted, ValidTransition, TargetStatus, Base, TypeOK
<1>3. HasCreatedAttempt => /\ n = current /\ a = attempt[current]
                           /\ a \in AttemptRow /\ a.status = "created"
  BY DEF HasCreatedAttempt, Base, TypeOK, AttemptIds
<1>4. ~HasCreatedAttempt => n = current + 1 /\ a \in AttemptRow /\ a.version = 1
  <2>1. q.key \in Keys /\ current \in 0..MaxAttempts /\ LatestNumber = current
    BY <1>1, ServedRequest, LatestIsCurrent DEF Base, TypeOK
  <2> HIDE DEF q
  <2>2. QED
    BY <2>1, NewAttemptRow
<1> HIDE DEF q, n, a
<1>5. b \in AttemptRow /\ b.status = "planning" /\ b.version = a.version + 1
  <2>1. "planning" \in AttemptStatus /\ 1 \in Nat
    BY AttemptRows
  <2>2. QED
    BY <1>3, <1>4, <2>1, MovedRow
<1> HIDE DEF b
<1>6. Plans(n, b)
  BY <1>1, <1>2, <1>3, <1>4, <1>5 DEF Plans, Writes
<1>7. QED
  BY <1>1, <1>5, <1>6

\* A developer's decision either revises, which inserts the next attempt, or
\* moves the migration alone.
LEMMA ActionRevisesOrDecides ==
  ASSUME Base, NEW r \in Requests, ApplyDeveloperAction(r)
  PROVE  Decides \/ \E n \in AttemptIds, a \in AttemptRow : Revises(n, a)
<1> DEFINE q == req[r]
           a == NewAttempt(q.key, LatestNumber)
<1>1. /\ q \in RequestRecord /\ q.pc # "idle" /\ q.op \in Decisions
      /\ TargetStatus[q.op] \in MigrationTransitions[status]
      /\ status' = TargetStatus[q.op] /\ version' = version + 1
      /\ UNCHANGED publication
      /\ q.op # "revise" => UNCHANGED <<attempt, current>>
      /\ q.op = "revise" => /\ LatestNumber + 1 \in AttemptIds
                            /\ attempt' = [attempt EXCEPT ![LatestNumber + 1] = a]
                            /\ current' = LatestNumber + 1
  BY DEF ApplyDeveloperAction, Accepted, ValidTransition, Base, TypeOK
<1>2. /\ LatestNumber = current /\ a \in AttemptRow
      /\ a.status = "created" /\ a.version = 1
  <2>1. q.key \in Keys /\ current \in 0..MaxAttempts /\ LatestNumber = current
    BY <1>1, ServedRequest, LatestIsCurrent DEF Base, TypeOK
  <2> HIDE DEF q
  <2>2. QED
    BY <2>1, NewAttemptRow
<1>3. status \in MigrationStatus
  BY DEF Base, TypeOK
<1> HIDE DEF q, a
<1>4. CASE q.op = "revise"
  <2>1. status \in {"generating", "verifying", "ready", "pr_opened"}
        /\ status' = "needs_revision"
    BY <1>1, <1>3, <1>4, MigrationRows DEF TargetStatus
  <2>2. Revises(current + 1, a)
    BY <1>1, <1>2, <1>4, <2>1 DEF Revises, Writes
  <2>3. QED
    BY <1>1, <1>2, <1>4, <2>2
<1>5. CASE q.op # "revise"
  <2>1. /\ status \in {"ready", "pr_opened"}
        /\ status' \in {"approved", "snoozed", "declined"}
        /\ status' = "approved" => status = "pr_opened"
    BY <1>1, <1>3, <1>5, MigrationRows DEF TargetStatus, Decisions
  <2>2. QED
    BY <1>1, <1>5, <2>1 DEF Decides
<1>6. QED
  BY <1>4, <1>5

\* A claim changes the rows only if the migration and its current attempt both
\* were planning.
LEMMA ClaimAttemptClaims ==
  ASSUME Base, NEW j \in JobSlots, NEW found \in BOOLEAN, ClaimAttempt(j, found)
  PROVE  Quiet \/ \E n \in AttemptIds, a \in AttemptRow : Claims(n, a)
<1> DEFINE n == job[j].attempt
           a == Moved(attempt[n], "generating", 1)
<1>1. n \in AttemptIds /\ attempt[n] \in AttemptRow
  BY DEF ClaimAttempt, Waiting, Base, TypeOK, ReferencesExist, Existing
<1>2. /\ a \in AttemptRow /\ a.status = "generating"
      /\ a.version = attempt[n].version + 1
  <2>1. "generating" \in AttemptStatus /\ 1 \in Nat
    BY AttemptRows
  <2>2. QED
    BY <1>1, <2>1, MovedRow
<1>3. \/ UNCHANGED db
      \/ /\ status = "planning" /\ current = n /\ attempt[n].status = "planning"
         /\ attempt' = [attempt EXCEPT ![n] = a]
         /\ status' = "generating" /\ version' = version + 1
         /\ UNCHANGED <<current, publication>>
  BY DEF ClaimAttempt, Claimable
<1> HIDE DEF n, a
<1>4. QED
  BY <1>1, <1>2, <1>3 DEF Claims, Writes, Quiet, db

\* A completion changes the rows only if the attempt is still the migration's
\* current one and both are generating.
LEMMA CompleteAttemptCompletes ==
  ASSUME Base, NEW j \in JobSlots, NEW action \in Decisions, NEW e \in Executions,
         CompleteAttempt(j, action, e)
  PROVE  Quiet \/ \E n \in AttemptIds, a \in AttemptRow : Completes(n, a)
<1> DEFINE n == job[j].attempt
           verdict == Guarded(action, e)
           b == Moved(attempt[n], "completed", 3)
           a == [b EXCEPT !.verdict = verdict, !.verified = e.checksPassed]
<1>1. n \in AttemptIds /\ attempt[n] \in AttemptRow
  BY DEF CompleteAttempt, Running, Base, TypeOK, ReferencesExist, Existing
<1>2. /\ b \in AttemptRow /\ b.status = "completed"
      /\ b.version = attempt[n].version + 3
  <2>1. "completed" \in AttemptStatus /\ 3 \in Nat
    BY AttemptRows
  <2>2. QED
    BY <1>1, <2>1, MovedRow
<1>3. /\ verdict \in Decisions /\ e.checksPassed \in BOOLEAN
      /\ Outcome[verdict] \in {"ready", "needs_revision", "blocked"}
      /\ Outcome[verdict] = "ready" => verdict = "approve" /\ e.checksPassed
  BY GuardedVerdict DEF Executions
<1>4. \/ UNCHANGED db
      \/ /\ status = "generating" /\ current = n /\ attempt[n].status = "generating"
         /\ attempt' = [attempt EXCEPT ![n] = a]
         /\ status' = Outcome[verdict] /\ version' = version + 2
         /\ UNCHANGED <<current, publication>>
  BY DEF CompleteAttempt
<1> HIDE DEF n, verdict, b
<1>5. /\ a \in AttemptRow /\ a.status = b.status /\ a.version = b.version
      /\ a.verdict = verdict /\ a.verified = e.checksPassed
  BY <1>2, <1>3 DEF AttemptRow
<1> HIDE DEF a
<1>6. QED
  BY <1>1, <1>2, <1>3, <1>4, <1>5 DEF Completes, Writes, Quiet, db

\* A failure ends its attempt and blocks at most the migration that owns it.
LEMMA FailAttemptFails ==
  ASSUME Base, NEW j \in JobSlots, FailAttempt(j)
  PROVE  Quiet \/ \E n \in AttemptIds, a \in AttemptRow : Fails(n, a)
<1> DEFINE n == job[j].attempt
           a == Moved(attempt[n], "failed", 1)
<1>1. n \in AttemptIds /\ attempt[n] \in AttemptRow /\ status \in MigrationStatus
  BY DEF FailAttempt, Failing, Base, TypeOK, ReferencesExist, Existing
<1>2. /\ a \in AttemptRow /\ a.status = "failed"
      /\ a.version = attempt[n].version + 1
  <2>1. "failed" \in AttemptStatus /\ 1 \in Nat
    BY AttemptRows
  <2>2. QED
    BY <1>1, <2>1, MovedRow
<1>3. \/ UNCHANGED <<attempt, status, version>>
      \/ /\ attempt[n].status \in AttemptStatus
         /\ "failed" \in AttemptTransitions[attempt[n].status]
         /\ attempt' = [attempt EXCEPT ![n] = a]
         /\ IF n = current /\ "blocked" \in MigrationTransitions[status]
            THEN status' = "blocked" /\ version' = version + 1
            ELSE UNCHANGED <<status, version>>
  BY DEF FailAttempt, Blocks
<1>4. UNCHANGED <<current, publication>>
  BY DEF FailAttempt
<1>5. "blocked" \in MigrationTransitions[status] <=>
        status \in {"planning", "generating", "verifying", "pr_opening"}
  BY <1>1, MigrationRows
<1>6. attempt[n].status \in AttemptStatus
        /\ "failed" \in AttemptTransitions[attempt[n].status] =>
          attempt[n].status \in {"planning", "generating", "verifying", "reviewing"}
  BY AttemptRows
<1> HIDE DEF n, a
<1>7. QED
  BY <1>1, <1>2, <1>3, <1>4, <1>5, <1>6 DEF Fails, Writes, Quiet, row

\* The publication worker moves the record, and the migration only out of
\* pr_opening.
LEMMA PublicationWorkerPublishes ==
  ASSUME Base, NEW j \in JobSlots,
         \/ \E found \in BOOLEAN : ClaimPublication(j, found)
         \/ CompletePublication(j)
         \/ FailPublication(j)
  PROVE  Quiet \/ Publishes
<1>1. /\ [publication EXCEPT !.status = "publishing"].attempt = publication.attempt
      /\ [publication EXCEPT !.status = "completed"].attempt = publication.attempt
      /\ [publication EXCEPT !.status = "failed"].attempt = publication.attempt
      /\ [publication EXCEPT !.status = "publishing"].status = "publishing"
      /\ [publication EXCEPT !.status = "completed"].status = "completed"
      /\ [publication EXCEPT !.status = "failed"].status = "failed"
  BY DEF Base, TypeOK
<1>2. QED
  BY <1>1
  DEF ClaimPublication, CompletePublication, FailPublication, Publishes, Quiet, db, row

\* Publishing is queued only for a migration standing on verified work.
LEMMA QueuePublicationQueues ==
  ASSUME Base, NEW r \in Requests, QueuePublication(r)
  PROVE  QueuesPublication
<1>1. status \in {"ready", "blocked"} /\ Publishable
  BY MigrationRows
  DEF QueuePublication, Accepted, ValidTransition, TargetStatus, Base, TypeOK
<1>2. QED
  BY <1>1 DEF QueuePublication, QueuesPublication

\* Every step of requests, workers and crashes has one of the nine effects.
LEMMA Effects ==
  ASSUME Base, [Next]_vars
  PROVE  \/ Quiet \/ Decides \/ QueuesPublication \/ Publishes
         \/ \E n \in AttemptIds, a \in AttemptRow :
              \/ Plans(n, a) \/ Revises(n, a) \/ Claims(n, a)
              \/ Completes(n, a) \/ Fails(n, a)
<1>1. ASSUME NEW r \in Requests,
             \/ \E op \in ClientOps, key \in Keys :
                  \E expected \in {version} \cup {i.expected : i \in Prior(op, key)} :
                    BeginRequest(r, op, key, expected)
             \/ RejectRequest(r)
             \/ \E j \in JobSlots : DeferJob(r, j)
             \/ WebCrash(r)
      PROVE  Quiet
  BY <1>1 DEF BeginRequest, RejectRequest, DeferJob, WebCrash, Quiet, db
<1>2. ASSUME NEW j \in JobSlots,
             GenerationRaises(j) \/ PublicationRaises(j) \/ WorkerCrash(j)
      PROVE  Quiet
  BY <1>2 DEF GenerationRaises, PublicationRaises, WorkerCrash, Quiet, db
<1>3. CASE UNCHANGED vars
  BY <1>3 DEF vars, Quiet, row
<1>4. QED
  BY <1>1, <1>2, <1>3, QueueAttemptPlans, ActionRevisesOrDecides, ClaimAttemptClaims,
     CompleteAttemptCompletes, FailAttemptFails, PublicationWorkerPublishes,
     QueuePublicationQueues
  DEF Next, Step, Fault, Request, Worker

-----------------------------------------------------------------------------
(* Safety of the rows. *)

\* The rows stay well-formed and the attempt table is a function of attempts.
LEMMA WrittenRow ==
  ASSUME Base, NEW n \in AttemptIds, NEW a, Writes(n, a)
  PROVE  attempt'[n] = a /\ \A m \in AttemptIds \ {n} : attempt'[m] = attempt[m]
BY DEF Base, TypeOK, Writes

\* A published migration's current attempt is completed, and no step rewrites
\* a completed attempt: the invariant is inductive relative to the base.
LEMMA PublishedStep == Base /\ PublishedIsVerified /\ [Next]_vars => PublishedIsVerified'
<1> SUFFICES ASSUME Base, PublishedIsVerified, [Next]_vars PROVE PublishedIsVerified'
  OBVIOUS
<1>1. CASE Quiet \/ Decides \/ QueuesPublication \/ Publishes
  BY <1>1 DEF Quiet, Decides, QueuesPublication, Publishes, PublishedIsVerified,
     Publishable, row
<1>2. ASSUME NEW n \in AttemptIds, NEW a \in AttemptRow,
             Plans(n, a) \/ Revises(n, a) \/ Claims(n, a)
      PROVE  PublishedIsVerified'
  BY <1>2 DEF Plans, Revises, Claims, PublishedIsVerified
<1>3. ASSUME NEW n \in AttemptIds, NEW a \in AttemptRow, Completes(n, a)
      PROVE  PublishedIsVerified'
  BY <1>3, WrittenRow DEF Completes, PublishedIsVerified, Publishable, AttemptIds
<1>4. ASSUME NEW n \in AttemptIds, NEW a \in AttemptRow, Fails(n, a)
      PROVE  PublishedIsVerified'
  BY <1>4, WrittenRow
  DEF Fails, PublishedIsVerified, Publishable, AttemptIds, Base, TypeOK
<1>5. QED
  BY <1>1, <1>2, <1>3, <1>4, Effects

\* A migration that is ready, on its way to GitHub or there stands on a current
\* attempt that completed, was recommended for approval and passed its checks.
THEOREM PublishedMigrationsAreVerified == Spec => []PublishedIsVerified
<1>1. Init => PublishedIsVerified
  BY DEF Init, PublishedIsVerified
<1>2. QED
  BY <1>1, PublishedStep, BaseHolds, PTL DEF Spec

\* The stores persist only these attempt statuses: complete_attempt runs through
\* "verifying" and "reviewing" inside one transaction, and nothing cancels.
OnlyReached ==
  \A n \in AttemptIds :
    attempt[n].status \in {"absent", "created", "planning", "generating",
                           "completed", "failed"}

InStep == AttemptFollowsMigration /\ OnlyReached

\* No effect lets the current attempt and its migration drift apart.
LEMMA InStepStep == Base /\ InStep /\ PublishedIsVerified /\ [Next]_vars => InStep'
<1> SUFFICES ASSUME Base, InStep, PublishedIsVerified, [Next]_vars PROVE InStep'
  OBVIOUS
<1>1. /\ current \in 0..MaxAttempts /\ current' \in 0..MaxAttempts
      /\ Existing = 1..current /\ Existing' = 1..current'
  BY RowsStep DEF Base, TypeOK, HistoryIsAChain
<1>2. CASE Quiet \/ Decides \/ QueuesPublication \/ Publishes
  BY <1>2 DEF Quiet, Decides, QueuesPublication, Publishes, InStep, OnlyReached,
     AttemptFollowsMigration, Existing, row
<1>3. ASSUME NEW n \in AttemptIds, NEW a \in AttemptRow, Plans(n, a)
      PROVE  InStep'
  <2>1. attempt'[n] = a /\ \A m \in AttemptIds \ {n} : attempt'[m] = attempt[m]
    BY <1>3, WrittenRow DEF Plans
  <2>2. OnlyReached'
    BY <1>3, <2>1 DEF Plans, InStep, OnlyReached
  <2>3. \A m \in 1..current :
          m # n => attempt[m].status \in {"generating", "completed", "failed"}
    <3>1. \A m \in 1..current :
            m # current => attempt[m].status \in {"generating", "completed", "failed"}
      BY <1>1 DEF InStep, AttemptFollowsMigration
    <3>2. ASSUME n # current, current # 0
          PROVE  attempt[current].status \in {"generating", "completed", "failed"}
      <4>1. current \in Existing /\ current \in AttemptIds
        BY <1>1, <3>2 DEF AttemptIds
      <4>2. /\ attempt[current].status \notin {"absent", "planning", "generating"}
            /\ attempt[current].status # "created"
        BY <1>3, <3>2, <4>1
        DEF Plans, InStep, AttemptFollowsMigration, HasCreatedAttempt, Existing
      <4>3. QED
        BY <4>1, <4>2 DEF InStep, OnlyReached
    <3>3. QED
      BY <1>1, <3>1, <3>2
  <2>4. current' = n /\ (n = current \/ n = current + 1)
    BY <1>3 DEF Plans
  <2>5. \A m \in Existing' \ {current'} :
          attempt'[m].status \in {"generating", "completed", "failed"}
    <3>1. \A m \in Existing' \ {n} : m \in 1..current /\ m \in AttemptIds
      BY <1>1, <2>4, MaxAttemptsAssumption DEF AttemptIds
    <3>2. QED
      BY <2>1, <2>3, <2>4, <3>1
  <2>6. status' = "planning" /\ attempt'[current'].status = "planning"
    BY <1>3, <2>1 DEF Plans
  <2>7. QED
    BY <2>2, <2>5, <2>6 DEF InStep, AttemptFollowsMigration
<1>4. ASSUME NEW n \in AttemptIds, NEW a \in AttemptRow, Revises(n, a)
      PROVE  InStep'
  <2>1. attempt'[n] = a /\ \A m \in AttemptIds \ {n} : attempt'[m] = attempt[m]
    BY <1>4, WrittenRow DEF Revises
  <2>2. OnlyReached'
    BY <1>4, <2>1 DEF Revises, InStep, OnlyReached
  <2>3. \A m \in 1..current :
          attempt[m].status \in {"generating", "completed", "failed"}
    <3>1. \A m \in 1..current :
            m # current => attempt[m].status \in {"generating", "completed", "failed"}
      BY <1>1 DEF InStep, AttemptFollowsMigration
    <3>2. ASSUME current # 0
          PROVE  attempt[current].status \in {"generating", "completed", "failed"}
      <4>1. current \in Existing /\ current \in AttemptIds
        BY <1>1, <3>2 DEF AttemptIds
      <4>2. attempt[current].status \notin {"absent", "planning", "created"}
        BY <1>4, <3>2, <4>1 DEF Revises, InStep, AttemptFollowsMigration, Existing
      <4>3. QED
        BY <4>1, <4>2 DEF InStep, OnlyReached
    <3>3. QED
      BY <1>1, <3>1, <3>2
  <2>4. current' = n /\ n = current + 1
    BY <1>4 DEF Revises
  <2>5. \A m \in Existing' \ {current'} :
          attempt'[m].status \in {"generating", "completed", "failed"}
    <3>1. \A m \in Existing' \ {n} : m \in 1..current /\ m \in AttemptIds
      BY <1>1, <2>4, MaxAttemptsAssumption DEF AttemptIds
    <3>2. QED
      BY <2>1, <2>3, <2>4, <3>1
  <2>6. status' = "needs_revision" /\ attempt'[current'].status = "created"
    BY <1>4, <2>1 DEF Revises
  <2>7. QED
    BY <2>2, <2>5, <2>6 DEF InStep, AttemptFollowsMigration
<1>5. ASSUME NEW n \in AttemptIds, NEW a \in AttemptRow, Claims(n, a) \/ Completes(n, a)
      PROVE  InStep'
  <2>1. attempt'[n] = a /\ \A m \in AttemptIds \ {n} : attempt'[m] = attempt[m]
    BY <1>5, WrittenRow DEF Claims, Completes
  <2>2. OnlyReached'
    BY <1>5, <2>1 DEF Claims, Completes, InStep, OnlyReached
  <2>3. current' = current /\ n = current /\ Existing' = Existing
    BY <1>1, <1>5 DEF Claims, Completes
  <2>4. \A m \in Existing' \ {current'} :
          attempt'[m].status \in {"generating", "completed", "failed"}
    BY <2>1, <2>3 DEF InStep, AttemptFollowsMigration, Existing
  <2>5. \/ status' = "generating" /\ attempt'[current'].status = "generating"
        \/ /\ status' \in {"ready", "needs_revision", "blocked"}
           /\ attempt'[current'].status = "completed"
    BY <1>5, <2>1, <2>3 DEF Claims, Completes
  <2>6. QED
    BY <2>2, <2>4, <2>5 DEF InStep, AttemptFollowsMigration
<1>6. ASSUME NEW n \in AttemptIds, NEW a \in AttemptRow, Fails(n, a)
      PROVE  InStep'
  BY <1>1, <1>6, WrittenRow DEF Fails, InStep, OnlyReached,
     AttemptFollowsMigration, Existing, AttemptIds
<1>7. QED
  BY <1>2, <1>3, <1>4, <1>5, <1>6, Effects

\* The current attempt is in step in every reachable state.
LEMMA InStepHolds == Spec => []InStep
<1>1. Init => InStep
  BY DEF Init, InStep, OnlyReached, AttemptFollowsMigration, Existing, NoAttempt
<1>2. QED
  BY <1>1, InStepStep, PublishedMigrationsAreVerified, BaseHolds, PTL DEF Spec

\* The current attempt is in step with its migration, and every other attempt
\* has ended or was revised while it was being generated.
THEOREM AttemptsFollowTheMigration == Spec => []AttemptFollowsMigration
<1>1. InStep => AttemptFollowsMigration
  BY DEF InStep
<1>2. QED
  BY <1>1, InStepHolds, PTL

\* No effect lets the pull-request record and the migration drift apart; a
\* failing generation never finds its migration in pr_opening.
LEMMA PublicationStep ==
  Base /\ InStep /\ PublicationFollowsMigration /\ [Next]_vars =>
    PublicationFollowsMigration'
<1> SUFFICES ASSUME Base, InStep, PublicationFollowsMigration, [Next]_vars
             PROVE  PublicationFollowsMigration'
  OBVIOUS
<1>1. CASE Quiet \/ Decides \/ QueuesPublication \/ Publishes
  BY <1>1 DEF Quiet, Decides, QueuesPublication, Publishes,
     PublicationFollowsMigration, row
<1>2. ASSUME NEW n \in AttemptIds, NEW a \in AttemptRow,
             \/ Plans(n, a) \/ Revises(n, a) \/ Claims(n, a) \/ Completes(n, a)
      PROVE  PublicationFollowsMigration'
  BY <1>2 DEF Plans, Revises, Claims, Completes, PublicationFollowsMigration
<1>3. ASSUME NEW n \in AttemptIds, NEW a \in AttemptRow, Fails(n, a)
      PROVE  PublicationFollowsMigration'
  <2>1. n = current => status \in {"planning", "generating"}
    BY <1>3 DEF Fails, InStep, OnlyReached, AttemptFollowsMigration, AttemptIds
  <2>2. QED
    BY <1>3, <2>1 DEF Fails, PublicationFollowsMigration
<1>4. QED
  BY <1>1, <1>2, <1>3, Effects

\* The pull-request record is active exactly while the migration is pr_opening,
\* and describes the current attempt from then on.
THEOREM PublicationFollowsTheMigration == Spec => []PublicationFollowsMigration
<1>1. Init => PublicationFollowsMigration
  BY DEF Init, PublicationFollowsMigration
<1>2. QED
  BY <1>1, PublicationStep, InStepHolds, BaseHolds, PTL DEF Spec

-----------------------------------------------------------------------------
(* Concurrency of decisions. *)

\* A step stores at most one response, for the version it found.
LEMMA Remembers ==
  ASSUME Base, [Next]_vars
  PROVE  \/ UNCHANGED idem
         \/ \E q \in RequestRecord : \E n, v :
              /\ q.expected = version /\ version' = version + 1
              /\ Prior(q.op, q.key) = {} /\ Remember(q, n, v)
<1>1. ASSUME NEW r \in Requests,
             QueueAttempt(r) \/ QueuePublication(r) \/ ApplyDeveloperAction(r)
      PROVE  \E q \in RequestRecord : \E n, v :
               /\ q.expected = version /\ version' = version + 1
               /\ Prior(q.op, q.key) = {} /\ Remember(q, n, v)
  <2>1. req[r] \in RequestRecord
    BY DEF Base, TypeOK
  <2>2. /\ req[r].expected = version /\ Prior(req[r].op, req[r].key) = {}
        /\ version' = version + 1
    BY <1>1
    DEF QueueAttempt, QueuePublication, ApplyDeveloperAction, Accepted, ValidTransition
  <2>3. \E n, v : Remember(req[r], n, v)
    BY <1>1 DEF QueueAttempt, QueuePublication, ApplyDeveloperAction
  <2>4. QED
    BY <2>1, <2>2, <2>3
<1>2. ASSUME NEW j \in JobSlots, Worker(j) PROVE UNCHANGED idem
  BY <1>2
  DEF Worker, db, ClaimAttempt, GenerationRaises, CompleteAttempt, FailAttempt,
      ClaimPublication, PublicationRaises, CompletePublication, FailPublication
<1>3. ASSUME NEW r \in Requests, Request(r),
             ~QueueAttempt(r), ~QueuePublication(r), ~ApplyDeveloperAction(r)
      PROVE  UNCHANGED idem
  BY <1>3 DEF Request, db, BeginRequest, RejectRequest, DeferJob
<1>4. CASE Fault \/ UNCHANGED vars
  BY <1>4 DEF Fault, WebCrash, WorkerCrash, vars, db
<1>5. QED
  BY <1>1, <1>2, <1>3, <1>4 DEF Next, Step

\* No step lowers the version of the migration.
LEMMA VersionGrows ==
  ASSUME Base, [Next]_vars
  PROVE  version' \in {version, version + 1, version + 2}
BY Effects
DEF Quiet, Decides, QueuesPublication, Publishes, Plans, Revises, Claims, Completes,
    Fails, row

\* Every accepted request acted on a version that is in the past by now.
DecisionsArePast == \A i \in idem : i.expected < version

\* Every accepted request moves the version past what it acted on.
LEMMA DecisionsStep ==
  Base /\ DecisionsArePast /\ NoLostDecision /\ [Next]_vars =>
    DecisionsArePast' /\ NoLostDecision'
<1> SUFFICES ASSUME Base, DecisionsArePast, NoLostDecision, [Next]_vars
             PROVE  DecisionsArePast' /\ NoLostDecision'
  OBVIOUS
<1>1. version \in Nat /\ \A i \in idem : i.expected \in Nat
  BY DEF Base, TypeOK, IdemRow
<1>2. CASE UNCHANGED idem
  BY <1>1, <1>2, VersionGrows DEF DecisionsArePast, NoLostDecision
<1>3. ASSUME NEW q \in RequestRecord, NEW n, NEW v,
             q.expected = version, version' = version + 1,
             Prior(q.op, q.key) = {}, Remember(q, n, v)
      PROVE  DecisionsArePast' /\ NoLostDecision'
  <2> DEFINE new == [ op |-> q.op, key |-> q.key, expected |-> q.expected,
                      attempt |-> n, version |-> v ]
  <2>1. /\ idem' = idem \cup {new} /\ new.expected = version
        /\ \A i \in idem : ~(i.op = new.op /\ i.key = new.key)
    BY <1>3 DEF Remember, Prior
  <2> HIDE DEF new
  <2>2. \A i \in idem : i.expected # new.expected
    BY <1>1, <2>1 DEF DecisionsArePast
  <2>3. QED
    BY <1>1, <1>3, <2>1, <2>2 DEF DecisionsArePast, NoLostDecision
<1>4. QED
  BY <1>2, <1>3, Remembers

\* No two accepted requests acted on one version of the migration, and no
\* idempotency key was accepted twice: nobody's decision is silently overwritten.
THEOREM NoDecisionIsLost == Spec => []NoLostDecision
<1>1. Init => DecisionsArePast /\ NoLostDecision
  BY DEF Init, DecisionsArePast, NoLostDecision
<1>2. QED
  BY <1>1, DecisionsStep, BaseHolds, PTL DEF Spec

-----------------------------------------------------------------------------
(* The migration row implements the versioned entity. *)

\* One edge of the table, paid with one version.
LEMMA RowEdge ==
  ASSUME status' \in MigrationTransitions[status], version' = version + 1
  PROVE  Row!Next
<1>1. Row!Advance(1)
  BY DEF Row!Advance, Row!Path
<1>2. QED
  BY <1>1 DEF Row!Next

\* Two edges of the table in one transaction, paid with two versions.
LEMMA RowTwoEdges ==
  ASSUME NEW via \in MigrationTransitions[status],
         status' \in MigrationTransitions[via], version' = version + 2
  PROVE  Row!Next
<1>1. Row!Advance(2)
  BY DEF Row!Advance, Row!Path
<1>2. QED
  BY <1>1 DEF Row!Next

\* Every effect moves the migration along the edges its version pays for.
LEMMA MigrationAdvances ==
  ASSUME Base, [Next]_vars
  PROVE  [Row!Next]_<<status, version>>
<1>1. CASE Quiet
  BY <1>1 DEF Quiet, row
<1>2. CASE Decides \/ QueuesPublication
  <2>1. status' \in MigrationTransitions[status] /\ version' = version + 1
    BY <1>2, MigrationRows DEF Decides, QueuesPublication
  <2>2. QED
    BY <2>1, RowEdge
<1>3. CASE Publishes
  <2>1. \/ UNCHANGED <<status, version>>
        \/ status' \in MigrationTransitions[status] /\ version' = version + 1
    BY <1>3, MigrationRows DEF Publishes, row
  <2>2. QED
    BY <2>1, RowEdge
<1>4. ASSUME NEW n \in AttemptIds, NEW a \in AttemptRow,
             Plans(n, a) \/ Revises(n, a) \/ Claims(n, a) \/ Fails(n, a)
      PROVE  [Row!Next]_<<status, version>>
  <2>1. \/ UNCHANGED <<status, version>>
        \/ status' \in MigrationTransitions[status] /\ version' = version + 1
    BY <1>4, MigrationRows DEF Plans, Revises, Claims, Fails
  <2>2. QED
    BY <2>1, RowEdge
<1>5. ASSUME NEW n \in AttemptIds, NEW a \in AttemptRow, Completes(n, a)
      PROVE  [Row!Next]_<<status, version>>
  <2>1. /\ "verifying" \in MigrationTransitions[status]
        /\ status' \in MigrationTransitions["verifying"] /\ version' = version + 2
    BY <1>5, MigrationRows DEF Completes
  <2>2. QED
    BY <2>1, RowTwoEdges
<1>6. QED
  BY <1>1, <1>2, <1>3, <1>4, <1>5, Effects

\* The migration moves along the lifecycle table only, and its version counts
\* the edges it has travelled.
THEOREM MigrationImplementsVersionedRow == Spec => MigrationIsVersioned
<1>1. Init => Row!Init
  BY DEF Init, Row!Init
<1>2. Base /\ [Next]_vars => [Row!Next]_<<status, version>>
  BY MigrationAdvances
<1>3. QED
  BY <1>1, <1>2, BaseHolds, PTL DEF Spec, MigrationIsVersioned, Row!Spec, Row!entity

-----------------------------------------------------------------------------
(* What a step may never do to an attempt. *)

\* An attempt that has completed or failed is never written again.
THEOREM TerminalAttemptsAreFinal == Spec => TerminalAttemptsStay
<1> DEFINE Stay == \A n \in AttemptIds : attempt[n].status \in {"completed", "failed"} =>
                     attempt'[n] = attempt[n]
<1>1. ASSUME Base, [Next]_vars
      PROVE  Stay
  <2>1. CASE Quiet \/ Decides \/ QueuesPublication \/ Publishes
    BY <1>1, <2>1 DEF Quiet, Decides, QueuesPublication, Publishes
  <2>2. ASSUME NEW n \in AttemptIds, NEW a \in AttemptRow,
               \/ Plans(n, a) \/ Revises(n, a) \/ Claims(n, a)
               \/ Completes(n, a) \/ Fails(n, a)
        PROVE  Stay
    <3>1. attempt'[n] = a /\ \A m \in AttemptIds \ {n} : attempt'[m] = attempt[m]
      BY <1>1, <2>2, WrittenRow DEF Plans, Revises, Claims, Completes, Fails
    <3>2. attempt[n].status \notin {"completed", "failed"}
      <4>1. current + 1 \notin Existing
        BY <1>1 DEF Base, HistoryIsAChain, TypeOK
      <4>2. n = current + 1 => attempt[n].status = "absent"
        BY <4>1 DEF Existing
      <4>3. QED
        BY <2>2, <4>2 DEF Plans, Revises, Claims, Completes, Fails
    <3>3. QED
      BY <3>1, <3>2
  <2>3. QED
    BY <1>1, <2>1, <2>2, Effects
<1>2. QED
  BY <1>1, BaseHolds, PTL DEF Spec, TerminalAttemptsStay

\* A job of an attempt that is no longer current changes nothing but that
\* attempt, and can only fail it.
THEOREM StaleJobsOnlyFail == Spec => StaleJobsAdvanceNothing
<1> DEFINE Stale == \A n \in AttemptIds :
                      attempt'[n] # attempt[n] /\ n \notin {current, current'} =>
                        attempt'[n].status = "failed" /\ UNCHANGED <<row, publication, idem>>
<1>1. ASSUME Base, [Next]_vars
      PROVE  Stale
  <2>1. CASE Quiet \/ Decides \/ QueuesPublication \/ Publishes
    BY <1>1, <2>1 DEF Quiet, Decides, QueuesPublication, Publishes
  <2>2. ASSUME NEW n \in AttemptIds, NEW a \in AttemptRow,
               Plans(n, a) \/ Revises(n, a) \/ Claims(n, a) \/ Completes(n, a)
        PROVE  Stale
    <3>1. \A m \in AttemptIds \ {n} : attempt'[m] = attempt[m]
      BY <1>1, <2>2, WrittenRow DEF Plans, Revises, Claims, Completes
    <3>2. n \in {current, current'}
      BY <2>2 DEF Plans, Revises, Claims, Completes
    <3>3. QED
      BY <3>1, <3>2
  <2>3. ASSUME NEW n \in AttemptIds, NEW a \in AttemptRow, Fails(n, a)
        PROVE  Stale
    <3>1. attempt'[n] = a /\ \A m \in AttemptIds \ {n} : attempt'[m] = attempt[m]
      BY <1>1, <2>3, WrittenRow DEF Fails
    <3>2. n # current => a.status = "failed" /\ UNCHANGED <<row, publication>>
      BY <2>3 DEF Fails, row
    <3>3. n # current => UNCHANGED idem
      <4>1. n # current => version' # version + 1
        BY <1>1, <3>2 DEF row, Base, TypeOK
      <4>2. QED
        BY <1>1, <4>1, Remembers
    <3>4. QED
      BY <3>1, <3>2, <3>3
  <2>4. QED
    BY <1>1, <2>1, <2>2, <2>3, Effects
<1>2. QED
  BY <1>1, BaseHolds, PTL DEF Spec, StaleJobsAdvanceNothing

\* A row that is not there has version 0.
AbsentIsBlank == \A n \in AttemptIds : attempt[n].status = "absent" => attempt[n].version = 0

\* No step gives a version to a row it does not create.
LEMMA AbsentStep == Base /\ AbsentIsBlank /\ [Next]_vars => AbsentIsBlank'
<1> SUFFICES ASSUME Base, AbsentIsBlank, [Next]_vars PROVE AbsentIsBlank'
  OBVIOUS
<1>1. CASE Quiet \/ Decides \/ QueuesPublication \/ Publishes
  BY <1>1 DEF Quiet, Decides, QueuesPublication, Publishes, AbsentIsBlank
<1>2. ASSUME NEW n \in AttemptIds, NEW a \in AttemptRow,
             \/ Plans(n, a) \/ Revises(n, a) \/ Claims(n, a)
             \/ Completes(n, a) \/ Fails(n, a)
      PROVE  AbsentIsBlank'
  BY <1>2, WrittenRow DEF Plans, Revises, Claims, Completes, Fails, AbsentIsBlank
<1>3. QED
  BY <1>1, <1>2, Effects

\* A row that was never inserted has no version.
LEMMA AbsentHolds == Spec => []AbsentIsBlank
<1>1. Init => AbsentIsBlank
  BY DEF Init, AbsentIsBlank, NoAttempt
<1>2. QED
  BY <1>1, AbsentStep, BaseHolds, PTL DEF Spec

\* The lifecycle of an attempt, from before its creation.
LEMMA AttemptTableRows ==
  /\ AttemptTable["absent"]     = {"created"}
  /\ AttemptTable["created"]    = {"planning", "cancelled"}
  /\ AttemptTable["planning"]   = {"generating", "failed", "cancelled"}
  /\ AttemptTable["generating"] = {"verifying", "failed", "cancelled"}
  /\ AttemptTable["verifying"]  = {"reviewing", "failed", "cancelled"}
  /\ AttemptTable["reviewing"]  = {"completed", "failed", "cancelled"}
BY AttemptRows DEF AttemptTable

\* A path of up to three edges, paid for, is a step of the versioned entity.
LEMMA AttemptAdvances ==
  ASSUME NEW n \in AttemptIds,
         \E k \in 1..3 : /\ Entity(n)!Path(AttemptTable, attempt[n].status,
                                           attempt'[n].status, k)
                         /\ attempt'[n].version = attempt[n].version + k
  PROVE  Entity(n)!Next
BY DEF Entity!Next, Entity!Advance

\* From its creation on an attempt moves along its lifecycle table only, and its
\* version counts the edges, also where one transaction travels several.
THEOREM AttemptsImplementVersionedRows == Spec => AttemptsAreVersioned
<1> DEFINE Moves(n) == attempt'[n] = attempt[n] \/ Entity(n)!Next
<1>1. ASSUME Base, AbsentIsBlank, [Next]_vars
      PROVE  \A n \in AttemptIds : Moves(n)
  <2>1. CASE Quiet \/ Decides \/ QueuesPublication \/ Publishes
    BY <1>1, <2>1 DEF Quiet, Decides, QueuesPublication, Publishes
  <2>2. ASSUME NEW n \in AttemptIds, NEW a \in AttemptRow,
               \/ Plans(n, a) \/ Revises(n, a) \/ Claims(n, a)
               \/ Completes(n, a) \/ Fails(n, a)
        PROVE  \A m \in AttemptIds : Moves(m)
    <3>1. attempt'[n] = a /\ \A m \in AttemptIds \ {n} : attempt'[m] = attempt[m]
      BY <1>1, <2>2, WrittenRow DEF Plans, Revises, Claims, Completes, Fails
    <3>2. n = current + 1 => attempt[n].status = "absent" /\ attempt[n].version = 0
      <4>1. current + 1 \notin Existing
        BY <1>1 DEF Base, HistoryIsAChain, TypeOK
      <4>2. QED
        BY <1>1, <4>1 DEF Existing, AbsentIsBlank
    <3>3. \E k \in 1..3 : /\ Entity(n)!Path(AttemptTable, attempt[n].status, a.status, k)
                          /\ a.version = attempt[n].version + k
      <4>1. CASE Plans(n, a)
        <5>1. CASE n = current
          <6>1. Entity(n)!Path(AttemptTable, attempt[n].status, a.status, 1)
            BY <2>2, <4>1, <5>1, AttemptTableRows, <1>1
            DEF Plans, Entity!Path, HasCreatedAttempt, Base, TypeOK, AttemptIds
          <6>2. a.version = attempt[n].version + 1
            BY <1>1, <4>1, <5>1 DEF Plans, Base, TypeOK
          <6>3. QED
            BY <6>1, <6>2
        <5>2. CASE n # current
          <6>1. /\ n = current + 1 /\ a.status = "planning" /\ a.version = 2
            BY <4>1, <5>2 DEF Plans
          <6>2. Entity(n)!Path(AttemptTable, attempt[n].status, a.status, 2)
            BY <3>2, <6>1, AttemptTableRows DEF Entity!Path
          <6>3. QED
            BY <3>2, <6>1, <6>2
        <5>3. QED
          BY <5>1, <5>2
      <4>2. CASE Revises(n, a)
        <5>1. Entity(n)!Path(AttemptTable, attempt[n].status, a.status, 1)
          BY <3>2, <4>2, AttemptTableRows DEF Revises, Entity!Path
        <5>2. QED
          BY <3>2, <4>2, <5>1 DEF Revises
      <4>3. CASE Claims(n, a) \/ Fails(n, a)
        <5>1. Entity(n)!Path(AttemptTable, attempt[n].status, a.status, 1)
          BY <4>3, AttemptTableRows DEF Claims, Fails, Entity!Path
        <5>2. QED
          BY <4>3, <5>1 DEF Claims, Fails
      <4>4. CASE Completes(n, a)
        <5>1. Entity(n)!Path(AttemptTable, attempt[n].status, a.status, 3)
          BY <4>4, AttemptTableRows DEF Completes, Entity!Path
        <5>2. QED
          BY <4>4, <5>1 DEF Completes
      <4>5. QED
        BY <2>2, <4>1, <4>2, <4>3, <4>4
    <3>4. Entity(n)!Next
      BY <3>1, <3>3, AttemptAdvances
    <3>5. QED
      BY <3>1, <3>4
  <2>3. QED
    BY <1>1, <2>1, <2>2, Effects
<1>2. QED
  BY <1>1, AbsentHolds, BaseHolds, PTL DEF Spec, AttemptsAreVersioned

-----------------------------------------------------------------------------
(* Workers. *)

\* If no job becomes busy and what each busy job works on stays its own, the
\* workers keep owning their work.
LEMMA StillOwned ==
  ASSUME Base, WorkerOwnsItsWork, HistoryIsAChain',
         \A i \in JobSlots : \A kind \in {"generation", "publication"} :
           Busy(i, kind)' => Busy(i, kind) /\ job'[i].attempt = job[i].attempt,
         Existing \subseteq Existing',
         \A i \in JobSlots : Busy(i, "generation")' =>
           attempt'[job[i].attempt].status = "generating",
         \A i \in JobSlots : Busy(i, "publication")' =>
           /\ status' = "pr_opening" /\ current' = current
           /\ publication'.status = "publishing"
  PROVE  WorkerOwnsItsWork'
BY DEF WorkerOwnsItsWork

\* The fields of a job that moves on, takes an attempt or ends.
LEMMA JobFields ==
  ASSUME Base, NEW j \in JobSlots, NEW pc \in JobPc, NEW n \in 0..MaxAttempts
  PROVE  /\ [job[j] EXCEPT !.pc = pc].pc = pc
         /\ [job[j] EXCEPT !.pc = pc].kind = job[j].kind
         /\ [job[j] EXCEPT !.pc = pc].attempt = job[j].attempt
         /\ [job[j] EXCEPT !.pc = pc, !.attempt = n].pc = pc
         /\ [job[j] EXCEPT !.pc = pc, !.attempt = n].kind = job[j].kind
         /\ [job[j] EXCEPT !.pc = pc, !.attempt = n].attempt = n
         /\ NoJob.pc = "free"
<1>1. job[j] \in JobRecord
  BY DEF Base, TypeOK
<1>2. QED
  BY <1>1 DEF JobRecord, NoJob

\* What a worker's step does to the jobs.
LEMMA WorkerJobs ==
  ASSUME Base, NEW j \in JobSlots, Worker(j) \/ WorkerCrash(j)
  PROVE  /\ \A i \in JobSlots \ {j} : job'[i] = job[i]
         /\ job'[j].pc \in {"running", "failing"} =>
              /\ job'[j].kind = job[j].kind
              /\ job[j].kind = "generation" => job'[j].attempt = job[j].attempt
<1>1. \/ \E pc \in JobPc : job' = [job EXCEPT ![j].pc = pc]
      \/ job' = [job EXCEPT ![j] = NoJob]
      \/ /\ job[j].kind = "publication"
         /\ \E pc \in JobPc : job' = [job EXCEPT ![j] =
                [job[j] EXCEPT !.pc = pc, !.attempt = publication.attempt]]
  BY DEF Worker, ClaimAttempt, GenerationRaises, CompleteAttempt, FailAttempt,
     ClaimPublication, PublicationRaises, CompletePublication, FailPublication,
     WorkerCrash, Waiting, JobPc
<1>2. job \in [JobSlots -> JobRecord] /\ publication.attempt \in 0..MaxAttempts
  BY DEF Base, TypeOK
<1>3. CASE \E pc \in JobPc : job' = [job EXCEPT ![j].pc = pc]
  BY <1>2, <1>3, JobFields, MaxAttemptsAssumption
<1>4. CASE job' = [job EXCEPT ![j] = NoJob]
  BY <1>2, <1>4 DEF NoJob
<1>5. CASE /\ job[j].kind = "publication"
           /\ \E pc \in JobPc : job' = [job EXCEPT ![j] =
                  [job[j] EXCEPT !.pc = pc, !.attempt = publication.attempt]]
  BY <1>2, <1>5, JobFields
<1>6. QED
  BY <1>1, <1>3, <1>4, <1>5

\* A claim succeeds only where nobody is busy, and no other step takes work away
\* from the worker that has it.
LEMMA OwnershipStep ==
  /\ Base /\ InStep /\ PublicationFollowsMigration /\ WorkerOwnsItsWork
  /\ [Next]_vars
  => WorkerOwnsItsWork'
<1> SUFFICES ASSUME Base, InStep, PublicationFollowsMigration, WorkerOwnsItsWork,
                    [Next]_vars
             PROVE  WorkerOwnsItsWork'
  OBVIOUS
<1>1. /\ HistoryIsAChain' /\ Existing \subseteq Existing'
      /\ job \in [JobSlots -> JobRecord] /\ current \in 0..MaxAttempts
      /\ Existing = 1..current
  BY RowsStep, AttemptsGrow DEF Base, TypeOK, HistoryIsAChain
<1>2. ASSUME Quiet, \A i \in JobSlots : \A kind \in {"generation", "publication"} :
                      Busy(i, kind)' =>
                        Busy(i, kind) /\ job'[i].attempt = job[i].attempt
      PROVE  WorkerOwnsItsWork'
  <2>1. /\ \A i \in JobSlots : Busy(i, "generation")' =>
             attempt'[job[i].attempt].status = "generating"
        /\ \A i \in JobSlots : Busy(i, "publication")' =>
             /\ status' = "pr_opening" /\ current' = current
             /\ publication'.status = "publishing"
    BY <1>2 DEF WorkerOwnsItsWork, Quiet, row
  <2>2. QED
    BY <1>1, <1>2, <2>1, StillOwned
<1>3. ASSUME NEW r \in Requests,
             \/ \E op \in ClientOps, key \in Keys :
                  \E expected \in {version} \cup {i.expected : i \in Prior(op, key)} :
                    BeginRequest(r, op, key, expected)
             \/ RejectRequest(r)
             \/ WebCrash(r)
      PROVE  WorkerOwnsItsWork'
  <2>1. Quiet /\ UNCHANGED job
    BY <1>3 DEF BeginRequest, RejectRequest, WebCrash, Quiet, db
  <2>2. QED
    BY <1>2, <2>1 DEF Busy
<1>4. ASSUME NEW r \in Requests, NEW j \in JobSlots, DeferJob(r, j)
      PROVE  WorkerOwnsItsWork'
  <2>1. Quiet /\ job'[j].pc = "todo" /\ \A i \in JobSlots \ {j} : job'[i] = job[i]
    BY <1>1, <1>4 DEF DeferJob, Quiet, db
  <2>2. QED
    BY <1>2, <2>1 DEF Busy
<1>5. ASSUME NEW r \in Requests,
             QueueAttempt(r) \/ QueuePublication(r) \/ ApplyDeveloperAction(r)
      PROVE  WorkerOwnsItsWork'
  <2>1. UNCHANGED job
    BY <1>5 DEF QueueAttempt, QueuePublication, ApplyDeveloperAction
  <2>2. /\ status # "pr_opening"
        /\ \/ UNCHANGED attempt
           \/ \E n \in AttemptIds, a \in AttemptRow :
                Writes(n, a) /\ attempt[n].status # "generating"
    <3>1. current + 1 \notin Existing
      BY <1>1
    <3>2. \A n \in AttemptIds : n = current + 1 => attempt[n].status = "absent"
      BY <3>1 DEF Existing
    <3>3. QED
      BY <1>5, <3>2, QueueAttemptPlans, ActionRevisesOrDecides, QueuePublicationQueues
      DEF Plans, Revises, Decides, QueuesPublication
  <2>3. \A m \in AttemptIds : attempt[m].status = "generating" => attempt'[m] = attempt[m]
    BY <1>1, <2>2, WrittenRow
  <2>4. /\ \A i \in JobSlots : Busy(i, "generation")' =>
             attempt'[job[i].attempt].status = "generating"
        /\ \A i \in JobSlots : ~Busy(i, "publication")'
    BY <2>1, <2>2, <2>3 DEF WorkerOwnsItsWork, Busy, Existing
  <2>5. QED
    BY <1>1, <2>1, <2>4, StillOwned DEF Busy
<1>6. ASSUME NEW j \in JobSlots, NEW found \in BOOLEAN, ClaimAttempt(j, found)
      PROVE  WorkerOwnsItsWork'
  <2> DEFINE n == job[j].attempt
  <2>1. /\ \A i \in JobSlots \ {j} : job'[i] = job[i]
        /\ Busy(j, "generation")' => job'[j].attempt = n
        /\ ~Busy(j, "publication")'
    BY <1>6, WorkerJobs DEF Worker, ClaimAttempt, Waiting, Busy
  <2>2. n \in Existing /\ n \in AttemptIds
    BY <1>6 DEF ClaimAttempt, Waiting, Base, ReferencesExist, Existing
  <2>3. CASE attempt[n].status # "planning"
    <3>1. Quiet /\ job' = [job EXCEPT ![j] = NoJob]
      BY <1>6, <2>3 DEF ClaimAttempt, Claimable, Quiet, db
    <3>2. QED
      BY <1>1, <1>2, <3>1 DEF Busy, NoJob
  <2>4. CASE attempt[n].status = "planning"
    <3>1. status = "planning" /\ current = n
      BY <2>2, <2>4 DEF InStep, AttemptFollowsMigration, AttemptIds
    <3>2. /\ attempt' = [attempt EXCEPT ![n] = Moved(attempt[n], "generating", 1)]
          /\ UNCHANGED <<current, publication>> /\ status' = "generating"
      BY <1>6, <2>4, <3>1 DEF ClaimAttempt, Claimable
    <3>3. Moved(attempt[n], "generating", 1).status = "generating"
      <4>1. "generating" \in AttemptStatus /\ 1 \in Nat /\ attempt[n] \in AttemptRow
        BY <2>2, AttemptRows DEF Base, TypeOK
      <4>2. QED
        BY <4>1, MovedRow
    <3>4. /\ attempt'[n].status = "generating"
          /\ \A m \in AttemptIds \ {n} : attempt'[m] = attempt[m]
      BY <2>2, <3>2, <3>3 DEF Base, TypeOK
    <3>5. \A i \in JobSlots : /\ ~Busy(i, "publication")
                              /\ Busy(i, "generation") => job[i].attempt # n
      BY <2>4, <3>1 DEF WorkerOwnsItsWork
    <3> HIDE DEF n
    <3>6. \A i \in JobSlots : ~Busy(i, "publication")'
      BY <2>1, <3>5 DEF Busy
    <3>7. \A i \in JobSlots \ {j} : Busy(i, "generation")' =>
            /\ Busy(i, "generation") /\ job'[i].attempt = job[i].attempt
            /\ job[i].attempt # n /\ job[i].attempt \in Existing
            /\ attempt'[job[i].attempt].status = "generating"
      BY <2>1, <3>4, <3>5 DEF Busy, WorkerOwnsItsWork, Existing
    <3>8. QED
      BY <1>1, <2>1, <2>2, <3>4, <3>6, <3>7 DEF WorkerOwnsItsWork
  <2>5. QED
    BY <2>3, <2>4
<1>7. ASSUME NEW j \in JobSlots,
             \/ GenerationRaises(j) \/ PublicationRaises(j) \/ WorkerCrash(j)
      PROVE  WorkerOwnsItsWork'
  <2>1. Quiet
    BY <1>7 DEF GenerationRaises, PublicationRaises, WorkerCrash, Quiet, db
  <2>2. \/ job' = [job EXCEPT ![j].pc = "failing"]
           /\ job[j].pc = "running"
        \/ job' = [job EXCEPT ![j] = NoJob]
    BY <1>7 DEF GenerationRaises, PublicationRaises, WorkerCrash, Running
  <2>3. \A i \in JobSlots : \A kind \in {"generation", "publication"} :
          Busy(i, kind)' => Busy(i, kind) /\ job'[i].attempt = job[i].attempt
    <3>1. "failing" \in JobPc /\ 0 \in 0..MaxAttempts
      BY MaxAttemptsAssumption DEF JobPc
    <3>2. CASE job' = [job EXCEPT ![j].pc = "failing"] /\ job[j].pc = "running"
      BY <1>1, <3>1, <3>2, JobFields DEF Busy
    <3>3. CASE job' = [job EXCEPT ![j] = NoJob]
      BY <1>1, <3>3 DEF Busy, NoJob
    <3>4. QED
      BY <2>2, <3>2, <3>3
  <2>4. QED
    BY <1>2, <2>1, <2>3
<1>8. ASSUME NEW j \in JobSlots,
             \/ \E action \in Decisions, e \in Executions : CompleteAttempt(j, action, e)
             \/ FailAttempt(j)
      PROVE  WorkerOwnsItsWork'
  <2> DEFINE n == job[j].attempt
  <2>1. /\ Busy(j, "generation") /\ n \in Existing /\ n \in AttemptIds
        /\ attempt[n].status = "generating"
    BY <1>8
    DEF CompleteAttempt, FailAttempt, Running, Failing, Busy, WorkerOwnsItsWork, Existing
  <2>2. CASE job' = [job EXCEPT ![j] = NoJob]
    <3>1. /\ \A m \in AttemptIds \ {n} : attempt'[m] = attempt[m]
          /\ UNCHANGED <<current, publication>>
      BY <1>8 DEF CompleteAttempt, FailAttempt, Base, TypeOK, db, row
    <3>2. \A i \in JobSlots : \A kind \in {"generation", "publication"} :
            Busy(i, kind)' => /\ i # j /\ Busy(i, kind)
                              /\ job'[i].attempt = job[i].attempt
      BY <1>1, <2>2 DEF Busy, NoJob
    <3>3. \A i \in JobSlots : Busy(i, "generation")' =>
            attempt'[job[i].attempt].status = "generating"
      BY <2>1, <3>1, <3>2 DEF WorkerOwnsItsWork, Existing
    <3>4. \A i \in JobSlots : Busy(i, "publication") => UNCHANGED status
      <4>1. SUFFICES ASSUME status = "pr_opening" PROVE UNCHANGED status
        BY DEF WorkerOwnsItsWork
      <4>2. current # n
        BY <2>1, <4>1 DEF InStep, AttemptFollowsMigration, AttemptIds
      <4>3. QED
        BY <1>8, <4>1, <4>2 DEF CompleteAttempt, FailAttempt, Blocks, db, row
    <3>5. \A i \in JobSlots : Busy(i, "publication")' =>
            /\ status' = "pr_opening" /\ current' = current
            /\ publication'.status = "publishing"
      BY <3>1, <3>2, <3>4 DEF WorkerOwnsItsWork
    <3> HIDE DEF n
    <3>6. QED
      BY <1>1, <3>2, <3>3, <3>5, StillOwned
  <2>3. CASE job' = [job EXCEPT ![j].pc = "failing"] /\ UNCHANGED db
    <3>1. \A i \in JobSlots : \A kind \in {"generation", "publication"} :
            Busy(i, kind)' => Busy(i, kind) /\ job'[i].attempt = job[i].attempt
      <4>1. "failing" \in JobPc /\ 0 \in 0..MaxAttempts
        BY MaxAttemptsAssumption DEF JobPc
      <4>2. QED
        BY <1>1, <2>1, <2>3, <4>1, JobFields DEF Busy
    <3>2. QED
      BY <1>2, <2>3, <3>1 DEF Quiet, db
  <2>4. QED
    BY <1>8, <2>2, <2>3 DEF CompleteAttempt, FailAttempt
<1>9. ASSUME NEW j \in JobSlots, NEW found \in BOOLEAN, ClaimPublication(j, found)
      PROVE  WorkerOwnsItsWork'
  <2>1. CASE publication.status = "queued"
    <3>1. status = "pr_opening" /\ publication.attempt = current
      BY <2>1 DEF PublicationFollowsMigration
    <3>2. \A i \in JobSlots : ~Busy(i, "publication")
      BY <2>1 DEF WorkerOwnsItsWork
    <3>3. /\ publication' = [publication EXCEPT !.status = "publishing"]
          /\ \E pc \in {"running", "failing"} : job' = [job EXCEPT ![j] =
                 [job[j] EXCEPT !.pc = pc, !.attempt = publication.attempt]]
          /\ UNCHANGED <<row, attempt>> /\ job[j].kind = "publication"
      BY <1>9, <2>1 DEF ClaimPublication, Waiting
    <3>4. publication'.status = "publishing"
      BY <3>3 DEF Base, TypeOK
    <3>5. /\ \A i \in JobSlots \ {j} : job'[i] = job[i]
          /\ job'[j].kind = "publication" /\ job'[j].attempt = current
      <4>1. publication.attempt \in 0..MaxAttempts
            /\ "running" \in JobPc /\ "failing" \in JobPc
        BY DEF Base, TypeOK, JobPc
      <4>2. QED
        BY <1>1, <3>1, <3>3, <4>1, JobFields
    <3>6. \A i \in JobSlots : Busy(i, "publication")' => i = j
      BY <3>2, <3>5 DEF Busy
    <3>7. \A i \in JobSlots : Busy(i, "generation")' =>
            i # j /\ Busy(i, "generation") /\ job'[i].attempt = job[i].attempt
      BY <3>5 DEF Busy
    <3>8. status' = status /\ current' = current /\ attempt' = attempt /\ Existing' = Existing
      BY <3>3 DEF row, Existing
    <3>9. QED
      BY <3>1, <3>4, <3>5, <3>6, <3>7, <3>8 DEF WorkerOwnsItsWork
  <2>2. CASE publication.status # "queued"
    <3>1. Quiet /\ job' = [job EXCEPT ![j] = NoJob]
      BY <1>9, <2>2 DEF ClaimPublication, Quiet
    <3>2. QED
      BY <1>1, <1>2, <3>1 DEF Busy, NoJob
  <2>3. QED
    BY <2>1, <2>2
<1>10. ASSUME NEW j \in JobSlots, CompletePublication(j) \/ FailPublication(j)
       PROVE  WorkerOwnsItsWork'
  <2>1. Busy(j, "publication")
    BY <1>10 DEF CompletePublication, FailPublication, Running, Failing, Busy
  <2>2. CASE job' = [job EXCEPT ![j] = NoJob]
    <3>1. \A i \in JobSlots : \A kind \in {"generation", "publication"} :
            Busy(i, kind)' => /\ i # j /\ Busy(i, kind)
                              /\ job'[i].attempt = job[i].attempt
      BY <1>1, <2>2 DEF Busy, NoJob
    <3>2. \A i \in JobSlots : ~Busy(i, "publication")'
      BY <2>1, <3>1 DEF WorkerOwnsItsWork
    <3>3. UNCHANGED attempt
      BY <1>10 DEF CompletePublication, FailPublication, db
    <3>4. \A i \in JobSlots : Busy(i, "generation")' =>
            attempt'[job[i].attempt].status = "generating"
      BY <3>1, <3>3 DEF WorkerOwnsItsWork
    <3>5. QED
      BY <1>1, <3>1, <3>2, <3>4, StillOwned
  <2>3. CASE job' = [job EXCEPT ![j].pc = "failing"] /\ UNCHANGED db
    <3>1. \A i \in JobSlots : \A kind \in {"generation", "publication"} :
            Busy(i, kind)' => Busy(i, kind) /\ job'[i].attempt = job[i].attempt
      <4>1. "failing" \in JobPc /\ 0 \in 0..MaxAttempts
        BY MaxAttemptsAssumption DEF JobPc
      <4>2. QED
        BY <1>1, <2>1, <2>3, <4>1, JobFields DEF Busy
    <3>2. QED
      BY <1>2, <2>3, <3>1 DEF Quiet, db
  <2>4. QED
    BY <1>10, <2>2, <2>3 DEF CompletePublication, FailPublication
<1>11. CASE UNCHANGED vars
  BY <1>2, <1>11 DEF vars, Quiet, row, Busy
<1>12. QED
  BY <1>3, <1>4, <1>5, <1>6, <1>7, <1>8, <1>9, <1>10, <1>11
  DEF Next, Step, Fault, Request, Worker

\* Past its claim a worker has its attempt, or the publication, to itself:
\* duplicate and stale jobs are turned away at the claim.
THEOREM WorkersOwnTheirWork == Spec => []WorkerOwnsItsWork
<1>1. Init => WorkerOwnsItsWork
  BY DEF Init, WorkerOwnsItsWork, Busy, NoJob
<1>2. QED
  BY <1>1, OwnershipStep, PublicationFollowsTheMigration, InStepHolds, BaseHolds, PTL
  DEF Spec

=============================================================================
