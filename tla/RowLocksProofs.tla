--------------------------- MODULE RowLocksProofs ---------------------------
(* Theorems about the transactions of the lifecycle and their row locks, for *)
(* any number of connections and attempts and every combination of faults.   *)
EXTENDS RowLocks, FiniteSetTheorems, TLAPS

-----------------------------------------------------------------------------
(* The inductive invariant *)

Worker == {"claim_attempt", "complete_attempt", "fail_attempt",
           "claim_publication", "complete_publication", "fail_publication"}
Settles(op) == op \in Worker /\ ~Claims(op)

\* Where a connection is, and what it may be doing there.
Place(c) ==
  /\ Is(c, "idle") => conn[c] = Idle
  /\ ~Is(c, "open") => conn[c].held = {}
  /\ Is(c, "open") => Op(c) \in Transactions /\ conn[c].step <= Len(Statements(Op(c))) + 1
  /\ Is(c, "working") => Claims(Op(c)) /\ conn[c].claims
  /\ Is(c, "failing") => Op(c) \in Worker
  /\ conn[c].claims => Op(c) \in Worker /\ (Is(c, "open") => Settles(Op(c)))
  /\ OfAttempt(Op(c)) => conn[c].n \in Numbers /\ attempt[conn[c].n] # NoAttempt

\* The tables of the statements a transaction has behind it.
Passed(c) == {Statements(Op(c))[i] : i \in 1..(conn[c].step - 1)}

\* It holds the rows that its statements have found, and no others, and what it
\* has asked of them is still so.
HeldIsFound(c) ==
  /\ \A r \in conn[c].held : \E t \in Passed(c) : r = Row(c, t)
  /\ \A t \in Passed(c) : Row(c, t) \in conn[c].held <=> Locks(Op(c), t) /\ Finds(c, t)
PassedStillHolds(c) ==
  \A t \in Passed(c) : /\ Finds(c, t) => Accepts(c, t)
                       /\ Finds(c, t) \/ Optional(c, t)

Transacts(c) == Is(c, "open") => HeldIsFound(c) /\ PassedStillHolds(c)

\* The attempts are those up to some number, and the migration's is one of them.
Chain ==
  \E k \in 0..MaxAttempts :
    /\ \A n \in Numbers : attempt[n] = NoAttempt <=> n > k
    /\ migration.current <= k

\* An attempt that is planned or generated is the migration's, and so is the
\* publication; but a migration sent into revision leaves its attempt behind.
InStep ==
  /\ \A n \in Numbers :
       /\ attempt[n].status \in {"absent", "created", "planning", "generating",
                                 "completed", "failed"}
       /\ attempt[n].approved => attempt[n].status = "completed"
       /\ attempt[n].status = "planning" <=> migration = [status |-> "planning", current |-> n]
       /\ migration.current = n =>
            (attempt[n].status = "generating" <=> migration.status = "generating")
  /\ migration.current = 0 => migration.status = "queued"
  /\ migration.status = "pr_opening" <=> record.status \in {"queued", "publishing"}
  /\ record.status = "absent" <=> record = NoRecord

RowInv ==
  /\ TypeOK /\ Chain /\ InStep
  /\ \A c \in Connections : Place(c) /\ Transacts(c)

\* Until a claim raises, whoever completes or fails an attempt has claimed it, and
\* nobody else has.
Settling(c)           == Is(c, "failing") \/ (Is(c, "open") /\ Settles(Op(c)))
ClaimsAttempt(c)      == conn[c].claims /\ OfAttempt(Op(c))
ClaimsPublication(c)  == conn[c].claims /\ ~OfAttempt(Op(c))

AttemptInHand(c) ==
  /\ Settling(c) /\ OfAttempt(Op(c)) => conn[c].claims
  /\ ClaimsAttempt(c) => attempt[conn[c].n].status \notin {"absent", "created", "planning"}
  /\ ClaimsAttempt(c) /\ (Is(c, "working") \/ (Is(c, "open") /\ Op(c) = "complete_attempt")) =>
       attempt[conn[c].n].status = "generating"

AttemptIsClaimed ==
  "claim_attempt" \notin raised =>
    /\ \A c \in Connections : AttemptInHand(c)
    /\ \A c, d \in Connections :
         ClaimsAttempt(c) /\ ClaimsAttempt(d) /\ conn[c].n = conn[d].n => c = d

\* The same of the publication, which can be queued again.
PublicationInHand(c) ==
  /\ Settling(c) /\ ~OfAttempt(Op(c)) => conn[c].claims
  /\ ClaimsPublication(c) => record.status = "publishing" /\ conn[c].n = record.attempt

PublicationIsClaimed ==
  raised \cap {"claim_publication", "complete_publication"} = {} =>
    /\ \A c \in Connections : PublicationInHand(c)
    /\ \A c, d \in Connections : ClaimsPublication(c) /\ ClaimsPublication(d) => c = d

-----------------------------------------------------------------------------
(* The statements behind a transaction *)

LEMMA StatementsAre ==
  /\ \A op \in Decisions : Statements(op) = <<"migration">>
  /\ Statements("generate") = <<"migration", "attempt">>
  /\ Statements("publish") = <<"migration", "evidence", "record">>
  /\ \A op \in {"claim_attempt", "complete_attempt", "fail_attempt"} :
       Statements(op) = <<"attempt", "migration">>
  /\ Statements("claim_publication") = <<"record">>
  /\ \A op \in {"complete_publication", "fail_publication"} :
       Statements(op) = <<"record", "migration">>
BY DEF Statements, Decisions

\* Which tables a transaction has passed, by its operation and step.
PassedBy(op, step) ==
  {t \in {"migration", "attempt", "evidence", "record"} :
     \/ op \in Operations /\ t = "migration" /\ step > 1
     \/ op = "generate" /\ t = "attempt" /\ step > 2
     \/ op = "publish" /\ t = "evidence" /\ step > 2
     \/ op = "publish" /\ t = "record" /\ step > 3
     \/ OfAttempt(op) /\ t = "attempt" /\ step > 1
     \/ OfAttempt(op) /\ t = "migration" /\ step > 2
     \/ op \in Worker /\ ~OfAttempt(op) /\ t = "record" /\ step > 1
     \/ op \in {"complete_publication", "fail_publication"} /\ t = "migration" /\ step > 2}

LEMMA PassedIs ==
  ASSUME NEW c \in Connections, Op(c) \in Transactions,
         conn[c].step \in 1..4, conn[c].step <= Len(Statements(Op(c))) + 1
  PROVE  Passed(c) = PassedBy(Op(c), conn[c].step)
<1>1. \A t : t \in Passed(c) <=>
               \E i \in {1, 2, 3} : i < conn[c].step /\ t = Statements(Op(c))[i]
  BY DEF Passed
<1>2. CASE Op(c) \in Decisions
  <2>1. Statements(Op(c)) = <<"migration">>
    BY <1>2, StatementsAre DEF OfAttempt
  <2>2. Op(c) \in Operations /\ Op(c) \notin Worker /\ Op(c) \notin {"generate", "publish"}
    BY <1>2 DEF Operations, Decisions, Worker, OfAttempt
  <2>5. Len(Statements(Op(c))) = 1
    BY <2>1
  <2>3. \A t : t \in Passed(c) <=>
               \/ t = "migration" /\ conn[c].step > 1
    BY <1>1, <2>1, <2>5
  <2>4. \A t : t \in PassedBy(Op(c), conn[c].step) <=>
               \/ t = "migration" /\ conn[c].step > 1
    BY <1>2, <2>2 DEF PassedBy, OfAttempt, Worker
  <2> QED BY <2>3, <2>4
<1>3. CASE Op(c) = "generate"
  <2>1. Statements(Op(c)) = <<"migration", "attempt">>
    BY <1>3, StatementsAre DEF OfAttempt
  <2>2. Op(c) \in Operations /\ Op(c) \notin Worker
    BY <1>3 DEF Operations, Decisions, Worker, OfAttempt
  <2>5. Len(Statements(Op(c))) = 2
    BY <2>1
  <2>3. \A t : t \in Passed(c) <=>
               \/ t = "migration" /\ conn[c].step > 1
               \/ t = "attempt" /\ conn[c].step > 2
    BY <1>1, <2>1, <2>5
  <2>4. \A t : t \in PassedBy(Op(c), conn[c].step) <=>
               \/ t = "migration" /\ conn[c].step > 1
               \/ t = "attempt" /\ conn[c].step > 2
    BY <1>3, <2>2 DEF PassedBy, OfAttempt, Worker
  <2> QED BY <2>3, <2>4
<1>4. CASE Op(c) = "publish"
  <2>1. Statements(Op(c)) = <<"migration", "evidence", "record">>
    BY <1>4, StatementsAre DEF OfAttempt
  <2>2. Op(c) \in Operations /\ Op(c) \notin Worker
    BY <1>4 DEF Operations, Decisions, Worker, OfAttempt
  <2>5. Len(Statements(Op(c))) = 3
    BY <2>1
  <2>3. \A t : t \in Passed(c) <=>
               \/ t = "migration" /\ conn[c].step > 1
               \/ t = "evidence" /\ conn[c].step > 2
               \/ t = "record" /\ conn[c].step > 3
    BY <1>1, <2>1, <2>5
  <2>4. \A t : t \in PassedBy(Op(c), conn[c].step) <=>
               \/ t = "migration" /\ conn[c].step > 1
               \/ t = "evidence" /\ conn[c].step > 2
               \/ t = "record" /\ conn[c].step > 3
    BY <1>4, <2>2 DEF PassedBy, OfAttempt, Worker
  <2> QED BY <2>3, <2>4
<1>5. CASE OfAttempt(Op(c))
  <2>1. Statements(Op(c)) = <<"attempt", "migration">>
    BY <1>5, StatementsAre DEF OfAttempt
  <2>2. Op(c) \notin Operations
    BY <1>5 DEF Operations, Decisions, Worker, OfAttempt
  <2>5. Len(Statements(Op(c))) = 2
    BY <2>1
  <2>3. \A t : t \in Passed(c) <=>
               \/ t = "attempt" /\ conn[c].step > 1
               \/ t = "migration" /\ conn[c].step > 2
    BY <1>1, <2>1, <2>5
  <2>4. \A t : t \in PassedBy(Op(c), conn[c].step) <=>
               \/ t = "attempt" /\ conn[c].step > 1
               \/ t = "migration" /\ conn[c].step > 2
    BY <1>5, <2>2 DEF PassedBy, OfAttempt, Worker
  <2> QED BY <2>3, <2>4
<1>6. CASE Op(c) = "claim_publication"
  <2>1. Statements(Op(c)) = <<"record">>
    BY <1>6, StatementsAre DEF OfAttempt
  <2>2. Op(c) \notin Operations
    BY <1>6 DEF Operations, Decisions, Worker, OfAttempt
  <2>5. Len(Statements(Op(c))) = 1
    BY <2>1
  <2>3. \A t : t \in Passed(c) <=>
               \/ t = "record" /\ conn[c].step > 1
    BY <1>1, <2>1, <2>5
  <2>4. \A t : t \in PassedBy(Op(c), conn[c].step) <=>
               \/ t = "record" /\ conn[c].step > 1
    BY <1>6, <2>2 DEF PassedBy, OfAttempt, Worker
  <2> QED BY <2>3, <2>4
<1>7. CASE Op(c) \in {"complete_publication", "fail_publication"}
  <2>1. Statements(Op(c)) = <<"record", "migration">>
    BY <1>7, StatementsAre DEF OfAttempt
  <2>2. Op(c) \notin Operations
    BY <1>7 DEF Operations, Decisions, Worker, OfAttempt
  <2>5. Len(Statements(Op(c))) = 2
    BY <2>1
  <2>3. \A t : t \in Passed(c) <=>
               \/ t = "record" /\ conn[c].step > 1
               \/ t = "migration" /\ conn[c].step > 2
    BY <1>1, <2>1, <2>5
  <2>4. \A t : t \in PassedBy(Op(c), conn[c].step) <=>
               \/ t = "record" /\ conn[c].step > 1
               \/ t = "migration" /\ conn[c].step > 2
    BY <1>7, <2>2 DEF PassedBy, OfAttempt, Worker
  <2> QED BY <2>3, <2>4
<1> QED
  BY <1>2, <1>3, <1>4, <1>5, <1>6, <1>7 DEF Transactions, Operations, OfAttempt

LEMMA WorkersPass ==
  ASSUME NEW op, NEW step \in 1..4, NEW t \in PassedBy(op, step), op \in Worker
  PROVE  /\ step > 1 /\ t \in {"attempt", "record", "migration"}
         /\ OfAttempt(op) => t # "record" /\ (t = "migration" => step > 2)
         /\ ~OfAttempt(op) => t # "attempt" /\ (t = "migration" => step > 2)
         /\ t = "migration" => op # "claim_publication"
BY DEF PassedBy, Worker, OfAttempt, Operations, Decisions

\* What an open transaction knows of each statement behind it.
LEMMA Behind ==
  ASSUME RowInv, NEW c \in Connections, Is(c, "open")
  PROVE  /\ Op(c) \in Transactions /\ conn[c].step \in 1..4
         /\ Passed(c) = PassedBy(Op(c), conn[c].step)
         /\ \A t \in Passed(c) :
              /\ Row(c, t) \in conn[c].held <=> Locks(Op(c), t) /\ Finds(c, t)
              /\ Finds(c, t) => Accepts(c, t)
              /\ Finds(c, t) \/ Optional(c, t)
<1>1. Place(c) /\ Transacts(c) /\ conn[c].step \in 1..4
  BY DEF RowInv, TypeOK
<1>2. Op(c) \in Transactions /\ conn[c].step <= Len(Statements(Op(c))) + 1
  BY <1>1 DEF Place
<1>3. HeldIsFound(c) /\ PassedStillHolds(c)
  BY <1>1 DEF Transacts
<1> QED
  BY <1>1, <1>2, <1>3, PassedIs DEF HeldIsFound, PassedStillHolds

LEMMA StatementCount ==
  /\ \A op \in Decisions \cup {"claim_publication"} : Len(Statements(op)) = 1
  /\ Len(Statements("publish")) = 3
  /\ \A op \in Transactions \ (Decisions \cup {"claim_publication", "publish"}) :
       Len(Statements(op)) = 2
<1>1. \A op \in Decisions \cup {"claim_publication"} :
        Statements(op) = <<"migration">> \/ Statements(op) = <<"record">>
  BY StatementsAre
<1>2. \A op \in Transactions \ (Decisions \cup {"claim_publication", "publish"}) :
        \/ Statements(op) = <<"migration", "attempt">>
        \/ Statements(op) = <<"attempt", "migration">>
        \/ Statements(op) = <<"record", "migration">>
  BY StatementsAre DEF Transactions, Operations
<1>3. Len(Statements("publish")) = 3
  BY StatementsAre
<1> QED BY <1>1, <1>2, <1>3

\* So what a request relies on once it has locked the migration...
LEMMA RequestKnows ==
  ASSUME RowInv, NEW c \in Connections, Is(c, "open"),
         Op(c) \in Operations, conn[c].step > 1
  PROVE  /\ <<"migration", 0>> \in conn[c].held
         /\ TargetStatus[Op(c)] \in MigrationTransitions[migration.status]
<1>1. "migration" \in Passed(c)
  BY Behind DEF PassedBy
<1>2. Finds(c, "migration") /\ Locks(Op(c), "migration")
  BY DEF Finds, Locks, Operations, Decisions
<1>3. Accepts(c, "migration") /\ Row(c, "migration") \in conn[c].held
  BY <1>1, <1>2, Behind
<1>4. TargetStatus[Op(c)] \in MigrationTransitions[migration.status]
  BY <1>3 DEF Accepts, Operations, Decisions
<1>5. Row(c, "migration") = <<"migration", 0>>
  BY DEF Row
<1> QED BY <1>3, <1>4, <1>5

\* ...and a worker once it has locked its attempt, or its record, ...
LEMMA WorkerKnows ==
  ASSUME RowInv, NEW c \in Connections, Is(c, "open"),
         Op(c) \in Worker, conn[c].step > 1
  PROVE  /\ OfAttempt(Op(c)) => <<"attempt", conn[c].n>> \in conn[c].held
         /\ Op(c) = "claim_attempt" => attempt[conn[c].n].status = "planning"
         /\ Op(c) = "fail_attempt" =>
              "failed" \in AttemptTransitions[attempt[conn[c].n].status]
         /\ ~OfAttempt(Op(c)) => <<"record", 0>> \in conn[c].held
         /\ Op(c) = "claim_publication" => record.status = "queued"
         /\ Op(c) \in {"complete_publication", "fail_publication"} => record.status = "publishing"
<1>1. Of(c) = conn[c].n
  BY DEF Of, Worker
<1>2. CASE OfAttempt(Op(c))
  <2>1. "attempt" \in Passed(c) /\ ~Optional(c, "attempt") /\ Locks(Op(c), "attempt")
    BY <1>2, Behind DEF PassedBy, Optional, OfAttempt, Locks
  <2>2. Finds(c, "attempt") /\ Accepts(c, "attempt") /\ Row(c, "attempt") \in conn[c].held
    BY <2>1, Behind
  <2>3. <<"attempt", conn[c].n>> \in conn[c].held
    BY <2>2, <1>1 DEF Row
  <2>4. Op(c) = "claim_attempt" => attempt[conn[c].n].status = "planning"
    BY <2>2, <1>1 DEF Finds
  <2>5. Op(c) = "fail_attempt" => "failed" \in AttemptTransitions[attempt[conn[c].n].status]
    BY <2>2, <1>1 DEF Accepts, Operations, Decisions
  <2> QED BY <1>2, <2>3, <2>4, <2>5 DEF OfAttempt
<1>3. CASE ~OfAttempt(Op(c))
  <2>1. "record" \in Passed(c) /\ ~Optional(c, "record") /\ Locks(Op(c), "record")
    BY <1>3, Behind DEF PassedBy, Optional, OfAttempt, Locks, Worker
  <2>2. Finds(c, "record") /\ Row(c, "record") \in conn[c].held
    BY <2>1, Behind
  <2>3. <<"record", 0>> \in conn[c].held
    BY <2>2 DEF Row
  <2>4. Op(c) = "claim_publication" => record.status = "queued"
    BY <2>2 DEF Finds
  <2>5. Op(c) \in {"complete_publication", "fail_publication"} => record.status = "publishing"
    BY <2>2 DEF Finds
  <2> QED BY <1>3, <2>3, <2>4, <2>5 DEF OfAttempt
<1> QED BY <1>2, <1>3

\* ...and each of them when it commits.
LEMMA RequestCommits ==
  ASSUME RowInv, NEW c \in Connections, CanCommit(c), Op(c) \in Operations
  PROVE  /\ HoldsMigration(c)
         /\ TargetStatus[Op(c)] \in MigrationTransitions[migration.status]
         /\ Op(c) = "generate" /\ migration.current # 0 =>
              <<"attempt", migration.current>> \in conn[c].held
         /\ Op(c) = "publish" =>
              /\ attempt[migration.current] = [status |-> "completed", approved |-> TRUE]
              /\ record # NoRecord => <<"record", 0>> \in conn[c].held
<1>1. Is(c, "open") /\ conn[c].step \in 1..4 /\ conn[c].step > Len(Statements(Op(c)))
  BY Behind DEF CanCommit, Running, RowInv, TypeOK
<1>2. /\ conn[c].step > 1
      /\ Op(c) = "generate" => conn[c].step > 2
      /\ Op(c) = "publish" => conn[c].step > 3
  <2>1. Len(Statements(Op(c))) \in {1, 2, 3}
    BY StatementCount DEF Transactions, Operations
  <2>2. Op(c) = "generate" => Len(Statements(Op(c))) = 2
    BY StatementCount DEF Transactions, Operations, Decisions
  <2>3. Op(c) = "publish" => Len(Statements(Op(c))) = 3
    BY StatementCount
  <2> DEFINE n == Len(Statements(Op(c)))
  <2>4. n \in {1, 2, 3} /\ conn[c].step \in 1..4 /\ conn[c].step > n
    BY <1>1, <2>1
  <2> HIDE DEF n
  <2>5. conn[c].step > 1 /\ (n = 2 => conn[c].step > 2) /\ (n = 3 => conn[c].step > 3)
    BY <2>4
  <2> QED BY <2>2, <2>3, <2>5 DEF n
<1>3. CASE Op(c) = "generate"
  <2>1. "attempt" \in Passed(c) /\ Locks(Op(c), "attempt")
    BY <1>1, <1>2, <1>3, Behind DEF PassedBy, Locks
  <2>2. Finds(c, "attempt") <=> migration.current # 0
    BY <1>3 DEF Finds
  <2>3. Row(c, "attempt") = <<"attempt", migration.current>>
    BY <1>3 DEF Row, Of
  <2> QED BY <1>1, <1>2, <1>3, <2>1, <2>2, <2>3, Behind, RequestKnows DEF HoldsMigration
<1>4. CASE Op(c) = "publish"
  <2>1. "evidence" \in Passed(c) /\ "record" \in Passed(c) /\ Locks(Op(c), "record")
    BY <1>1, <1>2, <1>4, Behind DEF PassedBy, Locks
  <2>2. Finds(c, "evidence") /\ (Finds(c, "record") <=> record # NoRecord)
    BY <1>4 DEF Finds
  <2>3. Row(c, "record") = <<"record", 0>>
    BY DEF Row
  <2>4. Accepts(c, "evidence") <=>
          attempt[migration.current] = [status |-> "completed", approved |-> TRUE]
    BY <1>4 DEF Accepts, Of
  <2> QED BY <1>1, <1>2, <1>4, <2>1, <2>2, <2>3, <2>4, Behind, RequestKnows DEF HoldsMigration
<1>5. CASE Op(c) \in Decisions
  BY <1>1, <1>2, <1>5, RequestKnows DEF HoldsMigration, Decisions
<1> QED BY <1>3, <1>4, <1>5 DEF Operations

LEMMA WorkerCommits ==
  ASSUME RowInv, NEW c \in Connections, CanCommit(c), Op(c) \in Worker
  PROVE  /\ Op(c) = "claim_attempt" =>
              HoldsMigration(c) /\ migration = [status |-> "planning", current |-> conn[c].n]
         /\ Op(c) = "complete_attempt" =>
              /\ HoldsMigration(c) /\ migration.current = conn[c].n
              /\ attempt[conn[c].n].status = "generating" /\ migration.status = "generating"
         /\ Op(c) = "fail_attempt" => (HoldsMigration(c) <=> migration.current = conn[c].n)
         /\ Op(c) = "complete_publication" =>
              HoldsMigration(c) /\ migration = [status |-> "pr_opening", current |-> conn[c].n]
         /\ Op(c) = "fail_publication" => (HoldsMigration(c) <=> migration.status = "pr_opening")
<1>1. Is(c, "open") /\ conn[c].step \in 1..4 /\ conn[c].step > Len(Statements(Op(c)))
  BY Behind DEF CanCommit, Running, RowInv, TypeOK
<1>2. CASE Op(c) = "claim_publication"
  BY <1>2
<1>3. CASE Op(c) # "claim_publication"
  <2>1. conn[c].step > 2
    BY <1>1, <1>3, StatementCount DEF Transactions, Operations, Decisions, Worker
  <2>2. "migration" \in Passed(c) /\ Locks(Op(c), "migration")
    BY <1>1, <1>3, <2>1, Behind DEF PassedBy, Locks, Worker, OfAttempt
  <2>3. Row(c, "migration") = <<"migration", 0>> /\ Of(c) = conn[c].n
    BY DEF Row, Of, Worker
  <2>4. /\ HoldsMigration(c) <=> Finds(c, "migration")
        /\ Finds(c, "migration") => Accepts(c, "migration")
        /\ Finds(c, "migration") \/ Optional(c, "migration")
    BY <1>1, <2>2, <2>3, Behind DEF HoldsMigration
  <2>5. CASE Op(c) = "claim_attempt"
    BY <2>3, <2>4, <2>5 DEF Finds, Optional
  <2>6. CASE Op(c) = "complete_attempt"
    BY <2>3, <2>4, <2>6 DEF Finds, Optional, Accepts, Operations, Decisions
  <2>7. CASE Op(c) = "fail_attempt"
    BY <2>3, <2>4, <2>7 DEF Finds
  <2>8. CASE Op(c) = "complete_publication"
    BY <2>3, <2>4, <2>8 DEF Finds, Optional
  <2>9. CASE Op(c) = "fail_publication"
    BY <2>3, <2>4, <2>9 DEF Finds
  <2> QED BY <1>3, <2>5, <2>6, <2>7, <2>8, <2>9 DEF Worker
<1> QED BY <1>2, <1>3

-----------------------------------------------------------------------------
(* What a commit does to the rows *)

MigrationRow == [status : MigrationStatus, current : 0..MaxAttempts]
AttemptRow   == [status : AttemptStatus \cup {"absent"}, approved : BOOLEAN]
RecordRow    == [status : {"absent", "queued", "publishing", "completed", "failed"},
                 attempt : 0..MaxAttempts]

LEMMA Typed ==
  ASSUME RowInv
  PROVE  /\ migration \in MigrationRow /\ attempt \in [Numbers -> AttemptRow]
         /\ record \in RecordRow
BY DEF RowInv, TypeOK, MigrationRow, AttemptRow, RecordRow

LEMMA LatestIsLast ==
  ASSUME RowInv
  PROVE  /\ Latest \in 0..MaxAttempts
         /\ \A n \in Numbers : attempt[n] = NoAttempt <=> n > Latest
         /\ migration.current <= Latest
<1>1. PICK k \in 0..MaxAttempts :
        /\ \A n \in Numbers : attempt[n] = NoAttempt <=> n > k
        /\ migration.current <= k
  BY DEF RowInv, Chain
<1>2. {n \in Numbers : attempt[n] # NoAttempt} = 1..k
  BY <1>1, MaxAttemptsAssumption DEF Numbers
<1>3. Cardinality(1..k) = k
  BY <1>1, FS_Interval
<1>4. Latest = k
  BY <1>2, <1>3 DEF Latest
<1> QED BY <1>1, <1>4

\* The tables' part in it.
LEMMA TablesSay ==
  /\ \A from \in MigrationStatus :
       /\ "planning" \in MigrationTransitions[from] =>
            from \in {"queued", "needs_revision", "blocked", "snoozed", "declined"}
       /\ "pr_opening" \in MigrationTransitions[from] => from \in {"ready", "blocked"}
       /\ \A op \in Decisions : TargetStatus[op] \in MigrationTransitions[from] =>
            from \in {"generating", "verifying", "ready", "pr_opened"}
       /\ "blocked" \in MigrationTransitions[from] <=>
            from \in {"planning", "generating", "verifying", "pr_opening"}
       /\ \A op \in Decisions \ {"revise"} : TargetStatus[op] \in MigrationTransitions[from] =>
            from \in {"ready", "pr_opened"}
  /\ \A op \in Decisions \ {"revise"} : TargetStatus[op] \in {"approved", "snoozed", "declined"}
  /\ TargetStatus["generate"] = "planning" /\ TargetStatus["publish"] = "pr_opening"
  /\ TargetStatus["revise"] = "needs_revision"
  /\ \A from \in AttemptStatus : "failed" \in AttemptTransitions[from] <=>
       from \in {"planning", "generating", "verifying", "reviewing"}
  /\ {"queued", "planning", "generating", "verifying", "ready", "needs_revision", "blocked",
      "pr_opening", "pr_opened", "snoozed", "declined", "approved", "completed"} = MigrationStatus
  /\ {"created", "planning", "generating", "verifying", "reviewing", "completed", "failed",
      "cancelled"} = AttemptStatus
BY DEF MigrationStatus, MigrationTransitions, AttemptStatus, AttemptTransitions, Decisions,
       TargetStatus

\* A commit writes what it has locked, or what did not exist; it creates attempts
\* at the end and leaves a completed one alone.
Effects(c) ==
  /\ migration' \in MigrationRow /\ attempt' \in [Numbers -> AttemptRow]
  /\ record' \in RecordRow /\ Chain' /\ InStep'
  /\ migration' # migration => HoldsMigration(c)
  /\ \A n \in Numbers :
       /\ attempt'[n] # attempt[n] =>
            <<"attempt", n>> \in conn[c].held \/ attempt[n] = NoAttempt
       /\ attempt[n] # NoAttempt => attempt'[n] # NoAttempt
       /\ attempt[n].status = "completed" => attempt'[n] = attempt[n]
       /\ migration'.current = n => migration.current = n \/ attempt[n] = NoAttempt
  /\ record' # record =>
       IF record = NoRecord THEN HoldsMigration(c) ELSE <<"record", 0>> \in conn[c].held
  /\ migration'.status = "pr_opening" =>
       \/ migration.status = "pr_opening" \/ record = NoRecord
       \/ <<"record", 0>> \in conn[c].held

LEMMA CommitHasEffects ==
  ASSUME RowInv, NEW c \in Connections, CanCommit(c), Writes(c)
  PROVE  Effects(c)
<1> USE DEF MigrationRow, AttemptRow, RecordRow
<1>1. /\ migration \in MigrationRow /\ attempt \in [Numbers -> AttemptRow]
      /\ record \in RecordRow /\ Chain /\ InStep /\ Place(c)
  BY Typed DEF RowInv
<1>2. /\ Latest \in 0..MaxAttempts /\ migration.current <= Latest
      /\ \A n \in Numbers : attempt[n] = NoAttempt <=> n > Latest
  BY LatestIsLast
<1>3. Is(c, "open") /\ Op(c) \in Transactions
  BY Behind DEF CanCommit
<1>4. Op(c) \in Worker => conn[c].step > 1 /\ Of(c) = conn[c].n
  <2>1. Op(c) \in Worker => Len(Statements(Op(c))) \in {1, 2}
    BY StatementCount DEF Worker, Transactions, Operations, Decisions
  <2> DEFINE n == Len(Statements(Op(c)))
  <2>2. conn[c].step \in 1..4 /\ conn[c].step > n
    BY <1>3, Behind DEF CanCommit, Running
  <2>3. Op(c) \in Worker => n \in {1, 2}
    BY <2>1
  <2> HIDE DEF n
  <2>4. Op(c) \in Worker => conn[c].step > 1
    BY <2>2, <2>3
  <2> QED BY <2>4 DEF Of, Worker
<1>5. OfAttempt(Op(c)) => conn[c].n \in Numbers /\ attempt[conn[c].n] # NoAttempt
  BY <1>1 DEF Place
<1>6. ASSUME NEW n \in Numbers, NEW status \in AttemptStatus
      PROVE  Status(status) \in AttemptRow /\ Status(status) # NoAttempt
  BY <1>6, TablesSay DEF Status, NoAttempt
<1>7. CASE Op(c) = "generate"
  <2>1. PICK n \in Numbers :
          /\ IF migration.current # 0 /\ attempt[migration.current].status = "created"
             THEN n = migration.current ELSE n = Latest + 1
          /\ attempt' = [attempt EXCEPT ![n] = Status("planning")]
          /\ migration' = [status |-> "planning", current |-> n] /\ record' = record
    BY <1>7 DEF Writes, Decisions, AttemptIs
  <2>2. /\ HoldsMigration(c) /\ (migration.current # 0 =>
                                    <<"attempt", migration.current>> \in conn[c].held)
        /\ migration.status \in {"queued", "needs_revision", "blocked", "snoozed", "declined"}
    BY <1>1, <1>7, RequestCommits, TablesSay DEF Operations
  <2>3. \/ n = migration.current /\ attempt[n].status = "created" /\ n <= Latest
        \/ n = Latest + 1 /\ attempt[n] = NoAttempt
    BY <1>1, <1>2, <2>1 DEF Numbers
  <2>4. Status("planning") \in AttemptRow /\ Status("planning") # NoAttempt
    BY <1>6, TablesSay
  <2>5. /\ \A m \in Numbers : attempt'[m] = IF m = n THEN Status("planning") ELSE attempt[m]
        /\ attempt' \in [Numbers -> AttemptRow]
    BY <1>1, <2>1, <2>4
  <2>6. migration' \in MigrationRow
    BY <2>1, TablesSay DEF Numbers
  <2>7. Chain'
    <3> DEFINE k == IF n = Latest + 1 THEN n ELSE Latest
    <3>1. /\ k \in 0..MaxAttempts /\ n <= k
          /\ \A m \in Numbers : attempt'[m] = NoAttempt <=> m > k
      BY <1>2, <2>1, <2>3, <2>4, <2>5 DEF Numbers
    <3> HIDE DEF k
    <3> QED BY <3>1, <2>1 DEF Chain
  <2>8. InStep'
    BY <1>1, <2>1, <2>2, <2>3, <2>5 DEF InStep, Status, Numbers
  <2>9. ASSUME NEW m \in Numbers
        PROVE  /\ attempt'[m] # attempt[m] =>
                    <<"attempt", m>> \in conn[c].held \/ attempt[m] = NoAttempt
               /\ attempt[m] # NoAttempt => attempt'[m] # NoAttempt
               /\ attempt[m].status = "completed" => attempt'[m] = attempt[m]
               /\ migration'.current = m => migration.current = m \/ attempt[m] = NoAttempt
    <3>1. CASE m # n
      BY <2>1, <2>5, <3>1
    <3>2. CASE m = n
      BY <2>1, <2>2, <2>3, <2>4, <2>5, <3>2 DEF NoAttempt, Numbers
    <3> QED BY <3>1, <3>2
  <2> QED BY <1>1, <2>1, <2>2, <2>5, <2>6, <2>7, <2>8, <2>9 DEF Effects
<1>8. CASE Op(c) = "publish"
  <2>1. /\ record' = [status |-> "queued", attempt |-> migration.current]
        /\ migration' = [migration EXCEPT !.status = "pr_opening"] /\ attempt' = attempt
    BY <1>8 DEF Writes, Decisions, MigrationIs
  <2>2. /\ HoldsMigration(c) /\ migration.status \in {"ready", "blocked"}
        /\ record = NoRecord \/ <<"record", 0>> \in conn[c].held
    BY <1>1, <1>8, RequestCommits, TablesSay DEF Operations
  <2>3. migration' \in MigrationRow /\ record' \in RecordRow
    BY <1>1, <2>1, TablesSay
  <2>4. Chain'
    BY <1>1, <2>1 DEF Chain
  <2>5. InStep'
    BY <1>1, <2>1, <2>2 DEF InStep, NoRecord
  <2> QED BY <1>1, <2>1, <2>2, <2>3, <2>4, <2>5 DEF Effects
<1>9. CASE Op(c) = "revise"
  <2> DEFINE n == Latest + 1
  <2>1. /\ n \in Numbers /\ attempt' = [attempt EXCEPT ![n] = Status("created")]
        /\ migration' = [status |-> "needs_revision", current |-> n] /\ record' = record
    BY <1>9 DEF Writes, Decisions, AttemptIs
  <2>2. HoldsMigration(c) /\ migration.status \in {"generating", "verifying", "ready", "pr_opened"}
    BY <1>1, <1>9, RequestCommits, TablesSay DEF Operations, Decisions
  <2>3. attempt[n] = NoAttempt /\ n # migration.current /\ n > 0
    BY <1>1, <1>2, <2>1 DEF Numbers
  <2>4. Status("created") \in AttemptRow /\ Status("created") # NoAttempt
    BY <1>6, <2>1, TablesSay
  <2>5. /\ \A m \in Numbers : attempt'[m] = IF m = n THEN Status("created") ELSE attempt[m]
        /\ attempt' \in [Numbers -> AttemptRow]
    BY <1>1, <2>1, <2>4
  <2>6. migration' \in MigrationRow
    BY <2>1, TablesSay DEF Numbers
  <2>7. Chain'
    <3>1. /\ n \in 0..MaxAttempts
          /\ \A m \in Numbers : attempt'[m] = NoAttempt <=> m > n
      BY <1>2, <2>1, <2>3, <2>4, <2>5 DEF Numbers
    <3> HIDE DEF n
    <3> QED BY <3>1, <2>1 DEF Chain
  <2> HIDE DEF n
  <2>8. InStep'
    BY <1>1, <2>1, <2>2, <2>3, <2>5 DEF InStep, Status
  <2> QED BY <1>1, <2>1, <2>2, <2>3, <2>4, <2>5, <2>6, <2>7, <2>8 DEF Effects, NoAttempt
<1>10. CASE Op(c) \in Decisions \ {"revise"}
  <2>1. /\ migration' = [migration EXCEPT !.status = TargetStatus[Op(c)]]
        /\ attempt' = attempt /\ record' = record
    BY <1>10 DEF Writes, Decisions, MigrationIs
  <2>2. /\ HoldsMigration(c) /\ migration.status \in {"ready", "pr_opened"}
        /\ TargetStatus[Op(c)] \in {"approved", "snoozed", "declined"}
    BY <1>1, <1>10, RequestCommits, TablesSay DEF Operations
  <2>3. /\ migration' \in MigrationRow /\ migration'.current = migration.current
        /\ migration'.status \in {"approved", "snoozed", "declined"}
    BY <1>1, <2>1, <2>2, TablesSay
  <2>4. Chain'
    BY <1>1, <2>1, <2>3 DEF Chain
  <2>5. InStep'
    BY <1>1, <2>1, <2>2, <2>3 DEF InStep
  <2> QED BY <1>1, <2>1, <2>2, <2>3, <2>4, <2>5 DEF Effects
<1>11. CASE Op(c) = "claim_attempt"
  <2> DEFINE n == conn[c].n
  <2>1. /\ attempt' = [attempt EXCEPT ![n] = Status("generating")]
        /\ migration' = [migration EXCEPT !.status = "generating"] /\ record' = record
    BY <1>4, <1>11 DEF Writes, Decisions, AttemptIs, MigrationIs, Worker
  <2>2. /\ HoldsMigration(c) /\ <<"attempt", n>> \in conn[c].held
        /\ migration = [status |-> "planning", current |-> n]
        /\ n \in Numbers /\ attempt[n].status = "planning" /\ attempt[n] # NoAttempt
    BY <1>3, <1>4, <1>5, <1>11, WorkerKnows, WorkerCommits DEF Worker, OfAttempt
  <2> HIDE DEF n
  <2>3. Status("generating") \in AttemptRow /\ Status("generating") # NoAttempt
    BY <2>2, <1>6, TablesSay
  <2>4. /\ \A m \in Numbers : attempt'[m] = IF m = n THEN Status("generating") ELSE attempt[m]
        /\ attempt' \in [Numbers -> AttemptRow]
    BY <1>1, <2>1, <2>3
  <2>5. migration' = [status |-> "generating", current |-> n] /\ migration' \in MigrationRow
    BY <1>1, <2>1, <2>2, TablesSay
  <2>6. Chain'
    BY <1>1, <2>2, <2>3, <2>4, <2>5 DEF Chain
  <2>7. InStep'
    BY <1>1, <2>1, <2>2, <2>4, <2>5 DEF InStep, Status, Numbers
  <2> QED BY <1>1, <2>1, <2>2, <2>3, <2>4, <2>5, <2>6, <2>7 DEF Effects
<1>12. CASE Op(c) = "complete_attempt"
  <2> DEFINE n == conn[c].n
  <2>1. PICK to \in {"ready", "needs_revision", "blocked"} :
          /\ attempt' = [attempt EXCEPT ![n] = [status |-> "completed", approved |-> to = "ready"]]
          /\ migration' = [migration EXCEPT !.status = to] /\ record' = record
    BY <1>4, <1>12 DEF Writes, Decisions, AttemptIs, MigrationIs, Worker
  <2>2. /\ HoldsMigration(c) /\ <<"attempt", n>> \in conn[c].held
        /\ migration.status = "generating" /\ migration.current = n
        /\ n \in Numbers /\ attempt[n].status = "generating" /\ attempt[n] # NoAttempt
    BY <1>3, <1>4, <1>5, <1>12, WorkerKnows, WorkerCommits DEF Worker, OfAttempt
  <2> HIDE DEF n
  <2> DEFINE done == [status |-> "completed", approved |-> to = "ready"]
  <2>3. done \in AttemptRow /\ done # NoAttempt /\ done.status = "completed"
    BY TablesSay DEF NoAttempt
  <2>4. /\ \A m \in Numbers : attempt'[m] = IF m = n THEN done ELSE attempt[m]
        /\ attempt' \in [Numbers -> AttemptRow]
    BY <1>1, <2>1, <2>3
  <2>5. migration' = [status |-> to, current |-> n] /\ migration' \in MigrationRow
    BY <1>1, <2>1, <2>2, TablesSay
  <2> HIDE DEF done
  <2>6. Chain'
    BY <1>1, <2>2, <2>3, <2>4, <2>5 DEF Chain
  <2>7. InStep'
    BY <1>1, <2>1, <2>2, <2>3, <2>4, <2>5 DEF InStep, Numbers
  <2> QED BY <1>1, <2>1, <2>2, <2>3, <2>4, <2>5, <2>6, <2>7 DEF Effects
<1>13. CASE Op(c) = "fail_attempt"
  <2> DEFINE n == conn[c].n
  <2>1. /\ attempt' = [attempt EXCEPT ![n] = Status("failed")] /\ record' = record
        /\ IF HoldsMigration(c) /\ "blocked" \in MigrationTransitions[migration.status]
           THEN migration' = [migration EXCEPT !.status = "blocked"] ELSE migration' = migration
    BY <1>4, <1>13 DEF Writes, Decisions, AttemptIs, MigrationIs, Worker
  <2>2. /\ HoldsMigration(c) <=> migration.current = n
        /\ <<"attempt", n>> \in conn[c].held /\ n \in Numbers /\ attempt[n] # NoAttempt
        /\ attempt[n].status \in {"planning", "generating"}
    <3>1. "failed" \in AttemptTransitions[attempt[n].status]
      BY <1>3, <1>4, <1>13, WorkerKnows DEF Worker, OfAttempt
    <3>2. n \in Numbers /\ attempt[n] # NoAttempt
      BY <1>5, <1>13 DEF OfAttempt
    <3>3. attempt[n].status \in {"planning", "generating"}
      <4>1. attempt[n].status \in {"absent", "created", "planning", "generating",
                                   "completed", "failed"}
        BY <1>1, <3>2 DEF InStep
      <4>2. attempt[n].status # "absent"
        BY <1>1, <3>2 DEF InStep, NoAttempt
      <4>3. attempt[n].status \in AttemptStatus
        BY <4>1, <4>2, TablesSay
      <4> QED BY <3>1, <4>1, <4>2, <4>3, TablesSay
    <3> QED BY <1>3, <1>4, <1>13, <3>2, <3>3, WorkerKnows, WorkerCommits DEF Worker, OfAttempt
  <2> HIDE DEF n
  <2>3. /\ Status("failed") \in AttemptRow /\ Status("failed") # NoAttempt
        /\ Status("failed").status = "failed"
    BY <2>2, <1>6, TablesSay DEF Status
  <2>4. /\ \A m \in Numbers : attempt'[m] = IF m = n THEN Status("failed") ELSE attempt[m]
        /\ attempt' \in [Numbers -> AttemptRow]
    BY <1>1, <2>1, <2>3
  <2>5. migration.current = n => migration.status \in {"planning", "generating"}
    BY <1>1, <2>2 DEF InStep
  <2>6. migration' = IF migration.current = n THEN [status |-> "blocked", current |-> n]
                     ELSE migration
    <3>1. CASE migration.current = n
      BY <1>1, <2>1, <2>2, <2>5, <3>1, TablesSay
    <3>2. CASE migration.current # n
      BY <2>1, <2>2, <3>2
    <3> QED BY <3>1, <3>2
  <2>7. migration' \in MigrationRow /\ migration'.current = migration.current
    BY <1>1, <2>6, TablesSay
  <2>8. Chain'
    BY <1>1, <2>2, <2>3, <2>4, <2>7 DEF Chain
  <2>9. InStep'
    <3>1. CASE migration.current = n
      <4>1. migration' = [status |-> "blocked", current |-> n] /\ n # 0
        BY <2>2, <2>6, <3>1 DEF Numbers
      <4>2. \A m \in Numbers \ {n} : attempt[m].status # "planning"
        BY <1>1, <3>1 DEF InStep
      <4>3. ASSUME NEW m \in Numbers
            PROVE  /\ attempt'[m].status \in {"absent", "created", "planning", "generating",
                                              "completed", "failed"}
                   /\ attempt'[m].approved => attempt'[m].status = "completed"
                   /\ attempt'[m].status = "planning" <=>
                        migration' = [status |-> "planning", current |-> m]
                   /\ migration'.current = m =>
                        (attempt'[m].status = "generating" <=> migration'.status = "generating")
        <5>1. CASE m = n
          BY <2>3, <2>4, <4>1, <5>1 DEF Status
        <5>2. CASE m # n
          BY <1>1, <2>4, <4>1, <4>2, <5>2 DEF InStep
        <5> QED BY <5>1, <5>2
      <4> QED BY <1>1, <2>1, <2>5, <3>1, <4>1, <4>3 DEF InStep
    <3>2. CASE migration.current # n
      <4>1. migration' = migration
        BY <2>6, <3>2
      <4>2. ASSUME NEW m \in Numbers
            PROVE  /\ attempt'[m].status \in {"absent", "created", "planning", "generating",
                                              "completed", "failed"}
                   /\ attempt'[m].approved => attempt'[m].status = "completed"
                   /\ attempt'[m].status = "planning" <=>
                        migration' = [status |-> "planning", current |-> m]
                   /\ migration'.current = m =>
                        (attempt'[m].status = "generating" <=> migration'.status = "generating")
        <5>1. CASE m = n
          BY <1>1, <2>3, <2>4, <3>2, <4>1, <5>1 DEF Status
        <5>2. CASE m # n
          BY <1>1, <2>4, <4>1, <5>2 DEF InStep
        <5> QED BY <5>1, <5>2
      <4> QED BY <1>1, <2>1, <4>1, <4>2 DEF InStep
    <3> QED BY <3>1, <3>2
  <2> QED BY <1>1, <2>1, <2>2, <2>3, <2>4, <2>5, <2>6, <2>7, <2>8, <2>9 DEF Effects
<1>14. CASE Op(c) = "claim_publication"
  <2>1. record' = [record EXCEPT !.status = "publishing"] /\ UNCHANGED <<migration, attempt>>
    BY <1>14 DEF Writes, Decisions
  <2>2. record.status = "queued" /\ <<"record", 0>> \in conn[c].held
    BY <1>3, <1>4, <1>14, WorkerKnows DEF Worker, OfAttempt
  <2>3. record' \in RecordRow /\ record'.status = "publishing"
    BY <1>1, <2>1
  <2>4. Chain' /\ InStep'
    BY <1>1, <2>1, <2>2, <2>3 DEF Chain, InStep, NoRecord
  <2>5. record # NoRecord
    BY <2>2 DEF NoRecord
  <2> QED BY <1>1, <2>1, <2>2, <2>3, <2>4, <2>5 DEF Effects
<1>15. CASE Op(c) = "complete_publication"
  <2>1. /\ record' = [record EXCEPT !.status = "completed"] /\ attempt' = attempt
        /\ migration' = [migration EXCEPT !.status = "pr_opened"]
    BY <1>15 DEF Writes, Decisions, MigrationIs
  <2>2. /\ record.status = "publishing" /\ <<"record", 0>> \in conn[c].held
        /\ HoldsMigration(c) /\ migration.status = "pr_opening"
    <3>1. Op(c) \in Worker /\ ~OfAttempt(Op(c))
      BY <1>15 DEF Worker, OfAttempt
    <3>2. record.status = "publishing" /\ <<"record", 0>> \in conn[c].held
      BY <1>3, <1>4, <1>15, <3>1, WorkerKnows
    <3>3. HoldsMigration(c) /\ migration = [status |-> "pr_opening", current |-> conn[c].n]
      BY <1>15, <3>1, WorkerCommits
    <3> QED BY <3>2, <3>3
  <2>3. /\ record' \in RecordRow /\ record'.status = "completed"
        /\ migration' \in MigrationRow /\ migration'.status = "pr_opened"
        /\ migration'.current = migration.current
    BY <1>1, <2>1, TablesSay
  <2>4. Chain' /\ InStep'
    BY <1>1, <2>1, <2>2, <2>3 DEF Chain, InStep, NoRecord
  <2> QED BY <1>1, <2>1, <2>2, <2>3, <2>4 DEF Effects
<1>16. CASE Op(c) = "fail_publication"
  <2>1. /\ record' = [record EXCEPT !.status = "failed"] /\ attempt' = attempt
        /\ IF HoldsMigration(c) THEN migration' = [migration EXCEPT !.status = "blocked"]
           ELSE migration' = migration
    BY <1>16 DEF Writes, Decisions, MigrationIs
  <2>2. /\ record.status = "publishing" /\ <<"record", 0>> \in conn[c].held
        /\ HoldsMigration(c) <=> migration.status = "pr_opening"
    BY <1>3, <1>4, <1>16, WorkerKnows, WorkerCommits DEF Worker, OfAttempt
  <2>3. HoldsMigration(c) /\ migration.status = "pr_opening"
    BY <1>1, <2>2 DEF InStep
  <2>4. /\ record' \in RecordRow /\ record'.status = "failed"
        /\ migration' \in MigrationRow /\ migration'.status = "blocked"
        /\ migration'.current = migration.current
    BY <1>1, <2>1, <2>3, TablesSay
  <2>5. Chain' /\ InStep'
    BY <1>1, <2>1, <2>2, <2>3, <2>4 DEF Chain, InStep, NoRecord
  <2> QED BY <1>1, <2>1, <2>2, <2>3, <2>4, <2>5 DEF Effects
<1> QED
  BY <1>3, <1>7, <1>8, <1>9, <1>10, <1>11, <1>12, <1>13, <1>14, <1>15, <1>16
     DEF Transactions, Operations

-----------------------------------------------------------------------------
(* The other connections *)

\* What a transaction has found and asked of the rows behind it, another's commit
\* does not change.
LEMMA OthersStillFind ==
  ASSUME RowInv, NEW c \in Connections, NEW d \in Connections, c # d,
         Effects(c), conn'[d] = conn[d], Is(d, "open"), NEW t \in Passed(d)
  PROVE  /\ Finds(d, t)' <=> Finds(d, t)
         /\ Row(d, t)' = Row(d, t)
         /\ Finds(d, t) => Accepts(d, t)'
<1>1. /\ Op(d) \in Transactions /\ t \in PassedBy(Op(d), conn[d].step)
      /\ conn[d].step \in 1..4
      /\ Row(d, t) \in conn[d].held <=> Locks(Op(d), t) /\ Finds(d, t)
      /\ Finds(d, t) => Accepts(d, t)
      /\ Finds(d, t) \/ Optional(d, t)
  BY Behind
<1>2. /\ Op(d)' = Op(d) /\ conn'[d].n = conn[d].n
      /\ conn[c].held \cap conn[d].held = {}
      /\ attempt \in [Numbers -> AttemptRow] /\ migration \in MigrationRow
  BY Typed DEF Op, RowInv, TypeOK
<1>3. <<"migration", 0>> \in conn[d].held => migration' = migration
  BY <1>2 DEF Effects, HoldsMigration
<1>4. CASE Op(d) \in Operations
  <2>1. conn[d].step > 1
    BY <1>1, <1>4, Behind DEF PassedBy, Operations, Decisions, OfAttempt, Worker
  <2>2. migration' = migration
    BY <1>3, <1>4, <2>1, RequestKnows
  <2>3. CASE t = "migration"
    BY <1>1, <1>2, <1>4, <2>2, <2>3 DEF Finds, Row, Accepts, Operations, Decisions
  <2>4. CASE Op(d) = "generate" /\ t = "attempt"
    BY <1>1, <1>2, <2>2, <2>4 DEF Finds, Row, Accepts, Of, Operations, Decisions
  <2>5. CASE Op(d) = "publish" /\ t = "evidence"
    <3>1. /\ Finds(d, t) /\ Finds(d, t)' /\ Row(d, t)' = Row(d, t)
          /\ Of(d) = migration.current /\ Of(d)' = Of(d)
      BY <1>2, <2>2, <2>5 DEF Finds, Row, Of
    <3>2. attempt[Of(d)] = [status |-> "completed", approved |-> TRUE]
      BY <1>1, <2>5, <3>1 DEF Accepts, Operations, Decisions
    <3>3. Of(d) \in Numbers
      <4>1. migration.status \in {"ready", "blocked"}
        BY <1>2, <1>4, <2>1, <2>5, RequestKnows, TablesSay DEF MigrationRow
      <4> QED BY <1>2, <3>1, <4>1 DEF MigrationRow, RowInv, InStep, Numbers
    <3>4. attempt'[Of(d)] = attempt[Of(d)]
      <4>1. attempt[Of(d)].status = "completed"
        BY <3>2
      <4>2. \A n \in Numbers : attempt[n].status = "completed" => attempt'[n] = attempt[n]
        BY DEF Effects
      <4> QED BY <3>3, <4>1, <4>2
    <3> QED BY <1>2, <2>5, <3>1, <3>2, <3>4 DEF Accepts
  <2>6. CASE Op(d) = "publish" /\ t = "record"
    <3>1. /\ Row(d, t)' = Row(d, t) /\ Row(d, t) = <<"record", 0>>
          /\ Finds(d, t) <=> record # NoRecord
          /\ Finds(d, t)' <=> record' # NoRecord
      BY <1>2, <2>6 DEF Finds, Row
    <3>2. Accepts(d, t)'
      BY <1>2, <2>6 DEF Accepts, Operations, Decisions
    <3>3. record' = record
      <4>1. <<"migration", 0>> \in conn[d].held
        BY <1>4, <2>1, RequestKnows
      <4>2. <<"record", 0>> \in conn[d].held \/ record = NoRecord
        BY <1>1, <2>6, <3>1 DEF Locks
      <4>3. record' # record =>
              IF record = NoRecord THEN <<"migration", 0>> \in conn[c].held
              ELSE <<"record", 0>> \in conn[c].held
        BY DEF Effects, HoldsMigration
      <4>4. \A r \in conn[d].held : r \notin conn[c].held
        BY <1>2
      <4>5. ~(record' # record)
        BY <4>1, <4>2, <4>3, <4>4
      <4> QED BY <4>5
    <3> QED BY <3>1, <3>2, <3>3
  <2> QED BY <1>1, <1>4, <2>3, <2>4, <2>5, <2>6 DEF PassedBy, Operations, Decisions, OfAttempt, Worker
<1>5. CASE OfAttempt(Op(d))
  <2> DEFINE n == conn[d].n
  <2>1. /\ Of(d) = n /\ Of(d)' = n /\ Row(d, t)' = Row(d, t)
        /\ Op(d) \in Worker /\ Op(d) \notin Operations
        /\ Op(d) \notin {"claim_publication", "complete_publication", "fail_publication"}
    BY <1>2, <1>5 DEF Of, Row, OfAttempt, Worker, Operations, Decisions
  <2>2. /\ conn[d].step > 1 /\ t \in {"attempt", "migration"}
        /\ t = "migration" => conn[d].step > 2
    BY <1>1, <1>5, <2>1, WorkersPass
  <2>3. <<"attempt", n>> \in conn[d].held /\ n \in Numbers /\ attempt[n] # NoAttempt
    BY <1>5, <2>1, <2>2, WorkerKnows DEF RowInv, Place
  <2>4. attempt'[n] = attempt[n]
    BY <1>2, <2>3 DEF Effects
  <2>5. CASE t = "attempt"
    BY <1>1, <1>2, <2>1, <2>4, <2>5 DEF Finds, Accepts, OfAttempt, Operations, Decisions
  <2>6. CASE t = "migration"
    <3>1. /\ Row(d, t) = <<"migration", 0>> /\ Locks(Op(d), t)
      BY <2>6 DEF Row, Locks
    <3>2. CASE Finds(d, t)
      <4>1. migration' = migration
        BY <1>1, <1>3, <3>1, <3>2
      <4> QED BY <1>1, <1>2, <2>1, <2>4, <2>6, <3>2, <4>1 DEF Finds, Accepts, OfAttempt, Operations, Decisions
    <3>3. CASE ~Finds(d, t)
      <4>1. Op(d) = "fail_attempt" /\ migration.current # n
        BY <1>1, <1>5, <2>1, <2>6, <3>3 DEF Optional, Finds, OfAttempt
      <4>2. migration'.current # n
        BY <2>3, <4>1 DEF Effects
      <4> QED BY <1>2, <2>1, <2>6, <3>3, <4>1, <4>2 DEF Finds
    <3> QED BY <3>2, <3>3
  <2> QED BY <2>2, <2>5, <2>6
<1>6. CASE Op(d) \in {"claim_publication", "complete_publication", "fail_publication"}
  <2>1. /\ Of(d) = conn[d].n /\ Of(d)' = conn[d].n /\ Row(d, t)' = Row(d, t)
        /\ Op(d) \in Worker /\ Op(d) \notin Operations /\ ~OfAttempt(Op(d))
    BY <1>2, <1>6 DEF Of, Row, OfAttempt, Worker, Operations, Decisions
  <2>2. /\ conn[d].step > 1 /\ t \in {"record", "migration"}
        /\ t = "migration" => Op(d) \in {"complete_publication", "fail_publication"}
    BY <1>1, <1>6, <2>1, WorkersPass
  <2>3. <<"record", 0>> \in conn[d].held /\ record # NoRecord
    <3>1. <<"record", 0>> \in conn[d].held /\ record.status \in {"queued", "publishing"}
      BY <1>6, <2>1, <2>2, WorkerKnows
    <3> QED BY <3>1 DEF NoRecord
  <2>4. record' = record
    BY <1>2, <2>3 DEF Effects
  <2>5. Accepts(d, t)'
    BY <1>2, <1>6, <2>1 DEF Accepts
  <2>6. CASE t = "record"
    BY <1>2, <1>6, <2>1, <2>4, <2>5, <2>6 DEF Finds
  <2>7. CASE t = "migration"
    <3>1. /\ Row(d, t) = <<"migration", 0>> /\ Locks(Op(d), t)
      BY <2>7 DEF Row, Locks
    <3>2. CASE Finds(d, t)
      <4>1. migration' = migration
        BY <1>1, <1>3, <3>1, <3>2
      <4> QED BY <1>2, <2>1, <2>2, <2>5, <2>7, <3>2, <4>1 DEF Finds
    <3>3. CASE ~Finds(d, t)
      <4>1. Op(d) = "fail_publication" /\ migration.status # "pr_opening"
        BY <1>1, <2>1, <2>2, <2>7, <3>3 DEF Optional, Finds
      <4>2. migration'.status # "pr_opening"
        BY <1>2, <2>3, <4>1 DEF Effects
      <4> QED BY <1>2, <2>1, <2>7, <3>3, <4>1, <4>2 DEF Finds
    <3> QED BY <3>2, <3>3
  <2> QED BY <2>2, <2>6, <2>7
<1> QED BY <1>1, <1>4, <1>5, <1>6 DEF Transactions, OfAttempt

ConnRow == [pc : {"idle", "open", "working", "failing"}, op : Transactions \cup {"none"},
            n : 0..MaxAttempts, step : 1..4, held : SUBSET RowNames, claims : BOOLEAN]

\* So a connection that does nothing is where it was, after any step of another.
LEMMA OthersStay ==
  ASSUME RowInv, NEW c \in Connections, NEW d \in Connections, c # d,
         Effects(c) \/ UNCHANGED rows, conn'[d] = conn[d]
  PROVE  Place(d)' /\ Transacts(d)'
<1>1. Place(d) /\ Transacts(d) /\ conn[d].n = conn'[d].n
  BY DEF RowInv
<1>2. \A n \in Numbers : attempt[n] # NoAttempt => attempt'[n] # NoAttempt
  BY DEF Effects, rows
<1>3. Place(d)'
  BY <1>1, <1>2 DEF Place, Is, Op
<1>4. ASSUME Is(d, "open") PROVE HeldIsFound(d)' /\ PassedStillHolds(d)'
  <2>1. Passed(d)' = Passed(d)
    BY DEF Passed, Op
  <2>2. HeldIsFound(d) /\ PassedStillHolds(d)
    BY <1>1, <1>4 DEF Transacts
  <2>3. ASSUME NEW t \in Passed(d)
        PROVE  /\ Finds(d, t)' <=> Finds(d, t)
               /\ Row(d, t)' = Row(d, t)
               /\ Finds(d, t) => Accepts(d, t)'
               /\ Locks(Op(d), t)' <=> Locks(Op(d), t)
               /\ Optional(d, t)' <=> Optional(d, t)
    <3>1. CASE Effects(c)
      BY <1>4, <2>3, <3>1, OthersStillFind DEF Locks, Optional, Op
    <3>2. CASE UNCHANGED rows
      <4>1. /\ Finds(d, t)' <=> Finds(d, t)
            /\ Row(d, t)' = Row(d, t)
            /\ Accepts(d, t)' <=> Accepts(d, t)
        BY <3>2 DEF Finds, Row, Accepts, Of, Op, rows
      <4> QED BY <2>2, <2>3, <4>1 DEF Locks, Optional, Op, PassedStillHolds
    <3> QED BY <3>1, <3>2
  <2>4. HeldIsFound(d)'
    BY <2>1, <2>2, <2>3 DEF HeldIsFound
  <2>5. PassedStillHolds(d)'
    BY <2>1, <2>2, <2>3 DEF PassedStillHolds
  <2> QED BY <2>4, <2>5
<1> QED BY <1>3, <1>4 DEF Transacts, Is

\* A step that ends a transaction, or begins one, leaves the others to themselves.
LEMMA Moves ==
  ASSUME RowInv, NEW c \in Connections, Effects(c) \/ UNCHANGED rows,
         NEW to \in ConnRow, conn' = [conn EXCEPT ![c] = to],
         to.held = {}, to.pc = "open" => to.step = 1, Place(c)', raised' \subseteq Transactions
  PROVE  RowInv'
<1>1. conn \in [Connections -> ConnRow] /\ conn'[c] = to
  BY DEF RowInv, TypeOK, ConnRow
<1>2. conn' \in [Connections -> ConnRow] /\ \A d \in Connections \ {c} : conn'[d] = conn[d]
  BY <1>1
<1>3. /\ migration' \in MigrationRow /\ attempt' \in [Numbers -> AttemptRow]
      /\ record' \in RecordRow /\ Chain' /\ InStep'
  BY Typed DEF Effects, rows, RowInv, Chain, InStep
<1>4. \A d, e \in Connections : d # e => conn'[d].held \cap conn'[e].held = {}
  BY <1>1, <1>2 DEF RowInv, TypeOK
<1>5. TypeOK'
  BY <1>2, <1>3, <1>4 DEF TypeOK, ConnRow, MigrationRow, AttemptRow, RecordRow
<1>6. Transacts(c)'
  <2>1. CASE to.pc = "open"
    <3>1. Passed(c)' = {}
      BY <1>1, <2>1 DEF Passed
    <3> QED BY <1>1, <3>1 DEF Transacts, HeldIsFound, PassedStillHolds
  <2>2. CASE to.pc # "open"
    BY <1>1, <2>2 DEF Transacts, Is
  <2> QED BY <2>1, <2>2
<1>7. \A d \in Connections : Place(d)' /\ Transacts(d)'
  BY <1>2, <1>6, OthersStay
<1> QED BY <1>3, <1>5, <1>7 DEF RowInv

LEMMA MovesToIdle ==
  ASSUME RowInv, NEW c \in Connections, Effects(c) \/ UNCHANGED rows, Goes(c, Idle),
         raised' \subseteq Transactions
  PROVE  RowInv'
<1>1. Idle \in ConnRow /\ Idle.held = {} /\ Idle.pc = "idle"
  BY MaxAttemptsAssumption DEF Idle, ConnRow
<1>2. conn \in [Connections -> ConnRow] /\ conn' = [conn EXCEPT ![c] = Idle]
  BY DEF RowInv, TypeOK, ConnRow, Goes
<1>3. conn'[c] = Idle
  BY <1>2
<1>4. Place(c)'
  BY <1>3 DEF Place, Is, Op, Idle, OfAttempt
<1> QED BY <1>1, <1>2, <1>4, Moves

-----------------------------------------------------------------------------
(* The statements *)

\* Which table a running transaction is at.
LEMMA TableIs ==
  ASSUME NEW c \in Connections, Running(c), Op(c) \in Transactions, conn[c].step \in 1..4
  PROVE  /\ conn[c].step \in 1..3 /\ Table(c) \in {"migration", "attempt", "evidence", "record"}
         /\ conn[c].step + 1 <= Len(Statements(Op(c))) + 1
         /\ Op(c) \in Operations => (Table(c) = "migration" <=> conn[c].step = 1)
         /\ Op(c) \in Decisions => conn[c].step = 1
         /\ Op(c) = "generate" /\ conn[c].step > 1 => Table(c) = "attempt" /\ conn[c].step = 2
         /\ Op(c) = "publish" =>
              /\ Table(c) = "record" <=> conn[c].step = 3
              /\ Table(c) \in {"migration", "evidence", "record"}
         /\ OfAttempt(Op(c)) =>
              \/ Table(c) = "attempt" /\ conn[c].step = 1
              \/ Table(c) = "migration" /\ conn[c].step = 2
         /\ Op(c) \in {"complete_publication", "fail_publication"} =>
              \/ Table(c) = "record" /\ conn[c].step = 1
              \/ Table(c) = "migration" /\ conn[c].step = 2
         /\ Op(c) = "claim_publication" => Table(c) = "record" /\ conn[c].step = 1
<1> DEFINE k == conn[c].step
           s == Statements(Op(c))
<1>1. k \in 1..4 /\ k <= Len(s) /\ Table(c) = s[k]
  BY DEF Running, Table
<1>2. CASE Op(c) \in Decisions
  <2>1. s = <<"migration">>
    BY <1>2, StatementsAre
  <2>4. Len(s) = 1 /\ s[1] = "migration"
    BY <2>1
  <2>2. Op(c) \in Operations /\ ~OfAttempt(Op(c))
        /\ Op(c) \notin {"generate", "publish", "complete_publication", "fail_publication",
                         "claim_publication"}
    BY <1>2 DEF Operations, Decisions, OfAttempt
  <2> HIDE DEF k, s
  <2>3. k = 1 /\ Table(c) = "migration" /\ k + 1 <= Len(s) + 1
    BY <1>1, <2>4
  <2> QED BY <1>2, <2>2, <2>3 DEF k, s
<1>3. CASE Op(c) = "generate"
  <2>1. s = <<"migration", "attempt">>
    BY <1>3, StatementsAre
  <2>4. Len(s) = 2 /\ s[1] = "migration" /\ s[2] = "attempt"
    BY <2>1
  <2>2. Op(c) \in Operations /\ Op(c) \notin Decisions /\ ~OfAttempt(Op(c))
    BY <1>3 DEF Operations, Decisions, OfAttempt
  <2> HIDE DEF k, s
  <2>3. /\ (k = 1 /\ Table(c) = "migration") \/ (k = 2 /\ Table(c) = "attempt")
        /\ k + 1 <= Len(s) + 1
    BY <1>1, <2>4
  <2> QED BY <1>3, <2>2, <2>3 DEF k, s
<1>4. CASE Op(c) = "publish"
  <2>1. s = <<"migration", "evidence", "record">>
    BY <1>4, StatementsAre
  <2>4. Len(s) = 3 /\ s[1] = "migration" /\ s[2] = "evidence" /\ s[3] = "record"
    BY <2>1
  <2>2. Op(c) \in Operations /\ Op(c) \notin Decisions /\ ~OfAttempt(Op(c))
    BY <1>4 DEF Operations, Decisions, OfAttempt
  <2> HIDE DEF k, s
  <2>3. /\ \/ k = 1 /\ Table(c) = "migration"
           \/ k = 2 /\ Table(c) = "evidence"
           \/ k = 3 /\ Table(c) = "record"
        /\ k + 1 <= Len(s) + 1
    BY <1>1, <2>4
  <2> QED BY <1>4, <2>2, <2>3 DEF k, s
<1>5. CASE OfAttempt(Op(c))
  <2>1. s = <<"attempt", "migration">>
    BY <1>5, StatementsAre DEF OfAttempt
  <2>4. Len(s) = 2 /\ s[1] = "attempt" /\ s[2] = "migration"
    BY <2>1
  <2>2. Op(c) \notin Operations /\ Op(c) \notin Decisions
        /\ Op(c) \notin {"generate", "publish", "complete_publication", "fail_publication",
                         "claim_publication"}
    BY <1>5 DEF Operations, Decisions, OfAttempt
  <2> HIDE DEF k, s
  <2>3. /\ (k = 1 /\ Table(c) = "attempt") \/ (k = 2 /\ Table(c) = "migration")
        /\ k + 1 <= Len(s) + 1
    BY <1>1, <2>4
  <2> QED BY <2>2, <2>3 DEF k, s
<1>6. CASE Op(c) \in {"complete_publication", "fail_publication"}
  <2>1. s = <<"record", "migration">>
    BY <1>6, StatementsAre
  <2>4. Len(s) = 2 /\ s[1] = "record" /\ s[2] = "migration"
    BY <2>1
  <2>2. Op(c) \notin Operations /\ Op(c) \notin Decisions /\ ~OfAttempt(Op(c))
        /\ Op(c) \notin {"generate", "publish", "claim_publication"}
    BY <1>6 DEF Operations, Decisions, OfAttempt
  <2> HIDE DEF k, s
  <2>3. /\ (k = 1 /\ Table(c) = "record") \/ (k = 2 /\ Table(c) = "migration")
        /\ k + 1 <= Len(s) + 1
    BY <1>1, <2>4
  <2> QED BY <2>2, <2>3 DEF k, s
<1>7. CASE Op(c) = "claim_publication"
  <2>1. s = <<"record">>
    BY <1>7, StatementsAre
  <2>4. Len(s) = 1 /\ s[1] = "record"
    BY <2>1
  <2>2. Op(c) \notin Operations /\ Op(c) \notin Decisions /\ ~OfAttempt(Op(c))
        /\ Op(c) \notin {"generate", "publish", "complete_publication", "fail_publication"}
    BY <1>7 DEF Operations, Decisions, OfAttempt
  <2> HIDE DEF k, s
  <2>3. k = 1 /\ Table(c) = "record" /\ k + 1 <= Len(s) + 1
    BY <1>1, <2>4
  <2> QED BY <2>2, <2>3 DEF k, s
<1> QED BY <1>2, <1>3, <1>4, <1>5, <1>6, <1>7 DEF Transactions, Operations, OfAttempt

\* A row that is waited for has a name.
LEMMA WantedIsARow ==
  ASSUME RowInv, NEW c \in Connections
  PROVE  Wanted(c) \subseteq RowNames
<1>1. SUFFICES ASSUME Running(c), Locks(Op(c), Table(c)), Finds(c, Table(c))
               PROVE  Row(c, Table(c)) \in RowNames
  BY DEF Wanted
<1>2. /\ Op(c) \in Transactions /\ conn[c].step \in 1..4 /\ Place(c)
      /\ migration \in MigrationRow
  BY <1>1, Behind, Typed DEF Running, RowInv
<1>3. Table(c) \in {"migration", "attempt", "record"}
  BY <1>1, <1>2, TableIs DEF Locks
<1>4. CASE Table(c) = "attempt"
  <2>1. Op(c) = "generate" \/ OfAttempt(Op(c))
    BY <1>1, <1>2, <1>4, TableIs DEF Transactions, Operations, OfAttempt
  <2>2. CASE Op(c) = "generate"
    <3>1. migration.current # 0
      BY <1>1, <1>4, <2>2 DEF Finds
    <3>2. Of(c) \in Numbers
      BY <1>2, <2>2, <3>1 DEF Of, MigrationRow, Numbers
    <3> QED BY <1>4, <3>2 DEF Row, RowNames
  <2>3. CASE OfAttempt(Op(c))
    <3>1. Of(c) = conn[c].n /\ conn[c].n \in Numbers
      BY <1>2, <2>3 DEF Of, OfAttempt, Place
    <3> QED BY <1>4, <3>1 DEF Row, RowNames
  <2> QED BY <2>1, <2>2, <2>3
<1>5. CASE Table(c) # "attempt"
  BY <1>3, <1>5 DEF Row, RowNames
<1> QED BY <1>4, <1>5

\* A statement goes on, fails or gives up.
LEMMA StatementGoes ==
  ASSUME RowInv, NEW c \in Connections, Statement(c)
  PROVE  /\ Running(c) /\ UNCHANGED rows /\ Wanted(c) \cap HeldByOthers(c) = {}
         /\ \/ /\ Finds(c, Table(c)) => Accepts(c, Table(c))
               /\ Finds(c, Table(c)) \/ Optional(c, Table(c))
               /\ Goes(c, [conn[c] EXCEPT !.step = @ + 1, !.held = @ \cup Wanted(c)])
            \/ /\ Op(c) \in {"claim_attempt", "complete_attempt", "complete_publication"}
               /\ Op(c) = "claim_attempt" =>
                    Table(c) = "migration" /\ ~Finds(c, "migration")
               /\ Fails(c)
            \/ Goes(c, Idle)
<1> DEFINE next == [conn[c] EXCEPT !.step = @ + 1, !.held = @ \cup Wanted(c)]
<1>1. /\ Running(c) /\ UNCHANGED rows /\ Wanted(c) \cap HeldByOthers(c) = {}
      /\ \/ Finds(c, Table(c)) /\ Accepts(c, Table(c)) /\ Goes(c, next)
         \/ Finds(c, Table(c)) /\ Op(c) = "complete_attempt" /\ Fails(c)
         \/ Goes(c, Idle)
         \/ ~Finds(c, Table(c)) /\ Optional(c, Table(c)) /\ Goes(c, next)
         \/ ~Finds(c, Table(c)) /\ MissRaises(c, Table(c)) /\ Fails(c)
  BY Zenon DEF Statement
<1> HIDE DEF next
<1>2. MissRaises(c, Table(c)) =>
        /\ Op(c) \in {"claim_attempt", "complete_attempt", "complete_publication"}
        /\ Op(c) = "claim_attempt" => Table(c) = "migration"
  BY DEF MissRaises
<1>3. CASE Finds(c, Table(c)) /\ Accepts(c, Table(c)) /\ Goes(c, next)
  BY <1>1, <1>3 DEF next
<1>4. CASE Finds(c, Table(c)) /\ Op(c) = "complete_attempt" /\ Fails(c)
  BY <1>1, <1>4
<1>5. CASE ~Finds(c, Table(c)) /\ Optional(c, Table(c)) /\ Goes(c, next)
  BY <1>1, <1>5 DEF next
<1>6. CASE ~Finds(c, Table(c)) /\ MissRaises(c, Table(c)) /\ Fails(c)
  BY <1>1, <1>2, <1>6
<1> QED BY <1>1, <1>3, <1>4, <1>5, <1>6

LEMMA StatementKeeps ==
  ASSUME RowInv, NEW c \in Connections, Statement(c), UNCHANGED raised
  PROVE  RowInv'
<1>1. /\ Running(c) /\ Is(c, "open") /\ UNCHANGED rows /\ Wanted(c) \cap HeldByOthers(c) = {}
      /\ raised' \subseteq Transactions
  BY StatementGoes DEF Running, RowInv, TypeOK
<1>2. /\ conn[c] \in ConnRow /\ conn \in [Connections -> ConnRow] /\ Place(c)
      /\ Op(c) \in Transactions /\ conn[c].step \in 1..4
  BY <1>1, Behind DEF RowInv, TypeOK, ConnRow
<1>3. CASE Goes(c, Idle)
  BY <1>1, <1>3, MovesToIdle
<1>4. CASE Fails(c) /\ Op(c) \in {"claim_attempt", "complete_attempt", "complete_publication"}
  <2> DEFINE to == [conn[c] EXCEPT !.pc = "failing", !.held = {}]
  <2>1. to \in ConnRow /\ to.held = {} /\ to.pc = "failing" /\ conn' = [conn EXCEPT ![c] = to]
    BY <1>2, <1>4 DEF ConnRow, Fails, Goes
  <2>2. Place(c)'
    BY <1>1, <1>2, <1>4 DEF Fails, Goes, Place, Is, Op, OfAttempt, Worker, rows, ConnRow
  <2> QED BY <1>1, <2>1, <2>2, Moves
<1>5. CASE /\ Finds(c, Table(c)) => Accepts(c, Table(c))
           /\ Finds(c, Table(c)) \/ Optional(c, Table(c))
           /\ Goes(c, [conn[c] EXCEPT !.step = @ + 1, !.held = @ \cup Wanted(c)])
  <2> DEFINE to == [conn[c] EXCEPT !.step = @ + 1, !.held = @ \cup Wanted(c)]
  <2>1. conn[c].step \in 1..3 /\ conn[c].step + 1 <= Len(Statements(Op(c))) + 1
    BY <1>1, <1>2, TableIs
  <2>2. to \in ConnRow
    <3>1. conn[c].step + 1 \in 1..4 /\ conn[c].held \cup Wanted(c) \in SUBSET RowNames
      BY <1>2, <2>1, WantedIsARow DEF ConnRow
    <3> QED BY <1>2, <3>1 DEF ConnRow
  <2>3. /\ conn' \in [Connections -> ConnRow] /\ conn'[c] = to
        /\ \A d \in Connections \ {c} : conn'[d] = conn[d]
    BY <1>2, <1>5, <2>2 DEF Goes
  <2>4. /\ to.pc = conn[c].pc /\ to.op = conn[c].op /\ to.n = conn[c].n
        /\ to.claims = conn[c].claims /\ to.step = conn[c].step + 1
        /\ to.held = conn[c].held \cup Wanted(c)
    BY <1>2 DEF ConnRow
  <2> HIDE DEF to
  <2>5. Place(c)'
    BY <1>1, <1>2, <2>1, <2>3, <2>4 DEF Place, Is, Op, Settles, Claims, OfAttempt, rows
  <2>6. \A d \in Connections \ {c} : conn'[d].held \cap conn'[c].held = {}
    <3>1. ASSUME NEW d \in Connections \ {c} PROVE conn[d].held \cap to.held = {}
      <4>1. conn[d].held \cap conn[c].held = {}
        BY DEF RowInv, TypeOK
      <4>2. conn[d].held \subseteq HeldByOthers(c)
        BY DEF HeldByOthers
      <4> QED BY <1>1, <2>4, <4>1, <4>2
    <3> QED BY <2>3, <3>1
  <2>7. \A d, e \in Connections : d # e => conn'[d].held \cap conn'[e].held = {}
    BY <2>3, <2>6 DEF RowInv, TypeOK
  <2>8. TypeOK'
    BY <1>1, <2>3, <2>7 DEF RowInv, TypeOK, ConnRow, rows
  <2>9. Chain' /\ InStep'
    BY <1>1 DEF RowInv, Chain, InStep, rows
  <2>10. \A t : /\ Finds(c, t)' <=> Finds(c, t)
                /\ Accepts(c, t)' <=> Accepts(c, t)
                /\ Optional(c, t)' <=> Optional(c, t)
                /\ Locks(Op(c), t)' <=> Locks(Op(c), t)
                /\ Row(c, t)' = Row(c, t)
    BY <1>1, <2>3, <2>4 DEF Finds, Accepts, Optional, Locks, Row, Of, Op, rows
  <2>11. Passed(c)' = Passed(c) \cup {Table(c)}
    <3>1. Statements(Op(c))' = Statements(Op(c)) /\ conn'[c].step = conn[c].step + 1
      BY <2>3, <2>4 DEF Op
    <3>2. 1..(conn'[c].step - 1) = (1..(conn[c].step - 1)) \cup {conn[c].step}
      BY <2>1, <3>1
    <3> QED BY <3>1, <3>2 DEF Passed, Table
  <2>12. HeldIsFound(c) /\ PassedStillHolds(c)
    BY <1>1 DEF RowInv, Transacts
  <2>13. \A t, u : Row(c, t) = Row(c, u) => t = u
    BY DEF Row
  <2>14. Wanted(c) = IF Locks(Op(c), Table(c)) /\ Finds(c, Table(c))
                     THEN {Row(c, Table(c))} ELSE {}
    BY <1>1 DEF Wanted
  <2>15. HeldIsFound(c)'
    <3>1. \A r \in to.held : \E t \in Passed(c) \cup {Table(c)} : r = Row(c, t)
      BY <2>4, <2>12, <2>14 DEF HeldIsFound
    <3>2. \A t \in Passed(c) \cup {Table(c)} :
            Row(c, t) \in to.held <=> Locks(Op(c), t) /\ Finds(c, t)
      <4>1. ASSUME NEW t \in Passed(c)
            PROVE  Row(c, t) \in to.held <=> Locks(Op(c), t) /\ Finds(c, t)
        <5>1. Row(c, t) \in conn[c].held <=> Locks(Op(c), t) /\ Finds(c, t)
          BY <2>12 DEF HeldIsFound
        <5>2. Row(c, t) \in Wanted(c) => Locks(Op(c), t) /\ Finds(c, t)
          BY <2>13, <2>14
        <5> QED BY <2>4, <5>1, <5>2
      <4>2. Row(c, Table(c)) \in to.held <=> Locks(Op(c), Table(c)) /\ Finds(c, Table(c))
        <5>1. Row(c, Table(c)) \in conn[c].held => Table(c) \in Passed(c)
          BY <2>12, <2>13 DEF HeldIsFound
        <5>2. Row(c, Table(c)) \in conn[c].held => Locks(Op(c), Table(c)) /\ Finds(c, Table(c))
          BY <2>12, <5>1 DEF HeldIsFound
        <5> QED BY <2>4, <2>14, <5>2
      <4> QED BY <4>1, <4>2
    <3> QED BY <2>3, <2>10, <2>11, <3>1, <3>2 DEF HeldIsFound
  <2>16. PassedStillHolds(c)'
    BY <1>5, <2>10, <2>11, <2>12 DEF PassedStillHolds
  <2>17. \A d \in Connections : Place(d)' /\ Transacts(d)'
    BY <1>1, <2>3, <2>5, <2>15, <2>16, OthersStay DEF Transacts
  <2> QED BY <2>8, <2>9, <2>17 DEF RowInv
<1> QED BY <1>3, <1>4, <1>5, StatementGoes

-----------------------------------------------------------------------------
(* The invariant *)

\* A connection of which little is said: it fails, works or begins.
LEMMA CommitKeeps ==
  ASSUME RowInv, NEW c \in Connections, CanCommit(c), Writes(c),
         NEW pc \in {"working", "failing"},
         \/ Goes(c, Idle)
         \/ /\ Op(c) \in Worker /\ (pc = "working" => Claims(Op(c)))
            /\ Goes(c, [Claimed(c) EXCEPT !.pc = pc]),
         raised' \subseteq Transactions
  PROVE  RowInv'
<1>1. Effects(c)
  BY CommitHasEffects
<1>2. CASE Goes(c, Idle)
  BY <1>1, <1>2, MovesToIdle
<1>3. CASE /\ Op(c) \in Worker /\ (pc = "working" => Claims(Op(c)))
           /\ Goes(c, [Claimed(c) EXCEPT !.pc = pc])
  <2> DEFINE to == [Claimed(c) EXCEPT !.pc = pc]
  <2>1. /\ conn \in [Connections -> ConnRow] /\ Place(c) /\ Op(c) \in Transactions
        /\ record \in RecordRow
    BY Typed, Behind DEF RowInv, TypeOK, ConnRow, CanCommit
  <2>2. /\ to \in ConnRow /\ to.held = {} /\ to.pc = pc /\ to.op = Op(c) /\ to.claims
        /\ to.n = IF Op(c) = "claim_publication" THEN record.attempt ELSE conn[c].n
    BY <2>1 DEF Claimed, ConnRow, RecordRow, Op
  <2>3. conn' = [conn EXCEPT ![c] = to] /\ conn'[c] = to
    BY <1>3, <2>1 DEF Goes
  <2> HIDE DEF to
  <2>4. \A n \in Numbers : attempt[n] # NoAttempt => attempt'[n] # NoAttempt
    BY <1>1 DEF Effects
  <2>5. OfAttempt(Op(c)) => to.n = conn[c].n
    BY <2>2 DEF OfAttempt
  <2>6. Place(c)'
    BY <1>3, <2>1, <2>2, <2>3, <2>4, <2>5 DEF Place, Is, Op
  <2> QED BY <1>1, <2>2, <2>3, <2>6, Moves
<1> QED BY <1>2, <1>3

\* A transaction's beginning, of an idle connection or of one that goes on.
LEMMA Rewritten ==
  ASSUME NEW P, NEW T, NEW N, NEW S, NEW H,
         NEW p \in P, NEW t \in T, NEW n \in N, NEW s \in S, NEW h \in H,
         NEW r \in [pc : P, op : T, n : N, step : S, held : H, claims : BOOLEAN]
  PROVE  /\ [r EXCEPT !.pc = p, !.op = t, !.step = s, !.held = h]
              \in [pc : P, op : T, n : N, step : S, held : H, claims : BOOLEAN]
         /\ [r EXCEPT !.pc = p, !.op = t, !.n = n]
              \in [pc : P, op : T, n : N, step : S, held : H, claims : BOOLEAN]
<1>1. [r EXCEPT !.pc = p, !.op = t, !.step = s, !.held = h]
        \in [pc : P, op : T, n : N, step : S, held : H, claims : BOOLEAN]
  OBVIOUS
<1>2. [r EXCEPT !.pc = p, !.op = t, !.n = n]
        \in [pc : P, op : T, n : N, step : S, held : H, claims : BOOLEAN]
  OBVIOUS
<1> QED BY <1>1, <1>2

LEMMA Begins ==
  ASSUME NEW r \in ConnRow, NEW op \in Transactions
  PROVE  [r EXCEPT !.pc = "open", !.op = op, !.step = 1, !.held = {}] \in ConnRow
<1>1. /\ 1 \in 1..4 /\ {} \in SUBSET RowNames /\ r.n \in 0..MaxAttempts
      /\ "open" \in {"idle", "open", "working", "failing"}
      /\ op \in Transactions \cup {"none"}
  BY DEF ConnRow
<1> QED BY <1>1, Rewritten DEF ConnRow

LEMMA BeginsJob ==
  ASSUME NEW r \in ConnRow, NEW op \in Transactions, NEW n \in 0..MaxAttempts
  PROVE  [r EXCEPT !.pc = "open", !.op = op, !.n = n] \in ConnRow
<1>1. /\ r.step \in 1..4 /\ r.held \in SUBSET RowNames
      /\ "open" \in {"idle", "open", "working", "failing"}
      /\ op \in Transactions \cup {"none"}
  BY DEF ConnRow
<1> QED BY <1>1, Rewritten DEF ConnRow

LEMMA InitKeeps == Init => RowInv
<1> SUFFICES ASSUME Init PROVE RowInv
  OBVIOUS
<1>1. \A c \in Connections : conn[c] = Idle
  BY DEF Init
<1>2. TypeOK
  BY MaxAttemptsAssumption, TablesSay DEF TypeOK, Init, Idle, NoAttempt, NoRecord
<1>3. Chain
  <2>1. 0 \in 0..MaxAttempts /\ migration.current <= 0
        /\ \A n \in Numbers : attempt[n] = NoAttempt <=> n > 0
    BY MaxAttemptsAssumption DEF Init, Numbers
  <2> QED BY <2>1 DEF Chain
<1>4. InStep
  BY DEF Init, InStep, NoAttempt, NoRecord, Numbers
<1>5. ASSUME NEW c \in Connections PROVE Place(c) /\ Transacts(c)
  BY <1>1 DEF Place, Transacts, Is, Op, Idle, OfAttempt
<1> QED BY <1>2, <1>3, <1>4, <1>5 DEF RowInv

LEMMA StepKeeps == RowInv /\ [Next]_vars => RowInv'
<1> SUFFICES ASSUME RowInv, [Next]_vars PROVE RowInv'
  OBVIOUS
<1>1. CASE UNCHANGED vars
  <2>1. TypeOK' /\ Chain' /\ InStep'
    BY <1>1 DEF vars, RowInv, TypeOK, Chain, InStep
  <2>2. ASSUME NEW c \in Connections PROVE Place(c)' /\ Transacts(c)'
    <3>1. Place(c)'
      BY <1>1 DEF vars, RowInv, Place, Is, Op
    <3>2. /\ migration' = migration /\ attempt' = attempt /\ record' = record
          /\ conn' = conn
      BY <1>1 DEF vars
    <3>3. Passed(c)' = Passed(c) /\ Op(c)' = Op(c) /\ Of(c)' = Of(c)
      BY <3>2 DEF Passed, Op, Of
    <3>4. ASSUME NEW t
          PROVE  /\ Finds(c, t)' <=> Finds(c, t)
                 /\ Accepts(c, t)' <=> Accepts(c, t)
                 /\ Optional(c, t)' <=> Optional(c, t)
                 /\ Row(c, t)' = Row(c, t)
      BY <3>2, <3>3 DEF Finds, Accepts, Optional, Row
    <3>5. Transacts(c)
      BY DEF RowInv
    <3>6. HeldIsFound(c)' <=> HeldIsFound(c)
      BY <3>2, <3>3, <3>4 DEF HeldIsFound, Locks
    <3>7. PassedStillHolds(c)' <=> PassedStillHolds(c)
      BY <3>2, <3>3, <3>4 DEF PassedStillHolds
    <3> QED BY <3>1, <3>2, <3>5, <3>6, <3>7 DEF Transacts, Is
  <2> QED BY <2>1, <2>2 DEF RowInv
<1>2. ASSUME NEW c \in Connections, Step(c)
      PROVE  RowInv'
  <2>1. /\ conn \in [Connections -> ConnRow] /\ conn[c] \in ConnRow /\ Place(c)
        /\ raised \subseteq Transactions /\ record \in RecordRow
        /\ attempt \in [Numbers -> AttemptRow]
    BY Typed DEF RowInv, TypeOK, ConnRow
  <2>2. ASSUME NEW to \in ConnRow, Goes(c, to), UNCHANGED rows, raised' \subseteq Transactions,
               to.held = {}, to.pc # "idle", to.pc = "open" => to.step = 1,
               to.op \in Transactions,
               to.pc = "working" => Claims(to.op) /\ to.claims,
               to.pc = "failing" => to.op \in Worker,
               to.claims => to.op \in Worker /\ (to.pc = "open" => Settles(to.op)),
               OfAttempt(to.op) => to.n \in Numbers /\ attempt[to.n] # NoAttempt
        PROVE  RowInv'
    <3>1. conn' = [conn EXCEPT ![c] = to] /\ conn'[c] = to
      BY <2>1, <2>2 DEF Goes
    <3>2. to.pc = "open" => to.step <= Len(Statements(to.op)) + 1
      <4>1. Len(Statements(to.op)) \in {1, 2, 3}
        BY <2>2, StatementCount
      <4> DEFINE n == Len(Statements(to.op))
      <4>2. n \in {1, 2, 3}
        BY <4>1
      <4> HIDE DEF n
      <4>3. to.pc = "open" => to.step <= n + 1
        BY <2>2, <4>2
      <4> QED BY <4>3 DEF n
    <3>3. Place(c)'
      BY <2>2, <3>1, <3>2 DEF Place, Is, Op, rows
    <3> QED BY <2>2, <3>1, <3>3, Moves
  <2>3. ASSUME NEW op \in Operations, BeginRequest(c, op), UNCHANGED raised PROVE RowInv'
    <3> DEFINE to == [conn[c] EXCEPT !.pc = "open", !.op = op, !.step = 1, !.held = {}]
    <3>1. conn[c] = Idle /\ Goes(c, to) /\ UNCHANGED rows
      BY <2>1, <2>3 DEF BeginRequest, Starts, Place
    <3>2. op \in Transactions /\ ~OfAttempt(op)
      BY DEF Transactions, OfAttempt, Operations, Decisions
    <3>3. /\ to \in ConnRow /\ to.held = {} /\ to.pc = "open" /\ to.step = 1 /\ to.op = op
          /\ ~to.claims
      <4>1. to \in ConnRow
        BY <2>1, <3>2, Begins
      <4>2. to.held = {} /\ to.pc = "open" /\ to.step = 1 /\ to.op = op /\ ~to.claims
        BY <2>1, <3>1 DEF ConnRow, Idle
      <4> QED BY <4>1, <4>2
    <3> HIDE DEF to
    <3> QED BY <2>1, <2>2, <2>3, <3>1, <3>2, <3>3
  <2>4. ASSUME BeginJob(c), UNCHANGED raised PROVE RowInv'
    <3>1. CASE \E n \in Numbers :
                 /\ attempt[n].status \notin {"absent", "created"}
                 /\ Goes(c, [Idle EXCEPT !.pc = "open", !.op = "claim_attempt", !.n = n])
      <4>1. PICK n \in Numbers :
                 /\ attempt[n].status \notin {"absent", "created"}
                 /\ Goes(c, [Idle EXCEPT !.pc = "open", !.op = "claim_attempt", !.n = n])
        BY <3>1
      <4> DEFINE to == [Idle EXCEPT !.pc = "open", !.op = "claim_attempt", !.n = n]
      <4>2. /\ to \in ConnRow /\ to.held = {} /\ to.pc = "open" /\ to.step = 1
            /\ to.op = "claim_attempt" /\ ~to.claims /\ to.n = n
        <5>1. Idle \in ConnRow /\ ~Idle.claims
          BY MaxAttemptsAssumption DEF Idle, ConnRow
        <5>2. "claim_attempt" \in Transactions /\ n \in 0..MaxAttempts
          BY DEF Transactions, Numbers
        <5>3. to \in ConnRow
          BY <5>1, <5>2, BeginsJob
        <5>4. /\ to.held = {} /\ to.pc = "open" /\ to.step = 1
              /\ to.op = "claim_attempt" /\ ~to.claims /\ to.n = n
          BY DEF Idle
        <5> QED BY <5>3, <5>4
      <4>3. Goes(c, to) /\ UNCHANGED rows
        BY <2>4, <4>1 DEF BeginJob
      <4>4. attempt[n] # NoAttempt
        BY <4>1 DEF NoAttempt
      <4> HIDE DEF to
      <4> QED BY <2>1, <2>2, <2>4, <4>2, <4>3, <4>4 DEF Transactions
    <3>2. CASE Goes(c, [Idle EXCEPT !.pc = "open", !.op = "claim_publication",
                                    !.n = record.attempt])
      <4> DEFINE to == [Idle EXCEPT !.pc = "open", !.op = "claim_publication",
                                    !.n = record.attempt]
      <4>1. /\ to \in ConnRow /\ to.held = {} /\ to.pc = "open" /\ to.step = 1
            /\ to.op = "claim_publication" /\ ~to.claims
        <5>1. Idle \in ConnRow /\ ~Idle.claims
          BY MaxAttemptsAssumption DEF Idle, ConnRow
        <5>2. "claim_publication" \in Transactions /\ record.attempt \in 0..MaxAttempts
          BY <2>1 DEF Transactions, RecordRow
        <5>3. to \in ConnRow
          BY <5>1, <5>2, BeginsJob
        <5>4. /\ to.held = {} /\ to.pc = "open" /\ to.step = 1
              /\ to.op = "claim_publication" /\ ~to.claims
          BY DEF Idle
        <5> QED BY <5>3, <5>4
      <4>2. Goes(c, to) /\ UNCHANGED rows
        BY <2>4, <3>2 DEF BeginJob
      <4> HIDE DEF to
      <4> QED BY <2>1, <2>2, <2>4, <4>1, <4>2 DEF Transactions, OfAttempt
    <3> QED BY <2>4, <3>1, <3>2 DEF BeginJob
  <2>5. ASSUME BeginCompletion(c), UNCHANGED raised PROVE RowInv'
    <3> DEFINE op == IF OfAttempt(Op(c)) THEN "complete_attempt" ELSE "complete_publication"
               to == [conn[c] EXCEPT !.pc = "open", !.op = op, !.step = 1, !.held = {}]
    <3>1. /\ Goes(c, to) /\ UNCHANGED rows /\ Settles(op) /\ op \in Transactions
          /\ OfAttempt(op) <=> OfAttempt(Op(c))
      BY <2>5 DEF BeginCompletion, Starts, Settles, Worker, Claims, Transactions, OfAttempt
    <3> HIDE DEF op
    <3>2. /\ to \in ConnRow /\ to.held = {} /\ to.pc = "open" /\ to.step = 1 /\ to.op = op
          /\ to.n = conn[c].n /\ to.claims = conn[c].claims
      <4>1. to \in ConnRow
        BY <2>1, <3>1, Begins
      <4>2. /\ to.held = {} /\ to.pc = "open" /\ to.step = 1 /\ to.op = op
            /\ to.n = conn[c].n /\ to.claims = conn[c].claims
        BY <2>1 DEF ConnRow
      <4> QED BY <4>1, <4>2
    <3> HIDE DEF to
    <3> QED BY <2>1, <2>2, <2>5, <3>1, <3>2 DEF Place, Settles
  <2>6. ASSUME BeginFailure(c), UNCHANGED raised PROVE RowInv'
    <3> DEFINE op == IF OfAttempt(Op(c)) THEN "fail_attempt" ELSE "fail_publication"
               to == [conn[c] EXCEPT !.pc = "open", !.op = op, !.step = 1, !.held = {}]
    <3>1. /\ Goes(c, to) /\ UNCHANGED rows /\ Settles(op) /\ op \in Transactions
          /\ OfAttempt(op) <=> OfAttempt(Op(c))
      BY <2>6 DEF BeginFailure, Starts, Settles, Worker, Claims, Transactions, OfAttempt
    <3> HIDE DEF op
    <3>2. /\ to \in ConnRow /\ to.held = {} /\ to.pc = "open" /\ to.step = 1 /\ to.op = op
          /\ to.n = conn[c].n /\ to.claims = conn[c].claims
      <4>1. to \in ConnRow
        BY <2>1, <3>1, Begins
      <4>2. /\ to.held = {} /\ to.pc = "open" /\ to.step = 1 /\ to.op = op
            /\ to.n = conn[c].n /\ to.claims = conn[c].claims
        BY <2>1 DEF ConnRow
      <4> QED BY <4>1, <4>2
    <3> HIDE DEF to
    <3> QED BY <2>1, <2>2, <2>6, <3>1, <3>2 DEF Place, Settles
  <2>7. ASSUME Statement(c), UNCHANGED raised PROVE RowInv'
    BY <2>7, StatementKeeps
  <2>8. ASSUME Commit(c), UNCHANGED raised PROVE RowInv'
    <3>1. CanCommit(c) /\ Writes(c) /\ raised' \subseteq Transactions
      BY <2>1, <2>8 DEF Commit
    <3>2. CASE Claims(Op(c))
      <4>1. Goes(c, Claimed(c)) /\ Op(c) \in Worker
        BY <2>8, <3>2 DEF Commit, Worker, Claims
      <4>2. [Claimed(c) EXCEPT !.pc = "working"] = Claimed(c)
        BY <2>1 DEF Claimed, ConnRow
      <4> QED BY <3>1, <3>2, <4>1, <4>2, CommitKeeps
    <3>3. CASE ~Claims(Op(c))
      BY <2>8, <3>1, <3>3, CommitKeeps DEF Commit
    <3> QED BY <3>2, <3>3
  <2>9. ASSUME GiveUp(c), UNCHANGED raised PROVE RowInv'
    BY <2>1, <2>9, MovesToIdle DEF GiveUp
  <2>10. ASSUME WorkRaises(c), UNCHANGED raised PROVE RowInv'
    <3> DEFINE to == [conn[c] EXCEPT !.pc = "failing", !.held = {}]
    <3>1. Goes(c, to) /\ UNCHANGED rows /\ Is(c, "working")
      BY <2>10 DEF WorkRaises, Fails
    <3>2. /\ to \in ConnRow /\ to.held = {} /\ to.pc = "failing" /\ to.op = Op(c)
          /\ to.n = conn[c].n
      BY <2>1 DEF ConnRow, Op
    <3> HIDE DEF to
    <3> QED BY <2>1, <2>2, <2>10, <3>1, <3>2 DEF Place, Claims, Worker, Transactions
  <2>11. ASSUME Dies(c), UNCHANGED raised PROVE RowInv'
    BY <2>1, <2>11, MovesToIdle DEF Dies
  <2>12. ASSUME AnswerIsLost(c) PROVE RowInv'
    <3>1. /\ CanCommit(c) /\ Writes(c) /\ Op(c) \in Worker
          /\ Goes(c, [Claimed(c) EXCEPT !.pc = "failing"])
          /\ raised' \subseteq Transactions
      BY <2>1, <2>12 DEF AnswerIsLost, Worker, Transactions
    <3> QED BY <3>1, CommitKeeps
  <2>13. ASSUME ClaimRaises(c) PROVE RowInv'
    <3> DEFINE to == [conn[c] EXCEPT !.pc = "failing", !.held = {}]
    <3>1. /\ Goes(c, to) /\ UNCHANGED rows /\ Is(c, "open") /\ Claims(Op(c))
          /\ Op(c) \in Worker /\ Op(c) \in Transactions
          /\ raised' \subseteq Transactions
      BY <2>1, <2>13 DEF ClaimRaises, Fails, Worker, Transactions, Claims
    <3>2. /\ to \in ConnRow /\ to.held = {} /\ to.pc = "failing" /\ to.op = Op(c)
          /\ to.n = conn[c].n
      BY <2>1 DEF ConnRow, Op
    <3> HIDE DEF to
    <3> QED BY <2>1, <2>2, <3>1, <3>2 DEF Place
  <2> QED
    BY <1>2, <2>3, <2>4, <2>5, <2>6, <2>7, <2>8, <2>9, <2>10, <2>11, <2>12, <2>13 DEF Step
<1> QED BY <1>1, <1>2 DEF Next

\* In every state the connections hold the rows their statements have found, and
\* what those statements have asked of them is still so; the migration, its
\* attempts and its record are in step (the transactions of the three stores).
THEOREM RowsAreHeld == Spec => []RowInv
BY InitKeeps, StepKeeps, PTL DEF Spec

\* Every variable has its type, and no two connections hold the same row: what
\* FOR UPDATE in _lock_migration, _lock_attempt and the workers' statements is for.
THEOREM RowTypes == Spec => []TypeOK
<1>1. RowInv => TypeOK
  BY DEF RowInv
<1> QED BY <1>1, RowsAreHeld, PTL

\* What a transaction has read and checked still holds when it commits, so that
\* MigrationLifecycle may take it as one action.
THEOREM ChecksStillHold == Spec => []ChecksHold
<1>1. ASSUME RowInv PROVE ChecksHold
  <2>1. ASSUME NEW c \in Connections, CanCommit(c), NEW i \in DOMAIN Statements(Op(c))
        PROVE  StillHolds(c, Statements(Op(c))[i])
    <3>1. Is(c, "open") /\ conn[c].step \in 1..4 /\ Op(c) \in Transactions
      BY <1>1, <2>1, Behind DEF CanCommit
    <3>2. Statements(Op(c))[i] \in Passed(c)
      <4> DEFINE n == Len(Statements(Op(c)))
      <4>1. i \in 1..n /\ conn[c].step > n
        <5>1. DOMAIN Statements(Op(c)) = 1..n /\ n \in {1, 2, 3}
          BY <3>1, StatementsAre, StatementCount DEF Transactions, Operations
        <5> DEFINE m == n
        <5>2. ~(conn[c].step <= n)
          BY <2>1 DEF CanCommit, Running
        <5> HIDE DEF n
        <5> QED BY <2>1, <3>1, <5>1, <5>2
      <4>2. n \in {1, 2, 3}
        BY <3>1, StatementCount
      <4> HIDE DEF n
      <4>3. i \in 1..(conn[c].step - 1)
        BY <3>1, <4>1, <4>2
      <4> QED BY <4>3 DEF Passed
    <3> QED BY <1>1, <3>1, <3>2, Behind DEF StillHolds
  <2> QED BY <2>1 DEF ChecksHold
<1> QED BY <1>1, RowsAreHeld, PTL

-----------------------------------------------------------------------------
(* Who may end a claim *)

\* What a commit does to attempts, and by whose claim.
LEMMA AttemptWrites ==
  ASSUME RowInv, NEW c \in Connections, CanCommit(c), Writes(c)
  PROVE  /\ \A n \in Numbers : attempt'[n] # attempt[n] =>
              \/ OfAttempt(Op(c)) /\ conn[c].n = n
              \/ ~OfAttempt(Op(c)) /\ attempt[n].status \in {"absent", "created"}
         /\ Op(c) = "claim_attempt" =>
              /\ attempt[conn[c].n].status = "planning"
              /\ attempt'[conn[c].n].status = "generating"
         /\ OfAttempt(Op(c)) =>
              attempt'[conn[c].n].status \notin {"absent", "created", "planning"}
<1>1. /\ Op(c) \in Transactions /\ Is(c, "open") /\ Place(c)
      /\ attempt \in [Numbers -> AttemptRow] /\ migration \in MigrationRow
  BY Typed, Behind DEF CanCommit, RowInv
<1>2. /\ Latest \in 0..MaxAttempts
      /\ \A n \in Numbers : attempt[n] = NoAttempt <=> n > Latest
  BY LatestIsLast
<1>3. Op(c) = "claim_attempt" => attempt[conn[c].n].status = "planning"
  <2>1. ASSUME Op(c) = "claim_attempt"
        PROVE  attempt[conn[c].n].status = "planning"
    <3>1. migration = [status |-> "planning", current |-> conn[c].n] /\ conn[c].n \in Numbers
      BY <1>1, <2>1, WorkerCommits DEF Worker, Place, OfAttempt
    <3> QED BY <3>1 DEF RowInv, InStep
  <2> QED BY <2>1
<1>4. OfAttempt(Op(c)) => conn[c].n \in Numbers /\ Of(c) = conn[c].n
  BY <1>1 DEF Place, Of, OfAttempt
<1>5. CASE Op(c) = "generate"
  <2>1. PICK n \in Numbers :
          /\ IF migration.current # 0 /\ attempt[migration.current].status = "created"
             THEN n = migration.current ELSE n = Latest + 1
          /\ attempt' = [attempt EXCEPT ![n] = Status("planning")]
    BY <1>5 DEF Writes, Decisions, AttemptIs
  <2>2. attempt[n].status \in {"absent", "created"}
    BY <1>2, <2>1 DEF NoAttempt, Numbers
  <2> QED BY <1>1, <1>5, <2>1, <2>2 DEF OfAttempt
<1>6. CASE Op(c) = "revise"
  <2>1. Latest + 1 \in Numbers /\ attempt' = [attempt EXCEPT ![Latest + 1] = Status("created")]
    BY <1>6 DEF Writes, Decisions, AttemptIs
  <2>2. attempt[Latest + 1].status = "absent"
    BY <1>2, <2>1 DEF NoAttempt, Numbers
  <2> QED BY <1>1, <1>6, <2>1, <2>2 DEF OfAttempt
<1>7. CASE OfAttempt(Op(c))
  <2>1. \E value : /\ attempt' = [attempt EXCEPT ![conn[c].n] = value]
                   /\ value.status \in {"generating", "completed", "failed"}
                   /\ Op(c) = "claim_attempt" => value.status = "generating"
    <3>1. CASE Op(c) = "claim_attempt"
      <4>1. attempt' = [attempt EXCEPT ![conn[c].n] = Status("generating")]
        BY <1>4, <1>7, <3>1 DEF Writes, Decisions, AttemptIs
      <4>2. Status("generating").status = "generating"
        BY DEF Status
      <4> QED BY <4>1, <4>2
    <3>2. CASE Op(c) = "complete_attempt"
      <4>1. PICK to \in {"ready", "needs_revision", "blocked"} :
              attempt' = [attempt EXCEPT ![conn[c].n] =
                            [status |-> "completed", approved |-> to = "ready"]]
        BY <1>4, <1>7, <3>2 DEF Writes, Decisions, AttemptIs
      <4>2. [status |-> "completed", approved |-> to = "ready"].status = "completed"
        OBVIOUS
      <4> QED BY <3>2, <4>1, <4>2
    <3>3. CASE Op(c) = "fail_attempt"
      <4>1. attempt' = [attempt EXCEPT ![conn[c].n] = Status("failed")]
        BY <1>4, <1>7, <3>3 DEF Writes, Decisions, AttemptIs
      <4>2. Status("failed").status = "failed"
        BY DEF Status
      <4> QED BY <3>3, <4>1, <4>2
    <3> QED BY <1>7, <3>1, <3>2, <3>3 DEF OfAttempt
  <2> QED BY <1>1, <1>3, <1>4, <1>7, <2>1
<1>8. CASE Op(c) \notin {"generate", "revise"} /\ ~OfAttempt(Op(c))
  <2>1. attempt' = attempt
    BY <1>8 DEF Writes, OfAttempt
  <2> QED BY <1>8, <2>1 DEF OfAttempt
<1> QED BY <1>5, <1>6, <1>7, <1>8

\* What it does to the record.
LEMMA RecordWrites ==
  ASSUME RowInv, NEW c \in Connections, CanCommit(c), Writes(c)
  PROVE  /\ record' # record =>
              Op(c) \in {"publish", "claim_publication", "complete_publication",
                         "fail_publication"}
         /\ Op(c) = "publish" => record.status # "publishing"
         /\ Op(c) = "claim_publication" =>
              /\ record.status = "queued" /\ record'.status = "publishing"
              /\ record'.attempt = record.attempt
<1>1. Op(c) \in Transactions /\ Is(c, "open") /\ record \in RecordRow /\ migration \in MigrationRow
  BY Typed, Behind DEF CanCommit
<1>2. record' # record =>
        Op(c) \in {"publish", "claim_publication", "complete_publication", "fail_publication"}
  BY DEF Writes
<1>3. ASSUME Op(c) = "publish" PROVE record.status # "publishing"
  <2>1. migration.status \in {"ready", "blocked"}
    BY <1>1, <1>3, RequestCommits, TablesSay DEF Operations, MigrationRow
  <2> QED BY <2>1 DEF RowInv, InStep
<1>4. ASSUME Op(c) = "claim_publication"
      PROVE  /\ record.status = "queued" /\ record'.status = "publishing"
             /\ record'.attempt = record.attempt
  <2>1. record' = [record EXCEPT !.status = "publishing"]
    BY <1>4 DEF Writes, Decisions
  <2>2. conn[c].step > 1
    <3>1. Len(Statements(Op(c))) = 1 /\ conn[c].step \in 1..4
      BY <1>1, <1>4, StatementCount, Behind
    <3> QED BY <3>1 DEF CanCommit, Running
  <2>3. record.status = "queued"
    BY <1>1, <1>4, <2>2, WorkerKnows DEF Worker
  <2> QED BY <1>1, <2>1, <2>3 DEF RecordRow
<1> QED BY <1>2, <1>3, <1>4

\* What becomes of the claim of the connection that moves: it has none, it keeps
\* the one it has, it gives it up or it gets one.
Unclaimed(c) ==
  /\ UNCHANGED rows /\ ~conn'[c].claims
  /\ conn'[c].pc = "idle" \/ (conn'[c].pc = "open" /\ ~Settles(conn'[c].op))

Kept(c) ==
  /\ UNCHANGED rows /\ conn'[c].claims = conn[c].claims /\ conn'[c].n = conn[c].n
  /\ OfAttempt(conn'[c].op) <=> OfAttempt(conn[c].op)
  /\ \/ conn'[c].pc = "open" /\ conn[c].pc = "open" /\ conn'[c].op = conn[c].op
     \/ conn'[c].pc = "open" /\ conn[c].pc = "working"
     \/ /\ conn'[c].pc = "open" /\ conn[c].pc = "failing"
        /\ conn'[c].op \in {"fail_attempt", "fail_publication"}
     \/ conn'[c].pc = "failing" /\ conn[c].pc = "working"
     \/ conn'[c].pc = "failing" /\ conn[c].pc = "open" /\ Settles(Op(c))
     \/ /\ conn'[c].pc = "failing" /\ conn[c].pc = "open" /\ Claims(Op(c))
        /\ Op(c) \in raised'

Given(c) ==
  /\ CanCommit(c) /\ Writes(c) /\ conn'[c] = Idle /\ ~Claims(Op(c))

Got(c) ==
  /\ CanCommit(c) /\ Writes(c) /\ conn'[c].claims /\ conn'[c].op = Op(c)
  /\ conn'[c].n = IF Op(c) = "claim_publication" THEN record.attempt ELSE conn[c].n
  /\ Op(c) \in {"claim_attempt", "complete_attempt", "claim_publication", "complete_publication"}
  /\ \/ conn'[c].pc = "working" /\ Claims(Op(c))
     \/ /\ conn'[c].pc = "failing"
        /\ Op(c) = "complete_publication" => Op(c) \in raised'

LEMMA ClaimsMove ==
  ASSUME RowInv, NEW c \in Connections, Step(c)
  PROVE  /\ \A d \in Connections \ {c} : conn'[d] = conn[d]
         /\ raised \subseteq raised'
         /\ Unclaimed(c) \/ Kept(c) \/ Given(c) \/ Got(c)
<1>1. /\ conn \in [Connections -> ConnRow] /\ conn[c] \in ConnRow /\ Place(c)
      /\ raised \subseteq Transactions /\ record \in RecordRow
  BY Typed DEF RowInv, TypeOK, ConnRow
<1>2. ASSUME NEW to, Goes(c, to)
      PROVE  conn'[c] = to /\ \A d \in Connections \ {c} : conn'[d] = conn[d]
  BY <1>1, <1>2 DEF Goes
<1>3. ASSUME Goes(c, Idle), UNCHANGED rows, UNCHANGED raised
      PROVE  Unclaimed(c) /\ \A d \in Connections \ {c} : conn'[d] = conn[d]
  <2>1. conn'[c] = Idle /\ \A d \in Connections \ {c} : conn'[d] = conn[d]
    BY <1>2, <1>3
  <2> QED BY <1>3, <2>1 DEF Unclaimed, Idle
<1>4. ASSUME Fails(c)
      PROVE  /\ conn'[c].pc = "failing" /\ conn'[c].op = Op(c)
             /\ conn'[c].n = conn[c].n /\ conn'[c].claims = conn[c].claims
             /\ \A d \in Connections \ {c} : conn'[d] = conn[d]
  <2>1. /\ conn'[c] = [conn[c] EXCEPT !.pc = "failing", !.held = {}]
        /\ \A d \in Connections \ {c} : conn'[d] = conn[d]
    BY <1>2, <1>4 DEF Fails
  <2> QED BY <1>1, <2>1 DEF ConnRow, Op
<1>5. ASSUME NEW op, Starts(c, op)
      PROVE  /\ conn'[c].pc = "open" /\ conn'[c].op = op
             /\ conn'[c].n = conn[c].n /\ conn'[c].claims = conn[c].claims
             /\ \A d \in Connections \ {c} : conn'[d] = conn[d]
  <2>1. /\ conn'[c] = [conn[c] EXCEPT !.pc = "open", !.op = op, !.step = 1, !.held = {}]
        /\ \A d \in Connections \ {c} : conn'[d] = conn[d]
    BY <1>2, <1>5 DEF Starts
  <2> QED BY <1>1, <2>1 DEF ConnRow
<1>6. ASSUME NEW pc \in {"working", "failing"}, CanCommit(c),
             Goes(c, [Claimed(c) EXCEPT !.pc = pc])
      PROVE  /\ conn'[c].pc = pc /\ conn'[c].op = Op(c) /\ conn'[c].claims
             /\ conn'[c].n = IF Op(c) = "claim_publication" THEN record.attempt ELSE conn[c].n
             /\ \A d \in Connections \ {c} : conn'[d] = conn[d]
  <2>1. /\ conn'[c] = [Claimed(c) EXCEPT !.pc = pc]
        /\ \A d \in Connections \ {c} : conn'[d] = conn[d]
    BY <1>2, <1>6
  <2> QED BY <1>1, <2>1 DEF ConnRow, Claimed, Op
<1>7. ASSUME NEW op \in Operations, BeginRequest(c, op), UNCHANGED raised
      PROVE  Unclaimed(c) /\ \A d \in Connections \ {c} : conn'[d] = conn[d]
  <2>1. conn[c] = Idle /\ Starts(c, op) /\ UNCHANGED rows
    BY <1>1, <1>7 DEF BeginRequest, Place
  <2>2. ~Settles(op)
    BY DEF Settles, Worker, Operations, Decisions
  <2>3. /\ conn'[c].pc = "open" /\ conn'[c].op = op /\ ~conn'[c].claims
        /\ \A d \in Connections \ {c} : conn'[d] = conn[d]
    <3>1. conn[c].claims = FALSE
      BY <2>1 DEF Idle
    <3> QED BY <1>5, <2>1, <3>1
  <2> QED BY <2>1, <2>2, <2>3 DEF Unclaimed
<1>8. ASSUME BeginJob(c), UNCHANGED raised
      PROVE  Unclaimed(c) /\ \A d \in Connections \ {c} : conn'[d] = conn[d]
  <2>1. ASSUME NEW n, NEW op \in {"claim_attempt", "claim_publication"},
               Goes(c, [Idle EXCEPT !.pc = "open", !.op = op, !.n = n])
        PROVE  Unclaimed(c) /\ \A d \in Connections \ {c} : conn'[d] = conn[d]
    <3>1. /\ conn'[c] = [Idle EXCEPT !.pc = "open", !.op = op, !.n = n]
          /\ \A d \in Connections \ {c} : conn'[d] = conn[d]
      BY <1>2, <2>1
    <3>2. conn'[c].pc = "open" /\ conn'[c].op = op /\ ~conn'[c].claims
      BY <3>1 DEF Idle
    <3> QED BY <1>8, <3>1, <3>2 DEF Unclaimed, BeginJob, Settles, Claims
  <2>2. CASE \E n \in Numbers :
               Goes(c, [Idle EXCEPT !.pc = "open", !.op = "claim_attempt", !.n = n])
    <3>1. PICK n \in Numbers :
            Goes(c, [Idle EXCEPT !.pc = "open", !.op = "claim_attempt", !.n = n])
      BY <2>2
    <3> DEFINE op == "claim_attempt"
    <3>2. op \in {"claim_attempt", "claim_publication"}
      OBVIOUS
    <3>3. Goes(c, [Idle EXCEPT !.pc = "open", !.op = op, !.n = n])
      BY <3>1
    <3> HIDE DEF op
    <3> QED BY <2>1, <3>2, <3>3
  <2>3. CASE Goes(c, [Idle EXCEPT !.pc = "open", !.op = "claim_publication",
                                  !.n = record.attempt])
    <3> DEFINE op == "claim_publication"
    <3>1. op \in {"claim_attempt", "claim_publication"}
      OBVIOUS
    <3>2. Goes(c, [Idle EXCEPT !.pc = "open", !.op = op, !.n = record.attempt])
      BY <2>3
    <3> HIDE DEF op
    <3> QED BY <2>1, <3>1, <3>2
  <2> QED BY <1>8, <2>2, <2>3 DEF BeginJob
<1>9. ASSUME BeginCompletion(c), UNCHANGED raised
      PROVE  Kept(c) /\ \A d \in Connections \ {c} : conn'[d] = conn[d]
  BY <1>1, <1>5, <1>9 DEF BeginCompletion, Kept, OfAttempt, Is, Op
<1>10. ASSUME BeginFailure(c), UNCHANGED raised
       PROVE  Kept(c) /\ \A d \in Connections \ {c} : conn'[d] = conn[d]
  BY <1>1, <1>5, <1>10 DEF BeginFailure, Kept, OfAttempt, Is, Op
<1>11. ASSUME Statement(c), UNCHANGED raised
       PROVE  /\ Unclaimed(c) \/ Kept(c)
              /\ \A d \in Connections \ {c} : conn'[d] = conn[d]
  <2>1. Running(c) /\ Is(c, "open") /\ UNCHANGED rows
    BY <1>11, StatementGoes DEF Running
  <2>2. CASE Goes(c, [conn[c] EXCEPT !.step = @ + 1, !.held = @ \cup Wanted(c)])
    <3>1. /\ conn'[c].pc = "open" /\ conn'[c].op = conn[c].op /\ conn'[c].n = conn[c].n
          /\ conn'[c].claims = conn[c].claims
          /\ \A d \in Connections \ {c} : conn'[d] = conn[d]
      <4> DEFINE to == [conn[c] EXCEPT !.step = @ + 1, !.held = @ \cup Wanted(c)]
      <4>1. /\ to.pc = conn[c].pc /\ to.op = conn[c].op /\ to.n = conn[c].n
            /\ to.claims = conn[c].claims
        BY <1>1 DEF ConnRow
      <4>2. conn'[c] = to /\ \A d \in Connections \ {c} : conn'[d] = conn[d]
        BY <1>2, <2>2
      <4> HIDE DEF to
      <4> QED BY <2>1, <4>1, <4>2 DEF Is
    <3> QED BY <2>1, <3>1 DEF Kept, Is
  <2>3. CASE /\ Op(c) \in {"claim_attempt", "complete_attempt", "complete_publication"}
             /\ Op(c) = "claim_attempt" => Table(c) = "migration" /\ ~Finds(c, "migration")
             /\ Fails(c)
    <3>1. Op(c) # "claim_attempt"
      <4>1. ASSUME Op(c) = "claim_attempt" PROVE FALSE
        <5>1. conn[c].step \in 1..4 /\ Op(c) \in Transactions
          BY <2>1, Behind
        <5>2. conn[c].step > 1
          BY <2>1, <2>3, <4>1, <5>1, TableIs DEF OfAttempt
        <5>3. attempt[conn[c].n].status = "planning" /\ Of(c) = conn[c].n
          BY <2>1, <4>1, <5>2, WorkerKnows DEF Worker, Of
        <5>4. migration = [status |-> "planning", current |-> Of(c)]
          BY <1>1, <4>1, <5>3 DEF Place, OfAttempt, RowInv, InStep
        <5>5. Finds(c, "migration")
          BY <4>1, <5>4 DEF Finds
        <5> QED BY <2>3, <4>1, <5>5
      <4> QED BY <4>1
    <3>2. Settles(Op(c))
      BY <2>3, <3>1 DEF Settles, Worker, Claims
    <3> QED BY <1>4, <2>1, <2>3, <3>2 DEF Kept, Is, Op
  <2>4. CASE Goes(c, Idle)
    BY <1>3, <1>11, <2>1, <2>4
  <2> QED BY <1>11, <2>2, <2>3, <2>4, StatementGoes
<1>12. ASSUME Commit(c), UNCHANGED raised
       PROVE  /\ Given(c) \/ Got(c)
              /\ \A d \in Connections \ {c} : conn'[d] = conn[d]
  <2>1. CanCommit(c) /\ Writes(c)
    BY <1>12 DEF Commit
  <2>2. CASE Claims(Op(c))
    <3>1. Goes(c, Claimed(c))
      BY <1>12, <2>2 DEF Commit
    <3>2. [Claimed(c) EXCEPT !.pc = "working"] = Claimed(c)
      BY <1>1 DEF Claimed, ConnRow
    <3>3. /\ conn'[c].pc = "working" /\ conn'[c].op = Op(c) /\ conn'[c].claims
          /\ conn'[c].n = IF Op(c) = "claim_publication" THEN record.attempt ELSE conn[c].n
          /\ \A d \in Connections \ {c} : conn'[d] = conn[d]
      BY <1>6, <2>1, <3>1, <3>2
    <3> QED BY <2>1, <2>2, <3>3 DEF Got, Claims
  <2>3. CASE ~Claims(Op(c))
    <3>1. Goes(c, Idle)
      BY <1>12, <2>3 DEF Commit
    <3> QED BY <1>2, <2>1, <2>3, <3>1 DEF Given
  <2> QED BY <2>2, <2>3
<1>13. ASSUME GiveUp(c), UNCHANGED raised
       PROVE  Unclaimed(c) /\ \A d \in Connections \ {c} : conn'[d] = conn[d]
  BY <1>3, <1>13 DEF GiveUp
<1>14. ASSUME WorkRaises(c), UNCHANGED raised
       PROVE  Kept(c) /\ \A d \in Connections \ {c} : conn'[d] = conn[d]
  BY <1>4, <1>14 DEF WorkRaises, Kept, Is, Op
<1>15. ASSUME Dies(c), UNCHANGED raised
       PROVE  Unclaimed(c) /\ \A d \in Connections \ {c} : conn'[d] = conn[d]
  BY <1>3, <1>15 DEF Dies
<1>16. ASSUME AnswerIsLost(c)
       PROVE  /\ Got(c) /\ raised \subseteq raised'
              /\ \A d \in Connections \ {c} : conn'[d] = conn[d]
  <2>1. /\ CanCommit(c) /\ Writes(c) /\ Goes(c, [Claimed(c) EXCEPT !.pc = "failing"])
        /\ Op(c) \in {"claim_attempt", "complete_attempt", "claim_publication",
                      "complete_publication"}
        /\ raised' = raised \cup ({Op(c)} \cap {"complete_publication"})
    BY <1>16 DEF AnswerIsLost
  <2>2. /\ conn'[c].pc = "failing" /\ conn'[c].op = Op(c) /\ conn'[c].claims
        /\ conn'[c].n = IF Op(c) = "claim_publication" THEN record.attempt ELSE conn[c].n
        /\ \A d \in Connections \ {c} : conn'[d] = conn[d]
    BY <1>6, <2>1
  <2> QED BY <2>1, <2>2 DEF Got
<1>17. ASSUME ClaimRaises(c)
       PROVE  /\ Kept(c) /\ raised \subseteq raised'
              /\ \A d \in Connections \ {c} : conn'[d] = conn[d]
  BY <1>4, <1>17 DEF ClaimRaises, Kept, Is, Op
<1> QED BY <1>7, <1>8, <1>9, <1>10, <1>11, <1>12, <1>13, <1>14, <1>15, <1>16, <1>17 DEF Step

LEMMA AttemptClaimsStay ==
  ASSUME RowInv, AttemptIsClaimed, NEW c \in Connections, Step(c)
  PROVE  AttemptIsClaimed'
<1>1. /\ \A d \in Connections \ {c} : conn'[d] = conn[d]
      /\ raised \subseteq raised'
      /\ Unclaimed(c) \/ Kept(c) \/ Given(c) \/ Got(c)
  BY ClaimsMove
<1>2. CASE "claim_attempt" \in raised'
  BY <1>2 DEF AttemptIsClaimed
<1>3. CASE "claim_attempt" \notin raised'
  <2>1. /\ \A d \in Connections : AttemptInHand(d)
        /\ \A d, e \in Connections :
             ClaimsAttempt(d) /\ ClaimsAttempt(e) /\ conn[d].n = conn[e].n => d = e
    BY <1>1, <1>3 DEF AttemptIsClaimed
  <2>2. \A d \in Connections : Place(d)
    BY DEF RowInv
  <2>3. Unclaimed(c) => ~ClaimsAttempt(c)' /\ ~Settling(c)'
    BY DEF Unclaimed, ClaimsAttempt, Settling, Is, Op
  <2>4. Given(c) => ~ClaimsAttempt(c)' /\ ~Settling(c)'
    BY DEF Given, ClaimsAttempt, Settling, Is, Op, Idle
  \* A commit of another's attempt is by its claimant.
  <2>5. ASSUME NEW d \in Connections \ {c}, ClaimsAttempt(d)
        PROVE  /\ attempt'[conn[d].n] = attempt[conn[d].n]
               /\ Got(c) /\ OfAttempt(Op(c)) => conn[c].n # conn[d].n
    <3>1. conn[d].n \in Numbers /\ attempt[conn[d].n].status \notin {"absent", "created", "planning"}
      BY <2>1, <2>2, <2>5 DEF Place, ClaimsAttempt, AttemptInHand
    <3>2. ASSUME CanCommit(c), Writes(c)
          PROVE  /\ attempt'[conn[d].n] = attempt[conn[d].n]
                 /\ OfAttempt(Op(c)) => conn[c].n # conn[d].n
      <4>1. OfAttempt(Op(c)) => conn[c].n # conn[d].n
        <5>1. CASE Op(c) = "claim_attempt"
          BY <3>1, <3>2, <5>1, AttemptWrites
        <5>2. CASE OfAttempt(Op(c)) /\ Op(c) # "claim_attempt"
          <6>1. Settling(c)
            BY <3>2, <5>2 DEF Settling, Settles, Claims, Worker, OfAttempt, CanCommit
          <6>2. ClaimsAttempt(c)
            BY <2>1, <5>2, <6>1 DEF AttemptInHand, ClaimsAttempt
          <6> QED BY <2>1, <2>5, <6>2
        <5> QED BY <5>1, <5>2
      <4> QED BY <3>1, <3>2, <4>1, AttemptWrites
    <3>3. UNCHANGED rows => attempt' = attempt
      BY DEF rows
    <3> QED BY <1>1, <3>2, <3>3 DEF Unclaimed, Kept, Given, Got
  <2>6. ASSUME NEW d \in Connections \ {c} PROVE AttemptInHand(d)'
    <3>1. conn'[d] = conn[d] /\ AttemptInHand(d)
      BY <1>1, <2>1
    <3>2. ClaimsAttempt(d) => attempt'[conn[d].n] = attempt[conn[d].n]
      BY <2>5
    <3> QED BY <3>1, <3>2 DEF AttemptInHand, ClaimsAttempt, Settling, Is, Op
  <2>7. AttemptInHand(c)'
    <3>1. CASE Unclaimed(c) \/ Given(c)
      BY <2>3, <2>4, <3>1 DEF AttemptInHand
    <3>2. CASE Kept(c)
      <4>1. attempt' = attempt /\ AttemptInHand(c) /\ Place(c)
        BY <2>1, <2>2, <3>2 DEF Kept, rows
      <4>2. ClaimsAttempt(c)' <=> ClaimsAttempt(c)
        BY <3>2 DEF Kept, ClaimsAttempt, Op
      <4>3. ClaimsAttempt(c) => attempt[conn[c].n].status \notin {"absent", "created", "planning"}
        BY <4>1 DEF AttemptInHand
      <4>4. Settling(c)' /\ OfAttempt(Op(c))' => conn'[c].claims
        <5>1. SUFFICES ASSUME Settling(c)', OfAttempt(Op(c))' PROVE conn[c].claims
          BY <3>2 DEF Kept
        <5>2. OfAttempt(Op(c))
          BY <3>2, <5>1 DEF Kept, Op
        <5>3. CASE Settling(c)
          BY <4>1, <5>2, <5>3 DEF AttemptInHand
        <5>4. CASE conn[c].pc = "working"
          BY <4>1, <5>4 DEF Place, Is
        <5>5. ~(Claims(Op(c)) /\ Op(c) \in raised')
          BY <1>3, <5>2 DEF Claims, OfAttempt
        <5> QED BY <3>2, <5>1, <5>3, <5>4, <5>5 DEF Kept, Settling, Is, Op
      <4>5. ASSUME ClaimsAttempt(c)', \/ Is(c, "working")'
                                      \/ Is(c, "open")' /\ Op(c)' = "complete_attempt"
            PROVE  attempt[conn[c].n].status = "generating"
        <5>1. \/ conn[c].pc = "working"
              \/ conn[c].pc = "open" /\ Op(c) = "complete_attempt"
          BY <3>2, <4>5 DEF Kept, Is, Op
        <5> QED BY <4>1, <4>2, <4>5, <5>1 DEF AttemptInHand, Is
      <4>6. conn'[c].n = conn[c].n
        BY <3>2 DEF Kept
      <4> QED BY <4>1, <4>2, <4>3, <4>4, <4>5, <4>6 DEF AttemptInHand
    <3>3. CASE Got(c)
      <4>1. CanCommit(c) /\ Writes(c) /\ conn'[c].claims /\ Op(c)' = Op(c)
            /\ (OfAttempt(Op(c)) => conn'[c].n = conn[c].n)
            /\ (Is(c, "working")' => Claims(Op(c))) /\ ~Is(c, "open")'
        BY <3>3 DEF Got, Op, Is, OfAttempt
      <4>2. OfAttempt(Op(c)) =>
              attempt'[conn[c].n].status \notin {"absent", "created", "planning"}
        BY <4>1, AttemptWrites
      <4>3. OfAttempt(Op(c)) /\ Claims(Op(c)) => attempt'[conn[c].n].status = "generating"
        BY <4>1, AttemptWrites DEF OfAttempt, Claims
      <4> QED BY <4>1, <4>2, <4>3 DEF AttemptInHand, ClaimsAttempt
    <3> QED BY <1>1, <3>1, <3>2, <3>3
  <2>8. ASSUME NEW d \in Connections, ClaimsAttempt(c)', ClaimsAttempt(d)',
               conn'[c].n = conn'[d].n, d # c
        PROVE  FALSE
    <3>1. ClaimsAttempt(d) /\ conn'[d].n = conn[d].n
      BY <1>1, <2>8 DEF ClaimsAttempt, Op
    <3>2. CASE Kept(c)
      BY <2>1, <2>8, <3>1, <3>2 DEF Kept, ClaimsAttempt, Op
    <3>3. CASE Got(c)
      BY <2>5, <2>8, <3>1, <3>3 DEF Got, ClaimsAttempt, Op, OfAttempt
    <3> QED BY <1>1, <2>3, <2>4, <2>8, <3>2, <3>3
  <2>9. ASSUME NEW d \in Connections \ {c}, NEW e \in Connections \ {c},
               ClaimsAttempt(d)', ClaimsAttempt(e)', conn'[d].n = conn'[e].n
        PROVE  d = e
    BY <1>1, <2>1, <2>9 DEF ClaimsAttempt, Op
  <2> QED BY <2>6, <2>7, <2>8, <2>9 DEF AttemptIsClaimed
<1> QED BY <1>2, <1>3

LEMMA PublicationClaimsStay ==
  ASSUME RowInv, PublicationIsClaimed, NEW c \in Connections, Step(c)
  PROVE  PublicationIsClaimed'
<1>1. /\ \A d \in Connections \ {c} : conn'[d] = conn[d]
      /\ raised \subseteq raised'
      /\ Unclaimed(c) \/ Kept(c) \/ Given(c) \/ Got(c)
  BY ClaimsMove
<1>2. CASE raised' \cap {"claim_publication", "complete_publication"} # {}
  BY <1>2 DEF PublicationIsClaimed
<1>3. CASE raised' \cap {"claim_publication", "complete_publication"} = {}
  <2>1. /\ \A d \in Connections : PublicationInHand(d)
        /\ \A d, e \in Connections : ClaimsPublication(d) /\ ClaimsPublication(e) => d = e
    BY <1>1, <1>3 DEF PublicationIsClaimed
  <2>2. \A d \in Connections : Place(d)
    BY DEF RowInv
  <2>3. Unclaimed(c) => ~ClaimsPublication(c)' /\ ~Settling(c)'
    BY DEF Unclaimed, ClaimsPublication, Settling, Is, Op
  <2>4. Given(c) => ~ClaimsPublication(c)' /\ ~Settling(c)'
    BY DEF Given, ClaimsPublication, Settling, Is, Op, Idle
  \* A commit that changes another's publication is by its claimant.
  <2>5. ASSUME NEW d \in Connections \ {c}, ClaimsPublication(d)
        PROVE  /\ record' = record
               /\ Got(c) => OfAttempt(Op(c))
    <3>1. record.status = "publishing"
      BY <2>1, <2>5 DEF PublicationInHand
    <3>2. ASSUME CanCommit(c), Writes(c)
          PROVE  Op(c) \notin {"publish", "claim_publication", "complete_publication",
                               "fail_publication"}
      <4>1. Op(c) # "publish" /\ Op(c) # "claim_publication"
        BY <3>1, <3>2, RecordWrites
      <4>2. ASSUME Op(c) \in {"complete_publication", "fail_publication"} PROVE FALSE
        <5>1. Settling(c) /\ ~OfAttempt(Op(c))
          BY <3>2, <4>2 DEF Settling, Settles, Claims, Worker, OfAttempt, CanCommit
        <5>2. ClaimsPublication(c)
          BY <2>1, <5>1 DEF PublicationInHand, ClaimsPublication
        <5> QED BY <2>1, <2>5, <5>2
      <4> QED BY <4>1, <4>2
    <3>3. CanCommit(c) /\ Writes(c) => record' = record
      BY <3>2, RecordWrites
    <3>4. UNCHANGED rows => record' = record
      BY DEF rows
    <3> QED BY <1>1, <3>2, <3>3, <3>4 DEF Unclaimed, Kept, Given, Got, OfAttempt
  <2>6. ASSUME NEW d \in Connections \ {c} PROVE PublicationInHand(d)'
    <3>1. conn'[d] = conn[d] /\ PublicationInHand(d)
      BY <1>1, <2>1
    <3>2. ClaimsPublication(d) => record' = record
      BY <2>5
    <3> QED BY <3>1, <3>2 DEF PublicationInHand, ClaimsPublication, Settling, Is, Op
  <2>7. PublicationInHand(c)'
    <3>1. CASE Unclaimed(c) \/ Given(c)
      BY <2>3, <2>4, <3>1 DEF PublicationInHand
    <3>2. CASE Kept(c)
      <4>1. record' = record /\ PublicationInHand(c) /\ Place(c)
        BY <2>1, <2>2, <3>2 DEF Kept, rows
      <4>2. ClaimsPublication(c)' <=> ClaimsPublication(c)
        BY <3>2 DEF Kept, ClaimsPublication, Op
      <4>3. ClaimsPublication(c) => record.status = "publishing" /\ conn[c].n = record.attempt
        BY <4>1 DEF PublicationInHand
      <4>4. Settling(c)' /\ ~OfAttempt(Op(c))' => conn'[c].claims
        <5>1. SUFFICES ASSUME Settling(c)', ~OfAttempt(Op(c))' PROVE conn[c].claims
          BY <3>2 DEF Kept
        <5>2. ~OfAttempt(Op(c))
          BY <3>2, <5>1 DEF Kept, Op
        <5>3. CASE Settling(c)
          BY <4>1, <5>2, <5>3 DEF PublicationInHand
        <5>4. CASE conn[c].pc = "working"
          BY <4>1, <5>4 DEF Place, Is
        <5>5. ~(Claims(Op(c)) /\ Op(c) \in raised')
          BY <1>3, <5>2 DEF Claims, OfAttempt
        <5> QED BY <3>2, <5>1, <5>3, <5>4, <5>5 DEF Kept, Settling, Is, Op
      <4>5. conn'[c].n = conn[c].n
        BY <3>2 DEF Kept
      <4> QED BY <4>1, <4>2, <4>3, <4>4, <4>5 DEF PublicationInHand
    <3>3. CASE Got(c)
      <4>1. /\ CanCommit(c) /\ Writes(c) /\ conn'[c].claims /\ Op(c)' = Op(c)
            /\ Op(c) = "claim_publication" => conn'[c].n = record.attempt
            /\ Op(c) \in {"claim_attempt", "complete_attempt", "claim_publication"}
        BY <1>3, <3>3 DEF Got, Op, Is, Claims
      <4>2. CASE OfAttempt(Op(c))
        BY <4>1, <4>2 DEF PublicationInHand, ClaimsPublication
      <4>3. CASE Op(c) = "claim_publication"
        <5>1. record'.status = "publishing" /\ record'.attempt = record.attempt
          BY <4>1, <4>3, RecordWrites
        <5> QED BY <4>1, <4>3, <5>1 DEF PublicationInHand
      <4> QED BY <4>1, <4>2, <4>3 DEF OfAttempt
    <3> QED BY <1>1, <3>1, <3>2, <3>3
  <2>8. ASSUME NEW d \in Connections, ClaimsPublication(c)', ClaimsPublication(d)', d # c
        PROVE  FALSE
    <3>1. ClaimsPublication(d)
      BY <1>1, <2>8 DEF ClaimsPublication, Op
    <3>2. CASE Kept(c)
      BY <2>1, <2>8, <3>1, <3>2 DEF Kept, ClaimsPublication, Op
    <3>3. CASE Got(c)
      BY <2>5, <2>8, <3>1, <3>3 DEF Got, ClaimsPublication, Op
    <3> QED BY <1>1, <2>3, <2>4, <2>8, <3>2, <3>3
  <2>9. ASSUME NEW d \in Connections \ {c}, NEW e \in Connections \ {c},
               ClaimsPublication(d)', ClaimsPublication(e)'
        PROVE  d = e
    BY <1>1, <2>1, <2>9 DEF ClaimsPublication, Op
  <2> QED BY <2>6, <2>7, <2>8, <2>9 DEF PublicationIsClaimed
<1> QED BY <1>2, <1>3

ClaimInv == AttemptIsClaimed /\ PublicationIsClaimed

\* Who is past its claim (claim_attempt, claim_publication) has what it claimed,
\* and has it alone: an attempt as long as no claim of an attempt raises, a
\* publication as long as neither a claim nor a completion of one does.
THEOREM ClaimsAreHeld == Spec => []ClaimInv
<1>1. Init => ClaimInv
  BY DEF Init, ClaimInv, AttemptIsClaimed, PublicationIsClaimed, AttemptInHand,
     PublicationInHand, ClaimsAttempt, ClaimsPublication, Settling, Is, Op, Idle
<1>2. RowInv /\ ClaimInv /\ [Next]_vars => ClaimInv'
  <2> SUFFICES ASSUME RowInv, ClaimInv, [Next]_vars PROVE ClaimInv'
    OBVIOUS
  <2>1. CASE UNCHANGED vars
    BY <2>1 DEF vars, ClaimInv, AttemptIsClaimed, PublicationIsClaimed, AttemptInHand,
       PublicationInHand, ClaimsAttempt, ClaimsPublication, Settling, Is, Op
  <2>2. CASE Next
    <3>1. PICK c \in Connections : Step(c)
      BY <2>2 DEF Next
    <3> QED BY <3>1, AttemptClaimsStay, PublicationClaimsStay DEF ClaimInv
  <2> QED BY <2>1, <2>2
<1> QED BY <1>1, <1>2, RowsAreHeld, PTL DEF Spec

\* The two halves of ClaimantsSettle.
AttemptSettled ==
  "claim_attempt" \notin raised =>
    \A n \in Numbers : attempt[n].status = "generating" /\ attempt'[n] # attempt[n] =>
      \E c \in Connections : EndedBy(c, n) /\ OfAttempt(Op(c))

PublicationSettled ==
  raised \cap {"claim_publication", "complete_publication"} = {} =>
    (record.status = "publishing" /\ record' # record =>
       \E c \in Connections : EndedBy(c, record.attempt) /\ ~OfAttempt(Op(c)))

LEMMA ClaimantsEnd ==
  ASSUME RowInv, ClaimInv, Next
  PROVE  AttemptSettled /\ PublicationSettled
<1>1. PICK c \in Connections : Step(c)
  BY DEF Next
<1>2. Unclaimed(c) \/ Kept(c) \/ Given(c) \/ Got(c)
  BY <1>1, ClaimsMove
<1>3. ASSUME attempt' # attempt \/ record' # record
      PROVE  CanCommit(c) /\ Writes(c) /\ conn'[c] # conn[c] /\ Op(c) \in Transactions
  <2>1. Given(c) \/ Got(c)
    BY <1>2, <1>3 DEF Unclaimed, Kept, rows
  <2>2. CanCommit(c) /\ Writes(c) /\ conn'[c].pc \in {"idle", "working", "failing"}
    BY <2>1 DEF Given, Got, Idle
  <2>3. conn[c].pc = "open" /\ Op(c) \in Transactions
    BY <2>2, Behind DEF CanCommit, Is
  <2> QED BY <2>2, <2>3
<1>4. Op(c) \in Transactions => (CanCommit(c) /\ Op(c) \in Worker /\ ~Claims(Op(c)) => Settling(c))
  BY DEF CanCommit, Settling, Settles
<1>5. ASSUME "claim_attempt" \notin raised, NEW n \in Numbers,
             attempt[n].status = "generating", attempt'[n] # attempt[n]
      PROVE  EndedBy(c, n) /\ OfAttempt(Op(c))
  <2>1. CanCommit(c) /\ Writes(c) /\ conn'[c] # conn[c] /\ Op(c) \in Transactions
    BY <1>3, <1>5
  <2>2. OfAttempt(Op(c)) /\ conn[c].n = n /\ Op(c) # "claim_attempt"
    BY <1>5, <2>1, AttemptWrites
  <2>3. Settling(c)
    BY <1>4, <2>1, <2>2 DEF OfAttempt, Worker, Claims
  <2>4. conn[c].claims
    BY <1>5, <2>2, <2>3 DEF ClaimInv, AttemptIsClaimed, AttemptInHand
  <2> QED BY <2>1, <2>2, <2>4 DEF EndedBy
<1>6. ASSUME raised \cap {"claim_publication", "complete_publication"} = {},
             record.status = "publishing", record' # record
      PROVE  EndedBy(c, record.attempt) /\ ~OfAttempt(Op(c))
  <2>1. CanCommit(c) /\ Writes(c) /\ conn'[c] # conn[c] /\ Op(c) \in Transactions
    BY <1>3, <1>6
  <2>2. Op(c) \in {"complete_publication", "fail_publication"}
    BY <1>6, <2>1, RecordWrites
  <2>3. Settling(c) /\ ~OfAttempt(Op(c))
    BY <1>4, <2>1, <2>2 DEF OfAttempt, Worker, Claims
  <2>4. conn[c].claims
    BY <1>6, <2>3 DEF ClaimInv, PublicationIsClaimed, PublicationInHand
  <2>5. conn[c].n = record.attempt
    BY <1>6, <2>3, <2>4 DEF ClaimInv, PublicationIsClaimed, PublicationInHand, ClaimsPublication
  <2> QED BY <2>1, <2>3, <2>4, <2>5 DEF EndedBy
<1> QED BY <1>5, <1>6 DEF AttemptSettled, PublicationSettled

\* A claimed attempt, and a claimed publication, is ended by who has claimed it:
\* the compare-and-set of the workers (domain-model.md:267).
THEOREM ClaimantsEndTheirs == Spec => ClaimantsSettle
<1>1. ASSUME RowInv, ClaimInv, [Next]_vars
      PROVE  [/\ "claim_attempt" \notin raised =>
                   \A n \in Numbers : attempt[n].status = "generating" /\ attempt'[n] # attempt[n] =>
                     \E c \in Connections : EndedBy(c, n) /\ OfAttempt(Op(c))
              /\ raised \cap {"claim_publication", "complete_publication"} = {} =>
                   (record.status = "publishing" /\ record' # record =>
                      \E c \in Connections : EndedBy(c, record.attempt) /\ ~OfAttempt(Op(c)))]_vars
  <2>1. Next => AttemptSettled /\ PublicationSettled
    BY <1>1, ClaimantsEnd
  <2> QED BY <1>1, <2>1 DEF AttemptSettled, PublicationSettled
<1> QED BY <1>1, RowsAreHeld, ClaimsAreHeld, PTL DEF Spec, ClaimantsSettle

-----------------------------------------------------------------------------
(* Nobody waits in a circle *)

\* Who waits while it holds the migration is a request for its second row.
LEMMA MigrationsHolder ==
  ASSUME RowInv, NEW d \in Connections, <<"migration", 0>> \in conn[d].held, Wanted(d) # {}
  PROVE  /\ \/ Op(d) = "generate" /\ Wanted(d) = {<<"attempt", migration.current>>}
            \/ Op(d) = "publish" /\ Wanted(d) = {<<"record", 0>>}
         /\ TargetStatus[Op(d)] \in MigrationTransitions[migration.status]
<1>1. /\ Running(d) /\ Is(d, "open") /\ Locks(Op(d), Table(d)) /\ Finds(d, Table(d))
      /\ Wanted(d) = {Row(d, Table(d))}
  BY DEF Wanted, Running
<1>2. /\ Op(d) \in Transactions /\ conn[d].step \in 1..4
      /\ Passed(d) = PassedBy(Op(d), conn[d].step) /\ HeldIsFound(d)
  BY <1>1, Behind DEF RowInv, Transacts
<1>3. "migration" \in Passed(d)
  BY <1>2 DEF HeldIsFound, Row
<1>4. Op(d) \in Operations /\ conn[d].step > 1
  <2>1. Op(d) \notin Worker
    BY <1>1, <1>2, <1>3, WorkersPass, TableIs DEF Worker, OfAttempt
  <2>2. Op(d) \in Operations
    BY <1>2, <2>1 DEF Transactions, Worker
  <2> QED BY <1>2, <1>3, <2>1, <2>2 DEF PassedBy, OfAttempt, Worker
<1>5. TargetStatus[Op(d)] \in MigrationTransitions[migration.status]
  BY <1>1, <1>4, RequestKnows
<1>6. CASE Op(d) = "generate"
  BY <1>1, <1>2, <1>4, <1>5, <1>6, TableIs DEF Row, Of
<1>7. CASE Op(d) = "publish"
  <2>1. Table(d) = "record"
    BY <1>1, <1>2, <1>4, <1>7, TableIs DEF Locks
  <2> QED BY <1>1, <1>5, <1>7, <2>1 DEF Row
<1>8. CASE Op(d) \in Decisions
  BY <1>1, <1>2, <1>4, <1>8, TableIs
<1> QED BY <1>4, <1>6, <1>7, <1>8 DEF Operations

\* Who waits while it holds an attempt or the record is a worker for the migration.
LEMMA OthersHolder ==
  ASSUME RowInv, NEW e \in Connections, NEW r \in conn[e].held, r # <<"migration", 0>>,
         Wanted(e) # {}
  PROVE  /\ Op(e) \in Worker /\ Is(e, "open") /\ conn[e].step = 2
         /\ Wanted(e) = {<<"migration", 0>>} /\ Finds(e, "migration")
         /\ r = IF OfAttempt(Op(e)) THEN <<"attempt", conn[e].n>> ELSE <<"record", 0>>
<1>1. /\ Running(e) /\ Is(e, "open") /\ Locks(Op(e), Table(e)) /\ Finds(e, Table(e))
      /\ Wanted(e) = {Row(e, Table(e))}
  BY DEF Wanted, Running
<1>2. /\ Op(e) \in Transactions /\ conn[e].step \in 1..4
      /\ Passed(e) = PassedBy(Op(e), conn[e].step) /\ HeldIsFound(e)
  BY <1>1, Behind DEF RowInv, Transacts
<1>3. PICK t \in Passed(e) : r = Row(e, t)
  BY <1>2 DEF HeldIsFound
<1>4. t # "migration"
  BY <1>3 DEF Row
<1>5. Op(e) \in Worker
  <2>1. CASE Op(e) \in Operations
    <3>1. Op(e) # "claim_publication" /\ Op(e) \notin Worker /\ ~OfAttempt(Op(e))
      BY <2>1 DEF Operations, Decisions, Worker, OfAttempt
    <3>2. \/ Op(e) = "generate" /\ conn[e].step > 2
          \/ Op(e) = "publish" /\ t = "evidence"
          \/ Op(e) = "publish" /\ conn[e].step > 3
      BY <1>2, <1>3, <1>4, <3>1 DEF PassedBy, Worker
    <3>3. ~(Op(e) = "generate" /\ conn[e].step > 2) /\ ~(Op(e) = "publish" /\ conn[e].step > 3)
      BY <1>1, <1>2, TableIs
    <3>4. t # "evidence"
      BY <1>2, <1>3 DEF HeldIsFound, Locks
    <3> QED BY <3>2, <3>3, <3>4
  <2> QED BY <1>2, <2>1 DEF Transactions, Worker
<1>6. conn[e].step > 1
  BY <1>2, <1>3, <1>5, WorkersPass
<1>7. conn[e].step = 2 /\ Table(e) = "migration"
  BY <1>1, <1>2, <1>5, <1>6, TableIs DEF Worker, OfAttempt
<1>8. Wanted(e) = {<<"migration", 0>>} /\ Finds(e, "migration")
  BY <1>1, <1>7 DEF Row
<1>9. r = IF OfAttempt(Op(e)) THEN <<"attempt", conn[e].n>> ELSE <<"record", 0>>
  <2>1. OfAttempt(Op(e)) => t = "attempt" /\ Of(e) = conn[e].n
    BY <1>2, <1>3, <1>4, <1>5, WorkersPass DEF Of, OfAttempt
  <2>2. ~OfAttempt(Op(e)) => t = "record"
    BY <1>2, <1>3, <1>4, <1>5, WorkersPass
  <2> QED BY <1>3, <2>1, <2>2 DEF Row
<1> QED BY <1>1, <1>5, <1>7, <1>8, <1>9

\* validate_transition has refused the request whose second row such a worker holds.
LEMMA NoneBehindMigration ==
  ASSUME RowInv, AttemptIsClaimed, "claim_attempt" \notin raised,
         NEW c \in Connections, NEW d \in Connections, NEW e \in Connections,
         <<"migration", 0>> \in conn[c].held, WaitsFor(c, d), WaitsFor(d, e)
  PROVE  FALSE
<1>1. Wanted(c) # {} /\ Wanted(d) # {} /\ migration \in MigrationRow
  BY Typed DEF WaitsFor
<1>2. /\ \/ Op(c) = "generate" /\ Wanted(c) = {<<"attempt", migration.current>>}
         \/ Op(c) = "publish" /\ Wanted(c) = {<<"record", 0>>}
      /\ TargetStatus[Op(c)] \in MigrationTransitions[migration.status]
  BY <1>1, MigrationsHolder
<1>3. PICK r \in Wanted(c) : r \in conn[d].held
  BY DEF WaitsFor
<1>4. /\ Op(d) \in Worker /\ Is(d, "open") /\ conn[d].step = 2 /\ Finds(d, "migration")
      /\ r = IF OfAttempt(Op(d)) THEN <<"attempt", conn[d].n>> ELSE <<"record", 0>>
  <2>1. r # <<"migration", 0>>
    BY <1>2, <1>3
  <2> QED BY <1>1, <1>3, <2>1, OthersHolder
<1>5. CASE Op(c) = "generate"
  <2>1. /\ migration.status \in {"queued", "needs_revision", "blocked", "snoozed", "declined"}
        /\ r = <<"attempt", migration.current>>
    BY <1>1, <1>2, <1>3, <1>5, TablesSay DEF MigrationRow
  <2>2. OfAttempt(Op(d)) /\ conn[d].n = migration.current /\ conn[d].n \in Numbers
    <3>1. OfAttempt(Op(d)) /\ conn[d].n = migration.current
      BY <1>4, <2>1
    <3> QED BY <3>1 DEF RowInv, Place
  <2>3. attempt[conn[d].n].status \notin {"planning", "generating"}
    BY <2>1, <2>2 DEF RowInv, InStep
  <2>4. CASE Op(d) = "claim_attempt"
    BY <1>4, <2>3, <2>4, WorkerKnows
  <2>5. CASE Op(d) = "complete_attempt"
    <3>1. AttemptInHand(d) /\ Settling(d)
      BY <1>4, <2>5 DEF AttemptIsClaimed, Settling, Settles, Claims
    <3> QED BY <1>4, <2>2, <2>3, <2>5, <3>1 DEF AttemptInHand, ClaimsAttempt
  <2>6. CASE Op(d) = "fail_attempt"
    <3>1. "failed" \in AttemptTransitions[attempt[conn[d].n].status]
      BY <1>4, <2>6, WorkerKnows
    <3>2. attempt[conn[d].n].status \in {"created", "completed", "failed"}
      <4>1. attempt[conn[d].n] # NoAttempt /\ attempt[conn[d].n] \in AttemptRow
        BY <2>2, Typed DEF RowInv, Place
      <4>2. /\ attempt[conn[d].n].status \in {"absent", "created", "completed", "failed"}
            /\ attempt[conn[d].n].approved => attempt[conn[d].n].status = "completed"
        BY <2>2, <2>3 DEF RowInv, InStep
      <4>3. attempt[conn[d].n].status # "absent"
        BY <4>1, <4>2 DEF NoAttempt, AttemptRow
      <4> QED BY <4>2, <4>3
    <3> QED BY <3>1, <3>2 DEF AttemptTransitions
  <2> QED BY <2>2, <2>4, <2>5, <2>6 DEF OfAttempt
<1>6. CASE Op(c) = "publish"
  <2>1. migration.status \in {"ready", "blocked"} /\ r = <<"record", 0>>
    BY <1>1, <1>2, <1>3, <1>6, TablesSay DEF MigrationRow
  <2>2. ~OfAttempt(Op(d))
    BY <1>4, <2>1
  <2>3. Op(d) \in {"complete_publication", "fail_publication"}
    <3>1. Running(d) /\ Op(d) \in Transactions /\ conn[d].step \in 1..4
      BY <1>1, <1>4, Behind DEF Wanted
    <3>2. Op(d) # "claim_publication"
      BY <1>4, <3>1, TableIs
    <3> QED BY <1>4, <2>2, <3>2 DEF Worker, OfAttempt
  <2>4. migration.status = "pr_opening"
    BY <1>4, <2>3 DEF Finds
  <2> QED BY <2>1, <2>4
<1> QED BY <1>2, <1>5, <1>6

\* Requests and workers take the rows in opposite orders and yet do not wait for
\* one another in a circle of any length, as long as no claim of an attempt has raised.
THEOREM NobodyWaitsForEver == Spec => []NoDeadlock
<1>1. ASSUME RowInv, AttemptIsClaimed PROVE NoDeadlock
  <2> SUFFICES ASSUME "claim_attempt" \notin raised,
                      NEW some \in (SUBSET Connections) \ {{}},
                      \A c \in some : \E d \in some : WaitsFor(c, d)
               PROVE  FALSE
    BY DEF NoDeadlock
  <2>1. PICK c \in some, d \in some, e \in some, f \in some :
          WaitsFor(c, d) /\ WaitsFor(d, e) /\ WaitsFor(e, f)
    <3>1. PICK c \in some : TRUE
      OBVIOUS
    <3>2. PICK d \in some : WaitsFor(c, d)
      OBVIOUS
    <3>3. PICK e \in some : WaitsFor(d, e)
      OBVIOUS
    <3>4. PICK f \in some : WaitsFor(e, f)
      OBVIOUS
    <3> QED BY <3>2, <3>3, <3>4
  <2>2. c \in Connections /\ d \in Connections /\ e \in Connections /\ f \in Connections
    OBVIOUS
  \* d holds the row that c wants, and waits.
  <2>3. PICK r \in Wanted(c) : r \in conn[d].held
    BY <2>1 DEF WaitsFor
  <2>4. CASE r = <<"migration", 0>>
    BY <1>1, <2>1, <2>2, <2>3, <2>4, NoneBehindMigration
  <2>5. CASE r # <<"migration", 0>>
    <3>1. Wanted(d) = {<<"migration", 0>>}
      <4>1. Wanted(d) # {}
        BY <2>1 DEF WaitsFor
      <4> QED BY <1>1, <2>2, <2>3, <2>5, <4>1, OthersHolder
    <3>2. <<"migration", 0>> \in conn[e].held
      BY <2>1, <3>1 DEF WaitsFor
    <3>3. PICK g \in some : WaitsFor(f, g)
      OBVIOUS
    <3> QED BY <1>1, <2>1, <2>2, <3>2, <3>3, NoneBehindMigration
  <2> QED BY <2>4, <2>5
<1> QED BY <1>1, RowsAreHeld, ClaimsAreHeld, PTL DEF ClaimInv

=============================================================================
