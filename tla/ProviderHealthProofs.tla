------------------------ MODULE ProviderHealthProofs ------------------------
(* Theorems about the ingestion transactions, for any number of sources,     *)
(* connections and events, every combination of faults and both kinds of     *)
(* adapters unless a theorem names one.                                      *)
EXTENDS ProviderHealth, FiniteSetTheorems, SequenceTheorems, WellFoundedInduction, TLAPS

-----------------------------------------------------------------------------
(* What the rows tell *)

Shown == {"absent", "never_synced", "healthy", "degraded", "failing"}

LEMMA RowsAreRecords ==
  ASSUME NEW row \in Rows
  PROVE  row \in [status : Shown, failures : 0..3, success : BOOLEAN]
<1>1. CASE row = Absent
  BY <1>1 DEF Absent, Shown
<1>2. CASE row = NeverSynced
  BY <1>2 DEF NeverSynced, Shown
<1>3. CASE row = Healthy
  BY <1>3 DEF Healthy, Shown
<1>4. CASE row \in [status : {"degraded"}, failures : 1..FailingAt - 1, success : BOOLEAN]
  BY <1>4 DEF Shown, FailingAt
<1>5. CASE row \in [status : {"failing"}, failures : {FailingAt}, success : BOOLEAN]
  BY <1>5 DEF Shown, FailingAt
<1> QED BY <1>1, <1>2, <1>3, <1>4, <1>5 DEF Rows

LEMMA WrittenIsARow ==
  ASSUME NEW op, NEW row \in Rows
  PROVE  /\ Written(op, row) \in Rows
         /\ op = "failure" => Written(op, row).failures = Capped(row.failures + 1)
         /\ op # "failure" => Written(op, row).failures = 0
<1>1. row \in [status : Shown, failures : 0..3, success : BOOLEAN]
  BY RowsAreRecords
<1>2. Absent \in Rows /\ NeverSynced \in Rows /\ Healthy \in Rows
  BY DEF Rows
<1>3. NeverSynced.failures = 0 /\ Healthy.failures = 0
  BY DEF NeverSynced, Healthy, Absent
<1>4. CASE op # "failure"
  BY <1>2, <1>3, <1>4 DEF Written
<1>5. CASE op = "failure"
  <2>1. Failed(row) = [status |-> HealthStatus(row.failures + 1),
                       failures |-> Capped(row.failures + 1), success |-> row.success]
    BY <1>1 DEF Failed
  <2>2. \/ HealthStatus(row.failures + 1) = "degraded" /\ Capped(row.failures + 1) \in 1..2
        \/ HealthStatus(row.failures + 1) = "failing" /\ Capped(row.failures + 1) = 3
    BY <1>1 DEF HealthStatus, Capped, FailingAt
  <2>3. CASE HealthStatus(row.failures + 1) = "degraded" /\ Capped(row.failures + 1) \in 1..2
    <3>1. Failed(row) \in [status : {"degraded"}, failures : 1..2, success : BOOLEAN]
      BY <1>1, <2>1, <2>3
    <3> QED BY <1>5, <2>1, <3>1 DEF Written, Rows, FailingAt
  <2>4. CASE HealthStatus(row.failures + 1) = "failing" /\ Capped(row.failures + 1) = 3
    <3>1. Failed(row) \in [status : {"failing"}, failures : {3}, success : BOOLEAN]
      BY <1>1, <2>1, <2>4
    <3> QED BY <1>5, <2>1, <3>1 DEF Written, Rows, FailingAt
  <2> QED BY <2>2, <2>3, <2>4
<1> QED BY <1>4, <1>5

LEMMA CountsAreNumbers ==
  ASSUME NEW rows
  PROVE  /\ Cardinality(Registered(rows)) \in Numbers
         /\ 0 \in Numbers
         /\ ProviderStatus(rows) \in {"active", "degraded", "disconnected"}
<1>1. Registered(rows) \in SUBSET Sources
  BY DEF Registered
<1>2. /\ IsFiniteSet(Registered(rows)) /\ Cardinality(Registered(rows)) <= Cardinality(Sources)
  BY <1>1, SourcesAssumption, FS_Subset
<1>3. Cardinality(Registered(rows)) \in Nat /\ Cardinality(Sources) \in Nat
  BY <1>2, SourcesAssumption, FS_CardinalityType
<1> QED BY <1>2, <1>3 DEF Numbers, ProviderStatus

-----------------------------------------------------------------------------
(* The inductive invariant *)

BusyHasASource == \A w \in Workers : ~Is(w, "idle") => tx[w].of # {}

\* One transaction at a time holds a source's row, ...
HoldersExclude ==
  \A s \in Sources : \A v, w \in Workers : Holds(v, s) /\ Holds(w, s) => v = w

\* ... and what it has made of the row is made of the committed one, ...
RowsAreWritten ==
  \A w \in Workers : \A s \in Sources :
    Holds(w, s) => tx[w].row = Written(tx[w].op, source[s])

\* ... and two that hold rows at once have met.
OverlapsAreSeen ==
  \A v, w \in Holding : v # w => v \in met

DigestOf(rows) ==
  [status |-> ProviderStatus(rows), count |-> Cardinality(Registered(rows))]

\* Who has met nobody tells the provider what is still so.
ToldIsCurrent ==
  \A w \in Workers :
    w \notin met /\ tx[w].pc \in {"digested", "told"} => tx[w].told = DigestOf(RowsSeen(w))

ToldSomething ==
  \A w \in Workers : tx[w].pc \in {"digested", "told"} => tx[w].told.status # "none"

Inv == /\ TypeOK /\ BusyHasASource /\ ToldSomething
       /\ HoldersExclude /\ RowsAreWritten /\ OverlapsAreSeen
       /\ ToldIsCurrent /\ FailuresAreCounted /\ ProviderFollowsItsSources

LEMMA NoTxIsATransaction == NoTx \in Transaction
<1>1. Absent \in Rows
  BY DEF Rows
<1>2. 0 \in Numbers
  BY CountsAreNumbers
<1>3. <<>> \in Seq(Events)
  OBVIOUS
<1> QED BY <1>1, <1>2, <1>3 DEF NoTx, Transaction

LEMMA InitInv == Init => Inv
<1> SUFFICES ASSUME Init PROVE Inv
  OBVIOUS
<1>1. TypeOK
  <2>1. Absent \in Rows /\ 0 \in Numbers
    BY CountsAreNumbers DEF Rows
  <2>2. source \in [Sources -> Rows] /\ tx \in [Workers -> Transaction]
    BY <2>1, NoTxIsATransaction DEF Init
  <2>3. provider \in [status : {"active", "degraded", "disconnected"}, count : Numbers]
    BY <2>1 DEF Init
  <2>4. streak \in [Sources -> 0..FailingAt]
    BY DEF Init, FailingAt
  <2> QED
    BY <2>2, <2>3, <2>4 DEF Init, TypeOK
<1>2. \A w \in Workers : tx[w].pc = "idle"
  BY DEF Init, NoTx
<1>3. Registered(source) = {} /\ Statuses(source) = {}
  BY DEF Init, Registered, Statuses
<1>4. ProviderFollowsItsSources
  BY <1>3, FS_EmptySet DEF Init, ProviderFollowsItsSources, ProviderStatus
<1>5. FailuresAreCounted
  BY DEF Init, FailuresAreCounted, Absent
<1> QED
  BY <1>1, <1>2, <1>4, <1>5
  DEF Inv, BusyHasASource, HoldersExclude, RowsAreWritten, OverlapsAreSeen, ToldIsCurrent,
      ToldSomething, Holding, Holds, Is

-----------------------------------------------------------------------------
(* Steps that only move one transaction *)

LEMMA OneMoves ==
  ASSUME Inv, NEW w \in Workers,
         tx' \in [Workers -> Transaction], \A v \in Workers \ {w} : tx'[v] = tx[v],
         UNCHANGED <<stored, streak, apart>>,
         met' = met \/ (met' = met \ {w} /\ tx'[w].pc = "idle"),
         tx'[w].pc # "idle" => tx'[w].of # {},
         tx'[w].pc \in {"written", "digested", "told"} =>
           /\ tx[w].pc \in {"written", "digested", "told"}
           /\ tx'[w].of = tx[w].of /\ tx'[w].op = tx[w].op
           /\ tx'[w].row = tx[w].row,
         w \notin met /\ tx'[w].pc \in {"digested", "told"} =>
           tx'[w].told = DigestOf(RowsSeen(w)),
         tx'[w].pc \in {"digested", "told"} => tx'[w].told.status # "none"
  PROVE  Inv'
<1>1. \A v \in Workers : v = w \/ tx'[v] = tx[v]
  OBVIOUS
<1>2. TypeOK'
  BY DEF Inv, TypeOK, stored
<1>3. /\ \A v \in Workers, s \in Sources : Holds(v, s)' => Holds(v, s)
      /\ Holding' \subseteq Holding /\ (tx'[w].pc = "idle" => w \notin Holding')
  BY <1>1 DEF Holds, Holding
<1>4. BusyHasASource' /\ ToldSomething'
  BY <1>1 DEF Inv, BusyHasASource, ToldSomething, Is
<1>5. HoldersExclude'
  BY <1>3 DEF Inv, HoldersExclude
<1>6. RowsAreWritten'
  <2> SUFFICES ASSUME NEW v \in Workers, NEW s \in Sources, Holds(v, s)'
               PROVE  tx'[v].row = Written(tx'[v].op, source[s])
    BY DEF RowsAreWritten, stored
  <2>1. tx'[v].row = tx[v].row /\ tx'[v].op = tx[v].op
    BY <1>1 DEF Holds
  <2> QED BY <1>3, <2>1 DEF Inv, RowsAreWritten
<1>7. OverlapsAreSeen'
  BY <1>3 DEF Inv, OverlapsAreSeen
<1>8. ToldIsCurrent'
  <2> SUFFICES ASSUME NEW v \in Workers, v \notin met', tx'[v].pc \in {"digested", "told"}
               PROVE  tx'[v].told = DigestOf(RowsSeen(v)')
    BY DEF ToldIsCurrent, DigestOf, ProviderStatus, Registered, Statuses
  <2>1. tx'[v].of = tx[v].of /\ tx'[v].row = tx[v].row
    BY <1>1
  <2>2. RowsSeen(v)' = RowsSeen(v)
    BY <2>1 DEF RowsSeen, stored
  <2> QED BY <1>1, <2>2 DEF Inv, ToldIsCurrent
<1>9. FailuresAreCounted' /\ ProviderFollowsItsSources'
  <2>1. UNCHANGED <<source, provider, streak, apart>>
    BY DEF stored
  <2> QED
    BY <2>1 DEF Inv, FailuresAreCounted, ProviderFollowsItsSources, ProviderStatus, Registered, Statuses
<1> QED BY <1>2, <1>4, <1>5, <1>6, <1>7, <1>8, <1>9 DEF Inv

-----------------------------------------------------------------------------
(* The actions *)

LEMMA Fields ==
  ASSUME Inv, NEW w \in Workers
  PROVE  /\ tx[w] \in Transaction
         /\ \A s \in tx[w].of : s \in Sources /\ tx[w].of = {s}
<1>1. tx[w] \in Transaction
  BY DEF Inv, TypeOK
<1>2. tx[w].of \in {{}} \cup {{s} : s \in Sources}
  BY <1>1 DEF Transaction
<1> QED BY <1>1, <1>2

LEMMA BeginKeepsInv ==
  ASSUME Inv, NEW w \in Workers, NEW s \in Sources,
         NEW op \in {"create", "commit", "not_modified", "failure"}, NEW changes \in Seq(Events),
         Begin(w, s, op, changes)
  PROVE  Inv'
<1> DEFINE t == [NoTx EXCEPT !.pc = "inserting", !.op = op, !.of = {s}, !.todo = changes]
<1>1. t \in Transaction /\ t.pc = "inserting" /\ t.of = {s}
  BY NoTxIsATransaction DEF Transaction, NoTx
<1>2. tx' = [tx EXCEPT ![w] = t] /\ UNCHANGED <<stored, streak, met, apart>>
  BY DEF Begin, history
<1> HIDE DEF t
<1>3. tx' \in [Workers -> Transaction] /\ tx'[w] = t /\ \A v \in Workers \ {w} : tx'[v] = tx[v]
  BY <1>1, <1>2 DEF Inv, TypeOK
<1> QED BY <1>1, <1>2, <1>3, OneMoves

LEMMA InsertEventKeepsInv ==
  ASSUME Inv, NEW w \in Workers, InsertEvent(w)
  PROVE  Inv'
<1> DEFINE e == Head(tx[w].todo)
           t == [tx[w] EXCEPT !.todo = Tail(@), !.inserted = IF e \in events THEN @ ELSE @ \cup {e}]
<1>1. tx[w] \in Transaction /\ tx[w].pc = "inserting" /\ tx[w].todo # <<>>
  BY Fields DEF InsertEvent, Is
<1>2. e \in Events /\ Tail(tx[w].todo) \in Seq(Events)
  BY <1>1, HeadTailProperties DEF Transaction
<1>3. t \in Transaction /\ t.pc = "inserting" /\ t.of = tx[w].of
  BY <1>1, <1>2 DEF Transaction
<1>4. tx' = [tx EXCEPT ![w] = t] /\ UNCHANGED <<stored, streak, met, apart>>
  BY <1>1 DEF InsertEvent, history, Inv, TypeOK
<1> HIDE DEF t
<1>5. tx' \in [Workers -> Transaction] /\ tx'[w] = t /\ \A v \in Workers \ {w} : tx'[v] = tx[v]
  BY <1>3, <1>4 DEF Inv, TypeOK
<1>6. tx[w].of # {}
  BY <1>1 DEF Inv, BusyHasASource, Is
<1> QED BY <1>3, <1>4, <1>5, <1>6, OneMoves

LEMMA EndingKeepsInv ==
  ASSUME Inv, NEW w \in Workers, tx' = [tx EXCEPT ![w] = NoTx], met' = met \/ met' = met \ {w},
         UNCHANGED <<stored, streak, apart>>
  PROVE  Inv'
<1>1. tx' \in [Workers -> Transaction] /\ tx'[w] = NoTx /\ \A v \in Workers \ {w} : tx'[v] = tx[v]
  BY NoTxIsATransaction DEF Inv, TypeOK
<1>2. NoTx.pc = "idle"
  BY DEF NoTx
<1> QED BY <1>1, <1>2, OneMoves

LEMMA DigestKeepsInv ==
  ASSUME Inv, NEW w \in Workers, Digest(w)
  PROVE  Inv'
<1> DEFINE d == DigestOf(RowsSeen(w))
<1>0. d \in [status : {"none", "active", "degraded", "disconnected"}, count : Numbers]
  BY CountsAreNumbers DEF DigestOf
<1>6. d.status # "none"
  BY CountsAreNumbers DEF DigestOf
<1>1. tx[w] \in Transaction /\ tx[w].pc = "written" /\ tx[w].of # {}
  BY Fields DEF Digest, Is, Inv, BusyHasASource
<1>2. tx' = [tx EXCEPT ![w].pc = "digested", ![w].told = d]
      /\ UNCHANGED <<stored, streak, met, apart>>
  BY DEF Digest, DigestOf, history
<1> HIDE DEF d
<1>3. /\ tx'[w] = [tx[w] EXCEPT !.pc = "digested", !.told = d]
      /\ \A v \in Workers \ {w} : tx'[v] = tx[v] /\ tx[v] \in Transaction
  BY <1>2 DEF Inv, TypeOK
<1>4. /\ tx'[w] \in Transaction /\ tx'[w].pc = "digested" /\ tx'[w].told = d
      /\ tx'[w].of = tx[w].of /\ tx'[w].op = tx[w].op
      /\ tx'[w].row = tx[w].row
  BY <1>0, <1>1, <1>3 DEF Transaction
<1>5. tx' \in [Workers -> Transaction]
  BY <1>2, <1>3, <1>4 DEF Inv, TypeOK
<1> QED BY <1>1, <1>2, <1>3, <1>4, <1>5, <1>6, OneMoves DEF d

LEMMA TellProviderKeepsInv ==
  ASSUME Inv, NEW w \in Workers, TellProvider(w)
  PROVE  Inv'
<1>1. tx[w] \in Transaction /\ tx[w].pc = "digested" /\ tx[w].of # {}
  BY Fields DEF TellProvider, Is, Inv, BusyHasASource
<1>2. tx' = [tx EXCEPT ![w].pc = "told"] /\ UNCHANGED <<stored, streak, met, apart>>
  BY DEF TellProvider, history
<1>3. /\ tx'[w] = [tx[w] EXCEPT !.pc = "told"]
      /\ \A v \in Workers \ {w} : tx'[v] = tx[v] /\ tx[v] \in Transaction
  BY <1>2 DEF Inv, TypeOK
<1>4. /\ tx'[w] \in Transaction /\ tx'[w].pc = "told" /\ tx'[w].told = tx[w].told
      /\ tx'[w].of = tx[w].of /\ tx'[w].op = tx[w].op
      /\ tx'[w].row = tx[w].row
  BY <1>1, <1>3 DEF Transaction
<1>5. tx' \in [Workers -> Transaction]
  BY <1>2, <1>3, <1>4 DEF Inv, TypeOK
<1>6. /\ w \notin met => tx[w].told = DigestOf(RowsSeen(w))
      /\ tx[w].told.status # "none"
  BY <1>1 DEF Inv, ToldIsCurrent, ToldSomething
<1> QED BY <1>1, <1>2, <1>3, <1>4, <1>5, <1>6, OneMoves

LEMMA WriteSourceKeepsInv ==
  ASSUME Inv, NEW w \in Workers, WriteSource(w)
  PROVE  Inv'
<1> PICK s \in tx[w].of :
      /\ Is(w, "inserting") /\ SourceIsFree(w, s)
      /\ IF tx[w].op = "create" /\ source[s] # Absent
         THEN tx' = [tx EXCEPT ![w] = NoTx] /\ UNCHANGED met
         ELSE /\ tx' = [tx EXCEPT ![w].pc = "written",
                                  ![w].row = Written(tx[w].op, source[s])]
              /\ met' = met \cup (IF Holding = {} THEN {} ELSE Holding \cup {w})
      /\ UNCHANGED <<stored, streak, apart>>
  BY DEF WriteSource
<1>1. CASE tx[w].op = "create" /\ source[s] # Absent
  BY <1>1, EndingKeepsInv
<1>2. CASE ~(tx[w].op = "create" /\ source[s] # Absent)
  <2> DEFINE row == Written(tx[w].op, source[s])
  <2>0. s \in Sources /\ tx[w].of = {s} /\ row \in Rows /\ tx[w] \in Transaction
    BY Fields, WrittenIsARow DEF Inv, TypeOK
  <2>1. tx' = [tx EXCEPT ![w].pc = "written", ![w].row = row]
    BY <1>2
  <2>2. met' = met \cup (IF Holding = {} THEN {} ELSE Holding \cup {w})
    BY <1>2
  <2> HIDE DEF row
  <2>3. /\ tx'[w] = [tx[w] EXCEPT !.pc = "written", !.row = row]
        /\ \A v \in Workers \ {w} : tx'[v] = tx[v] /\ tx[v] \in Transaction
    BY <2>1 DEF Inv, TypeOK
  <2>4. /\ tx'[w] \in Transaction
        /\ tx'[w].pc = "written" /\ tx'[w].of = {s} /\ tx'[w].op = tx[w].op /\ tx'[w].row = row
    <3>1. /\ tx'[w].pc = "written" /\ tx'[w].of = tx[w].of /\ tx'[w].op = tx[w].op
          /\ tx'[w].row = row
      BY <2>0, <2>3 DEF Transaction
    <3>2. tx'[w] \in Transaction
      BY <2>0, <2>3 DEF Transaction
    <3> QED BY <2>0, <3>1, <3>2
  <2>5. /\ \A v \in Workers \ {w} : \A t \in Sources : Holds(v, t)' <=> Holds(v, t)
        /\ \A t \in Sources : Holds(w, t)' <=> t = s
    BY <2>0, <2>3, <2>4 DEF Holds
  <2>6. Holding' = Holding \cup {w}
    BY <2>0, <2>5 DEF Holding
  <2>7. TypeOK'
    <3>1. tx' \in [Workers -> Transaction]
      BY <2>1, <2>3, <2>4 DEF Inv, TypeOK
    <3>2. met' \subseteq Workers
      BY <2>2 DEF Inv, TypeOK, Holding
    <3> QED BY <3>1, <3>2 DEF Inv, TypeOK, stored
  <2>8. BusyHasASource' /\ ToldSomething'
    <3> SUFFICES ASSUME NEW v \in Workers
                 PROVE  /\ tx'[v].pc # "idle" => tx'[v].of # {}
                        /\ tx'[v].pc \in {"digested", "told"} => tx'[v].told.status # "none"
      BY DEF BusyHasASource, ToldSomething, Is
    <3>1. CASE v = w
      BY <2>4, <3>1
    <3>2. CASE v # w
      BY <2>3, <3>2 DEF Inv, BusyHasASource, ToldSomething, Is
    <3> QED BY <3>1, <3>2
  <2>9. HoldersExclude'
    BY <2>5 DEF Inv, HoldersExclude, SourceIsFree
  <2>10. RowsAreWritten'
    <3> SUFFICES ASSUME NEW v \in Workers, NEW t \in Sources, Holds(v, t)'
                 PROVE  tx'[v].row = Written(tx'[v].op, source[t])
      BY DEF RowsAreWritten, stored
    <3>1. CASE v = w
      BY <2>4, <2>5, <3>1 DEF row
    <3>2. CASE v # w
      BY <2>3, <2>5, <3>2 DEF Inv, RowsAreWritten
    <3> QED BY <3>1, <3>2
  <2>11. OverlapsAreSeen'
    BY <2>2, <2>6 DEF OverlapsAreSeen
  <2>12. ToldIsCurrent'
    <3> SUFFICES ASSUME NEW v \in Workers, v \notin met', tx'[v].pc \in {"digested", "told"}
                 PROVE  tx'[v].told = DigestOf(RowsSeen(v)')
      BY DEF ToldIsCurrent, DigestOf, ProviderStatus, Registered, Statuses
    <3>1. v # w /\ v \notin met
      BY <2>2, <2>4
    <3>2. tx'[v].of = tx[v].of /\ tx'[v].row = tx[v].row
      BY <2>3, <3>1
    <3>3. RowsSeen(v)' = RowsSeen(v)
      BY <3>2 DEF RowsSeen, stored
    <3> QED BY <2>3, <3>1, <3>3 DEF Inv, ToldIsCurrent
  <2>13. FailuresAreCounted' /\ ProviderFollowsItsSources'
    BY DEF Inv, FailuresAreCounted, ProviderFollowsItsSources, stored, ProviderStatus,
           Registered, Statuses
  <2> QED BY <2>7, <2>8, <2>9, <2>10, <2>11, <2>12, <2>13 DEF Inv
<1> QED BY <1>1, <1>2

LEMMA CommitKeepsInv ==
  ASSUME Inv, NEW w \in Workers, Commit(w)
  PROVE  Inv'
<1> PICK s \in tx[w].of :
      /\ Is(w, "told")
      /\ source' = [source EXCEPT ![s] = tx[w].row]
      /\ provider' = Told(w)
      /\ events' = events \cup tx[w].inserted
      /\ streak' = [streak EXCEPT ![s] = IF tx[w].op = "failure" THEN Capped(@ + 1) ELSE 0]
      /\ apart' = (tx[w].op = "create" \/ w \in met)
      /\ tx' = [tx EXCEPT ![w] = NoTx] /\ met' = met \ {w}
  BY DEF Commit
<1>0. s \in Sources /\ tx[w].of = {s} /\ tx[w] \in Transaction /\ Holds(w, s) /\ w \in Holding
  BY Fields DEF Holds, Holding, Is
<1>1. /\ tx' \in [Workers -> Transaction] /\ tx'[w].pc = "idle"
      /\ \A v \in Workers \ {w} : tx'[v] = tx[v]
  BY NoTxIsATransaction DEF Inv, TypeOK, NoTx
<1>2. /\ tx[w].row \in Rows /\ tx[w].told.count \in Numbers /\ tx[w].inserted \subseteq Events
      /\ tx[w].op \in {"none", "create", "commit", "not_modified", "failure"}
  BY <1>0 DEF Transaction
<1>3. tx[w].row = Written(tx[w].op, source[s]) /\ source[s].failures = streak[s]
  BY <1>0 DEF Inv, RowsAreWritten, FailuresAreCounted
<1>4. FailuresAreCounted'
  <2> SUFFICES ASSUME NEW t \in Sources PROVE source'[t].failures = streak'[t]
    BY DEF FailuresAreCounted
  <2>1. CASE t = s
    BY <1>0, <1>3, <2>1, WrittenIsARow DEF Inv, TypeOK
  <2>2. CASE t # s
    BY <1>0, <2>2 DEF Inv, TypeOK, FailuresAreCounted
  <2> QED BY <2>1, <2>2
<1>5. source' = RowsSeen(w)
  BY <1>0 DEF RowsSeen, Inv, TypeOK
<1>6. ProviderFollowsItsSources'
  <2> SUFFICES ASSUME tx[w].op # "create", w \notin met
               PROVE  /\ provider'.status = ProviderStatus(source')
                      /\ provider'.count = Cardinality(Registered(source'))
    BY DEF ProviderFollowsItsSources, ProviderStatus, Registered, Statuses
  <2>1. tx[w].told = DigestOf(RowsSeen(w))
    BY DEF Inv, ToldIsCurrent, Is
  <2>2. provider' = DigestOf(source')
    BY <1>5, <2>1 DEF Told
  <2> QED BY <2>2 DEF DigestOf
<1>7. TypeOK'
  <2>1. source' \in [Sources -> Rows]
    BY <1>2 DEF Inv, TypeOK
  <2>2. provider' \in [status : {"active", "degraded", "disconnected"}, count : Numbers]
    <3>1. CASE tx[w].op = "create"
      BY <1>2, <3>1 DEF Told, Inv, TypeOK
    <3>2. CASE tx[w].op # "create"
      <4>1. tx[w].told.status \in {"active", "degraded", "disconnected"}
        BY <1>0 DEF Transaction, Inv, ToldSomething, Is
      <4> QED BY <1>0, <3>2, <4>1 DEF Told, Transaction
    <3> QED BY <3>1, <3>2
  <2>3. events' \subseteq Events
    BY <1>2 DEF Inv, TypeOK
  <2>4. streak' \in [Sources -> 0..FailingAt]
    <3>1. streak[s] \in 0..FailingAt
      BY <1>0 DEF Inv, TypeOK
    <3>2. Capped(streak[s] + 1) \in 0..FailingAt /\ 0 \in 0..FailingAt
      BY <3>1 DEF Capped, FailingAt
    <3> QED BY <3>2 DEF Inv, TypeOK
  <2>5. apart' \in BOOLEAN /\ met' \subseteq Workers
    BY DEF Inv, TypeOK
  <2> QED BY <1>1, <2>1, <2>2, <2>3, <2>4, <2>5 DEF TypeOK
<1>8. /\ \A v \in Workers, t \in Sources : Holds(v, t)' => Holds(v, t) /\ v # w
      /\ Holding' \subseteq Holding \ {w}
  BY <1>1 DEF Holds, Holding
<1>9. BusyHasASource' /\ ToldSomething'
  BY <1>1 DEF Inv, BusyHasASource, ToldSomething, Is
<1>10. HoldersExclude'
  BY <1>8 DEF Inv, HoldersExclude
<1>11. RowsAreWritten'
  <2> SUFFICES ASSUME NEW v \in Workers, NEW t \in Sources, Holds(v, t)'
               PROVE  tx'[v].row = Written(tx'[v].op, source'[t])
    BY DEF RowsAreWritten
  <2>1. t # s
    BY <1>0, <1>8 DEF Inv, HoldersExclude
  <2>2. source'[t] = source[t]
    BY <1>0, <2>1 DEF Inv, TypeOK
  <2> QED BY <1>1, <1>8, <2>2 DEF Inv, RowsAreWritten
<1>12. OverlapsAreSeen'
  BY <1>1, <1>8 DEF Inv, OverlapsAreSeen
<1>13. ToldIsCurrent'
  <2> SUFFICES ASSUME NEW v \in Workers, v \notin met', tx'[v].pc \in {"digested", "told"}
               PROVE  FALSE
    BY DEF ToldIsCurrent
  <2>1. v # w /\ v \notin met /\ tx[v].pc \in {"digested", "told"} /\ tx[v].of # {}
    BY <1>1 DEF Inv, BusyHasASource, Is
  <2>2. v \in Holding
    BY <2>1, Fields DEF Holds, Holding
  <2> QED BY <1>0, <2>1, <2>2 DEF Inv, OverlapsAreSeen
<1> QED
  BY <1>4, <1>6, <1>7, <1>9, <1>10, <1>11, <1>12, <1>13 DEF Inv

LEMMA NextInv ==
  ASSUME Inv, [Next]_vars
  PROVE  Inv'
<1>1. CASE UNCHANGED vars
  <2>1. BusyHasASource' /\ ToldSomething' /\ HoldersExclude' /\ RowsAreWritten' /\ OverlapsAreSeen'
    BY <1>1
    DEF vars, Inv, BusyHasASource, ToldSomething, HoldersExclude, RowsAreWritten, OverlapsAreSeen, Is,
        Holds, Holding
  <2>2. ToldIsCurrent'
    <3> SUFFICES ASSUME NEW v \in Workers, v \notin met', tx'[v].pc \in {"digested", "told"}
                 PROVE  tx'[v].told = DigestOf(RowsSeen(v)')
      BY DEF ToldIsCurrent, DigestOf, ProviderStatus, Registered, Statuses
    <3>1. RowsSeen(v)' = RowsSeen(v)
      BY <1>1 DEF vars, RowsSeen
    <3> QED BY <1>1, <3>1 DEF vars, Inv, ToldIsCurrent
  <2>3. FailuresAreCounted' /\ ProviderFollowsItsSources'
    BY <1>1
    DEF vars, Inv, FailuresAreCounted, ProviderFollowsItsSources, ProviderStatus, Registered, Statuses
  <2>4. TypeOK'
    BY <1>1 DEF vars, Inv, TypeOK
  <2> QED BY <2>1, <2>2, <2>3, <2>4 DEF Inv
<1>2. ASSUME NEW w \in Workers, NEW s \in Sources,
             \/ Begin(w, s, "create", <<>>) \/ Begin(w, s, "not_modified", <<>>)
             \/ Begin(w, s, "failure", <<>>)
      PROVE  Inv'
  <2>1. <<>> \in Seq(Events)
    OBVIOUS
  <2> QED BY <1>2, <2>1, BeginKeepsInv
<1>3. ASSUME NEW w \in Workers, NEW s \in Sources, NEW q \in Changes, Begin(w, s, "commit", q)
      PROVE  Inv'
  <2>1. q \in Seq(Events)
    BY SourcesAssumption, EventsAssumption, FS_CardinalityType DEF Changes, Lists
  <2> QED BY <1>3, <2>1, BeginKeepsInv
<1>4. ASSUME NEW w \in Workers,
             \/ InsertEvent(w) \/ WriteSource(w) \/ Digest(w) \/ TellProvider(w)
             \/ Commit(w) \/ Rollback(w)
      PROVE  Inv'
  <2>1. ASSUME Rollback(w) PROVE Inv'
    BY <2>1, EndingKeepsInv DEF Rollback
  <2> QED
    BY <1>4, <2>1, InsertEventKeepsInv, WriteSourceKeepsInv, DigestKeepsInv, TellProviderKeepsInv,
       CommitKeepsInv
<1> QED BY <1>1, <1>2, <1>3, <1>4 DEF Next

LEMMA Invariant == Spec => []Inv
BY InitInv, NextInv, PTL DEF Spec

-----------------------------------------------------------------------------
(* Transactions do not wait in a circle *)

\* A commit inserts its events in order, each before those it has still to insert.
EventsInOrder ==
  \A w \in Workers :
    /\ InOrder(tx[w].todo)
    /\ Is(w, "inserting") =>
         \A e \in tx[w].inserted : \A i \in DOMAIN tx[w].todo : e < tx[w].todo[i]

\* Of finitely many events there is a last one.
LEMMA LastEvent ==
  ASSUME NEW S \in SUBSET Events, S # {}
  PROVE  \E last \in S : \A e \in S : ~(last < e)
<1> DEFINE after(x) == {e \in Events : x < e}
           T == {after(x) : x \in S}
           R == StrictSubsetOrdering(Events)
<1>1. IsWellFoundedOn(R, SUBSET Events)
  BY EventsAssumption, FS_StrictSubsetOrderingWellFounded, FS_FiniteSubsetsOfFinite
<1>2. T \subseteq SUBSET Events /\ T # {}
  OBVIOUS
<1>3. PICK least \in T : \A y \in T : ~(<<y, least>> \in R)
  <2> HIDE DEF T, R
  <2> QED BY <1>1, <1>2, WFMin
<1>4. PICK last \in S : least = after(last)
  BY <1>3
<1>5. ASSUME NEW e \in S, last < e PROVE FALSE
  <2>1. last \in Nat /\ e \in Nat /\ \A x \in Events : x \in Nat
    BY EventsAssumption
  <2>2. after(e) \subseteq after(last)
    <3> SUFFICES ASSUME NEW x \in Events, e < x PROVE last < x
      OBVIOUS
    <3> QED BY <1>5, <2>1
  <2>4. e \in after(last) /\ e \notin after(e)
    BY <1>5, <2>1
  <2>3. <<after(e), after(last)>> \in R
    BY <2>2, <2>4 DEF StrictSubsetOrdering
  <2> QED BY <1>3, <1>4, <2>3
<1> QED BY <1>5

\* A step of one connection leaves the transactions of the others in order.
LEMMA OthersKeepOrder ==
  ASSUME EventsInOrder, NEW w \in Workers,
         \A v \in Workers \ {w} : tx'[v] = tx[v],
         InOrder(tx'[w].todo),
         tx'[w].pc = "inserting" =>
           \A e \in tx'[w].inserted : \A i \in DOMAIN tx'[w].todo : e < tx'[w].todo[i]
  PROVE  EventsInOrder'
<1> SUFFICES ASSUME NEW v \in Workers
             PROVE  /\ InOrder(tx'[v].todo)
                    /\ tx'[v].pc = "inserting" =>
                         \A e \in tx'[v].inserted : \A i \in DOMAIN tx'[v].todo : e < tx'[v].todo[i]
  BY DEF EventsInOrder, Is, InOrder
<1>1. CASE v = w
  BY <1>1
<1>2. CASE v # w
  BY <1>2 DEF EventsInOrder, Is
<1> QED BY <1>1, <1>2

LEMMA InsertEventKeepsOrder ==
  ASSUME Inv, EventsInOrder, NEW w \in Workers, InsertEvent(w)
  PROVE  EventsInOrder'
<1> DEFINE q == tx[w].todo
           d == tx[w].inserted
           i2 == IF Head(q) \in events THEN d ELSE d \cup {Head(q)}
<1>1. tx[w] \in Transaction /\ Is(w, "inserting") /\ q # <<>> /\ q \in Seq(Events)
  BY Fields DEF InsertEvent, Transaction
<1>2. /\ tx'[w] = [tx[w] EXCEPT !.todo = Tail(q), !.inserted = i2]
      /\ \A v \in Workers \ {w} : tx'[v] = tx[v]
  BY <1>1 DEF InsertEvent, Inv, TypeOK
<1>3. tx'[w].todo = Tail(q) /\ tx'[w].inserted \subseteq d \cup {Head(q)}
  BY <1>1, <1>2 DEF Transaction
<1>4. \A i, j \in DOMAIN q : i < j => q[i] < q[j]
  BY DEF EventsInOrder, InOrder
<1>5. \A e \in d : \A i \in DOMAIN q : e < q[i]
  BY <1>1 DEF EventsInOrder
<1> HIDE DEF q, d
<1>6. /\ Head(q) = q[1] /\ 1 \in DOMAIN q
      /\ \A i \in DOMAIN Tail(q) : i + 1 \in DOMAIN q /\ Tail(q)[i] = q[i + 1] /\ 1 < i + 1
  BY <1>1
<1>7. InOrder(Tail(q))
  <2> SUFFICES ASSUME NEW i \in DOMAIN Tail(q), NEW j \in DOMAIN Tail(q), i < j
               PROVE  Tail(q)[i] < Tail(q)[j]
    BY DEF InOrder
  <2>1. i + 1 < j + 1
    BY <1>1
  <2> QED BY <1>4, <1>6, <2>1
<1>8. \A e \in d \cup {Head(q)} : \A i \in DOMAIN Tail(q) : e < Tail(q)[i]
  BY <1>4, <1>5, <1>6
<1> QED BY <1>2, <1>3, <1>7, <1>8, OthersKeepOrder

LEMMA NextKeepsOrder ==
  ASSUME Adapter = "openapi", Inv, EventsInOrder, [Next]_vars
  PROVE  EventsInOrder'
<1>1. CASE UNCHANGED vars
  BY <1>1 DEF vars, EventsInOrder, InOrder, Is
<1>3. ASSUME NEW w \in Workers, NEW s \in Sources, NEW op, NEW q, InOrder(q), Begin(w, s, op, q)
      PROVE  EventsInOrder'
  <2> DEFINE t == [NoTx EXCEPT !.pc = "inserting", !.op = op, !.of = {s}, !.todo = q]
  <2>1. t.todo = q /\ t.inserted = {}
    BY DEF NoTx
  <2>2. tx'[w] = t /\ \A v \in Workers \ {w} : tx'[v] = tx[v]
    BY <1>3 DEF Begin, Inv, TypeOK
  <2> HIDE DEF t
  <2> QED BY <1>3, <2>1, <2>2, OthersKeepOrder
<1>4. InOrder(<<>>)
  BY DEF InOrder
<1>5. ASSUME NEW w \in Workers, tx' = [tx EXCEPT ![w] = NoTx] PROVE EventsInOrder'
  <2>1. tx'[w].todo = <<>> /\ tx'[w].pc = "idle" /\ \A v \in Workers \ {w} : tx'[v] = tx[v]
    BY <1>5 DEF Inv, TypeOK, NoTx
  <2> QED BY <1>4, <2>1, OthersKeepOrder
<1>6. ASSUME NEW w \in Workers, tx'[w].todo = tx[w].todo, tx'[w].pc # "inserting",
             \A v \in Workers \ {w} : tx'[v] = tx[v]
      PROVE  EventsInOrder'
  <2>1. InOrder(tx'[w].todo)
    BY <1>6 DEF EventsInOrder
  <2> QED BY <1>6, <2>1, OthersKeepOrder
<1>7. ASSUME NEW w \in Workers, Digest(w) \/ TellProvider(w) PROVE EventsInOrder'
  <2>1. tx[w] \in Transaction
    BY Fields
  <2>2. /\ tx'[w].todo = tx[w].todo /\ tx'[w].pc # "inserting"
        /\ \A v \in Workers \ {w} : tx'[v] = tx[v]
    <3>1. CASE Digest(w)
      BY <2>1, <3>1 DEF Digest, Inv, TypeOK, Transaction
    <3>2. CASE TellProvider(w)
      BY <2>1, <3>2 DEF TellProvider, Inv, TypeOK, Transaction
    <3> QED BY <1>7, <3>1, <3>2
  <2> QED BY <1>6, <2>2
<1>8. ASSUME NEW w \in Workers, WriteSource(w) PROVE EventsInOrder'
  <2> PICK s \in tx[w].of :
        IF tx[w].op = "create" /\ source[s] # Absent
        THEN tx' = [tx EXCEPT ![w] = NoTx]
        ELSE tx' = [tx EXCEPT ![w].pc = "written", ![w].row = Written(tx[w].op, source[s])]
    BY <1>8 DEF WriteSource
  <2>1. CASE tx' = [tx EXCEPT ![w] = NoTx]
    BY <1>5, <2>1
  <2>2. CASE tx' = [tx EXCEPT ![w].pc = "written", ![w].row = Written(tx[w].op, source[s])]
    <3> DEFINE row == Written(tx[w].op, source[s])
    <3>0. tx[w] \in Transaction
      BY Fields
    <3>1. tx' = [tx EXCEPT ![w].pc = "written", ![w].row = row]
      BY <2>2
    <3> HIDE DEF row
    <3>2. /\ tx'[w].todo = tx[w].todo /\ tx'[w].pc # "inserting"
          /\ \A v \in Workers \ {w} : tx'[v] = tx[v]
      BY <3>0, <3>1 DEF Inv, TypeOK, Transaction
    <3> QED BY <1>6, <3>2
  <2> QED BY <2>1, <2>2
<1>9. ASSUME NEW w \in Workers, Commit(w) \/ Rollback(w) PROVE EventsInOrder'
  BY <1>5, <1>9 DEF Commit, Rollback
<1>10. \A q \in Changes : InOrder(q)
  BY DEF Changes
<1> QED
  BY <1>1, <1>3, <1>4, <1>7, <1>8, <1>9, <1>10, InsertEventKeepsOrder DEF Next

\* In order, nobody waits in a circle: one that waits for an event waits for one
\* that has more to insert.
LEMMA OrderPreventsCircles ==
  ASSUME Inv, EventsInOrder
  PROVE  NoDeadlock
<1> SUFFICES ASSUME NEW some \in SUBSET Workers, some # {}
             PROVE  \E w \in some : \A v \in some : ~WaitsFor(w, v)
  BY DEF NoDeadlock
<1>1. CASE \E w \in some : ~Is(w, "inserting") /\ ~Is(w, "digested")
  BY <1>1 DEF WaitsFor, Is
<1>2. CASE (\E w \in some : Is(w, "digested")) /\ \A w \in some : ~Is(w, "told")
  BY <1>2 DEF WaitsFor, Is
<1>3. CASE \A w \in some : Is(w, "inserting")
  <2>1. \A v \in some : \A s \in Sources : ~Holds(v, s)
    BY <1>3 DEF Holds, Is
  <2>2. CASE \E w \in some : tx[w].todo = <<>>
    <3> PICK w \in some : tx[w].todo = <<>>
      BY <2>2
    <3>1. \A s \in tx[w].of : s \in Sources
      BY Fields
    <3> QED BY <1>3, <2>1, <3>1 DEF WaitsFor, Is
  <2>3. CASE \A w \in some : tx[w].todo # <<>>
    <3> DEFINE S == {Head(tx[w].todo) : w \in some}
    <3>1. \A w \in some : /\ tx[w].todo \in Seq(Events) /\ Head(tx[w].todo) \in Events
                           /\ 1 \in DOMAIN tx[w].todo /\ Head(tx[w].todo) = tx[w].todo[1]
      <4> SUFFICES ASSUME NEW w \in some
                   PROVE  /\ tx[w].todo \in Seq(Events) /\ Head(tx[w].todo) \in Events
                          /\ 1 \in DOMAIN tx[w].todo /\ Head(tx[w].todo) = tx[w].todo[1]
        OBVIOUS
      <4>1. tx[w].todo \in Seq(Events) /\ tx[w].todo # <<>>
        BY <2>3, Fields DEF Transaction
      <4> QED BY <4>1
    <3>2. S \in SUBSET Events /\ S # {}
      BY <3>1
    <3>3. PICK last \in S : \A e \in S : ~(last < e)
      <4> HIDE DEF S
      <4> QED BY <3>2, LastEvent
    <3>4. PICK w \in some : Head(tx[w].todo) = last
      BY <3>3
    <3>5. ASSUME NEW v \in some, WaitsFor(w, v) PROVE FALSE
      <4>1. last \in tx[v].inserted
        BY <1>3, <2>1, <2>3, <3>4, <3>5 DEF WaitsFor, Is
      <4>2. last < Head(tx[v].todo)
        BY <1>3, <3>1, <4>1 DEF EventsInOrder
      <4> QED BY <3>3, <4>2
    <3> QED BY <3>5
  <2> QED BY <2>2, <2>3
<1>4. CASE \E w \in some : Is(w, "told")
  BY <1>1, <1>4 DEF Is
<1> QED BY <1>1, <1>2, <1>3, <1>4

-----------------------------------------------------------------------------
(* The theorems *)

\* Every variable keeps its type (ingestion/store.py).
THEOREM HealthTypesHold == Spec => []TypeOK
<1>1. Inv => TypeOK
  BY DEF Inv
<1> QED BY <1>1, Invariant, PTL

\* Overlapping attempts lose no failure and resurrect none (ingestion/store.py:215-232).
THEOREM FailuresAreNeverLost == Spec => []FailuresAreCounted
<1>1. Inv => FailuresAreCounted
  BY DEF Inv
<1> QED BY <1>1, Invariant, PTL

\* Attempts of one source leave the provider what its sources are
\* (_refresh_provider_health, ingestion/store.py:251-275).
THEOREM ProvidersFollowTheirSources == Spec => []ProviderFollowsItsSources
<1>1. Inv => ProviderFollowsItsSources
  BY DEF Inv
<1> QED BY <1>1, Invariant, PTL

\* The transactions of OpenAPI sources never wait in a circle, because the adapter
\* lists its changes in one order (adapters.py:122-125).
THEOREM OpenApiSyncsNeverDeadlock ==
  Adapter = "openapi" => (Spec => []NoDeadlock)
<1> SUFFICES ASSUME Adapter = "openapi" PROVE Spec => []NoDeadlock
  OBVIOUS
<1>1. Init => EventsInOrder
  BY DEF Init, NoTx, EventsInOrder, InOrder, Is
<1>2. Inv /\ EventsInOrder /\ [Next]_vars => EventsInOrder'
  BY NextKeepsOrder
<1>3. Inv /\ EventsInOrder => NoDeadlock
  BY OrderPreventsCircles
<1> QED BY <1>1, <1>2, <1>3, Invariant, PTL DEF Spec
=============================================================================
