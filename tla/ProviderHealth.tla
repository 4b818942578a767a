--------------------------- MODULE ProviderHealth ---------------------------
(***************************************************************************)
(* The transactions of app/ingestion/store.py, statement by statement: the *)
(* syncs of the sources of one provider, which end in commit,              *)
(* record_not_modified or record_failure, and create_source.               *)
(*                                                                         *)
(* PostgreSQL runs them under READ COMMITTED.  A statement sees the rows   *)
(* committed when it starts and the transaction's own; a write locks its   *)
(* row until the transaction ends, and is seen by others from then on.     *)
(* INSERT ... ON CONFLICT DO NOTHING waits for a transaction that has      *)
(* inserted the same key and not ended.  SourceSync takes each of these    *)
(* transactions as one action; what a commit stores besides is there.      *)
(***************************************************************************)
EXTENDS Integers, Sequences, FiniteSets

CONSTANTS Sources,    \* provider sources, registered or not yet
          Workers,    \* connections of workers and web processes
          Events,     \* change events, numbered in the order of their targets
          Adapter     \* the adapter of the sources

ASSUME SourcesAssumption == IsFiniteSet(Sources)
ASSUME EventsAssumption  == Events \subseteq Nat /\ IsFiniteSet(Events)
ASSUME AdapterAssumption == Adapter \in {"openapi", "feed"}

VARIABLES source,    \* provider_sources, committed
          provider,  \* the providers row, committed
          events,    \* change_events, committed
          tx,        \* the open transaction of each connection
          streak,    \* history: failures recorded since the last success
          met,       \* history: open transactions that overlap another source's
          apart      \* history: the last one to commit did, or registered a source

vars == <<source, provider, events, tx, streak, met, apart>>

-----------------------------------------------------------------------------
FailingAt == 3
Capped(n) == IF n > FailingAt THEN FailingAt ELSE n      \* more are not told apart

Absent      == [status |-> "absent", failures |-> 0, success |-> FALSE]
NeverSynced == [status |-> "never_synced", failures |-> 0, success |-> FALSE]
Healthy     == [status |-> "healthy", failures |-> 0, success |-> TRUE]

\* _health_status of a source that has failed; no route disables a source.
HealthStatus(failures) == IF failures >= FailingAt THEN "failing" ELSE "degraded"
Failed(row) ==
  [status   |-> HealthStatus(row.failures + 1),
   failures |-> Capped(row.failures + 1), success |-> row.success]

\* What the first statement on the source makes of its row.
Written(op, row) ==
  CASE op = "create"  -> NeverSynced
    [] op = "failure" -> Failed(row)
    [] OTHER          -> Healthy

Registered(rows) == {s \in Sources : rows[s] # Absent}
Statuses(rows)   == {rows[s].status : s \in Registered(rows)}

\* _refresh_provider_health
ProviderStatus(rows) ==
  IF Statuses(rows) \cap {"degraded", "failing"} # {} THEN "degraded"
  ELSE IF Statuses(rows) = {"healthy"} THEN "active"
  ELSE "disconnected"

Distinct(q) == \A i, j \in DOMAIN q : i # j => q[i] # q[j]
Lists == {q \in UNION {[1..n -> Events] : n \in 0..Cardinality(Events)} : Distinct(q)}
InOrder(q) == \A i, j \in DOMAIN q : i < j => q[i] < q[j]

AnyOrder == Lists                                                       \* mutant
\* The changes of a commit, in the order in which it inserts them: the OpenAPI
\* adapter sorts paths and takes methods in turn, a feed keeps its document's.
Changes == IF Adapter = "openapi" THEN {q \in Lists : InOrder(q)} ELSE Lists

-----------------------------------------------------------------------------
NoTx == [pc |-> "idle", op |-> "none", of |-> {}, todo |-> <<>>, inserted |-> {},
         row |-> Absent, told |-> [status |-> "none", count |-> 0]]

Init ==
  /\ source = [s \in Sources |-> Absent]
  /\ provider = [status |-> "disconnected", count |-> 0]
  /\ events = {}
  /\ tx = [w \in Workers |-> NoTx]
  /\ streak = [s \in Sources |-> 0]
  /\ met = {} /\ apart = FALSE

stored  == <<source, provider, events>>
history == <<streak, met, apart>>

Is(w, pc)     == tx[w].pc = pc
Holds(w, s)   == s \in tx[w].of /\ tx[w].pc \in {"written", "digested", "told"}
Holding       == {w \in Workers : \E s \in Sources : Holds(w, s)}

\* create_source, or the end of an attempt: captured and normalized with these
\* changes, not modified, or failed with a collector's or an adapter's code.
Begin(w, s, op, changes) ==
  /\ Is(w, "idle")
  /\ op # "create" => source[s] # Absent
  /\ op = "not_modified" => source[s].success
  /\ op # "commit" => changes = <<>>
  /\ tx' = [tx EXCEPT ![w] = [NoTx EXCEPT !.pc = "inserting", !.op = op, !.of = {s},
                                          !.todo = changes]]
  /\ UNCHANGED <<stored, history>>

\* commit inserts its events; one that is there already is passed over.
InsertEvent(w) ==
  /\ Is(w, "inserting") /\ tx[w].todo # <<>>
  /\ LET e == Head(tx[w].todo)
     IN  /\ \A v \in Workers \ {w} : e \notin tx[v].inserted
         /\ tx' = [tx EXCEPT ![w].todo = Tail(@),
                             ![w].inserted = IF e \in events THEN @ ELSE @ \cup {e}]
  /\ UNCHANGED <<stored, history>>

ReadsUnlocked(w, s) == TRUE                                             \* mutant
SourceIsFree(w, s)  == \A v \in Workers \ {w} : ~Holds(v, s)

\* The provider_sources row is inserted or updated, from its committed values.
\* A source that is already registered is refused (409).
WriteSource(w) ==
  \E s \in tx[w].of :
    /\ Is(w, "inserting") /\ tx[w].todo = <<>> /\ SourceIsFree(w, s)
    /\ IF tx[w].op = "create" /\ source[s] # Absent
       THEN tx' = [tx EXCEPT ![w] = NoTx] /\ UNCHANGED met
       ELSE /\ tx' = [tx EXCEPT ![w].pc = "written",
                                ![w].row = Written(tx[w].op, source[s])]
            /\ met' = met \cup (IF Holding = {} THEN {} ELSE Holding \cup {w})
    /\ UNCHANGED <<stored, streak, apart>>

RowsBefore(w) == source                                                 \* mutant
RowsSeen(w)   == [s \in Sources |-> IF s \in tx[w].of THEN tx[w].row ELSE source[s]]

\* The sources are read to say what the provider's row should tell; for
\* create_source this is the subquery of its UPDATE, which is not read again
\* when that UPDATE has waited.
Digest(w) ==
  /\ Is(w, "written")
  /\ tx' = [tx EXCEPT ![w].pc = "digested",
                      ![w].told = [status |-> ProviderStatus(RowsSeen(w)),
                                   count  |-> Cardinality(Registered(RowsSeen(w)))]]
  /\ UNCHANGED <<stored, history>>

TellProvider(w) ==
  /\ Is(w, "digested") /\ \A v \in Workers : ~Is(v, "told")
  /\ tx' = [tx EXCEPT ![w].pc = "told"]
  /\ UNCHANGED <<stored, history>>

\* create_source changes the count only.
Told(w) ==
  IF tx[w].op = "create" THEN [provider EXCEPT !.count = tx[w].told.count] ELSE tx[w].told

Commit(w) ==
  \E s \in tx[w].of :
    /\ Is(w, "told")
    /\ source' = [source EXCEPT ![s] = tx[w].row]
    /\ provider' = Told(w)
    /\ events' = events \cup tx[w].inserted
    /\ streak' = [streak EXCEPT ![s] = IF tx[w].op = "failure" THEN Capped(@ + 1) ELSE 0]
    /\ apart' = (tx[w].op = "create" \/ w \in met)
    /\ tx' = [tx EXCEPT ![w] = NoTx] /\ met' = met \ {w}

\* A statement raises, the connection is lost, the process dies, or PostgreSQL
\* aborts the transaction as the victim of a deadlock.
Rollback(w) ==
  /\ ~Is(w, "idle")
  /\ tx' = [tx EXCEPT ![w] = NoTx] /\ met' = met \ {w}
  /\ UNCHANGED <<stored, streak, apart>>

Next ==
  \/ \E w \in Workers :
       \/ \E s \in Sources : Begin(w, s, "create", <<>>) \/ Begin(w, s, "not_modified", <<>>)
                             \/ Begin(w, s, "failure", <<>>)
       \/ \E s \in Sources, q \in Changes : Begin(w, s, "commit", q)
       \/ InsertEvent(w) \/ WriteSource(w) \/ Digest(w) \/ TellProvider(w)
       \/ Commit(w) \/ Rollback(w)

Spec == Init /\ [][Next]_vars

-----------------------------------------------------------------------------
(* Properties *)

Rows == {Absent, NeverSynced, Healthy}
        \cup [status : {"degraded"}, failures : 1..FailingAt - 1, success : BOOLEAN]
        \cup [status : {"failing"}, failures : {FailingAt}, success : BOOLEAN]

Numbers == 0..Cardinality(Sources)

Transaction ==
  [pc : {"idle", "inserting", "written", "digested", "told"},
   op : {"none", "create", "commit", "not_modified", "failure"},
   of : {{}} \cup {{s} : s \in Sources}, todo : Seq(Events), inserted : SUBSET Events,
   row : Rows,
   told : [status : {"none", "active", "degraded", "disconnected"}, count : Numbers]]

\* Every variable has its type; a source's status is that of its failures and
\* its success.
TypeOK ==
  /\ source \in [Sources -> Rows]
  /\ provider \in [status : {"active", "degraded", "disconnected"}, count : Numbers]
  /\ events \subseteq Events
  /\ tx \in [Workers -> Transaction]
  /\ streak \in [Sources -> 0..FailingAt]
  /\ met \subseteq Workers /\ apart \in BOOLEAN

WaitsFor(w, v) ==
  /\ v # w
  /\ \/ Is(w, "inserting") /\ tx[w].todo # <<>> /\ Head(tx[w].todo) \in tx[v].inserted
     \/ Is(w, "inserting") /\ tx[w].todo = <<>> /\ \E s \in tx[w].of : Holds(v, s)
     \/ Is(w, "digested") /\ Is(v, "told")

\* Transactions never wait for one another in a circle: events are inserted in
\* one order, before the source's row, and the provider's row comes last.
NoDeadlock ==
  \A some \in (SUBSET Workers) \ {{}} :
    \E w \in some : \A v \in some : ~WaitsFor(w, v)

\* Attempts of one source that overlap lose no failure and resurrect none: its
\* counter is the failures recorded since the last success.
FailuresAreCounted == \A s \in Sources : source[s].failures = streak[s]

\* However the attempts of one source overlap, they leave the provider's status
\* and count those of its sources; only a transaction of another source that
\* overlaps, or a registration, leaves them behind.
ProviderFollowsItsSources ==
  ~apart => /\ provider.status = ProviderStatus(source)
            /\ provider.count = Cardinality(Registered(source))

=============================================================================
