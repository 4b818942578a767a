----------------------------- MODULE SourceSync -----------------------------
(***************************************************************************)
(* From a provider's official document to queued migrations: the sync      *)
(* request, the ingestion worker, the fan-out of each new change to every  *)
(* repository, and the analysis of each fan-out job.                       *)
(*                                                                         *)
(* One source.  Its document is abstracted to the set of entries it lists: *)
(* the operations of an OpenAPI document, or the entries of an official    *)
(* feed.  Every database transaction is one action; the reads that precede *)
(* it, the fetch and each defer of a follow-up job are actions of their    *)
(* own.                                                                    *)
(***************************************************************************)

CONSTANTS Documents,      \* the documents the provider may publish: sets of entries
          Adapter,        \* the adapter configured for the source
          Repositories,   \* connected repositories
          Keys,           \* Idempotency-Key values of sync requests
          Workers,        \* queue workers
          Faults          \* what may go wrong with a defer

ASSUME AdapterAssumption == Adapter \in {"openapi", "feed"}
ASSUME DocumentsAssumption == {} \in Documents       \* nothing need be listed
ASSUME FaultsAssumption  == Faults \subseteq {"refused", "lost"}

VARIABLES published,   \* the document at the provider
          current,     \* provider_sources.current_artifact_id: {} or {document}
          events,      \* change_events
          fanout,      \* change_fanout_jobs: status by <<change, repository>>
          migrations,  \* migrations created, by <<change, repository>>
          sync,        \* source_sync_requests: status by key
          web,         \* the sync requests being served
          queue,       \* procrastinate jobs that wait for a worker
          worker,      \* what each worker is doing
          faulted,     \* history: a process died, a follow-up was not deferred, a claim raised
          first,       \* history: documents committed with nothing to compare with
          raisedOn     \* history: fan-out jobs whose claim has raised

history == <<first, raisedOn>>
vars    == <<published, current, events, fanout, migrations, sync, web, queue,
             worker, faulted, history>>

-----------------------------------------------------------------------------
Entries == UNION Documents

\* A change is named by its dedupe key: the entry and, for the OpenAPI adapter,
\* the digest of the document in which it appears or disappears.
Changes  == IF Adapter = "openapi" THEN Entries \X Documents ELSE Entries \X {{}}
Analyses == Changes \X Repositories

\* SourceAdapter.normalize.  The OpenAPI adapter compares with the artifact
\* before, and states nothing of the first one; a feed states its entries.
Normalize(base, doc) ==
  IF Adapter = "openapi"
  THEN {<<e, doc>> : e \in UNION {(b \ doc) \cup (doc \ b) : b \in base}}
  ELSE {<<e, {}>> : e \in doc}

Free == [pc |-> "free", key |-> {}, base |-> {}, doc |-> {}, ids |-> {}]

SyncJob(k)        == [task |-> "sync", by |-> k, of |-> {}]
EnqueueJob(k, cs) == [task |-> "enqueue", by |-> k, of |-> cs]
AnalyzeJob(k, a)  == [task |-> "analyze", by |-> k, of |-> {a}]

Init ==
  /\ published \in Documents
  /\ current = {} /\ events = {} /\ migrations = {}
  /\ fanout = [a \in Analyses |-> "absent"]
  /\ sync = [k \in Keys |-> "absent"] /\ web = [k \in Keys |-> "idle"]
  /\ queue = {} /\ worker = [w \in Workers |-> Free]
  /\ faulted = FALSE /\ first = {} /\ raisedOn = {}

-----------------------------------------------------------------------------
(* The provider *)

Publish(doc) ==
  /\ doc # published /\ published' = doc
  /\ UNCHANGED <<current, events, fanout, migrations, sync, web, queue, worker, faulted,
                 history>>

-----------------------------------------------------------------------------
(* The sync request *)

stored == <<published, current, events, fanout, migrations, history>>

RetriableKey(k) == sync[k] \in {"absent", "failed"}                     \* mutant
NewKey(k)       == sync[k] = "absent"

\* queue_source_sync.  A key that has been seen returns its status and nothing
\* else happens.
RequestSync(k) ==
  /\ NewKey(k) /\ web[k] = "idle"
  /\ sync' = [sync EXCEPT ![k] = "queued"]
  /\ web'  = [web EXCEPT ![k] = "deferring"]
  /\ UNCHANGED <<stored, queue, worker, faulted>>

\* _defer_source_sync.  The defer may be refused, or be done with its answer
\* lost; to the router these are the same.
DeferSync(k) ==
  /\ web[k] = "deferring"
  /\ \/ /\ queue' = queue \cup {SyncJob(k)}
        /\ web' = [web EXCEPT ![k] = "idle"]
     \/ /\ "refused" \in Faults
        /\ web' = [web EXCEPT ![k] = "refused"]
        /\ UNCHANGED queue
     \/ /\ "lost" \in Faults
        /\ queue' = queue \cup {SyncJob(k)}
        /\ web' = [web EXCEPT ![k] = "refused"]
  /\ UNCHANGED <<stored, sync, worker, faulted>>

RefusedSilently(k) ==                                                  \* mutant
  /\ web[k] = "refused" /\ web' = [web EXCEPT ![k] = "idle"]
  /\ UNCHANGED <<stored, sync, queue, worker, faulted>>
\* Its except clause: the request is marked failed, whatever it is by now.
MarkQueueFailed(k) ==
  /\ web[k] = "refused"
  /\ sync' = [sync EXCEPT ![k] = "failed"]
  /\ web'  = [web EXCEPT ![k] = "idle"]
  /\ UNCHANGED <<stored, queue, worker, faulted>>

-----------------------------------------------------------------------------
(* The ingestion worker *)

At(w, pc)    == worker[w].pc = pc
Goes(w, to)  == worker' = [worker EXCEPT ![w] = to]
Moves(w, pc) == Goes(w, [worker[w] EXCEPT !.pc = pc])

\* A waiting job is fetched by a free worker.
Takes(w, j, task) == At(w, "free") /\ j \in queue /\ j.task = task
                     /\ queue' = queue \ {j}

\* The source is loaded and the request marked running.
StartSync(w, j) ==
  /\ Takes(w, j, "sync")
  /\ sync' = [sync EXCEPT ![j.by] = "running"]
  /\ Goes(w, [Free EXCEPT !.pc = "started", !.key = {j.by}])
  /\ UNCHANGED <<stored, web, faulted>>

\* current_artifact
ReadBaseline(w) ==
  /\ At(w, "started")
  /\ Goes(w, [worker[w] EXCEPT !.pc = "fetching", !.base = current])
  /\ UNCHANGED <<stored, sync, web, queue, faulted>>

\* The collector captures the document, or fails, or the captured bytes are not
\* a document; an unchanged one (or a 304) ends the sync without changes.
Fetch(w) ==
  /\ At(w, "fetching")
  /\ \/ IF worker[w].base = {published}
        THEN Moves(w, "synced")
        ELSE Goes(w, [worker[w] EXCEPT !.pc = "fetched", !.doc = published])
     \/ Moves(w, "raised")
  /\ UNCHANGED <<stored, sync, web, queue, faulted>>

\* The statuses of the fan-out jobs after the insertion of new events.
FannedOut(new) ==
  [a \in Analyses |-> IF a[1] \in new /\ fanout[a] = "absent" THEN "queued"
                      ELSE fanout[a]]

ArtifactApart(w) == current' = {worker[w].doc} /\ UNCHANGED <<events, fanout, first>> \* mutant
RolledBack(w)    == UNCHANGED <<current, events, fanout, first>>

\* commit: artifact, events, fan-out jobs, health and the idempotency record, in
\* one transaction.  It does not ask whether the artifact that was compared with
\* is still the current one.
Commit(w) ==
  LET found == Normalize(worker[w].base, worker[w].doc)
  IN  /\ At(w, "fetched")
      /\ \/ /\ current' = {worker[w].doc}
            /\ events'  = events \cup found
            /\ fanout'  = FannedOut(found \ events)
            /\ first'   = IF worker[w].base = {} THEN first \cup current' ELSE first
            /\ Goes(w, [worker[w] EXCEPT !.pc = "synced", !.ids = found])
         \/ RolledBack(w) /\ Moves(w, "raised")
      /\ UNCHANGED <<published, migrations, sync, web, queue, faulted, raisedOn>>

SyncIs(w, status) ==
  sync' = [k \in Keys |-> IF k \in worker[w].key THEN status ELSE sync[k]]

MarkCompleted(w) ==
  /\ At(w, "synced")
  /\ SyncIs(w, "completed") /\ Moves(w, "marked")
  /\ UNCHANGED <<stored, web, queue, faulted>>

MarkFailed(w) ==
  /\ At(w, "raised")
  /\ SyncIs(w, "failed") /\ Goes(w, Free)
  /\ UNCHANGED <<stored, web, queue, faulted>>

\* The follow-up job carries the ids of the changes, new or known.
DeferEnqueue(w) ==
  /\ At(w, "marked") /\ Goes(w, Free)
  /\ \/ /\ queue' = queue \cup {EnqueueJob(k, worker[w].ids) : k \in worker[w].key}
        /\ UNCHANGED faulted
     \/ /\ "refused" \in Faults /\ faulted' = TRUE
        /\ UNCHANGED queue
  /\ UNCHANGED <<stored, sync, web>>

-----------------------------------------------------------------------------
(* The analysis worker *)

\* enqueue_repository_analysis: one job for each fan-out job still queued; a
\* defer that is refused, or the worker's death, leaves out the rest.  One
\* action: a fan-out job claimed between the read and its defer is skipped by
\* ClaimFanout, as is any other duplicate.
EnqueueAnalyses(w, j) ==
  LET waiting == {a \in Analyses : a[1] \in j.of /\ fanout[a] = "queued"}
  IN  /\ At(w, "free") /\ j \in queue /\ j.task = "enqueue"
      /\ \E some \in SUBSET waiting :
           /\ queue' = (queue \ {j}) \cup {AnalyzeJob(j.by, a) : a \in some}
           /\ faulted' = (faulted \/ some # waiting)
      /\ UNCHANGED <<stored, sync, web, worker>>

ClaimableTwice(a) == fanout[a] \in {"queued", "analyzing"}              \* mutant
ClaimableFanout(a) == fanout[a] = "queued"

\* claim_fanout_job: a job that is not queued is skipped; a repository that has
\* been disabled, or has no checkout metadata, is noticed after the claim.
ClaimFanout(w, j, found) ==
  LET a == CHOOSE a \in j.of : TRUE
  IN  /\ Takes(w, j, "analyze")
      /\ IF ClaimableFanout(a)
         THEN /\ fanout' = [fanout EXCEPT ![a] = "analyzing"]
              /\ Goes(w, [Free EXCEPT !.pc = IF found THEN "analyzing" ELSE "analysisFailed",
                                      !.ids = {a}])
         ELSE UNCHANGED <<fanout, worker>>
      /\ UNCHANGED <<published, current, events, migrations, sync, web, faulted, history>>

\* The claim is inside the try: when its transaction raises (no connection, a
\* statement refused), the except clause goes on to fail the job by its id,
\* whoever may be analyzing it.  (A claim that was committed and whose answer was
\* lost is a ClaimFanout without its context.)
ClaimRaises(w, j) ==
  /\ Takes(w, j, "analyze")
  /\ Goes(w, [Free EXCEPT !.pc = "analysisFailed", !.ids = j.of])
  /\ raisedOn' = raisedOn \cup j.of /\ faulted' = TRUE
  /\ UNCHANGED <<published, current, events, fanout, migrations, sync, web, first>>

FanoutIs(w, status) ==
  [a \in Analyses |-> IF a \in worker[w].ids /\ fanout[a] = "analyzing" THEN status
                      ELSE fanout[a]]

\* complete_fanout_job: an affected repository gets a migration, in the same
\* transaction.  Or checkout, inventory, analysis or the transaction raised.
CompleteFanout(w, conclusion) ==
  /\ At(w, "analyzing")
  /\ fanout' = FanoutIs(w, "completed")
  /\ migrations' = migrations \cup (IF conclusion = "affected" THEN worker[w].ids ELSE {})
  /\ Goes(w, Free)
  /\ UNCHANGED <<published, current, events, sync, web, queue, faulted, history>>

AnalysisRaises(w) ==
  /\ At(w, "analyzing") /\ Moves(w, "analysisFailed")
  /\ UNCHANGED <<stored, sync, web, queue, faulted>>

\* fail_fanout_job
FailFanout(w) ==
  /\ At(w, "analysisFailed")
  /\ fanout' = FanoutIs(w, "failed") /\ Goes(w, Free)
  /\ UNCHANGED <<published, current, events, migrations, sync, web, queue, faulted, history>>

-----------------------------------------------------------------------------
WebCrash(k) ==
  /\ web[k] # "idle" /\ web' = [web EXCEPT ![k] = "idle"] /\ faulted' = TRUE
  /\ UNCHANGED <<stored, sync, queue, worker>>

WorkerCrash(w) ==
  /\ ~At(w, "free") /\ Goes(w, Free) /\ faulted' = TRUE
  /\ UNCHANGED <<stored, sync, web, queue>>

Request(k) == RequestSync(k) \/ DeferSync(k) \/ MarkQueueFailed(k)

Ingestion(w) ==
  \/ \E j \in queue : StartSync(w, j)
  \/ ReadBaseline(w) \/ Fetch(w) \/ Commit(w)
  \/ MarkCompleted(w) \/ MarkFailed(w) \/ DeferEnqueue(w)

Analysis(w) ==
  \/ \E j \in queue : EnqueueAnalyses(w, j) \/ ClaimRaises(w, j)
  \/ \E j \in queue, found \in BOOLEAN : ClaimFanout(w, j, found)
  \/ \E conclusion \in {"affected", "unaffected", "uncertain", "unsupported"} :
       CompleteFanout(w, conclusion)
  \/ AnalysisRaises(w) \/ FailFanout(w)

Next ==
  \/ \E doc \in Documents : Publish(doc)
  \/ \E k \in Keys : Request(k) \/ WebCrash(k)
  \/ \E w \in Workers : Ingestion(w) \/ Analysis(w) \/ WorkerCrash(w)

Spec == Init /\ [][Next]_vars

-----------------------------------------------------------------------------
(* Properties *)

Jobs ==
  [task : {"sync"}, by : Keys, of : {{}}]
  \cup [task : {"enqueue"}, by : Keys, of : SUBSET Changes]
  \cup [task : {"analyze"}, by : Keys, of : {{a} : a \in Analyses}]

SyncWorker ==
  [ pc : {"started", "fetching", "fetched", "synced", "marked", "raised"},
    key : {{k} : k \in Keys}, base : SUBSET Documents, doc : Documents,
    ids : SUBSET Changes ]
AnalysisWorker ==
  [ pc : {"analyzing", "analysisFailed"}, key : {{}}, base : {{}}, doc : {{}},
    ids : {{a} : a \in Analyses} ]

\* Every variable has its type.
TypeOK ==
  /\ published \in Documents
  /\ current \in {{}} \cup {{doc} : doc \in Documents}
  /\ events \subseteq Changes /\ migrations \subseteq Analyses
  /\ fanout \in [Analyses -> {"absent", "queued", "analyzing", "completed", "failed"}]
  /\ sync \in [Keys -> {"absent", "queued", "running", "completed", "failed"}]
  /\ web \in [Keys -> {"idle", "deferring", "refused"}]
  /\ queue \subseteq Jobs
  /\ worker \in [Workers -> {Free} \cup SyncWorker \cup AnalysisWorker]
  /\ faulted \in BOOLEAN /\ first \subseteq Documents /\ raisedOn \subseteq Analyses

\* However syncs overlap, fail and die: every entry in which the current document
\* differs from one captured first has a change event, and the event has a fan-out
\* job for every repository.  A commit may compare with an artifact that is no
\* longer the current one, but never with one whose own changes were not recorded.
MovesAreSeen ==
  \A doc \in current : \E f \in first : \A e \in (doc \ f) \cup (f \ doc) :
    \E c \in events : c[1] = e /\ \A r \in Repositories : fanout[<<c, r>>] # "absent"

\* No two workers are between reading the baseline and their commit.  The code does
\* nothing to keep it so; what depends on it names it.
SyncsDoNotOverlap ==
  \A v, w \in Workers :
    worker[v].pc \in {"fetching", "fetched"} /\ worker[w].pc \in {"fetching", "fetched"} => v = w

\* Whatever the captured document lists that the one captured before it did not,
\* or no longer lists, is a change event of its own.  It is not so for an OpenAPI
\* source when a sync commits between another's reading of the baseline and its
\* commit: what the first added and the second finds gone again is not recorded.
NoChangeIsMissed ==
  [][current' # current =>
       \A doc \in current' : Normalize(current, doc) \subseteq events']_vars

\* A fan-out job is analyzed by one worker at a time, however often it was
\* enqueued: a sync names known events again and enqueues what still waits.
AnalysisIsExclusive ==
  \A v, w \in Workers :
    At(v, "analyzing") /\ At(w, "analyzing") /\ worker[v].ids = worker[w].ids => v = w

\* A migration stands on a fan-out job that completed: complete_fanout_job makes
\* it before, and whether or not, it finds its job still analyzing.  The exception
\* is a job that was failed under its worker by another whose claim raised.
MigrationHasItsJob ==
  \A m \in migrations :
    fanout[m] = "completed" \/ (fanout[m] = "failed" /\ m \in raisedOn)

\* A sync request that is completed or failed stays so (phase-2, "Repeating a
\* sync key returns its durable queued, running, completed, or failed state
\* without scheduling another job"; contracts.md, "terminal state is not
\* overwritten").
TerminalSyncStays ==
  [][\A k \in Keys : sync[k] \in {"completed", "failed"} => sync'[k] = sync[k]]_vars

\* Unless a process died, a follow-up could not be deferred or a claim raised,
\* every request and every fan-out job that is not finished is in somebody's hands.
Analyzing(w) == worker[w].pc \in {"analyzing", "analysisFailed"}

Carried(a) ==
  \/ \E j \in queue : \/ j.task = "enqueue" /\ a[1] \in j.of
                      \/ j.task = "analyze" /\ a \in j.of
  \/ \E w \in Workers : At(w, "synced") /\ a[1] \in worker[w].ids
  \/ \E w \in Workers : At(w, "marked") /\ a[1] \in worker[w].ids

WorkIsCarried ==
  ~faulted =>
    /\ \A k \in Keys :
         /\ sync[k] = "queued" => web[k] # "idle" \/ SyncJob(k) \in queue
         /\ sync[k] = "running" => \E w \in Workers : k \in worker[w].key
    /\ \A a \in Analyses :
         /\ fanout[a] = "queued" => Carried(a)
         /\ fanout[a] = "analyzing" =>
              \E w \in Workers : Analyzing(w) /\ a \in worker[w].ids

=============================================================================
