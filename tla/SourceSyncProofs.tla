-------------------------- MODULE SourceSyncProofs --------------------------
(***************************************************************************)
(* What SourceSync guarantees for every number of entries, repositories,   *)
(* requests and workers, and for both adapters.                            *)
(*                                                                         *)
(* After the types come two independent halves: the fan-out jobs (who      *)
(* analyzes which) and the sync requests (in whose hands each one is).     *)
(* They meet in WorkIsCarried.                                             *)
(***************************************************************************)
EXTENDS SourceSync, TLAPS

-----------------------------------------------------------------------------
(* Types *)

\* What an adapter states of two documents are changes.
LEMMA NormalizeTyped ==
  ASSUME NEW base \in SUBSET Documents, NEW doc \in Documents
  PROVE  Normalize(base, doc) \subseteq Changes
BY DEF Normalize, Changes, Entries

\* Analyses of a set of new changes are the only ones that become queued.
LEMMA FannedOutTyped ==
  ASSUME TypeOK, NEW new
  PROVE  FannedOut(new) \in
           [Analyses -> {"absent", "queued", "analyzing", "completed", "failed"}]
BY DEF FannedOut, TypeOK

\* A worker's analysis ends with a status of the table.
LEMMA FanoutIsTyped ==
  ASSUME TypeOK, NEW w, NEW s \in {"completed", "failed"}
  PROVE  FanoutIs(w, s) \in
           [Analyses -> {"absent", "queued", "analyzing", "completed", "failed"}]
BY DEF FanoutIs, TypeOK

\* The state of a worker says what it holds.
LEMMA WorkerKinds ==
  ASSUME TypeOK, NEW w \in Workers
  PROVE  /\ worker[w] \in {Free} \cup SyncWorker \cup AnalysisWorker
         /\ worker[w].pc = "free" => worker[w] = Free
         /\ worker[w].pc \in {"started", "fetching", "fetched", "synced", "marked", "raised"} =>
              worker[w] \in SyncWorker
         /\ Analyzing(w) => worker[w] \in AnalysisWorker
BY DEF TypeOK, Free, SyncWorker, AnalysisWorker, Analyzing

\* A step of one worker keeps the others.
LEMMA WorkerGoes ==
  ASSUME TypeOK, NEW w \in Workers,
         NEW to \in {Free} \cup SyncWorker \cup AnalysisWorker, Goes(w, to)
  PROVE  /\ worker' \in [Workers -> {Free} \cup SyncWorker \cup AnalysisWorker]
         /\ worker'[w] = to
         /\ \A v \in Workers \ {w} : worker'[v] = worker[v]
BY DEF TypeOK, Goes

\* An analyze job names one fan-out job.
LEMMA AnalyzeJobNames ==
  ASSUME TypeOK, NEW j \in queue, j.task = "analyze"
  PROVE  \E a \in Analyses : j.of = {a} /\ (CHOOSE b \in j.of : TRUE) = a
<1>1. PICK a \in Analyses : j.of = {a}
  BY DEF TypeOK, Jobs
<1>2. QED
  BY <1>1

\* The key of a job is one of the keys.
LEMMA JobKey == ASSUME TypeOK, NEW j \in queue PROVE j.by \in Keys
BY DEF TypeOK, Jobs

\* Every action keeps the types.
LEMMA TypeStep == TypeOK /\ [Next]_vars => TypeOK'
<1> SUFFICES ASSUME TypeOK, [Next]_vars PROVE TypeOK'
  OBVIOUS
<1>1. ASSUME NEW doc \in Documents, Publish(doc) PROVE TypeOK'
  BY <1>1 DEF Publish, history, TypeOK
<1>2. ASSUME NEW k \in Keys, Request(k) PROVE TypeOK'
  <2>1. CASE RequestSync(k)
    BY <2>1 DEF RequestSync, stored, history, TypeOK
  <2>2. CASE DeferSync(k)
    <3>1. SyncJob(k) \in Jobs
      BY DEF SyncJob, Jobs
    <3>2. QED
      BY <2>2, <3>1 DEF DeferSync, stored, history, TypeOK
  <2>3. CASE MarkQueueFailed(k)
    BY <2>3 DEF MarkQueueFailed, stored, history, TypeOK
  <2>4. QED
    BY <1>2, <2>1, <2>2, <2>3 DEF Request
<1>3. ASSUME NEW k \in Keys, WebCrash(k) PROVE TypeOK'
  BY <1>3 DEF WebCrash, stored, history, TypeOK
<1>4. ASSUME NEW w \in Workers, Ingestion(w) PROVE TypeOK'
  <2>1. CASE \E j \in queue : StartSync(w, j)
    <3>1. PICK j \in queue : StartSync(w, j)
      BY <2>1
    <3> DEFINE to == [Free EXCEPT !.pc = "started", !.key = {j.by}]
    <3>2. to \in SyncWorker
      BY JobKey, DocumentsAssumption DEF Free, SyncWorker
    <3>3. Goes(w, to)
      BY <3>1 DEF StartSync
    <3> HIDE DEF to
    <3>4. worker' \in [Workers -> {Free} \cup SyncWorker \cup AnalysisWorker]
      BY <3>2, <3>3, WorkerGoes
    <3>5. QED
      BY <3>1, <3>4, JobKey DEF StartSync, Takes, stored, history, TypeOK
  <2>2. CASE ReadBaseline(w)
    <3>1. worker[w] \in SyncWorker /\ current \in SUBSET Documents
      BY <2>2, WorkerKinds DEF ReadBaseline, At, TypeOK
    <3> DEFINE to == [worker[w] EXCEPT !.pc = "fetching", !.base = current]
    <3>2. to \in SyncWorker
      BY <3>1 DEF SyncWorker
    <3>3. Goes(w, to)
      BY <2>2 DEF ReadBaseline
    <3> HIDE DEF to
    <3>4. worker' \in [Workers -> {Free} \cup SyncWorker \cup AnalysisWorker]
      BY <3>2, <3>3, WorkerGoes
    <3>5. QED
      BY <2>2, <3>4 DEF ReadBaseline, stored, history, TypeOK
  <2>3. CASE Fetch(w)
    <3>1. worker[w] \in SyncWorker /\ published \in Documents
      BY <2>3, WorkerKinds DEF Fetch, At, TypeOK
    <3>2. /\ [worker[w] EXCEPT !.pc = "synced"] \in SyncWorker
          /\ [worker[w] EXCEPT !.pc = "raised"] \in SyncWorker
          /\ [worker[w] EXCEPT !.pc = "fetched", !.doc = published] \in SyncWorker
      BY <3>1 DEF SyncWorker
    <3>3. worker' \in [Workers -> {Free} \cup SyncWorker \cup AnalysisWorker]
      BY <2>3, <3>2, WorkerGoes DEF Fetch, Moves
    <3>4. QED
      BY <2>3, <3>3 DEF Fetch, stored, history, TypeOK
  <2>4. CASE Commit(w)
    <3> DEFINE found == Normalize(worker[w].base, worker[w].doc)
    <3>1. worker[w] \in SyncWorker
      BY <2>4, WorkerKinds DEF Commit, At
    <3>2. found \subseteq Changes
      BY <3>1, NormalizeTyped DEF SyncWorker
    <3>3. /\ [worker[w] EXCEPT !.pc = "raised"] \in SyncWorker
          /\ [worker[w] EXCEPT !.pc = "synced", !.ids = found] \in SyncWorker
      BY <3>1, <3>2 DEF SyncWorker
    <3>4. worker' \in [Workers -> {Free} \cup SyncWorker \cup AnalysisWorker]
      BY <2>4, <3>3, WorkerGoes DEF Commit, Moves
    <3>5. {worker[w].doc} \in {{doc} : doc \in Documents}
      BY <3>1 DEF SyncWorker
    <3>6. events \cup found \subseteq Changes
      BY <3>2 DEF TypeOK
    <3>7. first' \subseteq Documents
      BY <2>4, <3>1 DEF Commit, RolledBack, SyncWorker, TypeOK
    <3> HIDE DEF found
    <3>8. QED
      BY <2>4, <3>4, <3>5, <3>6, <3>7, FannedOutTyped DEF Commit, RolledBack, TypeOK, found
  <2>5. CASE MarkCompleted(w)
    <3>1. worker[w] \in SyncWorker
      BY <2>5, WorkerKinds DEF MarkCompleted, At
    <3>2. [worker[w] EXCEPT !.pc = "marked"] \in SyncWorker
      BY <3>1 DEF SyncWorker
    <3>3. worker' \in [Workers -> {Free} \cup SyncWorker \cup AnalysisWorker]
      BY <2>5, <3>2, WorkerGoes DEF MarkCompleted, Moves
    <3>4. QED
      BY <2>5, <3>3 DEF MarkCompleted, SyncIs, stored, history, TypeOK
  <2>6. CASE MarkFailed(w)
    <3>1. worker' \in [Workers -> {Free} \cup SyncWorker \cup AnalysisWorker]
      BY <2>6, WorkerGoes DEF MarkFailed
    <3>2. QED
      BY <2>6, <3>1 DEF MarkFailed, SyncIs, stored, history, TypeOK
  <2>7. CASE DeferEnqueue(w)
    <3>1. worker[w] \in SyncWorker
      BY <2>7, WorkerKinds DEF DeferEnqueue, At
    <3>2. {EnqueueJob(k, worker[w].ids) : k \in worker[w].key} \subseteq Jobs
      BY <3>1 DEF EnqueueJob, Jobs, SyncWorker
    <3>3. worker' \in [Workers -> {Free} \cup SyncWorker \cup AnalysisWorker]
      BY <2>7, WorkerGoes DEF DeferEnqueue
    <3>4. QED
      BY <2>7, <3>2, <3>3 DEF DeferEnqueue, stored, history, TypeOK
  <2>8. QED
    BY <1>4, <2>1, <2>2, <2>3, <2>4, <2>5, <2>6, <2>7 DEF Ingestion
<1>5. ASSUME NEW w \in Workers, Analysis(w) PROVE TypeOK'
  <2>1. CASE \E j \in queue : EnqueueAnalyses(w, j)
    <3>1. PICK j \in queue : EnqueueAnalyses(w, j)
      BY <2>1
    <3>2. \A a \in Analyses : AnalyzeJob(j.by, a) \in Jobs
      BY JobKey DEF AnalyzeJob, Jobs
    <3>3. queue' \subseteq Jobs /\ faulted' \in BOOLEAN
      BY <3>1, <3>2 DEF EnqueueAnalyses, TypeOK
    <3>4. QED
      BY <3>1, <3>3 DEF EnqueueAnalyses, stored, history, TypeOK
  <2>2. CASE \E j \in queue, found \in BOOLEAN : ClaimFanout(w, j, found)
    <3>1. PICK j \in queue, found \in BOOLEAN : ClaimFanout(w, j, found)
      BY <2>2
    <3>2. PICK a \in Analyses : j.of = {a} /\ (CHOOSE b \in j.of : TRUE) = a
      BY <3>1, AnalyzeJobNames DEF ClaimFanout, Takes
    <3> DEFINE to == [Free EXCEPT !.pc = IF found THEN "analyzing" ELSE "analysisFailed",
                                  !.ids = {a}]
    <3>3. to \in AnalysisWorker
      BY DEF Free, AnalysisWorker
    <3>4. \/ Goes(w, to) /\ fanout' = [fanout EXCEPT ![a] = "analyzing"]
          \/ UNCHANGED <<fanout, worker>>
      BY <3>1, <3>2 DEF ClaimFanout
    <3> HIDE DEF to
    <3>5. worker' \in [Workers -> {Free} \cup SyncWorker \cup AnalysisWorker]
      BY <3>3, <3>4, WorkerGoes DEF TypeOK
    <3>6. QED
      BY <3>1, <3>4, <3>5 DEF ClaimFanout, Takes, history, TypeOK
  <2>3. CASE \E conclusion \in {"affected", "unaffected", "uncertain", "unsupported"} :
               CompleteFanout(w, conclusion)
    <3>1. worker[w] \in AnalysisWorker
      BY <2>3, WorkerKinds DEF CompleteFanout, At, Analyzing
    <3>2. worker[w].ids \subseteq Analyses
      BY <3>1 DEF AnalysisWorker
    <3>3. worker' \in [Workers -> {Free} \cup SyncWorker \cup AnalysisWorker]
      BY <2>3, WorkerGoes DEF CompleteFanout
    <3>4. QED
      BY <2>3, <3>2, <3>3, FanoutIsTyped DEF CompleteFanout, history, TypeOK
  <2>4. CASE AnalysisRaises(w)
    <3>1. worker[w] \in AnalysisWorker
      BY <2>4, WorkerKinds DEF AnalysisRaises, At, Analyzing
    <3>2. [worker[w] EXCEPT !.pc = "analysisFailed"] \in AnalysisWorker
      BY <3>1 DEF AnalysisWorker
    <3>3. worker' \in [Workers -> {Free} \cup SyncWorker \cup AnalysisWorker]
      BY <2>4, <3>2, WorkerGoes DEF AnalysisRaises, Moves
    <3>4. QED
      BY <2>4, <3>3 DEF AnalysisRaises, stored, history, TypeOK
  <2>5. CASE FailFanout(w)
    <3>1. worker' \in [Workers -> {Free} \cup SyncWorker \cup AnalysisWorker]
      BY <2>5, WorkerGoes DEF FailFanout
    <3>2. QED
      BY <2>5, <3>1, FanoutIsTyped DEF FailFanout, history, TypeOK
  <2>6. CASE \E j \in queue : ClaimRaises(w, j)
    <3>1. PICK j \in queue : ClaimRaises(w, j)
      BY <2>6
    <3>2. PICK a \in Analyses : j.of = {a}
      BY <3>1, AnalyzeJobNames DEF ClaimRaises, Takes
    <3> DEFINE to == [Free EXCEPT !.pc = "analysisFailed", !.ids = j.of]
    <3>3. to \in AnalysisWorker
      BY <3>2 DEF Free, AnalysisWorker
    <3>4. Goes(w, to)
      BY <3>1 DEF ClaimRaises
    <3> HIDE DEF to
    <3>5. worker' \in [Workers -> {Free} \cup SyncWorker \cup AnalysisWorker]
      BY <3>3, <3>4, WorkerGoes
    <3>6. QED
      BY <3>1, <3>2, <3>5 DEF ClaimRaises, Takes, TypeOK
  <2>7. QED
    BY <1>5, <2>1, <2>2, <2>3, <2>4, <2>5, <2>6 DEF Analysis
<1>6. ASSUME NEW w \in Workers, WorkerCrash(w) PROVE TypeOK'
  <2>1. worker' \in [Workers -> {Free} \cup SyncWorker \cup AnalysisWorker]
    BY <1>6, WorkerGoes DEF WorkerCrash
  <2>2. QED
    BY <1>6, <2>1 DEF WorkerCrash, stored, history, TypeOK
<1>7. CASE UNCHANGED vars
  BY <1>7 DEF vars, history, TypeOK
<1>8. QED
  BY <1>1, <1>2, <1>3, <1>4, <1>5, <1>6, <1>7 DEF Next

\* Every variable keeps its type.
THEOREM SyncTypesHold == Spec => []TypeOK
<1>1. Init => TypeOK
  <2> SUFFICES ASSUME Init PROVE TypeOK
    OBVIOUS
  <2>1. /\ published \in Documents /\ current = {}
        /\ events \subseteq Changes /\ migrations \subseteq Analyses /\ queue \subseteq Jobs
    BY DEF Init
  <2>2. /\ fanout \in [Analyses -> {"absent", "queued", "analyzing", "completed", "failed"}]
        /\ sync \in [Keys -> {"absent", "queued", "running", "completed", "failed"}]
        /\ web \in [Keys -> {"idle", "deferring", "refused"}]
    BY DEF Init
  <2>3. worker \in [Workers -> {Free} \cup SyncWorker \cup AnalysisWorker]
    BY DEF Init
  <2>4. QED
    BY <2>1, <2>2, <2>3 DEF Init, TypeOK
<1>2. QED
  BY <1>1, TypeStep, PTL DEF Spec

-----------------------------------------------------------------------------
(* The fan-out jobs: what a step may do to them and to those who hold them. *)

\* Nobody takes a job or begins to analyze; whoever goes on has the same job.
NobodyBegins ==
  \A v \in Workers :
    Analyzing(v)' => /\ Analyzing(v) /\ worker'[v].ids = worker[v].ids
                     /\ At(v, "analyzing")' => At(v, "analyzing")

\* A worker claims a job that waited.
Claims(w, a) ==
  /\ fanout[a] = "queued" /\ fanout' = [fanout EXCEPT ![a] = "analyzing"]
  /\ UNCHANGED <<migrations, raisedOn>>
  /\ worker'[w].ids = {a}
  /\ \A v \in Workers \ {w} : worker'[v] = worker[v]

\* A worker's claim raises, and it will fail the job all the same.
Raises(w, a) ==
  /\ UNCHANGED <<fanout, migrations>> /\ raisedOn' = raisedOn \cup {a}
  /\ worker'[w].ids = {a} /\ ~At(w, "analyzing")'
  /\ \A v \in Workers \ {w} : worker'[v] = worker[v]

\* A worker settles the job it has; only one that analyzed it completes it.
Settles(w, s) ==
  /\ Analyzing(w) /\ ~Analyzing(w)'
  /\ fanout' = FanoutIs(w, s) /\ UNCHANGED raisedOn
  /\ \/ UNCHANGED migrations /\ s = "failed"
     \/ At(w, "analyzing") /\ s = "completed" /\ migrations' \subseteq migrations \cup worker[w].ids
  /\ \A v \in Workers \ {w} : worker'[v] = worker[v]

\* Every step leaves the fan-out jobs alone, adds some, claims one, fails to, or
\* settles one.
LEMMA FanoutEffects ==
  ASSUME TypeOK, [Next]_vars
  PROVE  \/ UNCHANGED <<fanout, migrations, raisedOn>> /\ NobodyBegins
         \/ /\ \E new : fanout' = FannedOut(new)
            /\ UNCHANGED <<migrations, raisedOn>> /\ NobodyBegins
         \/ \E w \in Workers, a \in Analyses : Claims(w, a) \/ Raises(w, a)
         \/ \E w \in Workers, s \in {"completed", "failed"} : Settles(w, s)
<1> DEFINE Quiet == UNCHANGED <<fanout, migrations, raisedOn>> /\ NobodyBegins
<1>1. ASSUME NEW doc \in Documents, Publish(doc) PROVE Quiet
  BY <1>1 DEF Publish, history, NobodyBegins, Analyzing, At
<1>2. ASSUME NEW k \in Keys, Request(k) PROVE Quiet
  BY <1>2 DEF Request, RequestSync, DeferSync, MarkQueueFailed, stored, history,
              NobodyBegins, Analyzing, At
<1>3. ASSUME NEW k \in Keys, WebCrash(k) PROVE Quiet
  BY <1>3 DEF WebCrash, stored, history, NobodyBegins, Analyzing, At
<1>4. ASSUME NEW w \in Workers, NEW to, Goes(w, to), to.pc \notin {"analyzing", "analysisFailed"}
      PROVE  NobodyBegins
  BY <1>4 DEF Goes, NobodyBegins, Analyzing, At, TypeOK
<1>5. ASSUME NEW w \in Workers, Ingestion(w)
      PROVE  \/ Quiet
             \/ /\ \E new : fanout' = FannedOut(new)
                /\ UNCHANGED <<migrations, raisedOn>> /\ NobodyBegins
  <2>1. CASE \E j \in queue : StartSync(w, j)
    BY <2>1, <1>4 DEF StartSync, stored, history, Free
  <2>2. CASE Commit(w)
    <3>1. worker[w] \in SyncWorker
      BY <2>2, WorkerKinds DEF Commit, At
    <3>2. NobodyBegins
      BY <2>2, <3>1, <1>4 DEF Commit, Moves, SyncWorker
    <3>3. QED
      BY <2>2, <3>2 DEF Commit, RolledBack
  <2>3. CASE ReadBaseline(w) \/ Fetch(w) \/ MarkCompleted(w)
    <3>1. worker[w] \in SyncWorker
      BY <2>3, WorkerKinds DEF ReadBaseline, Fetch, MarkCompleted, At
    <3>2. NobodyBegins
      BY <2>3, <3>1, <1>4 DEF ReadBaseline, Fetch, MarkCompleted, Moves, SyncWorker
    <3>3. QED
      BY <2>3, <3>2 DEF ReadBaseline, Fetch, MarkCompleted, stored, history
  <2>4. CASE MarkFailed(w) \/ DeferEnqueue(w)
    BY <2>4, <1>4 DEF MarkFailed, DeferEnqueue, stored, history, Free
  <2>5. QED
    BY <1>5, <2>1, <2>2, <2>3, <2>4 DEF Ingestion
<1>6. ASSUME NEW w \in Workers, Analysis(w)
      PROVE  \/ Quiet
             \/ \E a \in Analyses : Claims(w, a) \/ Raises(w, a)
             \/ \E s \in {"completed", "failed"} : Settles(w, s)
  <2>1. CASE \E j \in queue : EnqueueAnalyses(w, j)
    BY <2>1 DEF EnqueueAnalyses, stored, history, NobodyBegins, Analyzing, At
  <2>2. CASE \E j \in queue, found \in BOOLEAN : ClaimFanout(w, j, found)
    <3>1. PICK j \in queue, found \in BOOLEAN : ClaimFanout(w, j, found)
      BY <2>2
    <3>2. PICK a \in Analyses : j.of = {a} /\ (CHOOSE b \in j.of : TRUE) = a
      BY <3>1, AnalyzeJobNames DEF ClaimFanout, Takes
    <3>3. CASE ClaimableFanout(a)
      <4> DEFINE to == [Free EXCEPT !.pc = IF found THEN "analyzing" ELSE "analysisFailed",
                                    !.ids = {a}]
      <4>1. to \in AnalysisWorker /\ to.ids = {a}
        BY DEF Free, AnalysisWorker
      <4>2. /\ Goes(w, to) /\ fanout' = [fanout EXCEPT ![a] = "analyzing"]
            /\ UNCHANGED <<migrations, raisedOn>>
        BY <3>1, <3>2, <3>3 DEF ClaimFanout, history
      <4> HIDE DEF to
      <4>3. worker'[w].ids = {a} /\ \A v \in Workers \ {w} : worker'[v] = worker[v]
        BY <4>1, <4>2, WorkerGoes
      <4>4. QED
        BY <3>3, <4>2, <4>3 DEF Claims, ClaimableFanout
    <3>4. CASE ~ClaimableFanout(a)
      BY <3>1, <3>2, <3>4 DEF ClaimFanout, history, NobodyBegins, Analyzing, At
    <3>5. QED
      BY <3>3, <3>4
  <2>3. CASE \E j \in queue : ClaimRaises(w, j)
    <3>1. PICK j \in queue : ClaimRaises(w, j)
      BY <2>3
    <3>2. PICK a \in Analyses : j.of = {a}
      BY <3>1, AnalyzeJobNames DEF ClaimRaises, Takes
    <3> DEFINE to == [Free EXCEPT !.pc = "analysisFailed", !.ids = j.of]
    <3>3. to \in AnalysisWorker /\ to.ids = {a} /\ to.pc = "analysisFailed"
      BY <3>2 DEF Free, AnalysisWorker
    <3>4. /\ Goes(w, to) /\ UNCHANGED <<fanout, migrations>>
          /\ raisedOn' = raisedOn \cup {a}
      BY <3>1, <3>2 DEF ClaimRaises
    <3> HIDE DEF to
    <3>5. worker'[w] = to /\ \A v \in Workers \ {w} : worker'[v] = worker[v]
      BY <3>3, <3>4, WorkerGoes
    <3>6. QED
      BY <3>3, <3>4, <3>5 DEF Raises, At
  <2>4. ASSUME NEW conclusion, CompleteFanout(w, conclusion)
        PROVE  Settles(w, "completed")
    BY <2>4 DEF CompleteFanout, At, Goes, Free, Settles, history, Analyzing, TypeOK
  <2>5. CASE AnalysisRaises(w)
    BY <2>5 DEF AnalysisRaises, At, Moves, Goes, stored, history, NobodyBegins, Analyzing, TypeOK
  <2>6. CASE FailFanout(w)
    BY <2>6 DEF FailFanout, At, Goes, Free, Settles, history, Analyzing, TypeOK
  <2>7. QED
    BY <1>6, <2>1, <2>2, <2>3, <2>4, <2>5, <2>6 DEF Analysis
<1>7. ASSUME NEW w \in Workers, WorkerCrash(w) PROVE Quiet
  BY <1>7, <1>4 DEF WorkerCrash, stored, history, Free
<1>8. CASE UNCHANGED vars
  BY <1>8 DEF vars, history, NobodyBegins, Analyzing, At
<1>9. QED
  BY <1>1, <1>2, <1>3, <1>5, <1>6, <1>7, <1>8 DEF Next

\* A job that a worker has is still "analyzing", unless a claim of it raised.
HoldsItsJob ==
  \A w \in Workers : Analyzing(w) =>
    \A a \in worker[w].ids : a \in raisedOn \/ fanout[a] = "analyzing"

\* A job that is being analyzed has been claimed, and waits no more.
WasClaimed ==
  \A w \in Workers : At(w, "analyzing") =>
    \A a \in worker[w].ids : fanout[a] \in {"analyzing", "failed"}

\* Nobody else has it, unless a claim of it raised.
HoldsItAlone ==
  \A v, w \in Workers : Analyzing(v) /\ Analyzing(w) =>
    \A a \in worker[v].ids \cap worker[w].ids : a \in raisedOn \/ v = w

FanoutInStep ==
  HoldsItsJob /\ WasClaimed /\ HoldsItAlone /\ AnalysisIsExclusive /\ MigrationHasItsJob

\* The claim is what keeps two workers apart: it succeeds on a job that waits,
\* and a job that waits is analyzed by nobody.
LEMMA FanoutStep == TypeOK /\ FanoutInStep /\ [Next]_vars => FanoutInStep'
<1> SUFFICES ASSUME TypeOK, FanoutInStep, [Next]_vars PROVE FanoutInStep'
  OBVIOUS
<1>1. TypeOK'
  BY TypeStep
<1>2. \A w \in Workers : Analyzing(w) => \E a \in Analyses : worker[w].ids = {a}
  BY WorkerKinds DEF AnalysisWorker
<1>3. \A w \in Workers : At(w, "analyzing") => Analyzing(w)
  BY DEF At, Analyzing
<1>4. \A w \in Workers : At(w, "analyzing")' => Analyzing(w)'
  BY DEF At, Analyzing
<1>5. ASSUME NobodyBegins, UNCHANGED <<migrations, raisedOn>>,
             UNCHANGED fanout \/ \E new : fanout' = FannedOut(new)
      PROVE  FanoutInStep'
  <2>1. \A a \in Analyses : fanout[a] \in {"analyzing", "completed", "failed"} =>
                              fanout'[a] = fanout[a]
    BY <1>5 DEF FannedOut, TypeOK
  <2>2. HoldsItsJob'
    BY <1>2, <1>5, <2>1 DEF FanoutInStep, HoldsItsJob, NobodyBegins
  <2>3. WasClaimed'
    BY <1>2, <1>3, <1>4, <1>5, <2>1 DEF FanoutInStep, WasClaimed, NobodyBegins
  <2>4. HoldsItAlone'
    BY <1>5 DEF FanoutInStep, HoldsItAlone, NobodyBegins
  <2>5. AnalysisIsExclusive'
    BY <1>4, <1>5 DEF FanoutInStep, AnalysisIsExclusive, NobodyBegins
  <2>6. MigrationHasItsJob'
    BY <1>5, <2>1 DEF FanoutInStep, MigrationHasItsJob, TypeOK
  <2>7. QED
    BY <2>2, <2>3, <2>4, <2>5, <2>6 DEF FanoutInStep
<1>6. ASSUME NEW w \in Workers, NEW a \in Analyses, Claims(w, a) PROVE FanoutInStep'
  <2>1. \A v \in Workers : At(v, "analyzing") => a \notin worker[v].ids
    BY <1>6 DEF Claims, FanoutInStep, WasClaimed
  <2>2. \A v \in Workers : Analyzing(v) /\ a \in worker[v].ids => a \in raisedOn
    BY <1>6 DEF Claims, FanoutInStep, HoldsItsJob
  <2>3. \A v \in Workers \ {w} :
          /\ worker'[v] = worker[v]
          /\ Analyzing(v)' => Analyzing(v)
          /\ At(v, "analyzing")' => At(v, "analyzing")
    BY <1>6 DEF Claims, Analyzing, At
  <2>4. fanout'[a] = "analyzing" /\ \A b \in Analyses \ {a} : fanout'[b] = fanout[b]
    BY <1>6 DEF Claims, TypeOK
  <2>5. worker'[w].ids = {a} /\ UNCHANGED <<migrations, raisedOn>>
    BY <1>6 DEF Claims
  <2>6. HoldsItsJob'
    BY <1>2, <2>3, <2>4, <2>5 DEF FanoutInStep, HoldsItsJob
  <2>7. WasClaimed'
    BY <1>2, <1>3, <2>3, <2>4, <2>5 DEF FanoutInStep, WasClaimed
  <2>8. HoldsItAlone'
    BY <2>2, <2>3, <2>5 DEF FanoutInStep, HoldsItAlone
  <2>9. AnalysisIsExclusive'
    BY <2>1, <2>3, <2>5 DEF FanoutInStep, AnalysisIsExclusive
  <2>10. MigrationHasItsJob'
    <3>1. fanout[a] = "queued"
      BY <1>6 DEF Claims
    <3>2. QED
      BY <2>4, <2>5, <3>1 DEF FanoutInStep, MigrationHasItsJob, TypeOK
  <2>11. QED
    BY <2>6, <2>7, <2>8, <2>9, <2>10 DEF FanoutInStep
<1>7. ASSUME NEW w \in Workers, NEW a \in Analyses, Raises(w, a) PROVE FanoutInStep'
  <2>1. \A v \in Workers \ {w} :
          /\ worker'[v] = worker[v]
          /\ Analyzing(v)' => Analyzing(v)
          /\ At(v, "analyzing")' => At(v, "analyzing")
    BY <1>7 DEF Raises, Analyzing, At
  <2>2. /\ worker'[w].ids = {a} /\ ~At(w, "analyzing")'
        /\ UNCHANGED <<fanout, migrations>> /\ raisedOn' = raisedOn \cup {a}
    BY <1>7 DEF Raises
  <2>3. HoldsItsJob' /\ HoldsItAlone'
    BY <2>1, <2>2 DEF FanoutInStep, HoldsItsJob, HoldsItAlone
  <2>4. WasClaimed' /\ AnalysisIsExclusive'
    BY <2>1, <2>2 DEF FanoutInStep, WasClaimed, AnalysisIsExclusive
  <2>5. MigrationHasItsJob'
    BY <2>2 DEF FanoutInStep, MigrationHasItsJob
  <2>6. QED
    BY <2>3, <2>4, <2>5 DEF FanoutInStep
<1>8. ASSUME NEW w \in Workers, NEW s \in {"completed", "failed"}, Settles(w, s)
      PROVE  FanoutInStep'
  <2>1. PICK a \in Analyses : worker[w].ids = {a}
    BY <1>2, <1>8 DEF Settles
  <2>2. /\ UNCHANGED raisedOn
        /\ fanout'[a] = IF fanout[a] = "analyzing" THEN s ELSE fanout[a]
        /\ \A b \in Analyses \ {a} : fanout'[b] = fanout[b]
    BY <1>8, <2>1 DEF Settles, FanoutIs
  <2>3. \A v \in Workers :
          Analyzing(v)' => /\ v # w /\ Analyzing(v) /\ worker'[v] = worker[v]
                           /\ At(v, "analyzing")' => At(v, "analyzing")
    BY <1>8 DEF Settles, Analyzing, At
  <2>4. \A v \in Workers : Analyzing(v)' /\ a \in worker'[v].ids => a \in raisedOn
    BY <1>8, <2>1, <2>3 DEF Settles, FanoutInStep, HoldsItAlone
  <2>5. HoldsItsJob'
    BY <1>2, <2>2, <2>3, <2>4 DEF FanoutInStep, HoldsItsJob
  <2>6. WasClaimed'
    <3> SUFFICES ASSUME NEW v \in Workers, At(v, "analyzing")', NEW b \in worker'[v].ids
                 PROVE  fanout'[b] \in {"analyzing", "failed"}
      BY DEF WasClaimed
    <3>1. /\ v # w /\ At(v, "analyzing") /\ worker'[v] = worker[v] /\ b \in Analyses
          /\ fanout[b] \in {"analyzing", "failed"} /\ worker[v].ids = {b}
      BY <1>2, <1>3, <1>4, <2>3 DEF FanoutInStep, WasClaimed
    <3>2. CASE b # a
      BY <2>2, <3>1, <3>2
    <3>3. CASE b = a
      <4>1. ~At(w, "analyzing")
        BY <2>1, <3>1, <3>3 DEF FanoutInStep, AnalysisIsExclusive
      <4>2. s = "failed"
        BY <1>8, <4>1 DEF Settles
      <4>3. QED
        BY <2>2, <3>1, <3>3, <4>2
    <3>4. QED
      BY <3>2, <3>3
  <2>7. HoldsItAlone'
    BY <2>2, <2>3 DEF FanoutInStep, HoldsItAlone
  <2>8. AnalysisIsExclusive'
    BY <1>4, <2>3 DEF FanoutInStep, AnalysisIsExclusive
  <2>9. MigrationHasItsJob'
    <3> SUFFICES ASSUME NEW m \in migrations'
                 PROVE  fanout'[m] = "completed" \/ (fanout'[m] = "failed" /\ m \in raisedOn')
      BY DEF MigrationHasItsJob
    <3>1. CASE m \in migrations
      <4>1. m \in Analyses /\ fanout[m] # "analyzing"
        BY <3>1 DEF FanoutInStep, MigrationHasItsJob, TypeOK
      <4>2. fanout'[m] = fanout[m]
        BY <2>2, <4>1
      <4>3. QED
        BY <2>2, <3>1, <4>2 DEF FanoutInStep, MigrationHasItsJob
    <3>2. CASE m \notin migrations
      <4>1. m = a /\ At(w, "analyzing") /\ s = "completed"
        BY <1>8, <2>1, <3>2 DEF Settles
      <4>2. fanout[a] \in {"analyzing", "failed"}
        BY <2>1, <4>1 DEF FanoutInStep, WasClaimed
      <4>3. fanout[a] = "analyzing" \/ a \in raisedOn
        BY <1>3, <2>1, <4>1 DEF FanoutInStep, HoldsItsJob
      <4>4. QED
        BY <2>2, <4>1, <4>2, <4>3
    <3>3. QED
      BY <3>1, <3>2
  <2>10. QED
    BY <2>5, <2>6, <2>7, <2>8, <2>9 DEF FanoutInStep
<1>9. QED
  BY <1>5, <1>6, <1>7, <1>8, FanoutEffects

\* Holds from the first state on.
LEMMA FanoutHolds == Spec => []FanoutInStep
<1>1. Init => FanoutInStep
  BY DEF Init, Free, FanoutInStep, HoldsItsJob, WasClaimed, HoldsItAlone,
         AnalysisIsExclusive, MigrationHasItsJob, Analyzing, At
<1>2. QED
  BY <1>1, FanoutStep, SyncTypesHold, PTL DEF Spec

\* A fan-out job is analyzed by one worker at a time, however often it was
\* enqueued and whatever claims raise (claim_fanout_job).
THEOREM AnalysesAreExclusive == Spec => []AnalysisIsExclusive
BY FanoutHolds, PTL DEF FanoutInStep

\* A migration stands on a fan-out job that completed, or on one that was failed
\* under its worker by another whose claim of it raised (complete_fanout_job,
\* fail_fanout_job).
THEOREM MigrationsHaveTheirJobs == Spec => []MigrationHasItsJob
BY FanoutHolds, PTL DEF FanoutInStep

-----------------------------------------------------------------------------
(* The sync requests: one job and one worker for each key. *)

Has(w, k) == k \in worker[w].key
Unserved(k) == SyncJob(k) \notin queue /\ \A w \in Workers : ~Has(w, k)

\* A request is with the web process, in the queue, or with one worker; the
\* status says which, unless the router took a queued job for a refused one.
SyncInStep ==
  \A k \in Keys :
    /\ sync[k] = "absent" => web[k] = "idle" /\ Unserved(k)
    /\ web[k] = "deferring" => sync[k] = "queued" /\ Unserved(k)
    /\ SyncJob(k) \in queue =>
         sync[k] \in {"queued", "failed"} /\ \A w \in Workers : ~Has(w, k)
    /\ \A w \in Workers :
         Has(w, k) => sync[k] \in (IF At(w, "marked") THEN {"completed", "failed"}
                                   ELSE {"running", "failed"})
    /\ \A v, w \in Workers : Has(v, k) /\ Has(w, k) => v = w

\* If no defer's answer is lost, the status says so exactly.
SyncUnmistaken ==
  \A k \in Keys :
    /\ web[k] = "refused" => sync[k] = "queued" /\ Unserved(k)
    /\ SyncJob(k) \in queue => sync[k] = "queued"
    /\ \A w \in Workers :
         Has(w, k) => sync[k] = (IF At(w, "marked") THEN "completed" ELSE "running")

\* No request moves on, though some may be dropped.
NoSyncMoves ==
  /\ UNCHANGED sync
  /\ \A k \in Keys : web'[k] \in {web[k], "idle"}
  /\ \A k \in Keys : SyncJob(k) \in queue' => SyncJob(k) \in queue
  /\ \A w \in Workers : \A k \in Keys :
       Has(w, k)' => Has(w, k) /\ (At(w, "marked")' <=> At(w, "marked"))

\* Only six kinds of step move a request on.
LEMMA SyncEffects ==
  ASSUME TypeOK, [Next]_vars
  PROVE  \/ NoSyncMoves
         \/ \E k \in Keys : Request(k)
         \/ \E w \in Workers : MarkCompleted(w) \/ MarkFailed(w) \/ \E j \in queue : StartSync(w, j)
<1>1. ASSUME NEW doc \in Documents, Publish(doc) PROVE NoSyncMoves
  BY <1>1 DEF Publish, NoSyncMoves, Has, At
<1>2. ASSUME NEW k \in Keys, WebCrash(k) PROVE NoSyncMoves
  BY <1>2 DEF WebCrash, stored, NoSyncMoves, Has, At, TypeOK
<1>3. ASSUME NEW w \in Workers, NEW to \in {Free} \cup SyncWorker \cup AnalysisWorker,
             Goes(w, to), UNCHANGED <<sync, web>>,
             \A k \in Keys : SyncJob(k) \in queue' => SyncJob(k) \in queue,
             to.key = {} \/ (to.key = worker[w].key /\ to.pc # "marked" /\ ~At(w, "marked"))
      PROVE  NoSyncMoves
  <2>1. worker'[w] = to /\ \A v \in Workers \ {w} : worker'[v] = worker[v]
    BY <1>3, WorkerGoes
  <2>2. QED
    BY <1>3, <2>1 DEF NoSyncMoves, Has, At, TypeOK
<1>4. Free.key = {} /\ \A r \in AnalysisWorker : r.key = {}
  BY DEF Free, AnalysisWorker
<1>5. ASSUME NEW w \in Workers, ReadBaseline(w) \/ Fetch(w) \/ Commit(w) PROVE NoSyncMoves
  <2>1. worker[w] \in SyncWorker /\ ~At(w, "marked")
    BY <1>5, WorkerKinds DEF ReadBaseline, Fetch, Commit, At
  <2>2. /\ UNCHANGED <<sync, web, queue>>
        /\ \/ Goes(w, [worker[w] EXCEPT !.pc = "fetching", !.base = current])
           \/ Goes(w, [worker[w] EXCEPT !.pc = "synced"])
           \/ Goes(w, [worker[w] EXCEPT !.pc = "fetched", !.doc = published])
           \/ Goes(w, [worker[w] EXCEPT !.pc = "raised"])
           \/ Goes(w, [worker[w] EXCEPT !.pc = "synced",
                                        !.ids = Normalize(worker[w].base, worker[w].doc)])
    BY <1>5 DEF ReadBaseline, Fetch, Commit, Moves, stored
  <2>3. /\ worker'[w].key = worker[w].key /\ worker'[w].pc # "marked"
        /\ \A v \in Workers \ {w} : worker'[v] = worker[v]
    <3>1. ASSUME NEW to, Goes(w, to) PROVE /\ worker'[w] = to
                                           /\ \A v \in Workers \ {w} : worker'[v] = worker[v]
      BY <3>1 DEF Goes, TypeOK
    <3>2. /\ [worker[w] EXCEPT !.pc = "fetching", !.base = current].key = worker[w].key
          /\ [worker[w] EXCEPT !.pc = "fetching", !.base = current].pc = "fetching"
          /\ [worker[w] EXCEPT !.pc = "synced"].key = worker[w].key
          /\ [worker[w] EXCEPT !.pc = "synced"].pc = "synced"
          /\ [worker[w] EXCEPT !.pc = "raised"].key = worker[w].key
          /\ [worker[w] EXCEPT !.pc = "raised"].pc = "raised"
      BY <2>1 DEF SyncWorker
    <3>3. /\ [worker[w] EXCEPT !.pc = "fetched", !.doc = published].key = worker[w].key
          /\ [worker[w] EXCEPT !.pc = "fetched", !.doc = published].pc = "fetched"
      BY <2>1 DEF SyncWorker
    <3>4. CASE Goes(w, [worker[w] EXCEPT !.pc = "fetching", !.base = current])
      BY <3>1, <3>2, <3>4
    <3>5. CASE Goes(w, [worker[w] EXCEPT !.pc = "synced"])
      BY <3>1, <3>2, <3>5
    <3>6. CASE Goes(w, [worker[w] EXCEPT !.pc = "fetched", !.doc = published])
      BY <3>1, <3>3, <3>6
    <3>7. CASE Goes(w, [worker[w] EXCEPT !.pc = "raised"])
      BY <3>1, <3>2, <3>7
    <3>8. CASE Goes(w, [worker[w] EXCEPT !.pc = "synced",
                                         !.ids = Normalize(worker[w].base, worker[w].doc)])
      <4>1. PICK ids : Goes(w, [worker[w] EXCEPT !.pc = "synced", !.ids = ids])
        BY <3>8
      <4> DEFINE to == [worker[w] EXCEPT !.pc = "synced", !.ids = ids]
      <4>2. to.key = worker[w].key /\ to.pc = "synced"
        BY <2>1 DEF SyncWorker
      <4>3. Goes(w, to)
        BY <4>1
      <4> HIDE DEF to
      <4>4. QED
        BY <3>1, <4>2, <4>3
    <3>9. QED
      BY <2>2, <3>4, <3>5, <3>6, <3>7, <3>8
  <2>4. QED
    BY <2>1, <2>2, <2>3 DEF NoSyncMoves, Has, At, TypeOK
<1>6. ASSUME NEW w \in Workers, DeferEnqueue(w) PROVE NoSyncMoves
  <2>1. \A k \in Keys : SyncJob(k) \in queue' => SyncJob(k) \in queue
    BY <1>6 DEF DeferEnqueue, SyncJob, EnqueueJob
  <2>2. QED
    BY <1>3, <1>4, <1>6, <2>1 DEF DeferEnqueue
<1>7. ASSUME NEW w \in Workers, Analysis(w) PROVE NoSyncMoves
  <2>1. CASE \E j \in queue : EnqueueAnalyses(w, j)
    <3>1. \A k \in Keys : SyncJob(k) \in queue' => SyncJob(k) \in queue
      BY <2>1 DEF EnqueueAnalyses, SyncJob, AnalyzeJob
    <3>2. QED
      BY <2>1, <3>1 DEF EnqueueAnalyses, NoSyncMoves, Has, At, TypeOK
  <2>2. CASE \E j \in queue, found \in BOOLEAN : ClaimFanout(w, j, found)
    <3>1. PICK j \in queue, found \in BOOLEAN : ClaimFanout(w, j, found)
      BY <2>2
    <3> DEFINE a == CHOOSE b \in j.of : TRUE
               to == [Free EXCEPT !.pc = IF found THEN "analyzing" ELSE "analysisFailed",
                                  !.ids = {a}]
    <3>2. a \in Analyses
      BY <3>1, AnalyzeJobNames DEF ClaimFanout, Takes
    <3>3. to \in AnalysisWorker
      BY <3>2 DEF Free, AnalysisWorker
    <3>4. /\ UNCHANGED <<sync, web>> /\ queue' \subseteq queue
          /\ Goes(w, to) \/ UNCHANGED worker
      BY <3>1 DEF ClaimFanout, Takes
    <3> HIDE DEF to
    <3>5. CASE Goes(w, to)
      BY <1>3, <1>4, <3>3, <3>4, <3>5
    <3>6. CASE UNCHANGED worker
      BY <3>4, <3>6 DEF NoSyncMoves, Has, At, TypeOK
    <3>7. QED
      BY <3>4, <3>5, <3>6
  <2>3. CASE \/ \E conclusion \in {"affected", "unaffected", "uncertain", "unsupported"} :
                  CompleteFanout(w, conclusion)
             \/ FailFanout(w)
    BY <1>3, <1>4, <2>3 DEF CompleteFanout, FailFanout
  <2>4. CASE AnalysisRaises(w)
    <3>1. worker[w] \in AnalysisWorker
      BY <2>4, WorkerKinds DEF AnalysisRaises, At, Analyzing
    <3>2. [worker[w] EXCEPT !.pc = "analysisFailed"] \in AnalysisWorker
      BY <3>1 DEF AnalysisWorker
    <3>3. QED
      BY <1>3, <1>4, <2>4, <3>2 DEF AnalysisRaises, Moves, stored
  <2>5. CASE \E j \in queue : ClaimRaises(w, j)
    <3>1. PICK j \in queue : ClaimRaises(w, j)
      BY <2>5
    <3> DEFINE to == [Free EXCEPT !.pc = "analysisFailed", !.ids = j.of]
    <3>2. to \in AnalysisWorker
      BY <3>1, AnalyzeJobNames DEF ClaimRaises, Takes, Free, AnalysisWorker
    <3>3. Goes(w, to) /\ UNCHANGED <<sync, web>> /\ queue' \subseteq queue
      BY <3>1 DEF ClaimRaises, Takes
    <3> HIDE DEF to
    <3>4. QED
      BY <1>3, <1>4, <3>2, <3>3
  <2>6. QED
    BY <1>7, <2>1, <2>2, <2>3, <2>4, <2>5 DEF Analysis
<1>8. ASSUME NEW w \in Workers, WorkerCrash(w) PROVE NoSyncMoves
  BY <1>3, <1>4, <1>8 DEF WorkerCrash, stored
<1>9. CASE UNCHANGED vars
  BY <1>9 DEF vars, NoSyncMoves, Has, At, TypeOK
<1>10. QED
  BY <1>1, <1>2, <1>5, <1>6, <1>7, <1>8, <1>9 DEF Next, Ingestion

\* Each key is created once and has one job, so one worker ever serves it.
LEMMA SyncStep == TypeOK /\ SyncInStep /\ [Next]_vars => SyncInStep'
<1> SUFFICES ASSUME TypeOK, SyncInStep, [Next]_vars PROVE SyncInStep'
  OBVIOUS
<1>1. CASE NoSyncMoves
  BY <1>1 DEF NoSyncMoves, SyncInStep, Unserved
<1>2. ASSUME NEW k \in Keys, RequestSync(k) PROVE SyncInStep'
  BY <1>2 DEF RequestSync, NewKey, SyncInStep, Unserved, Has, At, TypeOK
<1>3. ASSUME NEW k \in Keys, DeferSync(k) PROVE SyncInStep'
  <2>1. \A i \in Keys : SyncJob(i) = SyncJob(k) => i = k
    BY DEF SyncJob
  <2>2. QED
    BY <1>3, <2>1 DEF DeferSync, SyncInStep, Unserved, Has, At, TypeOK
<1>4. ASSUME NEW k \in Keys, MarkQueueFailed(k) PROVE SyncInStep'
  BY <1>4 DEF MarkQueueFailed, SyncInStep, Unserved, Has, At, TypeOK
<1>5. ASSUME NEW w \in Workers, MarkCompleted(w) PROVE SyncInStep'
  <2>1. worker[w] \in SyncWorker
    BY <1>5, WorkerKinds DEF MarkCompleted, At
  <2>2. /\ worker'[w].key = worker[w].key /\ worker'[w].pc = "marked"
        /\ \A v \in Workers \ {w} : worker'[v] = worker[v]
    BY <1>5, <2>1 DEF MarkCompleted, Moves, Goes, SyncWorker, TypeOK
  <2>3. \A k \in Keys : sync'[k] = IF Has(w, k) THEN "completed" ELSE sync[k]
    BY <1>5 DEF MarkCompleted, SyncIs, Has
  <2>4. UNCHANGED <<web, queue>>
    BY <1>5 DEF MarkCompleted
  <2>5. QED
    BY <2>2, <2>3, <2>4 DEF SyncInStep, Unserved, Has, At
<1>6. ASSUME NEW w \in Workers, MarkFailed(w) PROVE SyncInStep'
  <2>1. /\ worker'[w].key = {} /\ \A v \in Workers \ {w} : worker'[v] = worker[v]
    BY <1>6 DEF MarkFailed, Goes, Free, TypeOK
  <2>2. \A k \in Keys : sync'[k] = IF Has(w, k) THEN "failed" ELSE sync[k]
    BY <1>6 DEF MarkFailed, SyncIs, Has
  <2>3. UNCHANGED <<web, queue>>
    BY <1>6 DEF MarkFailed
  <2>4. QED
    BY <2>1, <2>2, <2>3 DEF SyncInStep, Unserved, Has, At
<1>7. ASSUME NEW w \in Workers, NEW j \in queue, StartSync(w, j) PROVE SyncInStep'
  <2>1. PICK k \in Keys : j = SyncJob(k)
    BY <1>7 DEF StartSync, Takes, SyncJob, Jobs, TypeOK
  <2>2. /\ worker'[w].key = {k} /\ worker'[w].pc = "started"
        /\ \A v \in Workers \ {w} : worker'[v] = worker[v]
    BY <1>7, <2>1 DEF StartSync, Goes, Free, SyncJob, TypeOK
  <2>3. /\ sync' = [sync EXCEPT ![k] = "running"]
        /\ queue' = queue \ {SyncJob(k)} /\ UNCHANGED web
    BY <1>7, <2>1 DEF StartSync, Takes, SyncJob
  <2>4. \A v \in Workers : ~Has(v, k)
    BY <2>1 DEF SyncInStep
  <2>5. web[k] # "deferring" /\ sync[k] # "absent"
    BY <2>1 DEF SyncInStep, Unserved
  <2>6. \A i \in Keys : i # k => sync'[i] = sync[i]
    BY <2>3 DEF TypeOK
  <2>7. sync'[k] = "running"
    BY <2>3 DEF TypeOK
  <2>8. SyncJob(k) \notin queue'
    BY <2>3
  <2>9. \A i \in Keys \ {k} : \A v \in Workers : Has(v, i)' => v # w /\ Has(v, i)
    BY <2>2 DEF Has
  <2>10. \A v \in Workers : Has(v, k)' => v = w
    BY <2>2, <2>4 DEF Has
  <2>11. \A v \in Workers \ {w} : At(v, "marked")' <=> At(v, "marked")
    BY <2>2 DEF At
  <2>12. ~At(w, "marked")'
    BY <2>2 DEF At
  <2>13. queue' \subseteq queue /\ UNCHANGED web
    BY <2>3
  <2>14. QED
    BY <2>5, <2>6, <2>7, <2>8, <2>9, <2>10, <2>11, <2>12, <2>13 DEF SyncInStep, Unserved
<1>8. QED
  BY <1>1, <1>2, <1>3, <1>4, <1>5, <1>6, <1>7, SyncEffects DEF Request

\* Holds from the first state on.
LEMMA SyncHolds == Spec => []SyncInStep
<1>1. Init => SyncInStep
  BY DEF Init, Free, SyncInStep, Unserved, Has
<1>2. QED
  BY <1>1, SyncStep, SyncTypesHold, PTL DEF Spec

-----------------------------------------------------------------------------
(* Terminal states.  They stay only where no defer's answer is lost: else    *)
(* the router marks a request failed that is queued after all.               *)

TerminalStays ==
  \A k \in Keys : sync[k] \in {"completed", "failed"} => sync'[k] = sync[k]

\* A refused request has no job and a queued one is not refused, so a request is
\* ended once, by its router or by its worker.
LEMMA UnmistakenStep ==
  ASSUME "lost" \notin Faults, TypeOK, SyncInStep, SyncUnmistaken, [Next]_vars
  PROVE  SyncUnmistaken' /\ TerminalStays
<1>1. CASE NoSyncMoves
  BY <1>1 DEF NoSyncMoves, SyncUnmistaken, Unserved, TerminalStays
<1>2. ASSUME NEW k \in Keys, RequestSync(k) PROVE SyncUnmistaken' /\ TerminalStays
  BY <1>2 DEF RequestSync, NewKey, SyncInStep, SyncUnmistaken, Unserved, Has, At,
              TerminalStays, TypeOK
<1>3. ASSUME NEW k \in Keys, DeferSync(k) PROVE SyncUnmistaken' /\ TerminalStays
  <2>1. \A i \in Keys : SyncJob(i) = SyncJob(k) => i = k
    BY DEF SyncJob
  <2>2. QED
    BY <1>3, <2>1 DEF DeferSync, SyncInStep, SyncUnmistaken, Unserved, Has, At,
                      TerminalStays, TypeOK
<1>4. ASSUME NEW k \in Keys, MarkQueueFailed(k) PROVE SyncUnmistaken' /\ TerminalStays
  BY <1>4 DEF MarkQueueFailed, SyncUnmistaken, Unserved, Has, At, TerminalStays, TypeOK
<1>5. ASSUME NEW w \in Workers, MarkCompleted(w) PROVE SyncUnmistaken' /\ TerminalStays
  <2>1. worker[w] \in SyncWorker /\ ~At(w, "marked")
    BY <1>5, WorkerKinds DEF MarkCompleted, At
  <2>2. /\ worker'[w].key = worker[w].key /\ worker'[w].pc = "marked"
        /\ \A v \in Workers \ {w} : worker'[v] = worker[v]
    BY <1>5, <2>1 DEF MarkCompleted, Moves, Goes, SyncWorker, TypeOK
  <2>3. \A k \in Keys : sync'[k] = IF Has(w, k) THEN "completed" ELSE sync[k]
    BY <1>5 DEF MarkCompleted, SyncIs, Has
  <2>4. UNCHANGED <<web, queue>>
    BY <1>5 DEF MarkCompleted
  <2>5. \A k \in Keys : Has(w, k) => \A v \in Workers : Has(v, k) => v = w
    BY DEF SyncInStep
  <2>6. \A k \in Keys : Has(w, k) => sync[k] = "running"
    BY <2>1 DEF SyncUnmistaken
  <2>7. QED
    BY <2>2, <2>3, <2>4, <2>5, <2>6
    DEF SyncUnmistaken, Unserved, Has, At, TerminalStays
<1>6. ASSUME NEW w \in Workers, MarkFailed(w) PROVE SyncUnmistaken' /\ TerminalStays
  <2>1. /\ worker'[w].key = {} /\ \A v \in Workers \ {w} : worker'[v] = worker[v]
    BY <1>6 DEF MarkFailed, Goes, Free, TypeOK
  <2>2. \A k \in Keys : sync'[k] = IF Has(w, k) THEN "failed" ELSE sync[k]
    BY <1>6 DEF MarkFailed, SyncIs, Has
  <2>3. UNCHANGED <<web, queue>> /\ ~At(w, "marked")
    BY <1>6 DEF MarkFailed, At
  <2>4. \A k \in Keys : Has(w, k) => \A v \in Workers : Has(v, k) => v = w
    BY DEF SyncInStep
  <2>5. \A k \in Keys : Has(w, k) => sync[k] = "running"
    BY <2>3 DEF SyncUnmistaken
  <2>6. QED
    BY <2>1, <2>2, <2>3, <2>4, <2>5
    DEF SyncUnmistaken, Unserved, Has, At, TerminalStays
<1>7. ASSUME NEW w \in Workers, NEW j \in queue, StartSync(w, j)
      PROVE  SyncUnmistaken' /\ TerminalStays
  <2>1. PICK k \in Keys : j = SyncJob(k)
    BY <1>7 DEF StartSync, Takes, SyncJob, Jobs, TypeOK
  <2>2. /\ worker'[w].key = {k} /\ worker'[w].pc = "started"
        /\ \A v \in Workers \ {w} : worker'[v] = worker[v]
    BY <1>7, <2>1 DEF StartSync, Goes, Free, SyncJob, TypeOK
  <2>3. /\ sync' = [sync EXCEPT ![k] = "running"]
        /\ queue' = queue \ {SyncJob(k)} /\ UNCHANGED web
    BY <1>7, <2>1 DEF StartSync, Takes, SyncJob
  <2>4. \A v \in Workers : ~Has(v, k)
    BY <2>1 DEF SyncInStep
  <2>5. web[k] # "refused" /\ sync[k] = "queued"
    BY <2>1 DEF SyncUnmistaken, Unserved
  <2>6. sync'[k] = "running" /\ \A i \in Keys : i # k => sync'[i] = sync[i]
    BY <2>3 DEF TypeOK
  <2>7. \A i \in Keys \ {k} : \A v \in Workers : Has(v, i)' => v # w /\ Has(v, i)
    BY <2>2 DEF Has
  <2>8. \A v \in Workers : Has(v, k)' => v = w
    BY <2>2, <2>4 DEF Has
  <2>9. ~At(w, "marked")' /\ \A v \in Workers \ {w} : At(v, "marked")' <=> At(v, "marked")
    BY <2>2 DEF At
  <2>10. SyncJob(k) \notin queue' /\ queue' \subseteq queue /\ UNCHANGED web
    BY <2>3
  <2>11. SyncUnmistaken'
    BY <2>5, <2>6, <2>7, <2>8, <2>9, <2>10 DEF SyncUnmistaken, Unserved
  <2>12. TerminalStays
    BY <2>5, <2>6 DEF TerminalStays
  <2>13. QED
    BY <2>11, <2>12
<1>8. QED
  BY <1>1, <1>2, <1>3, <1>4, <1>5, <1>6, <1>7, SyncEffects DEF Request

\* A sync request that is completed or failed stays so, if no defer is done with
\* its answer lost (_defer_source_sync, mark_sync_status).
THEOREM TerminalSyncsStay ==
  ASSUME "lost" \notin Faults
  PROVE  Spec => TerminalSyncStays
<1>1. Init => SyncUnmistaken
  BY DEF Init, Free, SyncUnmistaken, Unserved, Has
<1>2. TypeOK /\ SyncInStep /\ SyncUnmistaken /\ [Next]_vars => SyncUnmistaken' /\ TerminalStays
  BY UnmistakenStep
<1>3. TerminalStays =>
        \A k \in Keys : sync[k] \in {"completed", "failed"} => sync'[k] = sync[k]
  BY DEF TerminalStays
<1>4. QED
  BY <1>1, <1>2, <1>3, SyncTypesHold, SyncHolds, PTL DEF Spec, TerminalSyncStays

-----------------------------------------------------------------------------
(* Nothing is dropped. *)

RequestsCarried ==
  ~faulted => \A k \in Keys :
                /\ sync[k] = "queued" => web[k] # "idle" \/ SyncJob(k) \in queue
                /\ sync[k] = "running" => \E w \in Workers : k \in worker[w].key

JobsCarried ==
  ~faulted => \A a \in Analyses :
                /\ fanout[a] = "queued" => Carried(a)
                /\ fanout[a] = "analyzing" =>
                     \E w \in Workers : Analyzing(w) /\ a \in worker[w].ids

\* What carries a job goes on carrying it while no follow-up job is taken and
\* no worker that carries changes moves.
LEMMA CarriedOn ==
  ASSUME NEW w \in Workers, ~At(w, "synced"), ~At(w, "marked"),
         \A v \in Workers \ {w} : worker'[v] = worker[v],
         \A j \in queue : j.task # "sync" => j \in queue',
         NEW a \in Analyses, Carried(a)
  PROVE  Carried(a)'
BY DEF Carried, At

\* Every step that is not a fault leaves every fan-out job in somebody's hands.
LEMMA JobsCarriedStep ==
  TypeOK /\ JobsCarried /\ [Next]_vars => JobsCarried'
<1> SUFFICES ASSUME TypeOK, JobsCarried, [Next]_vars, ~faulted'
             PROVE  \A a \in Analyses :
                      /\ (fanout[a] = "queued")' => Carried(a)'
                      /\ (fanout[a] = "analyzing")' =>
                           \E w \in Workers : Analyzing(w)' /\ a \in worker'[w].ids
  BY DEF JobsCarried
<1> DEFINE Goal(a) == /\ fanout'[a] = "queued" => Carried(a)'
                      /\ fanout'[a] = "analyzing" =>
                           \E w \in Workers : Analyzing(w)' /\ a \in worker'[w].ids
<1>0. ASSUME NEW a \in Analyses, ~faulted
      PROVE  /\ fanout[a] = "queued" => Carried(a)
             /\ fanout[a] = "analyzing" =>
                  \E w \in Workers : Analyzing(w) /\ a \in worker[w].ids
  BY <1>0 DEF JobsCarried
<1>1. ASSUME UNCHANGED <<fanout, worker, faulted>>,
             \A j \in queue : j.task # "sync" => j \in queue',
             NEW a \in Analyses
      PROVE  Goal(a)
  BY <1>0, <1>1 DEF Carried, Analyzing, At
<1>2. ASSUME NEW doc \in Documents, Publish(doc), NEW a \in Analyses PROVE Goal(a)
  BY <1>1, <1>2 DEF Publish
<1>3. ASSUME NEW k \in Keys, Request(k), NEW a \in Analyses PROVE Goal(a)
  BY <1>1, <1>3 DEF Request, RequestSync, DeferSync, MarkQueueFailed, stored
<1>4. ASSUME NEW k \in Keys, WebCrash(k) PROVE FALSE
  BY <1>4 DEF WebCrash
<1>5. ASSUME NEW w \in Workers, NEW to, Goes(w, to), UNCHANGED <<fanout, faulted>>,
             ~At(w, "synced"), ~At(w, "marked"), ~Analyzing(w),
             \A j \in queue : j.task # "sync" => j \in queue',
             NEW a \in Analyses
      PROVE  Goal(a)
  <2>1. \A v \in Workers \ {w} : worker'[v] = worker[v]
    BY <1>5 DEF Goes, TypeOK
  <2>2. fanout[a] = "queued" => Carried(a)'
    BY <1>0, <1>5, <2>1, CarriedOn
  <2>3. fanout[a] = "analyzing" => \E v \in Workers : Analyzing(v)' /\ a \in worker'[v].ids
    BY <1>0, <1>5, <2>1 DEF Analyzing
  <2>4. QED
    BY <1>5, <2>2, <2>3
<1>6. ASSUME NEW w \in Workers, Ingestion(w), NEW a \in Analyses PROVE Goal(a)
  <2>1. CASE \E j \in queue : StartSync(w, j)
    BY <1>5, <2>1 DEF StartSync, Takes, At, Analyzing, stored
  <2>2. CASE ReadBaseline(w) \/ Fetch(w) \/ MarkFailed(w)
    BY <1>5, <2>2 DEF ReadBaseline, Fetch, MarkFailed, Moves, At, Analyzing, stored
  <2>3. CASE Commit(w)
    <3> DEFINE found == Normalize(worker[w].base, worker[w].doc)
    <3>1. ~At(w, "synced") /\ ~At(w, "marked") /\ ~Analyzing(w) /\ UNCHANGED <<queue, faulted>>
      BY <2>3 DEF Commit, At, Analyzing
    <3>2. CASE Moves(w, "raised") /\ UNCHANGED fanout
      BY <1>5, <3>1, <3>2 DEF Moves
    <3>3. CASE fanout' = FannedOut(found \ events)
               /\ Goes(w, [worker[w] EXCEPT !.pc = "synced", !.ids = found])
      <4>1. worker[w] \in SyncWorker
        BY <2>3, WorkerKinds DEF Commit, At
      <4>2. /\ worker'[w].pc = "synced" /\ worker'[w].ids = found
            /\ \A v \in Workers \ {w} : worker'[v] = worker[v]
        BY <3>3, <4>1 DEF Goes, SyncWorker, TypeOK
      <4> HIDE DEF found
      <4>3. /\ fanout'[a] = "queued" => fanout[a] = "queued" \/ a[1] \in found
            /\ fanout'[a] = "analyzing" => fanout[a] = "analyzing"
        BY <3>3 DEF FannedOut
      <4>4. a[1] \in found => Carried(a)'
        BY <4>2 DEF Carried, At
      <4>5. fanout[a] = "queued" => Carried(a)'
        BY <1>0, <3>1, <4>2, CarriedOn
      <4>6. fanout[a] = "analyzing" => \E v \in Workers : Analyzing(v)' /\ a \in worker'[v].ids
        BY <1>0, <3>1, <4>2 DEF Analyzing
      <4>7. QED
        BY <4>3, <4>4, <4>5, <4>6
    <3>4. QED
      BY <2>3, <3>2, <3>3 DEF Commit, RolledBack
  <2>4. CASE MarkCompleted(w)
    <3>1. worker[w] \in SyncWorker /\ ~Analyzing(w)
      BY <2>4, WorkerKinds DEF MarkCompleted, At, Analyzing
    <3>2. /\ worker'[w].ids = worker[w].ids /\ worker'[w].pc = "marked"
          /\ \A v \in Workers \ {w} : worker'[v] = worker[v]
      BY <2>4, <3>1 DEF MarkCompleted, Moves, Goes, SyncWorker, TypeOK
    <3>3. UNCHANGED <<fanout, queue, faulted>>
      BY <2>4 DEF MarkCompleted, stored
    <3>4. Carried(a) => Carried(a)'
      BY <3>2, <3>3 DEF Carried, At
    <3>5. fanout[a] = "analyzing" => \E v \in Workers : Analyzing(v)' /\ a \in worker'[v].ids
      BY <1>0, <3>1, <3>2, <3>3 DEF Analyzing
    <3>6. QED
      BY <1>0, <3>3, <3>4, <3>5
  <2>5. CASE DeferEnqueue(w)
    <3>1. PICK k \in Keys : worker[w].key = {k}
      BY <2>5, WorkerKinds DEF DeferEnqueue, At, SyncWorker
    <3>2. /\ queue' = queue \cup {EnqueueJob(k, worker[w].ids)}
          /\ UNCHANGED <<fanout, faulted>> /\ ~Analyzing(w)
          /\ \A v \in Workers \ {w} : worker'[v] = worker[v]
      BY <2>5, <3>1 DEF DeferEnqueue, Goes, At, Analyzing, stored, history, TypeOK
    <3>3. At(w, "marked")
      BY <2>5 DEF DeferEnqueue
    <3>4. Carried(a) => Carried(a)'
      <4> DEFINE e == EnqueueJob(k, worker[w].ids)
      <4>1. e \in queue' /\ e.task = "enqueue" /\ e.of = worker[w].ids
        BY <3>2 DEF EnqueueJob
      <4>2. \A j \in queue : j \in queue'
        BY <3>2
      <4> HIDE DEF e
      <4>3. QED
        BY <3>2, <3>3, <4>1, <4>2 DEF Carried, At
    <3>5. fanout[a] = "analyzing" => \E v \in Workers : Analyzing(v)' /\ a \in worker'[v].ids
      BY <1>0, <3>2 DEF Analyzing
    <3>6. QED
      BY <1>0, <3>2, <3>4, <3>5
  <2>6. QED
    BY <1>6, <2>1, <2>2, <2>3, <2>4, <2>5 DEF Ingestion
<1>7. ASSUME NEW w \in Workers, Analysis(w), NEW a \in Analyses PROVE Goal(a)
  <2>1. CASE \E j \in queue : EnqueueAnalyses(w, j)
    <3>1. PICK j \in queue : EnqueueAnalyses(w, j)
      BY <2>1
    <3> DEFINE waiting == {b \in Analyses : b[1] \in j.of /\ fanout[b] = "queued"}
    <3>2. /\ j.task = "enqueue" /\ UNCHANGED <<fanout, worker>> /\ ~faulted
          /\ queue' = (queue \ {j}) \cup {AnalyzeJob(j.by, b) : b \in waiting}
      BY <3>1 DEF EnqueueAnalyses, stored
    <3>3. fanout[a] = "queued" => Carried(a)'
      <4> SUFFICES ASSUME fanout[a] = "queued" PROVE Carried(a)'
        OBVIOUS
      <4>1. CASE a[1] \in j.of
        <5> DEFINE e == AnalyzeJob(j.by, a)
        <5>1. e \in queue' /\ e.task = "analyze" /\ a \in e.of
          BY <3>2, <4>1 DEF AnalyzeJob
        <5> HIDE DEF e
        <5>2. QED
          BY <5>1 DEF Carried
      <4>2. CASE a[1] \notin j.of
        <5>1. \A i \in queue : i # j => i \in queue'
          BY <3>2
        <5>2. QED
          BY <1>0, <3>2, <4>2, <5>1 DEF Carried, At
      <4>3. QED
        BY <4>1, <4>2
    <3>4. QED
      BY <1>0, <3>2, <3>3 DEF Analyzing
  <2>2. CASE \E j \in queue, found \in BOOLEAN : ClaimFanout(w, j, found)
    <3>1. PICK j \in queue, found \in BOOLEAN : ClaimFanout(w, j, found)
      BY <2>2
    <3>2. PICK b \in Analyses : j.of = {b} /\ (CHOOSE c \in j.of : TRUE) = b
      BY <3>1, AnalyzeJobNames DEF ClaimFanout, Takes
    <3>3. /\ At(w, "free") /\ ~faulted /\ j.task = "analyze"
          /\ \A i \in queue : i # j => i \in queue'
      BY <3>1 DEF ClaimFanout, Takes
    <3>4. CASE ClaimableFanout(b)
      <4> DEFINE to == [Free EXCEPT !.pc = IF found THEN "analyzing" ELSE "analysisFailed",
                                    !.ids = {b}]
      <4>1. /\ to \in AnalysisWorker /\ to.ids = {b}
            /\ to.pc \in {"analyzing", "analysisFailed"}
        BY DEF Free, AnalysisWorker
      <4>2. Goes(w, to) /\ fanout' = [fanout EXCEPT ![b] = "analyzing"]
        BY <3>1, <3>2, <3>4 DEF ClaimFanout
      <4> HIDE DEF to
      <4>3. worker'[w] = to /\ \A v \in Workers \ {w} : worker'[v] = worker[v]
        BY <4>1, <4>2, WorkerGoes
      <4>4. CASE a = b
        <5>1. fanout'[a] = "analyzing"
          BY <4>2, <4>4 DEF TypeOK
        <5>2. Analyzing(w)' /\ a \in worker'[w].ids
          BY <4>1, <4>3, <4>4 DEF Analyzing
        <5>3. QED
          BY <5>1, <5>2
      <4>5. CASE a # b
        <5>1. fanout'[a] = fanout[a]
          BY <4>2, <4>5 DEF TypeOK
        <5>2. Carried(a) => Carried(a)'
          BY <3>2, <3>3, <4>3, <4>5 DEF Carried, At
        <5>3. fanout[a] = "analyzing" =>
                \E v \in Workers : Analyzing(v)' /\ a \in worker'[v].ids
          BY <1>0, <3>3, <4>3 DEF Analyzing, At
        <5>4. QED
          BY <1>0, <3>3, <5>1, <5>2, <5>3
      <4>6. QED
        BY <4>4, <4>5
    <3>5. CASE ~ClaimableFanout(b)
      <4>1. UNCHANGED <<fanout, worker>> /\ fanout[b] # "queued"
        BY <3>1, <3>2, <3>5 DEF ClaimFanout, ClaimableFanout
      <4>2. a # b /\ Carried(a) => Carried(a)'
        BY <3>2, <3>3, <4>1 DEF Carried, At
      <4>3. QED
        BY <1>0, <3>3, <4>1, <4>2 DEF Analyzing
    <3>6. QED
      BY <3>4, <3>5
  <2>3. ASSUME NEW s \in {"completed", "failed"}, Analyzing(w), UNCHANGED <<queue, faulted>>,
               fanout' = FanoutIs(w, s), Goes(w, Free)
        PROVE  Goal(a)
    <3>1. \A v \in Workers \ {w} : worker'[v] = worker[v]
      BY <2>3 DEF Goes, TypeOK
    <3>2. worker[w] \in AnalysisWorker /\ ~At(w, "synced") /\ ~At(w, "marked")
      BY <2>3, WorkerKinds DEF Analyzing, At
    <3>3. Carried(a) => Carried(a)'
      BY <2>3, <3>1, <3>2, CarriedOn
    <3>4. /\ fanout'[a] = "queued" => fanout[a] = "queued"
          /\ fanout'[a] = "analyzing" => fanout[a] = "analyzing" /\ a \notin worker[w].ids
      BY <2>3 DEF FanoutIs
    <3>5. fanout'[a] = "analyzing" =>
            \E v \in Workers : Analyzing(v)' /\ a \in worker'[v].ids
      BY <1>0, <2>3, <3>1, <3>4 DEF Analyzing
    <3>6. QED
      BY <1>0, <2>3, <3>3, <3>4, <3>5
  <2>4. CASE \E conclusion \in {"affected", "unaffected", "uncertain", "unsupported"} :
               CompleteFanout(w, conclusion)
    BY <2>3, <2>4 DEF CompleteFanout, At, Analyzing
  <2>5. CASE FailFanout(w)
    BY <2>3, <2>5 DEF FailFanout, At, Analyzing
  <2>6. CASE AnalysisRaises(w)
    <3>1. worker[w] \in AnalysisWorker /\ UNCHANGED <<fanout, queue, faulted>>
      BY <2>6, WorkerKinds DEF AnalysisRaises, At, Analyzing, stored
    <3>2. /\ worker'[w].ids = worker[w].ids /\ worker'[w].pc = "analysisFailed"
          /\ \A v \in Workers \ {w} : worker'[v] = worker[v]
      BY <2>6, <3>1 DEF AnalysisRaises, Moves, Goes, AnalysisWorker, TypeOK
    <3>3. ~At(w, "synced") /\ ~At(w, "marked") /\ Analyzing(w)
      BY <2>6 DEF AnalysisRaises, At, Analyzing
    <3>4. Carried(a) => Carried(a)'
      BY <3>1, <3>2, <3>3, CarriedOn
    <3>5. QED
      BY <1>0, <3>1, <3>2, <3>4 DEF Analyzing
  <2>7. CASE \E j \in queue : ClaimRaises(w, j)
    BY <2>7 DEF ClaimRaises
  <2>8. QED
    BY <1>7, <2>1, <2>2, <2>4, <2>5, <2>6, <2>7 DEF Analysis
<1>8. ASSUME NEW w \in Workers, WorkerCrash(w) PROVE FALSE
  BY <1>8 DEF WorkerCrash
<1>9. ASSUME UNCHANGED vars, NEW a \in Analyses PROVE Goal(a)
  BY <1>1, <1>9 DEF vars
<1>10. QED
  BY <1>2, <1>3, <1>4, <1>6, <1>7, <1>8, <1>9 DEF Next

\* Every step that is not a fault leaves every unfinished sync request with the
\* web process, in the queue or with a worker.
LEMMA RequestsCarriedStep ==
  TypeOK /\ SyncInStep /\ RequestsCarried /\ [Next]_vars => RequestsCarried'
<1> SUFFICES ASSUME TypeOK, SyncInStep, RequestsCarried, [Next]_vars, ~faulted'
             PROVE  RequestsCarried'
  BY DEF RequestsCarried
<1>1. ASSUME UNCHANGED <<sync, web, faulted>>,
             \A k \in Keys : SyncJob(k) \in queue => SyncJob(k) \in queue',
             \A v \in Workers : \A k \in Keys : Has(v, k) => Has(v, k)' \/ sync[k] # "running"
      PROVE  RequestsCarried'
  BY <1>1 DEF RequestsCarried, Has
<1>2. ASSUME NEW w \in Workers, NEW to, Goes(w, to), UNCHANGED <<sync, web, faulted>>,
             \A k \in Keys : SyncJob(k) \in queue => SyncJob(k) \in queue',
             worker[w].key = {} \/ to.key = worker[w].key
      PROVE  RequestsCarried'
  <2>1. worker'[w] = to /\ \A v \in Workers \ {w} : worker'[v] = worker[v]
    BY <1>2 DEF Goes, TypeOK
  <2>2. QED
    BY <1>1, <1>2, <2>1 DEF Has
<1>3. Free.key = {} /\ \A r \in AnalysisWorker : r.key = {}
  BY DEF Free, AnalysisWorker
<1>4. ASSUME NEW doc \in Documents, Publish(doc) PROVE RequestsCarried'
  BY <1>1, <1>4 DEF Publish, Has
<1>5. ASSUME NEW k \in Keys, Request(k) PROVE RequestsCarried'
  <2>1. UNCHANGED <<worker, faulted>> /\ queue \subseteq queue'
    BY <1>5 DEF Request, RequestSync, DeferSync, MarkQueueFailed
  <2>2. \A i \in Keys \ {k} : sync'[i] = sync[i] /\ web'[i] = web[i]
    BY <1>5 DEF Request, RequestSync, DeferSync, MarkQueueFailed, TypeOK
  <2>3. CASE RequestSync(k)
    <3>1. sync'[k] = "queued" /\ web'[k] = "deferring"
      BY <2>3 DEF RequestSync, TypeOK
    <3>2. QED
      BY <2>1, <2>2, <3>1 DEF RequestsCarried
  <2>4. CASE DeferSync(k)
    <3>1. sync'[k] = sync[k] /\ (web'[k] = "refused" \/ SyncJob(k) \in queue')
      BY <2>4 DEF DeferSync, TypeOK
    <3>2. QED
      BY <2>1, <2>2, <3>1 DEF RequestsCarried
  <2>5. CASE MarkQueueFailed(k)
    <3>1. sync'[k] = "failed"
      BY <2>5 DEF MarkQueueFailed, TypeOK
    <3>2. QED
      BY <2>1, <2>2, <3>1 DEF RequestsCarried
  <2>6. QED
    BY <1>5, <2>3, <2>4, <2>5 DEF Request
<1>6. ASSUME NEW k \in Keys, WebCrash(k) PROVE FALSE
  BY <1>6 DEF WebCrash
<1>7. ASSUME NEW w \in Workers, Ingestion(w) PROVE RequestsCarried'
  <2>1. CASE \E j \in queue : StartSync(w, j)
    <3>1. PICK j \in queue : StartSync(w, j)
      BY <2>1
    <3>2. PICK k \in Keys : j = SyncJob(k)
      BY <3>1 DEF StartSync, Takes, SyncJob, Jobs, TypeOK
    <3>3. /\ worker'[w].key = {k} /\ worker[w].key = {}
          /\ \A v \in Workers \ {w} : worker'[v] = worker[v]
      BY <3>1, <3>2, <1>3, WorkerKinds DEF StartSync, Takes, At, Goes, Free, SyncJob, TypeOK
    <3>4. sync' = [sync EXCEPT ![k] = "running"] /\ UNCHANGED <<web, faulted>>
      BY <3>1, <3>2 DEF StartSync, SyncJob
    <3>5. \A i \in Keys \ {k} : SyncJob(i) \in queue => SyncJob(i) \in queue'
      BY <3>1, <3>2 DEF StartSync, Takes, SyncJob
    <3>6. sync'[k] = "running" /\ \A i \in Keys \ {k} : sync'[i] = sync[i]
      BY <3>4 DEF TypeOK
    <3>7. QED
      BY <3>3, <3>4, <3>5, <3>6 DEF RequestsCarried
  <2>2. CASE ReadBaseline(w) \/ Fetch(w) \/ Commit(w)
    <3>1. worker[w] \in SyncWorker /\ UNCHANGED <<sync, web, queue, faulted>>
      BY <2>2, WorkerKinds DEF ReadBaseline, Fetch, Commit, At
    <3>2. PICK to : Goes(w, to) /\ to.key = worker[w].key
      <4>1. /\ [worker[w] EXCEPT !.pc = "fetching", !.base = current].key = worker[w].key
            /\ [worker[w] EXCEPT !.pc = "synced"].key = worker[w].key
            /\ [worker[w] EXCEPT !.pc = "raised"].key = worker[w].key
            /\ [worker[w] EXCEPT !.pc = "fetched", !.doc = published].key = worker[w].key
        BY <3>1 DEF SyncWorker
      <4>2. \A ids : [worker[w] EXCEPT !.pc = "synced", !.ids = ids].key = worker[w].key
        BY <3>1 DEF SyncWorker
      <4>3. CASE ReadBaseline(w)
        BY <4>1, <4>3 DEF ReadBaseline
      <4>4. CASE Fetch(w)
        BY <4>1, <4>4 DEF Fetch, Moves
      <4>5. CASE Commit(w)
        BY <4>1, <4>2, <4>5 DEF Commit, Moves
      <4>6. QED
        BY <2>2, <4>3, <4>4, <4>5
    <3>3. QED
      BY <1>2, <3>1, <3>2
  <2>3. CASE MarkCompleted(w)
    <3>1. worker[w] \in SyncWorker /\ UNCHANGED <<web, queue, faulted>>
      BY <2>3, WorkerKinds DEF MarkCompleted, At
    <3>2. /\ worker'[w].key = worker[w].key
          /\ \A v \in Workers \ {w} : worker'[v] = worker[v]
      BY <2>3, <3>1 DEF MarkCompleted, Moves, Goes, SyncWorker, TypeOK
    <3>3. \A k \in Keys : sync'[k] = IF Has(w, k) THEN "completed" ELSE sync[k]
      BY <2>3 DEF MarkCompleted, SyncIs, Has
    <3>4. QED
      BY <3>1, <3>2, <3>3 DEF RequestsCarried, Has
  <2>4. CASE MarkFailed(w)
    <3>1. UNCHANGED <<web, queue, faulted>>
      BY <2>4 DEF MarkFailed
    <3>2. \A v \in Workers \ {w} : worker'[v] = worker[v]
      BY <2>4 DEF MarkFailed, Goes, TypeOK
    <3>3. \A k \in Keys : sync'[k] = IF Has(w, k) THEN "failed" ELSE sync[k]
      BY <2>4 DEF MarkFailed, SyncIs, Has
    <3>4. QED
      BY <3>1, <3>2, <3>3 DEF RequestsCarried, Has
  <2>5. CASE DeferEnqueue(w)
    <3>1. At(w, "marked") /\ UNCHANGED <<sync, web>> /\ queue \subseteq queue' /\ UNCHANGED faulted
      BY <2>5 DEF DeferEnqueue
    <3>2. \A v \in Workers \ {w} : worker'[v] = worker[v]
      BY <2>5 DEF DeferEnqueue, Goes, TypeOK
    <3>3. \A k \in Keys : Has(w, k) => sync[k] # "running"
      BY <3>1 DEF SyncInStep
    <3>4. QED
      BY <1>1, <3>1, <3>2, <3>3 DEF Has
  <2>6. QED
    BY <1>7, <2>1, <2>2, <2>3, <2>4, <2>5 DEF Ingestion
<1>8. ASSUME NEW w \in Workers, Analysis(w) PROVE RequestsCarried'
  <2>1. CASE \E j \in queue : EnqueueAnalyses(w, j)
    <3>1. \A k \in Keys : SyncJob(k) \in queue => SyncJob(k) \in queue'
      BY <2>1 DEF EnqueueAnalyses, SyncJob
    <3>2. UNCHANGED <<sync, web, worker>> /\ (faulted => faulted')
      BY <2>1 DEF EnqueueAnalyses
    <3>3. faulted' \in BOOLEAN /\ faulted \in BOOLEAN
      BY TypeStep DEF TypeOK
    <3>4. UNCHANGED faulted
      BY <3>2, <3>3
    <3>5. QED
      BY <1>1, <3>1, <3>2, <3>4 DEF Has
  <2>2. CASE \E j \in queue, found \in BOOLEAN : ClaimFanout(w, j, found)
    <3>1. PICK j \in queue, found \in BOOLEAN : ClaimFanout(w, j, found)
      BY <2>2
    <3>2. worker[w].key = {} /\ UNCHANGED <<sync, web, faulted>>
      BY <3>1, <1>3, WorkerKinds DEF ClaimFanout, Takes, At
    <3>3. \A k \in Keys : SyncJob(k) \in queue => SyncJob(k) \in queue'
      BY <3>1 DEF ClaimFanout, Takes, SyncJob
    <3>4. UNCHANGED worker \/ \E to : Goes(w, to)
      BY <3>1 DEF ClaimFanout
    <3>5. QED
      BY <1>1, <1>2, <3>2, <3>3, <3>4 DEF Has
  <2>3. CASE \/ \E conclusion \in {"affected", "unaffected", "uncertain", "unsupported"} :
                  CompleteFanout(w, conclusion)
             \/ AnalysisRaises(w) \/ FailFanout(w)
    <3>1. Analyzing(w) /\ UNCHANGED <<sync, web, queue, faulted>> /\ \E to : Goes(w, to)
      BY <2>3 DEF CompleteFanout, AnalysisRaises, FailFanout, Moves, At, Analyzing
    <3>2. worker[w].key = {}
      BY <1>3, <3>1, WorkerKinds
    <3>3. QED
      BY <1>2, <3>1, <3>2
  <2>4. CASE \E j \in queue : ClaimRaises(w, j)
    BY <2>4 DEF ClaimRaises
  <2>5. QED
    BY <1>8, <2>1, <2>2, <2>3, <2>4 DEF Analysis
<1>9. ASSUME NEW w \in Workers, WorkerCrash(w) PROVE FALSE
  BY <1>9 DEF WorkerCrash
<1>10. CASE UNCHANGED vars
  BY <1>1, <1>10 DEF vars, Has
<1>11. QED
  BY <1>4, <1>5, <1>6, <1>7, <1>8, <1>9, <1>10 DEF Next

\* Unless a process died, a follow-up could not be deferred or a claim raised, every
\* sync request and every fan-out job that is not finished is in somebody's hands
\* (sync_provider_source, enqueue_repository_analysis, analyze_repository_fanout).
THEOREM AllWorkIsCarried == Spec => []WorkIsCarried
<1>1. Init => RequestsCarried /\ JobsCarried
  BY DEF Init, RequestsCarried, JobsCarried
<1>2. TypeOK /\ SyncInStep /\ RequestsCarried /\ JobsCarried /\ [Next]_vars =>
        RequestsCarried' /\ JobsCarried'
  BY RequestsCarriedStep, JobsCarriedStep
<1>3. RequestsCarried /\ JobsCarried => WorkIsCarried
  BY DEF RequestsCarried, JobsCarried, WorkIsCarried
<1>4. QED
  BY <1>1, <1>2, <1>3, SyncTypesHold, SyncHolds, PTL DEF Spec

-----------------------------------------------------------------------------
(* What a commit compares with, and what is seen of it. *)

\* The workers that have read an artifact to compare with.
Compares(w) == worker[w].pc \in {"fetching", "fetched"}

\* What is known of the document stays, and what a worker compares with is what
\* it compared with before or the current artifact.
Undisturbed ==
  /\ UNCHANGED <<current, events, first>>
  /\ \A a \in Analyses : fanout[a] # "absent" => fanout'[a] # "absent"
  /\ \A w \in Workers : Compares(w)' =>
       \/ worker'[w].base = current
       \/ Compares(w) /\ worker'[w].base = worker[w].base

\* A commit, from its worker's fetched document.
Stores(w) ==
  LET found == Normalize(worker[w].base, worker[w].doc)
  IN  /\ Compares(w) /\ worker[w] \in SyncWorker
      /\ current' = {worker[w].doc}
      /\ events' = events \cup found
      /\ fanout' = FannedOut(found \ events)
      /\ first' = IF worker[w].base = {} THEN first \cup current' ELSE first
      /\ ~Compares(w)' /\ \A v \in Workers \ {w} : worker'[v] = worker[v]

\* Only a commit disturbs it.
LEMMA CommitEffects ==
  ASSUME TypeOK, [Next]_vars
  PROVE  Undisturbed \/ \E w \in Workers : Stores(w)
<1>1. ASSUME UNCHANGED <<current, events, first, worker, fanout>> PROVE Undisturbed
  BY <1>1 DEF Undisturbed, Compares
<1>2. ASSUME NEW w \in Workers, NEW to, Goes(w, to), UNCHANGED <<current, events, first>>,
             \A a \in Analyses : fanout[a] # "absent" => fanout'[a] # "absent",
             \/ to.pc \notin {"fetching", "fetched"}
             \/ to.base = current
             \/ Compares(w) /\ to.base = worker[w].base
      PROVE  Undisturbed
  <2>1. worker'[w] = to /\ \A v \in Workers \ {w} : worker'[v] = worker[v]
    BY <1>2 DEF Goes, TypeOK
  <2>2. QED
    BY <1>2, <2>1 DEF Undisturbed, Compares
<1>3. Free.pc = "free"
  BY DEF Free
<1>4. ASSUME NEW doc \in Documents, Publish(doc) PROVE Undisturbed
  BY <1>1, <1>4 DEF Publish, history
<1>5. ASSUME NEW k \in Keys, Request(k) \/ WebCrash(k) PROVE Undisturbed
  BY <1>1, <1>5
  DEF Request, RequestSync, DeferSync, MarkQueueFailed, WebCrash, stored, history
<1>6. ASSUME NEW w \in Workers, Ingestion(w) PROVE Undisturbed \/ Stores(w)
  <2>1. CASE \E j \in queue : StartSync(w, j)
    <3>1. PICK j \in queue : StartSync(w, j)
      BY <2>1
    <3>2. [Free EXCEPT !.pc = "started", !.key = {j.by}].pc = "started"
      BY DEF Free
    <3>3. QED
      BY <1>2, <3>1, <3>2 DEF StartSync, stored, history
  <2>2. CASE ReadBaseline(w)
    <3>1. worker[w] \in SyncWorker
      BY <2>2, WorkerKinds DEF ReadBaseline, At
    <3>2. [worker[w] EXCEPT !.pc = "fetching", !.base = current].base = current
      BY <3>1 DEF SyncWorker
    <3>3. QED
      BY <1>2, <2>2, <3>2 DEF ReadBaseline, stored, history
  <2>3. CASE Fetch(w)
    <3>1. worker[w] \in SyncWorker /\ Compares(w)
      BY <2>3, WorkerKinds DEF Fetch, At, Compares
    <3>2. /\ [worker[w] EXCEPT !.pc = "synced"].base = worker[w].base
          /\ [worker[w] EXCEPT !.pc = "raised"].base = worker[w].base
          /\ [worker[w] EXCEPT !.pc = "fetched", !.doc = published].base = worker[w].base
      BY <3>1 DEF SyncWorker
    <3>3. \E to : Goes(w, to) /\ to.base = worker[w].base
      BY <2>3, <3>2 DEF Fetch, Moves
    <3>4. QED
      BY <1>2, <2>3, <3>1, <3>3 DEF Fetch, stored, history
  <2>4. CASE Commit(w)
    <3> DEFINE found == Normalize(worker[w].base, worker[w].doc)
    <3>1. worker[w] \in SyncWorker /\ Compares(w)
      BY <2>4, WorkerKinds DEF Commit, At, Compares
    <3>2. CASE RolledBack(w) /\ Moves(w, "raised")
      <4>1. [worker[w] EXCEPT !.pc = "raised"].pc = "raised"
        BY <3>1 DEF SyncWorker
      <4>2. QED
        BY <1>2, <3>2, <4>1 DEF RolledBack, Moves
    <3>3. CASE /\ current' = {worker[w].doc}
               /\ events' = events \cup found
               /\ fanout' = FannedOut(found \ events)
               /\ first' = IF worker[w].base = {} THEN first \cup current' ELSE first
               /\ Goes(w, [worker[w] EXCEPT !.pc = "synced", !.ids = found])
      <4>1. [worker[w] EXCEPT !.pc = "synced", !.ids = found].pc = "synced"
        BY <3>1 DEF SyncWorker
      <4>2. ~Compares(w)' /\ \A v \in Workers \ {w} : worker'[v] = worker[v]
        BY <3>3, <4>1 DEF Goes, Compares, TypeOK
      <4>3. QED
        BY <3>1, <3>3, <4>2 DEF Stores
    <3>4. QED
      BY <2>4, <3>2, <3>3 DEF Commit
  <2>5. CASE MarkCompleted(w)
    <3>1. worker[w] \in SyncWorker
      BY <2>5, WorkerKinds DEF MarkCompleted, At
    <3>2. [worker[w] EXCEPT !.pc = "marked"].pc = "marked"
      BY <3>1 DEF SyncWorker
    <3>3. QED
      BY <1>2, <2>5, <3>2 DEF MarkCompleted, Moves, stored, history
  <2>6. CASE MarkFailed(w)
    BY <1>2, <1>3, <2>6 DEF MarkFailed, stored, history
  <2>7. CASE DeferEnqueue(w)
    BY <1>2, <1>3, <2>7 DEF DeferEnqueue, stored, history
  <2>8. QED
    BY <1>6, <2>1, <2>2, <2>3, <2>4, <2>5, <2>6, <2>7 DEF Ingestion
<1>7. ASSUME NEW w \in Workers, Analysis(w) PROVE Undisturbed
  <2>1. CASE \E j \in queue : EnqueueAnalyses(w, j)
    BY <1>1, <2>1 DEF EnqueueAnalyses, stored, history
  <2>2. CASE \E j \in queue : ClaimRaises(w, j)
    <3>1. PICK j \in queue : ClaimRaises(w, j)
      BY <2>2
    <3>2. [Free EXCEPT !.pc = "analysisFailed", !.ids = j.of].pc = "analysisFailed"
      BY DEF Free
    <3>3. QED
      BY <1>2, <3>1, <3>2 DEF ClaimRaises
  <2>3. CASE \E j \in queue, found \in BOOLEAN : ClaimFanout(w, j, found)
    <3>1. PICK j \in queue, found \in BOOLEAN : ClaimFanout(w, j, found)
      BY <2>3
    <3> DEFINE a  == CHOOSE a \in j.of : TRUE
               to == [Free EXCEPT !.pc = IF found THEN "analyzing" ELSE "analysisFailed",
                                  !.ids = {a}]
    <3>2. to.pc \notin {"fetching", "fetched"}
      BY DEF Free
    <3>3. CASE fanout' = [fanout EXCEPT ![a] = "analyzing"] /\ Goes(w, to)
      <4> HIDE DEF to, a
      <4>1. \A b \in Analyses : fanout[b] # "absent" => fanout'[b] # "absent"
        BY <3>3 DEF TypeOK
      <4>2. QED
        BY <1>2, <3>1, <3>2, <3>3, <4>1 DEF ClaimFanout, history
    <3>4. CASE UNCHANGED <<fanout, worker>>
      BY <1>1, <3>1, <3>4 DEF ClaimFanout, history
    <3>5. QED
      BY <3>1, <3>3, <3>4 DEF ClaimFanout
  <2>4. CASE \E c \in {"affected", "unaffected", "uncertain", "unsupported"} :
               CompleteFanout(w, c)
    <3>1. \A a \in Analyses : fanout[a] # "absent" => fanout'[a] # "absent"
      BY <2>4 DEF CompleteFanout, FanoutIs
    <3>2. QED
      BY <1>2, <1>3, <2>4, <3>1 DEF CompleteFanout, history
  <2>5. CASE AnalysisRaises(w)
    <3>1. worker[w] \in AnalysisWorker
      BY <2>5, WorkerKinds DEF AnalysisRaises, At, Analyzing
    <3>2. [worker[w] EXCEPT !.pc = "analysisFailed"].pc = "analysisFailed"
      BY <3>1 DEF AnalysisWorker
    <3>3. QED
      BY <1>2, <2>5, <3>2 DEF AnalysisRaises, Moves, stored, history
  <2>6. CASE FailFanout(w)
    <3>1. \A a \in Analyses : fanout[a] # "absent" => fanout'[a] # "absent"
      BY <2>6 DEF FailFanout, FanoutIs
    <3>2. QED
      BY <1>2, <1>3, <2>6, <3>1 DEF FailFanout, history
  <2>7. QED
    BY <1>7, <2>1, <2>2, <2>3, <2>4, <2>5, <2>6 DEF Analysis
<1>8. ASSUME NEW w \in Workers, WorkerCrash(w) PROVE Undisturbed
  BY <1>2, <1>3, <1>8 DEF WorkerCrash, stored, history
<1>9. CASE UNCHANGED vars
  BY <1>1, <1>9 DEF vars, history
<1>10. QED
  BY <1>4, <1>5, <1>6, <1>7, <1>8, <1>9 DEF Next

-----------------------------------------------------------------------------
(* Every move of the current document is seen, however syncs overlap. *)

\* An entry of which a change event says something, to every repository.
Known(e) == \E c \in events : c[1] = e /\ \A r \in Repositories : fanout[<<c, r>>] # "absent"

\* A document whose difference from one captured first is known.
Seen(doc) == \E f \in first : \A e \in (doc \ f) \cup (f \ doc) : Known(e)

\* What is seen of the artifacts a commit may compare with.  A feed states its
\* entries whatever it is compared with, those of the first document too.
BasesAreSeen ==
  /\ \A w \in Workers : Compares(w) => \A doc \in worker[w].base : Seen(doc)
  /\ \A c \in events : \A r \in Repositories : fanout[<<c, r>>] # "absent"
  /\ Adapter # "openapi" => \A f \in first : \A e \in f : Known(e)

\* A commit leaves every event with its fan-out jobs.
LEMMA EventsFanOut ==
  ASSUME TypeOK, BasesAreSeen, NEW w \in Workers, Stores(w)
  PROVE  \A c \in events' : \A r \in Repositories : fanout'[<<c, r>>] # "absent"
<1> DEFINE found == Normalize(worker[w].base, worker[w].doc)
<1>1. found \subseteq Changes
  BY NormalizeTyped DEF Stores, SyncWorker
<1> SUFFICES ASSUME NEW c \in events', NEW r \in Repositories
             PROVE  fanout'[<<c, r>>] # "absent"
  OBVIOUS
<1>2. c \in events \/ c \in found \ events
  BY DEF Stores
<1>3. <<c, r>> \in Analyses
  BY <1>1, <1>2 DEF TypeOK, Analyses
<1>4. c \in events => fanout[<<c, r>>] # "absent"
  BY DEF BasesAreSeen
<1> HIDE DEF found
<1>5. fanout' = FannedOut(found \ events)
  BY DEF Stores, found
<1>6. QED
  BY <1>2, <1>3, <1>4, <1>5 DEF FannedOut

\* What is known, and the documents seen, stay so.
LEMMA SeenStays ==
  ASSUME TypeOK, BasesAreSeen, Undisturbed \/ \E w \in Workers : Stores(w)
  PROVE  /\ \A e : Known(e) => Known(e)'
         /\ \A doc : Seen(doc) => Seen(doc)'
<1>1. \A c \in events : c \in events'
  BY DEF Undisturbed, Stores
<1>2. \A f \in first : f \in first'
  BY DEF Undisturbed, Stores
<1>3. \A c \in events' : \A r \in Repositories : fanout'[<<c, r>>] # "absent"
  <2>1. CASE Undisturbed
    <3>1. \A c \in events, r \in Repositories : <<c, r>> \in Analyses
      BY DEF TypeOK, Analyses
    <3>2. QED
      BY <2>1, <3>1 DEF Undisturbed, BasesAreSeen
  <2>2. QED
    BY <2>1, EventsFanOut
<1>4. ASSUME NEW e, Known(e) PROVE Known(e)'
  BY <1>1, <1>3, <1>4 DEF Known
<1>5. ASSUME NEW doc, Seen(doc) PROVE Seen(doc)'
  <2>1. PICK f \in first : \A e \in (doc \ f) \cup (f \ doc) : Known(e)
    BY <1>5 DEF Seen
  <2>2. QED
    BY <1>2, <1>4, <2>1 DEF Seen
<1>6. QED
  BY <1>4, <1>5

\* A commit makes known in what its document differs from the one it was compared
\* with, and a feed's makes known every entry.
LEMMA CommitTells ==
  ASSUME TypeOK, BasesAreSeen, NEW w \in Workers, Stores(w)
  PROVE  /\ Adapter = "openapi" =>
              \A b \in worker[w].base :
                \A e \in (b \ worker[w].doc) \cup (worker[w].doc \ b) : Known(e)'
         /\ Adapter # "openapi" => \A e \in worker[w].doc : Known(e)'
<1>1. ASSUME NEW e, NEW d, <<e, d>> \in Normalize(worker[w].base, worker[w].doc)
      PROVE  Known(e)'
  <2>1. <<e, d>> \in events' /\ <<e, d>>[1] = e
    BY <1>1 DEF Stores
  <2>2. QED
    BY <2>1, EventsFanOut DEF Known
<1>2. ASSUME Adapter = "openapi", NEW b \in worker[w].base,
             NEW e \in (b \ worker[w].doc) \cup (worker[w].doc \ b)
      PROVE  <<e, worker[w].doc>> \in Normalize(worker[w].base, worker[w].doc)
  BY <1>2 DEF Normalize
<1>3. ASSUME Adapter # "openapi", NEW e \in worker[w].doc
      PROVE  <<e, {}>> \in Normalize(worker[w].base, worker[w].doc)
  BY <1>3 DEF Normalize
<1>4. QED
  BY <1>1, <1>2, <1>3

\* The document that is committed has been seen: it is captured first, or differs
\* from what it was compared with by what its own commit tells.
LEMMA CommitIsSeen ==
  ASSUME TypeOK, BasesAreSeen, NEW w \in Workers, Stores(w), NEW doc, doc = worker[w].doc
  PROVE  Seen(doc)'
<1>1. CASE worker[w].base = {}
  <2>1. doc \in first'
    BY <1>1 DEF Stores
  <2>2. (doc \ doc) \cup (doc \ doc) = {}
    OBVIOUS
  <2>3. QED
    BY <2>1, <2>2 DEF Seen
<1>2. CASE worker[w].base # {}
  <2>1. PICK b \in worker[w].base : TRUE
    BY <1>2
  <2>2. PICK f \in first : \A e \in (b \ f) \cup (f \ b) : Known(e)
    BY <2>1 DEF BasesAreSeen, Stores, Seen
  <2>3. f \in first' /\ \A e : Known(e) => Known(e)'
    BY SeenStays DEF Stores
  <2>4. ASSUME NEW e \in (doc \ f) \cup (f \ doc) PROVE Known(e)'
    <3>1. CASE Adapter = "openapi"
      <4>1. \/ e \in (b \ f) \cup (f \ b)
            \/ e \in (b \ doc) \cup (doc \ b)
        BY <2>4
      <4>2. QED
        BY <2>1, <2>2, <2>3, <3>1, <4>1, CommitTells
    <3>2. CASE Adapter # "openapi"
      <4>1. e \in f => Known(e)
        BY <3>2 DEF BasesAreSeen
      <4>2. QED
        BY <2>3, <2>4, <3>2, <4>1, CommitTells
    <3>3. QED
      BY <3>1, <3>2
  <2>5. QED
    BY <2>3, <2>4 DEF Seen
<1>3. QED
  BY <1>1, <1>2

\* Every step keeps what is seen of the artifacts.
LEMMA SeenStep ==
  ASSUME TypeOK, BasesAreSeen, MovesAreSeen, [Next]_vars
  PROVE  BasesAreSeen' /\ MovesAreSeen'
<1>1. MovesAreSeen <=> \A doc \in current : Seen(doc)
  BY DEF MovesAreSeen, Seen, Known
<1>2. MovesAreSeen' <=> \A doc \in current' : Seen(doc)'
  BY DEF MovesAreSeen, Seen, Known
<1>3. Undisturbed \/ \E w \in Workers : Stores(w)
  BY CommitEffects
<1>4. /\ \A e : Known(e) => Known(e)'
      /\ \A doc : Seen(doc) => Seen(doc)'
  BY <1>3, SeenStays
<1>5. CASE Undisturbed
  <2>1. \A doc \in current' : Seen(doc)'
    BY <1>1, <1>4, <1>5 DEF Undisturbed
  <2>2. ASSUME NEW w \in Workers, Compares(w)' PROVE \A doc \in worker'[w].base : Seen(doc)'
    <3>1. \/ worker'[w].base = current
          \/ Compares(w) /\ worker'[w].base = worker[w].base
      BY <1>5, <2>2 DEF Undisturbed
    <3>2. QED
      BY <1>1, <1>4, <3>1 DEF BasesAreSeen
  <2>3. \A c \in events' : \A r \in Repositories : fanout'[<<c, r>>] # "absent"
    <3>1. \A c \in events, r \in Repositories : <<c, r>> \in Analyses
      BY DEF TypeOK, Analyses
    <3>2. QED
      BY <1>5, <3>1 DEF Undisturbed, BasesAreSeen
  <2>4. Adapter # "openapi" => \A f \in first' : \A e \in f : Known(e)'
    BY <1>4, <1>5 DEF Undisturbed, BasesAreSeen
  <2>5. QED
    BY <1>2, <2>1, <2>2, <2>3, <2>4 DEF BasesAreSeen
<1>6. ASSUME NEW w \in Workers, Stores(w) PROVE BasesAreSeen' /\ MovesAreSeen'
  <2>1. \A doc \in current' : Seen(doc)'
    BY <1>6, CommitIsSeen DEF Stores
  <2>2. ASSUME NEW v \in Workers, Compares(v)' PROVE \A doc \in worker'[v].base : Seen(doc)'
    <3>1. Compares(v) /\ worker'[v].base = worker[v].base
      BY <1>6, <2>2 DEF Stores, Compares
    <3>2. QED
      BY <1>4, <3>1 DEF BasesAreSeen
  <2>3. \A c \in events' : \A r \in Repositories : fanout'[<<c, r>>] # "absent"
    BY <1>6, EventsFanOut
  <2>4. Adapter # "openapi" => \A f \in first' : \A e \in f : Known(e)'
    <3>1. \A f \in first' : f \in first \/ f = worker[w].doc
      BY <1>6 DEF Stores
    <3>2. QED
      BY <1>4, <1>6, <3>1, CommitTells DEF BasesAreSeen
  <2>5. QED
    BY <1>2, <2>1, <2>2, <2>3, <2>4 DEF BasesAreSeen
<1>7. QED
  BY <1>3, <1>5, <1>6

\* However many workers sync at once: what distinguishes the current document from
\* one captured first is known to every repository, since a commit compares with
\* an artifact of which that was true (IngestionService.sync, commit).
THEOREM MovesAreAlwaysSeen == Spec => []MovesAreSeen
<1>1. Init => BasesAreSeen /\ MovesAreSeen
  BY DEF Init, Free, Compares, BasesAreSeen, MovesAreSeen
<1>2. TypeOK /\ BasesAreSeen /\ MovesAreSeen /\ [Next]_vars => BasesAreSeen' /\ MovesAreSeen'
  BY SeenStep
<1>3. QED
  BY <1>1, <1>2, SyncTypesHold, PTL DEF Spec

-----------------------------------------------------------------------------
(* No change is missed as long as syncs do not overlap. *)

\* What a sync is going to compare with is what it will replace.
BaselineIsCurrent == \A w \in Workers : Compares(w) => worker[w].base = current

\* A step misses no change.
NothingMissed ==
  current' # current => \A doc \in current' : Normalize(current, doc) \subseteq events'

\* Nobody else replaces the artifact in between.
LEMMA BaselineStep ==
  ASSUME TypeOK, SyncsDoNotOverlap, BaselineIsCurrent, [Next]_vars
  PROVE  BaselineIsCurrent' /\ NothingMissed
<1>1. CASE Undisturbed
  BY <1>1 DEF Undisturbed, BaselineIsCurrent, NothingMissed
<1>2. ASSUME NEW w \in Workers, Stores(w) PROVE BaselineIsCurrent' /\ NothingMissed
  <2>1. \A v \in Workers : ~Compares(v)'
    BY <1>2 DEF Stores, SyncsDoNotOverlap, Compares
  <2>2. worker[w].base = current
    BY <1>2 DEF Stores, BaselineIsCurrent
  <2>3. QED
    BY <1>2, <2>1, <2>2 DEF Stores, BaselineIsCurrent, NothingMissed
<1>3. QED
  BY <1>1, <1>2, CommitEffects

\* With either adapter and any number of workers: as long as no two syncs are
\* between reading the baseline and their commit, a sync replaces the very artifact
\* it compared with, and whatever an adapter states of the two is recorded
\* (IngestionService.sync, commit).  Nothing in the code makes the premise true, and TLC
\* finds the property violated without it.
THEOREM NoChangesAreMissed == Spec /\ []SyncsDoNotOverlap => NoChangeIsMissed
<1>1. Init => BaselineIsCurrent
  BY DEF Init, Free, Compares, BaselineIsCurrent
<1>2. TypeOK /\ SyncsDoNotOverlap /\ BaselineIsCurrent /\ [Next]_vars =>
        BaselineIsCurrent' /\ NothingMissed
  BY BaselineStep
<1>3. NothingMissed =>
        (current' # current => \A doc \in current' : Normalize(current, doc) \subseteq events')
  BY DEF NothingMissed
<1>4. QED
  BY <1>1, <1>2, <1>3, SyncTypesHold, PTL DEF Spec, NoChangeIsMissed

=============================================================================
