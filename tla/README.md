# Formal model of Delta Code

Delta Code watches the official sources of API providers, turns what changed into
change events, finds the connected repositories an event affects, generates and
verifies a migration for each in a sandbox, and opens and maintains a draft pull
request for the migrations a developer wants. This directory holds TLA+ modules of
the parts of it that run concurrently and can fail between two steps, the TLC
configurations that check them, and TLAPS proofs about them.

## The system

| Part | State it keeps | Operations | Talks to |
|---|---|---|---|
| Developer decisions (`app/control_plane`) | `migrations` (status, version, current attempt), `idempotency_records`, audit events | approve, revise, snooze, decline | GitHub (before the transaction), the rows of the two workers |
| Generation (`app/migration_generation`) | `migration_attempts`, artifacts | `queue_attempt`, defer, `claim_attempt`, `complete_attempt`, `fail_attempt` | sandbox executor, `migrations` |
| Publication (`app/github_publishing`) | `pull_request_records` with its checkpoints | `queue_publication`, defer, `claim_publication`, the GitHub calls, `complete_publication`, `fail_publication` | GitHub, `migrations` |
| Source synchronization (`app/ingestion`) | `provider_sources`, `source_artifacts`, `change_events`, `source_sync_requests` | request, defer, fetch, normalize, commit | provider sites, artifact store, fan-out |
| Fan-out and analysis (`app/repository_intelligence`) | `change_fanout_jobs`, snapshots, assessments | enqueue, claim, complete (creates the migration), fail | repositories, `migrations` |
| Job queue (Procrastinate) | jobs, in the same PostgreSQL | defer, fetch, run | all workers |
| Sandbox executor (`sandbox-worker`) | one container per request | parse, write files, run checks, tear down, answer | generation |
| Comparison runs (`app/main.py`, `webhook.py`, `tasks.py`) | `runs` | create, run, retry | GitHub checks |
| Artifact store (`app/ingestion/storage.py`) | files named by digest | put, read | ingestion, generation, publication |
| Frontend (`frontend/app`) | what a page has loaded, its timers, forms and requests | load, poll, page on, decide, generate, publish, retry | the HTTP interface |
| Sign-in, hardening, demo apps | sessions; counters; none | | |

What makes it hard: web processes and workers share rows but not transactions. A
request looks up its idempotency key, validates under a row lock, commits, and only
then defers its job. A worker claims with a compare-and-set, works for minutes on
other people's machines, and settles what it finds when it comes back. Developers
decide meanwhile; GitHub calls fail, or succeed with their answer lost; processes die
anywhere. `PROJECT.json` lists the resulting hazards, each at its line, with the
properties that cover it or the reason none does.

## The modules

| Module | What it is |
|---|---|
| `Transitions` | `control_plane/state.py`: the two transition tables and `validate_transition` |
| `VersionedEntity` | abstract: a row that moves along a table and whose version counts the edges |
| `MigrationLifecycle` | a migration, its attempts, its pull-request record, the requests and the jobs |
| `MigrationLifecycleProofs` | the theorems about it |
| `DraftPullRequest` | abstract: one pull request, opened as a draft, rewritten only as a draft |
| `Publication` | the publisher and the decisions against GitHub, call by call |
| `PublicationProofs` | the theorems about it |
| `SourceSync` | from a changed document to queued migrations |
| `SourceSyncProofs` | the theorems about it |
| `SandboxPolicy` | what may enter the sandbox: the policy of the generation worker and the Worker's copy of it |
| `SandboxExecutor` | a verification, from the posted request to the guarded recommendation |
| `SandboxExecutorProofs` | the theorems about it |
| `ApiClient` | how the browser reads an HTTP response |
| `MigrationPage` | the page of one migration, and the row it shows and changes |
| `RunPage` | the pages of one comparison run, its row, its jobs and its retries |
| `WorkspacePages` | the inbox, the pages that load once, the header |
| `DeltaCodeApp` | the frontend: the router and the page it opens |
| `DeltaCodeAppProofs` | the theorems about its pages |
| `RowLocks` | the lifecycle's transactions, statement by statement, with their row locks |
| `RowLocksProofs` | the theorems about it |
| `ProviderHealth` | the ingestion transactions, statement by statement: health, events, registration |
| `ProviderHealthProofs` | the theorems about it |
| `ArtifactStore` | one content-addressed object, put and read by several processes |
| `ArtifactStoreProofs` | the theorems about it |
| `MCLifecycle`, `MCPublication`, `MCSourceSync`, `MCRowLocks`, `MCProviderHealth`, `MCArtifactStore` | symmetry sets for TLC |
| `MCSandbox` | the proposals the sandbox run chooses from |
| `MCDeltaCodeApp` | nothing but the name the runs use |

### MigrationLifecycle

Every database transaction of the stores is one action: the row lock is taken before
anything is validated and held until commit, and `ChecksHold` of `RowLocks` shows that
a transaction is then as good as a step. Between transactions everything interleaves. A request goes `BeginRequest` (the idempotency lookup, which takes no
lock, so two requests with one key can both miss it), then `QueueAttempt`,
`QueuePublication` or `ApplyDeveloperAction` (or `RejectRequest`), then `DeferJob`.
`WebCrash` may come between any two of them. A job is `todo`, is claimed
(`ClaimAttempt`, `ClaimPublication`), runs, and ends by `Complete...` or by a raised
exception and `Fail...`; `WorkerCrash` ends it anywhere. Attempts are named by their
number. The verdict of a generation is a recommended action passed through
`_guard_recommendation` with any answer the sandbox client lets through, including a
run that passed in a sandbox that could not be destroyed.

Left out: the text of patches and evidence, audit events, the GitHub part of the
decisions, which is the subject of `Publication`, and claims that raise for a reason
of the database (`RowLocks` has them).

### Publication

One step per GitHub read and per GitHub write. A write can be refused, or done with
its answer lost (`Writes`); its checkpoint is written with it, because nobody reads the
record before the worker ends. `Meddling` says when collaborators may push to the
branch, close the pull request or mark it ready: never, while no publication runs, or
at any time. A commit is named by its attempt, since tree, parent, author and date
come from the attempt's evidence and remaking it gives the same object. Generation is
reduced to its outcome and the queue to the record's status: `WorkerOwnsItsWork` of
`MigrationLifecycle` says that at most one worker publishes.

### SourceSync

One source. Its document is the set of entries it lists; `Adapter` chooses between the
OpenAPI adapter, which compares with the artifact before and whose dedupe key holds
the digest of the new one, and the feed adapters, which state every entry under its
own key. `Commit` is the one transaction for artifact, events, fan-out jobs and the
current artifact; it does not ask whether the artifact that was compared with is still
the current one. `ClaimRaises` is a claim of a fan-out job that raises for a reason of
the database: it is inside the try of `analyze_repository_fanout`, so the except clause
fails the job by its id (`FailFanout`), whoever may be analyzing it. `first` (documents
committed with nothing to compare with) and `raisedOn` (the jobs such a claim was about)
are history. Left out: creating providers and sources and the health columns, which
are in `ProviderHealth`, the URL policy and the limits of the collector (they show as a
fetch that fails).

### RowLocks

The transactions of `MigrationLifecycle` again, each as the list of the tables its
statements touch (`Statements`). `Statement` is one of them: it finds the row its WHERE
clause names or passes it over, waits while another connection holds the row, locks it,
and asks of it what the code asks (`Finds`, `Accepts`). `Commit` writes and unlocks. A
request locks the migration first, a worker its attempt or its record. A connection is a
request, or a worker with the try clause of its task: `BeginJob`, the claim, the work,
`BeginCompletion`, and `BeginFailure` for anything that was raised, the claim included
(`ClaimRaises`, `AnswerIsLost`); `raised` is history, the operations that have raised in
one of these two ways. Left out: versions, whose refusal ends a transaction where a transition
that is not in the table does, and what the rows hold besides their statuses.

### ProviderHealth

The transactions of `ingestion/store.py` on the sources of one provider: `InsertEvent`
for each change, `WriteSource`, then `_refresh_provider_health` in its two halves,
`Digest` (the rows are read) and `TellProvider` (the provider's row is written), then
`Commit` or `Rollback`. A statement sees what is committed when it starts and what its own
transaction wrote. `create_source` is one of them, since it writes the same two rows.
`streak` is history, the failures there really were; `met` and `apart` say which
transactions overlapped one of another source.

### ArtifactStore

One object. Its name is the digest of its content, so every put of it writes the same
bytes, and what is stored is a prefix of them: `file` is its length, -1 when there is no
file. `Create` is the exclusive open, under the final name; `Write` and `Fsync` follow.
`FindExisting`, `ReadOn` and `Compare` are the branch of `FileExistsError`, which does not
wait for the writer. A process may die, a write may raise, the power may fail.

### SandboxPolicy and SandboxExecutor

A proposal is a tree, edits and checks; a path is a sequence of names, chosen from
names that stand for the classes the two policies tell apart. `BuildSandboxRequest`
is the generation worker's side, `ParseExecutionRequest` the sandbox Worker's; both
yield nothing when they throw. `Post` sends the request, `Fetch` is the route, the
token and the parse, `MakeRoot` starts the container, `WriteRepository` and
`WriteEdits` fill it, `RunCheck` is one turn of the loop, `Finish` the finally clause
and the answer. At every await the call may throw, and at any time the platform may
end the invocation (`WorkerDies`): nothing of it runs any more then, so its container
goes away only by falling asleep. `Receive`, `GiveUp` and `LoseConnection` are the
client; `Receive` includes the consistency checks of `executor.py` and the guard of
`service.py`. `ran` and `tree` are history: they say what happened in the container,
which no part of the code sees, and are what an answer is judged by. Time is counted
in minutes and only checks take any.

### The frontend

A page is a set of variables and its requests; a request is answered from the state of
the server at one moment and heard at a later one, or fails in one of the ways
`Responses` lists. Links are anchors, so a behaviour opens one route and stays there.

`MigrationPage` keeps the row (`server`) and the page's copy of it (`view`). What the
other modules do to the row is condensed to its statuses and versions
(`AttemptClaimed`, ..., `OtherDeveloper`). Two reads of the timer overlap, and a
command of the `ActionPanel` overlaps with both; `Merge` lays the answer of a command
over the row the page has by then. `RunPage` follows the row of a run from several
tabs; `JobStarts`, `JobEnds` and `JobDies` are the task, and `CommitRetry`, `DeferRetry`
the two halves of a retry. A live page of a run starts with `NoRun`, where
`RunDetailPage` starts from the demonstration run of the same number if there is one:
until the first answer it shows neither, but that it is loading. `WorkspacePages` has the inbox, which reads one page of the
list after another while migrations are created (`Newest` is the query, which reads one
row more than the page holds), and the pages that load once: for
them the model keeps of which rows and of whom the data on the screen are, and which
notice stands in their place.

Left out: search, filters, sorting and tabs, which select from what is loaded; the
landing and product pages, which have no state; formatting.

## What the runs check

| Run | Instance | Shows |
|---|---|---|
| `lifecycle_histories` | 1 client, 2 keys, 2 job slots, 2 attempts, all operations and crashes | the safety invariants of the lifecycle, the refinement of `VersionedEntity`, and what a step may never do from stale jobs |
| `lifecycle_liveness` | 2 concurrent clients, 1 key, 2 slots, 1 attempt, no crash | generation and publication settle; no decision is lost |
| `publication_revisions` | 3 attempts, 1 decider, refusals and lost answers | the pull request implements `DraftPullRequest`; `pr_opened` means the current attempt is on GitHub, with its check |
| `publication_meddling` | 2 attempts, collaborators between publications | nothing of theirs is overwritten |
| `source_sync` | OpenAPI, 3 documents of up to 2 entries, 1 repository, 3 requests, 2 workers, refusals, raising claims and deaths | whatever distinguishes the current document from one captured first has an event and its fan-out jobs; one analysis of a fan-out job at a time; a migration stands on a job that completed, or was failed under its worker's hands; nothing dropped without a fault; terminal states stay |
| `row_locks` | 3 connections, 2 attempts, every fault | what a transaction has read and checked holds when it commits; until the claim of an attempt raises nobody waits in a circle; a claim is ended by its claimant unless a claim, or the completion of a publication, raises |
| `provider_health` | 2 sources, 2 connections, 2 events, OpenAPI, rollbacks anywhere | nobody waits in a circle, no failure is lost, the provider follows its sources |
| `artifact_store` | 3 processes, 3 writes, deaths, full disk, power failure | unless the power fails a reference names a complete object, and a complete object stays so |
| `sandbox_execution` | 2 attempts, 1 container, 16 proposals, 3 deployments, every fault | credit is earned, a failure is the code's, the two policies differ only where named, every request is answered |
| `frontend` | every route, live and preview; 2 reads of the timer, 8 versions, 2 tabs, 3 jobs, 4 migrations in pages of 1 | nothing is offered that is refused as long as the row shown is in the server's status, decisions are about what was shown, active work and pending runs are followed, pages list each migration once, failures stay visible, the preview follows the control plane's table |

All type invariants are theorems, and only `frontend` repeats its own in a run: it says
besides what an answer can do to a page.

Bounds. Two attempts are the least for a stale attempt, a predecessor and a reused
branch; three attempts give a second revision on a maintained draft. Two job slots are
the least for a duplicate job, a stale one, or a generation beside a publication. Two
keys with one client reach every replay; two clients reach the race between lookup and
lock. Two workers and three sync keys give overlapping syncs followed by a later one; the
three documents (nothing, one entry, two) let a sync find gone what an overlapping one
has found added.
`MaxVersion` of `Publication` bounds the transitions of the migration and is enough
for every attempt to be published, blocked and published again. In the sandbox two
attempts are the least that compete for the one container, two checks the least for
one that is blocked, and the client's patience of 2 minutes against checks of 1 and 2
is passed by some executions and not by others; `Strange` in `MCSandbox` has one
proposal for each reason one of the policies has to refuse, on its bound or one past
it. Three connections are the least for two workers with the same job beside a
request, and for a circle that is longer than two; two attempts let a revision follow a
generation while its worker is out. Two events are the least that two commits can insert
in different orders, and two sources the least that can miss each other; a failing source
is three attempts, which the counter (`Capped` at 3, where the code stops telling numbers
apart) reaches. Three processes are a writer, a second put and a reader, and three writes
leave two places in the middle of an object. In the frontend two reads are the least that can arrive in the other order,
`MaxVersion` 8 lets a migration be generated, published, opened and decided in one
history, three jobs are a run, its retry and a second tab's retry, and four migrations
in pages of one leave room for rows that appear above, between and below what is
listed. All keys, clients,
slots, workers, connections, sources, processes, entries and deciders are interchangeable, so symmetry is sound; the
runs with liveness use none. TLC's deadlock check is off where a
system whose work is done, or a bounded instance whose attempts are used up, may stop; that
transactions do not wait for each other for ever is the invariant `NoDeadlock`.

Fairness (`CalmSpec`, `CrashySpec`). A request that has committed goes on to its
defer, because the process that serves it is running Python code with no wait in
between; this fairness is strong, because a bounded number of job slots can be full
again and again, which the real queue never is. A worker goes on with the job it has, because external work ends by an answer
or by a timeout (180 s for the sandbox, 15 s for HTTP), and the queue delivers a
waiting job to a free worker. Clients are not fair: nobody has to ask for anything.
`CalmSpec` has no crash action.

In the sandbox an invocation goes on until the platform ends it, because each of its
calls has a time limit, and the client's wait is bounded by its read timeout. In the
frontend a timer that is set up fires, a request ends (with an answer or a failure) and
its callback runs; workers take and end the jobs of a run, and a committed retry goes
on to its defer. One condition covers the steps of one read, tab or job, of which at
most one is enabled at a time. Developers, other tabs and deaths are not fair.

### Where the code and its documents differ

Two of the disagreements are runs, which must find their property violated.

| Run | What happens |
|---|---|
| `lifecycle_poison` | a worker that dies after its claim leaves the migration generating unless a developer revises it: the claim has no lease, and no job leaves that status |
| `frontend_publishing` | after "Open draft PR" the page merges the status of the publication: it shows the migration as queued, does not refresh it, and offers to generate, which the control plane refuses |

The others TLC shows with the same models when one constant or one formula is changed:

| Property | Change | What happens |
|---|---|---|
| `ResumesItsOwnWork` (`Publication`) | none, in place of `MaintainsADraft` | the answer to the request that opens the draft is lost; every retry posts again and is refused (`publisher.py:330`; phase 5 promises individual resumable checkpoints) |
| `RevisedDraftStaysDraft` (`Publication`) | two `Deciders` | approve readies the pull request on GitHub, then loses the database race to a revise (`router.py:144`; phase 5: revision leaves the draft a draft) |
| `NoChangeIsMissed` (`SourceSync`) | none: checked as a property of `source_sync` | of two overlapping syncs the later commit replaces an artifact it was never compared with (`service.py:56`): from {e1} one sync goes to {e1, e2}, the other to the empty document, and that e2 is gone again is no event, although the addition of e2 is one (domain-model.md:267, "stale jobs may not advance entities whose expected state or version changed"). It takes two ingestion workers; `Procfile` starts one and nothing pins that number, while the documents speak of worker replicas |
| `ProviderFollowsItsSources` (`ProviderHealth`) | without `w \in met` in `apart` | a failure of one source and a success of another overlap: each reads the other's row as it was, and the provider stays active with a degraded source (`store.py:251`) |
| `NoDeadlock` (`ProviderHealth`) | `Adapter = "feed"` | two sources whose documents list the same entries in opposite orders wait for each other's events; PostgreSQL aborts one, and that sync fails |
| `ClaimantsSettle`, `NoDeadlock` (`RowLocks`) | without `"claim_attempt"` and `"claim_publication"` in their premises | the claim of a duplicate job raises (no connection, a lost answer), and the except clause of its task (`tasks.py:76`) fails the attempt or publication another worker has claimed; the attempt can then be generated anew under its worker's hands, and the two lock orders meet |
| `ClaimantsSettle` (`RowLocks`) | without `"complete_publication"` in its premise | the answer of a completion is lost after its commit; before the except clause of that worker runs, the migration is revised, generated and published again, and `fail_publication` (`store.py:428`), which names its record by id and status only, fails the publication of the later attempt while another worker is at it |
| `HumanWorkSurvives`, `ReadyIsNotRewritten` (`Publication`) | `Meddling = "anytime"` | the head is read several calls before the branch is forced (`publisher.py:316`) |
| `TerminalSyncStays` (`SourceSync`) | `"lost"` in `Faults` | a defer that raised had queued its job after all |
| `MigrationHasItsJob` (`SourceSync`) | without the exception for `raisedOn` | the claim of a duplicate fan-out job raises, the except clause (`repository_intelligence/tasks.py:48`) fails the job by its id while another worker analyzes it, and that worker creates the migration nevertheless |
| `VerdictIsOfTheLastRetry` (`RunPage`) | without its premise | a retry of a run that is running makes two workers write one row |

Read in the code on the way: a body that breaks off while it is read
(`collector.py:141`), or an artifact the store refuses, is no `CollectionError`, so the
sync fails without being recorded and its source stays healthy. A put that is interrupted
leaves an object of which every later put of the same bytes says that its content differs,
and nothing removes it; a put that comes while another still writes is told the same, and
one that comes before the other's fsync gets a reference that a power failure can leave
naming nothing. Of two concurrent requests with the same key the slower gets a conflict
instead of the first one's response. When a first attempt left a branch without a pull
request, publishing the next one drops the commit checkpoint (`store.py:138`) and takes
its own branch for a collision, then and later. The sandbox client gives up after its
180 s on executions that stay within the budget of 600 s it asks for. A run whose worker
dies stays running, although the docstring of `run_comparison` (`tasks.py:93-96`) has the
case in mind. A run page opened on something that is no number loads for ever. A fan-out
job whose claim raises while it is queued stays queued: `fail_fanout_job` fails only what
is analyzing, and the job that was to do it is gone. A decision is synchronized with
GitHub only when the migration is pr_opened at that moment (`actions.py:21`): when a
revision of an opened one has become ready, a decline leaves the pull request of the
earlier attempt open.

## What is proved

`MigrationLifecycleProofs` proves, for any number of requests, keys, job slots and
attempts, the types, every safety property that `lifecycle_histories` and
`lifecycle_liveness` check, that attempts are versioned rows too
(`AttemptsAreVersioned`) and that a finished one is never written again
(`TerminalAttemptsStay`). The only assumptions are those of the module: `MaxAttempts` is a positive
natural number and `ClientOps` is a set of operations.

The argument goes in layers, each inductive relative to those before:

1. `Base`: the types, the chain of attempts, and that every job and request names an
   attempt that exists. The chain needs the last: a completion writes the attempt its
   job names, and would create a hole if that attempt could be absent. From `Base`
   follows `LatestIsCurrent`, that `MAX(number)` is the current attempt.
2. The effects of each action on the rows are established once (`QueueAttemptPlans`,
   `ClaimAttemptClaims`, ..., collected in `Effects`); the later layers argue from these
   instead of from the actions.
3. `PublishedIsVerified`, then `InStep` (`AttemptFollowsMigration`, strengthened by
   `OnlyReached`: an attempt is only ever in one of the statuses the stores persist),
   then `PublicationFollowsMigration`.
4. `NoLostDecision` from `DecisionsArePast`: every remembered decision has seen a
   version smaller than the present one, and every accepted request raises it.
5. `MigrationIsVersioned` and `AttemptsAreVersioned`: every step of the detailed
   module maps to a step or a stutter of `VersionedEntity`, a transaction with two
   edges to a step that counts two.
6. `WorkerOwnsItsWork`, last because a worker past its claim is alone only as long as
   no other step writes its attempt or its record, which takes the first three layers.

`SourceSyncProofs` proves the types, every property of the run `source_sync` and, under a
premise, `NoChangeIsMissed`, for any documents, any number of
repositories, requests and workers, both adapters and every combination of
faults. `TerminalSyncsStay` assumes that no defer is done
with its answer lost, and `NoChangesAreMissed` that no two syncs are between reading the
baseline and their commit (`SyncsDoNotOverlap`; nothing in the code sees to it, and TLC
refutes the property without it). `DocumentsAssumption`, that the empty document is among
those the provider may publish, excludes nothing. The types
come first; then two halves that need nothing of each other:

1. The fan-out jobs. `FanoutEffects` says that a step leaves them alone, adds some,
   claims one or settles one. `AnalysisIsExclusive` is not inductive alone: it needs
   `HoldsItsJob`, that whoever analyzes has a job still marked `analyzing`, because that
   is why a second claim fails and why the migration's job can be completed with it. A raising
   claim breaks it for the job it was about, which is then failed and claimed no more:
   whoever analyzes has a job that is analyzing, or is failed and in `raisedOn`.
2. The sync requests. `SyncInStep` follows a key from the router through the queue to
   its one worker; it holds under all faults. `SyncUnmistaken` sharpens the status to
   exactly the one of that place, and fails as soon as a defer's answer can be lost.

`WorkIsCarried` splits into `RequestsCarried`, which uses the second half (a worker
that has marked its request drops it without loss), and `JobsCarried`, which needs the
types only. `MovesAreSeen` rests on `BasesAreSeen`: what a sync is about to compare with
has been seen itself, stale or not, and `CommitTells` adds what the commit finds.
`NoChangesAreMissed` rests on `BaselineIsCurrent`, which an overlap ends.

`SandboxExecutorProofs` proves the types, the safety properties about a stored
verification and `EvidenceIsOrdered`, that its checks are the requested ones in order, for any number of attempts and containers, any proposals, bounds
and time limits, and every combination of faults; the assumptions used are that a proposal
consists of paths and commands, that a tree lists each file once and as `as_posix()` writes
it (`IsListing`), and that the bounds fit into each other (`PolicyAssumption`). The properties compare an answer with what happened in the
container, so none of them is inductive. `AttemptInv` ties the Worker's local variables
to the history place by place: nothing has run before the loop (`NothingRanYet`); in it
everything that ran passed, on the patched tree (`AllPassedSoFar`); after it the status
is what the history earned (`StatusIsEarned`), which `ResponseIsHonest` carries over to
the answer; and an accepted answer is the only one and stays as it is
(`AnswersAreHonest`, `AcceptedIsGuarded`). A step of one attempt leaves the invariant of
the others alone (`OthersAreLeftAlone`), although they compete for containers. `PoliciesDifferWhereNamed`
is about the two policies only: `KeepKeeps` says what filtering leaves of a sequence,
`SentPathsPass` that a path one policy lets through passes the other as it is sent, and
`PoliciesAgree` puts the request together.

`DeltaCodeAppProofs` proves the types and the safety properties of all pages, as parts
of the whole frontend, for any number of reads in flight, versions, tabs, jobs and
migrations and any size of a page; it assumes no more than that there is at least one
version, one job and one row in a page.

1. The migration page. `RowsAreRead`: whatever was read is the row or older than it, and
   what the page has merged differs from the row of the same version in two ways only
   (`Merged`: the publication's status after "publish", the former attempt's evidence
   after "generate"). `PageIsStill`: a form is open, or a request out, only over a row no
   timer reads and after the load has ended, so the page still shows what was sent. The
   properties compare page and server and are not inductive; they follow from
   `PermittedIsAccepted` (on the row itself, what is permitted is accepted) and
   `MergedIsRefused` (on what differs by a merge, nothing permitted is accepted).
2. The run pages. `OneWriter`: as long as no retry overlaps earlier work, only the last
   job that was queued is unfinished; `VerdictsAreLast`: therefore a verdict in the row,
   on its way or on a page is not older than the job its page asked for.
3. The pages that load once. `LoadsOnce`: while a live page loads it has nothing but what it
   started with, and from the moment it has settled nothing is asked any more and it says
   what it has. Each page settles in its own way, by its own combination of answers, and
   `PagesSayWhatTheyHave` goes through them.
4. The inbox. What is listed goes strictly downwards to the cursor (`ListedInOrder`), the page
   on its way strictly on below it (`NextPage`), and of the rows that were there at first
   every one down to the cursor is listed (`ListedSoFar`); rows created meanwhile are above
   or between and disturb none of this. It rests on what the query returns
   (`ThereIsANewest`), an induction over the length of the page.

`ArtifactStoreProofs` proves the types, both properties of `artifact_store` and that what a read
returns is the content (`ReadsAreWhole`), for any number of
processes, contents of any size and every combination of faults. The invariant says that
there is one writer and that the file is what it has written (`WriterIsAlone`, from the
exclusive create), that nobody has read more than there is (`ReadersFollow`), and that what
is on the disk is complete (`SyncedIsWhole`), which is all that survives a power failure.

`ProviderHealthProofs` proves the types and the properties of `provider_health`, for any finite sets
of sources and events and any number of connections and faults; `NoDeadlock` for the OpenAPI
adapter. The health half rests on the row lock: one transaction holds a source's row
(`HoldersExclude`), and has made of it what the committed row becomes (`RowsAreWritten`);
two that hold rows of different sources at once have met (`OverlapsAreSeen`), so who has met
nobody tells the provider what is still true (`ToldIsCurrent`). The deadlock half needs
`EventsInOrder`: a transaction that waits for an event waits for one that has
inserted a later event than those the waiter holds. Of the waiters of a circle, the one that has come
farthest (`LastEvent`; there are finitely many) waits for nobody in it.

`PublicationProofs` proves the types, every property of the runs `publication_revisions`
and `publication_meddling`, and `CompletesOnItsOwnCommit`, for any number of attempts, transitions and decision requests
and every combination of refused calls and lost answers. Each theorem names the
assumption it needs; TLC refutes the property without it:

- `HumanWorkSurvives` and `CompletesOnItsOwnCommit` assume that nobody touches the branch
  *while* a publication runs. The head is read calls before it is forced
  (`publisher.py:316`), and a push in between is overwritten.
- `ReadyIsNotRewritten` assumes besides one decision at a time: of two, one can be about
  to mark the draft ready while the other sends the migration into its next revision.
- `OpenedShowsTheAttempt` assumes that nobody meddles at all, since a push after the
  publication is over is not the migration's to notice.
- `MaintainsADraft`, the refinement of `DraftPullRequest`, assumes that nobody meddles
  and that there is one decision at a time.

The layers: `Base` keeps the two rows and the worker's copy in step (`Phases`: the record
is worked on exactly while the worker is busy; `Checkpoints`: what a record has recorded is
of its attempt; `Working`: how far the record has moved on from the copy its worker
claimed). `OnOurBranch` adds what the worker may rely on between two calls: the branch is
still where it saw it, then at its commit, then so is the pull request. From it a forced
push replaces a recorded commit only, hence never somebody else's. `DraftAtWork` adds that
a worker which found the draft still has it, because a decision on its way to GitHub is
about an opened migration, on which no worker works. `PullKnown` relates the record to the
pull request: the record knows of every one that is closed and of none that is missing, so
that `OpenDraft` never opens a second one. A push onto a draft replaces the head the record
names, which is of an earlier attempt: the abstract `Update` to a later one.

`RowLocksProofs` proves all properties of `row_locks`, for any number of connections and
attempts, every combination of faults and circles of any length; the assumptions are the
module's, that there is an attempt and which faults there are.

1. `RowInv`. The rows a transaction holds are exactly those its statements have found, and
   what these have asked of them is still so (`Transacts`). A statement of another
   connection writes nothing; its commit writes rows it holds, so none that this one holds
   (`CommitHasEffects`, `OthersStillFind`). What a transaction has *not* found it has not
   locked, and there it takes more: that the attempts are a chain and that the statuses
   move together (`Chain`, `InStep`), which leaves no commit that could make such a row
   appear. `ChecksStillHold` is this invariant when all statements are behind.
2. `ClaimInv`, relative to `RowInv`: who is past its claim has what it claimed, and has it
   alone. The claim is a compare-and-set on a row that it holds, so of two the second finds
   nothing; and an except clause is reached only from a claim that succeeded or raised.
   `ClaimantsEndTheirs` follows for each commit that changes an attempt or the record.
3. `NobodyWaitsForEver`. A connection waits for one row at a time, so in a circle each holds
   a row while it waits. If that is the migration, it is a request and waits for the
   attempt or the record (`MigrationsHolder`); if it is one of these, it is a worker and
   waits for the migration (`OthersHolder`). So somewhere in every circle a request waits for
   a worker that waits for the migration: but such a worker holds an attempt that is planned
   or generating, or the record of a publication in progress, so the migration is in a
   status in which `validate_transition` has refused the request under its first lock
   (`NoneBehindMigration`).

Only model-checked: liveness (`GenerationSettles`, `PublicationSettles`,
`EveryRequestIsAnswered`, `ActiveWorkIsRefreshed`, `PendingRunIsFollowed`), since TLAPS does
not treat fairness here. The induction theorems of the library take the formula as a
parameter, which the provers here cannot instantiate; where a proof needs induction over
numbers it takes the set of those for which the formula holds (`EveryNat`, from the
well-foundedness of `<`). For the same reason operators that the provers must see through
are written without the sequence operators that are defined by recursion: `Keep` for
`SelectSeq`, and `Newest` by what a query returns and not by sorting.

## Not modelled

What a comparison, an adapter or an analysis computes, context building and the calls of the
language model, the application of a patch to texts, sign-in, counters and limits,
markup. `PROJECT.json` names each with its reason.

## Plan

In this order, the most important behaviour first; all are done, each with its proofs.

1. `MigrationLifecycle` with its proofs.
2. `Publication`, with `DraftPullRequest` as its abstract specification, and its proofs.
3. `SourceSync`, composed with the lifecycle by the migration it creates.
4. `SandboxPolicy` and `SandboxExecutor`.
5. The frontend: `MigrationPage`, `RunPage`, `WorkspacePages`, composed by `DeltaCodeApp`.
6. `RowLocks`: row locks as actions, lock orders of the stores, deadlock and its victim.
7. `ArtifactStore`: create, write and crash as separate steps, concurrent puts.
8. `ProviderHealth`: failure counters and the recomputed status under READ COMMITTED.

Next: the classification of an impact as an algorithm, and that `RowLocks` implements the
transactions of `MigrationLifecycle`, step by step.
