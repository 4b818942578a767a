-------------------------- MODULE PublicationProofs --------------------------
(***************************************************************************)
(* The safety of the publisher and the decisions against GitHub, for any   *)
(* number of attempts, transitions and decision requests and for every     *)
(* combination of faults.                                                  *)
(***************************************************************************)
EXTENDS Publication, TLAPS

USE DEF Commits, Foreign

-----------------------------------------------------------------------------
(* The rows and the worker's copy of them *)

MigStates == [ status : {"ready", "pr_opening", "pr_opened", "blocked", "needs_revision",
                         "approved", "snoozed", "declined"},
               version : 1..MaxVersion + 1, attempt : Commits, verified : BOOLEAN ]
RecordStates == [ status : {"absent", "queued", "publishing", "completed", "failed"},
                  attempt : 0..MaxAttempts, commit : 0..MaxAttempts, head : 0..MaxAttempts,
                  pull : BOOLEAN, check : 0..MaxAttempts ]
GitHubStates == [ branch : 0..Foreign, pull : {"none", "open", "closed"}, draft : BOOLEAN,
                  head : 0..Foreign, checks : SUBSET Commits ]
WorkerStates == [ pc : {"idle", "base", "pull", "branch", "commit", "ref", "draft", "check",
                        "done", "failing", "conflicted"},
                  record : RecordStates, seen : 0..Foreign, commit : 0..MaxAttempts ]
Requests == [ pc : {"sent", "loaded", "verified", "synced"},
              op : {"approve", "revise", "snooze", "decline"},
              expected : Nat, head : 0..MaxAttempts ]
DecisionStates == Requests \cup {NoDecision}

Types ==
  /\ mig \in MigStates /\ rec \in RecordStates /\ gh \in GitHubStates
  /\ pub \in WorkerStates /\ dec \in [Deciders -> DecisionStates]

\* A migration is pr_opening exactly while its record is queued or worked on.
Phases ==
  /\ mig.status = "pr_opening" <=> rec.status \in {"queued", "publishing"}
  /\ pub.pc # "idle" <=> rec.status = "publishing"
  /\ mig.status = "pr_opening" => rec.attempt = mig.attempt /\ mig.version <= MaxVersion

\* The checkpoints of a record are those of its attempt.
OfItsAttempt(record) ==
  /\ record.commit \in {0, record.attempt} /\ record.check \in {0, record.attempt}
  /\ record.head <= record.attempt

Checkpoints ==
  /\ OfItsAttempt(rec) /\ OfItsAttempt(pub.record) /\ rec.attempt <= mig.attempt
  /\ rec.check # 0 => rec.check \in gh.checks
  /\ mig.status = "pr_opened" => rec.pull

\* How far the record has moved on from the copy its worker claimed.
InStep(record, worker) ==
  /\ worker.record.attempt = record.attempt
  /\ worker.pc \in {"base", "pull", "branch", "commit", "ref", "draft"}
       => record.pull = worker.record.pull
  /\ worker.pc \in {"base", "pull", "branch", "commit", "ref", "draft", "check"}
       => record.check = worker.record.check
  /\ worker.pc \in {"ref", "draft", "check", "done"} => worker.commit = record.attempt
  /\ worker.pc \in {"check", "done"} => record.pull
  /\ worker.pc = "done" => record.check = record.attempt

Working == pub.pc # "idle" => InStep(rec, pub)

Base == Types /\ Phases /\ Checkpoints /\ Working

USE BoundsAssumption, FaultsAssumption, MeddlingAssumption

LEMMA QueuePublicationKeepsBase ==
  ASSUME Base, QueuePublication PROVE Base'
<1>1. /\ mig \in MigStates /\ rec \in RecordStates /\ mig.version < MaxVersion
      /\ mig.status \in {"ready", "blocked"} /\ mig' = Becomes("pr_opening")
      /\ rec' = Requeued(rec, mig.attempt) /\ UNCHANGED <<gh, pub, dec>>
  BY DEF QueuePublication, Base, Types
<1>2. /\ mig' \in MigStates /\ mig'.status = "pr_opening" /\ mig'.version = mig.version + 1
      /\ mig'.attempt = mig.attempt
  <2>1. mig.version + 1 \in 1..MaxVersion + 1  BY <1>1 DEF MigStates
  <2> QED  BY <1>1, <2>1 DEF Becomes, MigStates
<1>3. /\ rec' \in RecordStates /\ rec'.status = "queued" /\ rec'.attempt = mig.attempt
      /\ rec'.commit = IF rec.attempt = mig.attempt THEN rec.commit ELSE 0
      /\ rec'.check = IF rec.attempt = mig.attempt THEN rec.check ELSE 0
      /\ rec'.head = rec.head /\ rec'.pull = rec.pull
  <2> DEFINE c == IF rec.attempt = mig.attempt THEN rec.commit ELSE 0
             k == IF rec.attempt = mig.attempt THEN rec.check ELSE 0
  <2>1. c \in 0..MaxAttempts /\ k \in 0..MaxAttempts /\ mig.attempt \in 0..MaxAttempts
    BY <1>1 DEF RecordStates, MigStates
  <2>2. rec' = [rec EXCEPT !.status = "queued", !.attempt = mig.attempt, !.commit = c,
                           !.check = k]
    BY <1>1 DEF Requeued
  <2> HIDE DEF c, k
  <2>3. /\ rec' \in RecordStates /\ rec'.status = "queued" /\ rec'.attempt = mig.attempt
        /\ rec'.commit = c /\ rec'.check = k /\ rec'.head = rec.head /\ rec'.pull = rec.pull
    BY <1>1, <2>1, <2>2 DEF RecordStates
  <2> QED  BY <2>3 DEF c, k
<1>4. pub.pc = "idle"  BY <1>1 DEF Base, Phases
<1>5. Types'  BY <1>1, <1>2, <1>3 DEF Base, Types
<1>6. Phases'  BY <1>1, <1>2, <1>3, <1>4 DEF Phases, MigStates
<1>7. Checkpoints'
  BY <1>1, <1>2, <1>3 DEF Base, Checkpoints, OfItsAttempt, MigStates, RecordStates
<1>8. Working'  BY <1>1, <1>4 DEF Working
<1> QED  BY <1>5, <1>6, <1>7, <1>8 DEF Base

LEMMA RegenerateKeepsBase ==
  ASSUME Base, NEW verified \in BOOLEAN, Regenerate(verified) PROVE Base'
<1> DEFINE n == IF mig.status = "blocked" THEN mig.attempt + 1 ELSE mig.attempt
<1>1. /\ mig \in MigStates /\ mig.version < MaxVersion
      /\ mig.status \in {"needs_revision", "blocked"} /\ n <= MaxAttempts
      /\ mig' = [Becomes(IF verified THEN "ready" ELSE "blocked")
                   EXCEPT !.attempt = n, !.verified = verified]
      /\ UNCHANGED <<rec, gh, pub, dec>>
  BY DEF Regenerate, Base, Types
<1>2. n \in Commits /\ n >= mig.attempt  BY <1>1 DEF MigStates
<1> HIDE DEF n
<1>3. /\ mig' \in MigStates /\ mig'.status \in {"ready", "blocked"} /\ mig'.attempt = n
  <2>1. mig.version + 1 \in 1..MaxVersion + 1  BY <1>1 DEF MigStates
  <2> QED  BY <1>1, <1>2, <2>1 DEF Becomes, MigStates
<1>4. Types'  BY <1>1, <1>3 DEF Base, Types
<1>5. Phases'  BY <1>1, <1>3 DEF Base, Phases
<1>6. Checkpoints'
  BY <1>1, <1>2, <1>3 DEF Base, Types, Checkpoints, OfItsAttempt, MigStates, RecordStates
<1>7. Working'  BY <1>1 DEF Base, Working, InStep
<1> QED  BY <1>4, <1>5, <1>6, <1>7 DEF Base

LEMMA ClaimKeepsBase ==
  ASSUME Base, Claim PROVE Base'
<1>1. /\ rec \in RecordStates /\ pub.pc = "idle" /\ rec.status = "queued"
      /\ rec' = [rec EXCEPT !.status = "publishing"]
      /\ pub' = [Idle EXCEPT !.pc = "base", !.record = rec]
      /\ UNCHANGED <<mig, gh, dec>>
  BY DEF Claim, At, Base, Types
<1>2. /\ rec' \in RecordStates /\ rec'.status = "publishing" /\ rec'.attempt = rec.attempt
      /\ rec'.commit = rec.commit /\ rec'.check = rec.check /\ rec'.head = rec.head
      /\ rec'.pull = rec.pull
  BY <1>1 DEF RecordStates
<1>3. pub' \in WorkerStates /\ pub'.pc = "base" /\ pub'.record = rec
  <2>1. Idle = [pc |-> "idle", record |-> NoRecord, seen |-> 0, commit |-> 0]  BY DEF Idle
  <2>2. 0 \in 0..Foreign /\ 0 \in 0..MaxAttempts  OBVIOUS
  <2> QED  BY <1>1, <2>1, <2>2 DEF WorkerStates
<1>4. Types'  BY <1>1, <1>2, <1>3 DEF Base, Types
<1>5. Phases'  BY <1>1, <1>2, <1>3 DEF Base, Phases
<1>6. Checkpoints'  BY <1>1, <1>2, <1>3 DEF Base, Checkpoints, OfItsAttempt
<1>7. Working'  BY <1>2, <1>3 DEF Working, InStep
<1> QED  BY <1>4, <1>5, <1>6, <1>7 DEF Base

\* A step of the worker between its claim and its end.
LEMMA WorkerStepKeepsBase ==
  ASSUME Base, pub.pc # "idle", UNCHANGED <<mig, dec>>,
         gh' \in GitHubStates, gh.checks \subseteq gh'.checks,
         rec' \in RecordStates, rec'.status = rec.status, rec'.attempt = rec.attempt,
         OfItsAttempt(rec'), rec'.check # 0 => rec'.check \in gh'.checks,
         rec.pull => rec'.pull,
         pub' \in WorkerStates, pub'.pc # "idle", pub'.record = pub.record,
         InStep(rec', pub')
  PROVE  Base'
<1>1. Types'  BY DEF Base, Types
<1>2. Phases'  BY DEF Base, Phases
<1>3. Checkpoints'  BY DEF Base, Checkpoints, OfItsAttempt
<1>4. Working'  BY DEF Working, InStep
<1> QED  BY <1>1, <1>2, <1>3, <1>4 DEF Base

LEMMA WorkerGoes ==
  ASSUME Base, pub.pc # "idle",
         NEW pc \in {"pull", "branch", "commit", "ref", "draft", "check", "done", "failing",
                     "conflicted"}
  PROVE  /\ [pub EXCEPT !.pc = pc] \in WorkerStates /\ [pub EXCEPT !.pc = pc].pc = pc
         /\ [pub EXCEPT !.pc = pc].record = pub.record
         /\ [pub EXCEPT !.pc = pc].seen = pub.seen
         /\ [pub EXCEPT !.pc = pc].commit = pub.commit
         /\ pub.record.attempt = rec.attempt /\ InStep(rec, pub)
         /\ pub.pc \in {"base", "pull", "branch", "commit", "ref", "draft", "check", "done",
                        "failing", "conflicted"}
BY DEF Base, Types, Working, WorkerStates, InStep

\* A step that only moves on, or stops.
LEMMA GoKeepsBase ==
  ASSUME Base, pub.pc # "idle", UNCHANGED <<mig, rec, gh, dec>>,
         NEW pc \in {"pull", "branch", "commit", "ref", "draft", "check", "done", "failing",
                     "conflicted"},
         Go(pc), InStep(rec, pub')
  PROVE  Base'
<1>1. /\ pub' \in WorkerStates /\ pub'.pc # "idle" /\ pub'.record = pub.record
  BY WorkerGoes DEF Go
<1> QED  BY <1>1, WorkerStepKeepsBase DEF Base, Types, Checkpoints

\* Stopping is always in step.
LEMMA StopKeepsBase ==
  ASSUME Base, pub.pc # "idle", UNCHANGED <<mig, rec, gh, dec>>, Conflict \/ Raise
  PROVE  Base'
<1>1. PICK pc \in {"failing", "conflicted"} : Go(pc)  BY DEF Conflict, Raise
<1>2. InStep(rec, pub')  BY <1>1, WorkerGoes DEF Go, InStep
<1> QED  BY <1>1, <1>2, GoKeepsBase

\* A write to GitHub, with its checkpoint, refused, or with its answer lost.
LEMMA WritesKeepsBase ==
  ASSUME Base, pub.pc # "idle",
         NEW after \in GitHubStates, NEW checkpoint \in RecordStates,
         NEW worker \in WorkerStates, Writes(after, checkpoint, worker),
         gh.checks \subseteq after.checks,
         checkpoint.status = rec.status, checkpoint.attempt = rec.attempt,
         OfItsAttempt(checkpoint), checkpoint.check # 0 => checkpoint.check \in after.checks,
         rec.pull => checkpoint.pull,
         worker.pc # "idle", worker.record = pub.record, InStep(checkpoint, worker)
  PROVE  Base'
<1>1. CASE gh' = after /\ rec' = checkpoint /\ pub' = worker
  BY <1>1, WorkerStepKeepsBase DEF Writes
<1>2. CASE gh' \in {gh, after} /\ rec' = rec /\ Raise
  <2>1. /\ pub' \in WorkerStates /\ pub'.pc = "failing" /\ pub'.record = pub.record
        /\ pub.record.attempt = rec.attempt
    BY <1>2, WorkerGoes DEF Raise, Go
  <2>2. InStep(rec, pub')  BY <2>1 DEF InStep
  <2>3. UNCHANGED <<mig, dec>>  BY DEF Writes
  <2> QED  BY <1>2, <2>1, <2>2, <2>3, WorkerStepKeepsBase DEF Base, Types, Checkpoints
<1> QED  BY <1>1, <1>2 DEF Writes

LEMMA ChecksKeepBase ==
  ASSUME Base, CheckBase \/ CheckPull \/ CheckBranch
  PROVE  Base'
<1>1. pub.pc \in {"base", "pull", "branch"} /\ UNCHANGED <<mig, rec, gh, dec>>
  BY DEF CheckBase, CheckPull, CheckBranch, At
<1>2. CASE Conflict \/ Raise  BY <1>1, <1>2, StopKeepsBase
<1>3. CASE \/ pub.pc = "base" /\ Go("pull")
           \/ pub.pc = "pull" /\ Go("branch")
  <2>1. PICK pc \in {"pull", "branch"} : Go(pc)  BY <1>3
  <2>2. InStep(rec, pub')  BY <1>1, <2>1, WorkerGoes DEF Go, InStep
  <2> QED  BY <1>1, <2>1, <2>2, GoKeepsBase
<1>4. CASE pub.pc = "branch" /\ pub' = [pub EXCEPT !.pc = "commit", !.seen = gh.branch]
  <2>1. gh.branch \in 0..Foreign /\ pub \in WorkerStates
    BY DEF Base, Types, GitHubStates
  <2>2. /\ pub' \in WorkerStates /\ pub'.pc = "commit" /\ pub'.record = pub.record
        /\ pub'.commit = pub.commit
    BY <1>4, <2>1 DEF WorkerStates
  <2>3. InStep(rec, pub')  BY <1>4, <2>2 DEF Base, Working, InStep
  <2> QED  BY <1>1, <2>2, <2>3, WorkerStepKeepsBase DEF Base, Types, Checkpoints
<1> QED  BY <1>2, <1>3, <1>4 DEF CheckBase, CheckPull, CheckBranch, At

LEMMA MakeCommitKeepsBase ==
  ASSUME Base, MakeCommit PROVE Base'
<1>1. /\ pub.pc = "commit" /\ pub \in WorkerStates /\ rec \in RecordStates
      /\ gh \in GitHubStates /\ pub.record.attempt = rec.attempt
      /\ OfItsAttempt(pub.record) /\ OfItsAttempt(rec) /\ InStep(rec, pub)
  BY DEF MakeCommit, At, Base, Types, Working, Checkpoints, InStep
<1> DEFINE w(c) == [pub EXCEPT !.pc = "ref", !.commit = c]
<1>2. \A c \in {rec.attempt} : /\ w(c) \in WorkerStates /\ w(c).pc = "ref" /\ w(c).commit = c
                               /\ w(c).record = pub.record /\ w(c).seen = pub.seen
  BY <1>1 DEF WorkerStates, RecordStates
<1>3. InStep(rec, w(rec.attempt))  BY <1>1, <1>2 DEF InStep
<1>4. CASE pub.record.commit # 0
  <2>1. pub' = w(rec.attempt) /\ UNCHANGED <<mig, rec, gh, dec>>
    BY <1>1, <1>4 DEF MakeCommit, OfItsAttempt
  <2> HIDE DEF w
  <2> QED  BY <1>1, <1>2, <1>3, <2>1, WorkerStepKeepsBase DEF Base, Checkpoints
<1>5. CASE pub.record.commit = 0
  <2> DEFINE checkpoint == CommitRecorded(rec.attempt)
  <2>1. Writes(gh, checkpoint, w(rec.attempt))  BY <1>1, <1>5 DEF MakeCommit
  <2>2. /\ checkpoint \in RecordStates /\ checkpoint.status = rec.status
        /\ checkpoint.attempt = rec.attempt /\ checkpoint.commit = rec.attempt
        /\ checkpoint.check = rec.check /\ checkpoint.head = rec.head
        /\ checkpoint.pull = rec.pull
    BY <1>1 DEF CommitRecorded, RecordStates
  <2> HIDE DEF checkpoint, w
  <2>3. OfItsAttempt(checkpoint) /\ InStep(checkpoint, w(rec.attempt))
    BY <1>1, <1>3, <2>2 DEF OfItsAttempt, InStep
  <2> QED  BY <1>1, <1>2, <2>1, <2>2, <2>3, WritesKeepsBase DEF Base, Checkpoints
<1> QED  BY <1>4, <1>5

\* What a worker with its commit made finds.
LEMMA AtWork ==
  ASSUME Base, pub.pc \in {"ref", "draft", "check", "done"}
  PROVE  /\ pub \in WorkerStates /\ rec \in RecordStates /\ gh \in GitHubStates
         /\ pub.record.attempt = rec.attempt /\ pub.commit = rec.attempt
         /\ rec.status = "publishing" /\ mig.status = "pr_opening"
         /\ rec.attempt = mig.attempt /\ pub.commit \in Commits
         /\ OfItsAttempt(rec) /\ OfItsAttempt(pub.record) /\ InStep(rec, pub)
         /\ rec.check # 0 => rec.check \in gh.checks
<1>1. /\ pub \in WorkerStates /\ rec \in RecordStates /\ gh \in GitHubStates
      /\ mig \in MigStates
  BY DEF Base, Types
<1>2. InStep(rec, pub)  BY DEF Base, Working
<1>3. rec.status = "publishing" /\ mig.status = "pr_opening" /\ rec.attempt = mig.attempt
  BY DEF Base, Phases
<1> QED  BY <1>1, <1>2, <1>3 DEF Base, Checkpoints, InStep, MigStates

LEMMA PushedFacts ==
  ASSUME gh \in GitHubStates, NEW commit \in 0..Foreign
  PROVE  /\ Pushed(commit) \in GitHubStates /\ Pushed(commit).branch = commit
         /\ Pushed(commit).pull = gh.pull /\ Pushed(commit).draft = gh.draft
         /\ Pushed(commit).head = (IF gh.pull = "open" THEN commit ELSE gh.head)
         /\ Pushed(commit).checks = gh.checks
<1> DEFINE h == IF gh.pull = "open" THEN commit ELSE gh.head
<1>1. h \in 0..Foreign  BY DEF GitHubStates
<1>2. Pushed(commit) = [gh EXCEPT !.branch = commit, !.head = h]  BY DEF Pushed
<1> HIDE DEF h
<1>3. /\ Pushed(commit) \in GitHubStates /\ Pushed(commit).branch = commit
      /\ Pushed(commit).pull = gh.pull /\ Pushed(commit).draft = gh.draft
      /\ Pushed(commit).head = h /\ Pushed(commit).checks = gh.checks
  BY <1>1, <1>2 DEF GitHubStates
<1> QED  BY <1>3 DEF h

LEMMA RefKeepsBase ==
  ASSUME Base, CreateBranch \/ UpdateBranch PROVE Base'
<1>1. pub.pc = "ref"  BY DEF CreateBranch, UpdateBranch, At
<1>2. /\ HeadRecorded \in RecordStates /\ HeadRecorded.status = rec.status
      /\ HeadRecorded.attempt = rec.attempt /\ HeadRecorded.commit = rec.commit
      /\ HeadRecorded.head = pub.commit /\ HeadRecorded.pull = rec.pull
      /\ HeadRecorded.check = rec.check
  <2>1. pub.commit \in 0..MaxAttempts  BY <1>1, AtWork
  <2> QED  BY <1>1, <2>1, AtWork DEF HeadRecorded, RecordStates
<1>3. /\ NextPc("draft") \in WorkerStates /\ NextPc("draft").pc = "draft"
      /\ NextPc("draft").record = pub.record /\ NextPc("draft").commit = pub.commit
  BY <1>1, WorkerGoes DEF NextPc
<1>4. OfItsAttempt(HeadRecorded) /\ InStep(HeadRecorded, NextPc("draft"))
      /\ InStep(rec, NextPc("draft"))
  BY <1>1, <1>2, <1>3, AtWork DEF OfItsAttempt, InStep
<1>5. CASE Writes(Pushed(pub.commit), HeadRecorded, NextPc("draft"))
  <2>1. Pushed(pub.commit) \in GitHubStates /\ Pushed(pub.commit).checks = gh.checks
    BY <1>1, AtWork, PushedFacts
  <2> HIDE DEF Writes
  <2> QED  BY <1>1, <1>2, <1>3, <1>4, <1>5, <2>1, AtWork, WritesKeepsBase
<1>6. CASE Conflict /\ UNCHANGED <<mig, rec, gh, dec>>
  BY <1>1, <1>6, StopKeepsBase
<1>7. CASE rec' \in {HeadRecorded, rec} /\ Go("draft") /\ UNCHANGED <<mig, gh, dec>>
  <2>1. pub' = NextPc("draft")  BY <1>7 DEF Go, NextPc
  <2> QED  BY <1>1, <1>2, <1>3, <1>4, <1>7, <2>1, AtWork, WorkerStepKeepsBase
<1> QED  BY <1>5, <1>6, <1>7 DEF CreateBranch, UpdateBranch

LEMMA DraftKeepsBase ==
  ASSUME Base, OpenDraft \/ UpdateDraft PROVE Base'
<1>1. pub.pc = "draft"  BY DEF OpenDraft, UpdateDraft, At
<1> DEFINE checkpoint == [rec EXCEPT !.pull = TRUE]
           opened == [gh EXCEPT !.pull = "open", !.draft = TRUE, !.head = gh.branch]
<1>2. /\ checkpoint \in RecordStates /\ checkpoint.status = rec.status
      /\ checkpoint.attempt = rec.attempt /\ checkpoint.commit = rec.commit
      /\ checkpoint.head = rec.head /\ checkpoint.pull /\ checkpoint.check = rec.check
  BY <1>1, AtWork DEF RecordStates
<1>3. /\ NextPc("check") \in WorkerStates /\ NextPc("check").pc = "check"
      /\ NextPc("check").record = pub.record /\ NextPc("check").commit = pub.commit
  BY <1>1, WorkerGoes DEF NextPc
<1>4. opened \in GitHubStates /\ opened.checks = gh.checks
  BY <1>1, AtWork DEF GitHubStates
<1>5. \/ Writes(opened, checkpoint, NextPc("check"))
      \/ Writes(gh, checkpoint, NextPc("check"))
      \/ Conflict /\ UNCHANGED <<mig, rec, gh, dec>>
  BY DEF OpenDraft, UpdateDraft
<1> HIDE DEF checkpoint, opened
<1>6. OfItsAttempt(checkpoint) /\ InStep(checkpoint, NextPc("check"))
  BY <1>1, <1>2, <1>3, AtWork DEF OfItsAttempt, InStep
<1>7. CASE Conflict /\ UNCHANGED <<mig, rec, gh, dec>>
  BY <1>1, <1>7, StopKeepsBase
<1>8. ASSUME NEW after \in {opened, gh}, Writes(after, checkpoint, NextPc("check"))
      PROVE  Base'
  <2>1. after \in GitHubStates /\ after.checks = gh.checks  BY <1>1, <1>4, AtWork
  <2> QED  BY <1>1, <1>2, <1>3, <1>6, <1>8, <2>1, AtWork, WritesKeepsBase
<1> QED  BY <1>5, <1>7, <1>8

LEMMA AttachCheckKeepsBase ==
  ASSUME Base, AttachCheck PROVE Base'
<1>1. pub.pc = "check"  BY DEF AttachCheck, At
<1>2. /\ NextPc("done") \in WorkerStates /\ NextPc("done").pc = "done"
      /\ NextPc("done").record = pub.record /\ NextPc("done").commit = pub.commit
  BY <1>1, WorkerGoes DEF NextPc
<1>3. CASE pub.record.check # 0 /\ Go("done") /\ UNCHANGED <<mig, rec, gh, dec>>
  <2>1. pub' = NextPc("done")  BY <1>3 DEF Go, NextPc
  <2>2. InStep(rec, pub')
    BY <1>1, <1>2, <1>3, <2>1, AtWork DEF InStep, OfItsAttempt
  <2> QED  BY <1>1, <1>3, <2>2, GoKeepsBase
<1>4. CASE Writes([gh EXCEPT !.checks = @ \cup {pub.commit}],
                  [rec EXCEPT !.check = pub.commit], NextPc("done"))
  <2> DEFINE checkpoint == [rec EXCEPT !.check = pub.commit]
             after == [gh EXCEPT !.checks = @ \cup {pub.commit}]
  <2>1. /\ checkpoint \in RecordStates /\ checkpoint.status = rec.status
        /\ checkpoint.attempt = rec.attempt /\ checkpoint.commit = rec.commit
        /\ checkpoint.head = rec.head /\ checkpoint.pull = rec.pull
        /\ checkpoint.check = pub.commit
    <3>1. pub.commit \in 0..MaxAttempts  BY <1>1, AtWork
    <3> QED  BY <1>1, <3>1, AtWork DEF RecordStates
  <2>2. after \in GitHubStates /\ after.checks = gh.checks \cup {pub.commit}
    BY <1>1, AtWork DEF GitHubStates
  <2>3. Writes(after, checkpoint, NextPc("done"))  BY <1>4
  <2> HIDE DEF checkpoint, after
  <2>4. OfItsAttempt(checkpoint) /\ InStep(checkpoint, NextPc("done"))
    BY <1>1, <1>2, <2>1, AtWork DEF OfItsAttempt, InStep
  <2> QED  BY <1>1, <1>2, <2>1, <2>2, <2>3, <2>4, AtWork, WritesKeepsBase
<1> QED  BY <1>3, <1>4 DEF AttachCheck

\* The settlement of a publication.
LEMMA SettlementKeepsBase ==
  ASSUME Base, Complete \/ Fail PROVE Base'
<1>1. /\ mig \in MigStates /\ rec \in RecordStates /\ pub \in WorkerStates
      /\ pub.pc # "idle" /\ rec.status = "publishing" /\ mig.status = "pr_opening"
      /\ rec.attempt = mig.attempt /\ mig.version <= MaxVersion
  BY DEF Complete, Fail, At, Base, Types, Phases
<1>2. Idle \in WorkerStates /\ Idle.pc = "idle" /\ OfItsAttempt(Idle.record)
  <2>1. /\ NoRecord \in RecordStates /\ NoRecord.commit = 0 /\ NoRecord.check = 0
        /\ NoRecord.head = 0 /\ NoRecord.attempt = 0
    BY DEF NoRecord, RecordStates
  <2>2. 0 \in 0..Foreign /\ 0 \in 0..MaxAttempts  OBVIOUS
  <2> QED  BY <2>1, <2>2 DEF Idle, WorkerStates, OfItsAttempt
<1>3. \A s \in {"pr_opened", "blocked"} :
        /\ Becomes(s) \in MigStates /\ Becomes(s).status = s /\ Becomes(s).attempt = mig.attempt
  <2>1. mig.version + 1 \in 1..MaxVersion + 1  BY <1>1 DEF MigStates
  <2> QED  BY <1>1, <2>1 DEF Becomes, MigStates
<1>4. ASSUME NEW s \in {"pr_opened", "blocked"}, mig' = Becomes(s), pub' = Idle,
             UNCHANGED <<gh, dec>>, rec' \in RecordStates,
             rec'.status \in {"completed", "failed"}, rec'.attempt = rec.attempt,
             OfItsAttempt(rec'), rec'.check = rec.check, rec'.pull = rec.pull,
             s = "pr_opened" => rec.pull
      PROVE  Base'
  <2>1. Types'  BY <1>2, <1>3, <1>4 DEF Base, Types
  <2>2. Phases'  BY <1>2, <1>3, <1>4 DEF Phases
  <2>3. Checkpoints'
    BY <1>2, <1>3, <1>4 DEF Base, Checkpoints, OfItsAttempt
  <2>4. Working'  BY <1>2, <1>4 DEF Working
  <2> QED  BY <2>1, <2>2, <2>3, <2>4 DEF Base
<1>5. CASE Complete /\ OwnsMigration
  <2>1. /\ pub.pc = "done" /\ mig' = Becomes("pr_opened") /\ pub' = Idle
        /\ UNCHANGED <<gh, dec>>
        /\ rec' = [rec EXCEPT !.status = "completed", !.commit = pub.commit,
                              !.head = pub.commit]
    BY <1>1, <1>5 DEF Complete, At
  <2>2. pub.commit \in 0..MaxAttempts /\ pub.commit = rec.attempt /\ rec.pull
    BY <2>1, AtWork DEF InStep
  <2>3. /\ rec' \in RecordStates /\ rec'.status = "completed" /\ rec'.attempt = rec.attempt
        /\ rec'.check = rec.check /\ rec'.pull = rec.pull /\ rec'.commit = pub.commit
        /\ rec'.head = pub.commit
    BY <1>1, <2>1, <2>2 DEF RecordStates
  <2>4. OfItsAttempt(rec')
    BY <2>2, <2>3 DEF OfItsAttempt, Base, Checkpoints
  <2> QED  BY <1>4, <2>1, <2>2, <2>3, <2>4
<1>6. CASE Fail
  <2>1. /\ mig' = Becomes("blocked") /\ pub' = Idle /\ UNCHANGED <<gh, dec>>
        /\ rec' = [rec EXCEPT !.status = "failed"]
    BY <1>1, <1>6 DEF Fail
  <2>2. /\ rec' \in RecordStates /\ rec'.status = "failed" /\ rec'.attempt = rec.attempt
        /\ rec'.check = rec.check /\ rec'.pull = rec.pull /\ rec'.commit = rec.commit
        /\ rec'.head = rec.head
    BY <1>1, <2>1 DEF RecordStates
  <2>3. OfItsAttempt(rec')  BY <2>2 DEF OfItsAttempt, Base, Checkpoints
  <2> QED  BY <1>4, <2>1, <2>2, <2>3
<1>7. CASE Complete /\ ~OwnsMigration
  BY <1>1, <1>7, StopKeepsBase DEF Complete, At
<1> QED  BY <1>5, <1>6, <1>7

\* A decision before it is applied, and the people who meddle, write neither row.
LEMMA OutsidersKeepBase ==
  ASSUME Base, UNCHANGED <<mig, rec, pub>>, gh' \in GitHubStates, gh'.checks = gh.checks,
         dec' \in [Deciders -> DecisionStates]
  PROVE  Base'
<1>1. Types'  BY DEF Base, Types
<1>2. Phases'  BY DEF Base, Phases
<1>3. Checkpoints'  BY DEF Base, Checkpoints, OfItsAttempt
<1>4. Working'  BY DEF Base, Working, InStep
<1> QED  BY <1>1, <1>2, <1>3, <1>4 DEF Base

\* What a decision can do to itself and to GitHub before it is applied.
LEMMA DecisionEffects ==
  ASSUME Base, NEW d \in Deciders,
         \/ \E op \in {"approve", "revise", "snooze", "decline"} : Send(d, op)
         \/ Load(d) \/ VerifyPull(d) \/ Synchronize(d)
  PROVE  /\ UNCHANGED <<mig, rec, pub>> /\ dec' \in [Deciders -> DecisionStates]
         /\ \A e \in Deciders \ {d} : dec'[e] = dec[e]
         /\ dec'[d].pc \in {"loaded", "verified"} =>
              \/ dec[d].pc \in {"loaded", "verified"} /\ dec'[d].op = dec[d].op
              \/ mig.status = "pr_opened" /\ gh' = gh
         /\ \/ gh' = gh
            \/ /\ dec[d].pc = "verified" /\ dec'[d].pc \notin {"loaded", "verified"}
               /\ gh' \in { [gh EXCEPT !.draft = FALSE], [gh EXCEPT !.pull = "closed"] }
<1>1. /\ dec \in [Deciders -> DecisionStates] /\ mig.version \in Nat
      /\ rec.head \in 0..MaxAttempts /\ 0 \in 0..MaxAttempts
  BY DEF Base, Types, MigStates, RecordStates
<1>2. NoDecision \in DecisionStates /\ NoDecision.pc = "idle"
  BY DEF NoDecision, DecisionStates
<1>3. ASSUME dec[d].pc # "idle", NEW pc \in {"loaded", "verified", "synced"}
      PROVE  /\ [dec[d] EXCEPT !.pc = pc] \in DecisionStates
             /\ [dec[d] EXCEPT !.pc = pc].pc = pc
             /\ [dec[d] EXCEPT !.pc = pc].op = dec[d].op
  <2>1. dec[d] \in Requests  BY <1>1, <1>2, <1>3 DEF DecisionStates
  <2>2. [dec[d] EXCEPT !.pc = pc] \in Requests  BY <2>1 DEF Requests
  <2> QED  BY <2>1, <2>2 DEF DecisionStates, Requests
<1>4. CASE \E op \in {"approve", "revise", "snooze", "decline"} : Send(d, op)
  <2>1. PICK op \in {"approve", "revise", "snooze", "decline"} : Send(d, op)  BY <1>4
  <2> DEFINE w == [ pc |-> IF op \in {"approve", "decline"} THEN "sent" ELSE "synced",
                    op |-> op, expected |-> mig.version, head |-> 0 ]
  <2>2. w \in DecisionStates /\ w.pc \in {"sent", "synced"}
    BY <1>1 DEF DecisionStates, Requests
  <2>3. dec' = [dec EXCEPT ![d] = w] /\ UNCHANGED <<mig, rec, gh, pub>>  BY <2>1 DEF Send
  <2> HIDE DEF w
  <2> QED  BY <1>1, <2>2, <2>3
<1>5. CASE Load(d)
  <2>1. dec[d].pc = "sent" /\ UNCHANGED <<mig, rec, gh, pub>>  BY <1>5 DEF Load
  <2> DEFINE w == [dec[d] EXCEPT !.pc = "loaded", !.head = rec.head]
  <2>2. w \in DecisionStates
    <3>1. dec[d] \in Requests  BY <1>1, <1>2, <2>1 DEF DecisionStates
    <3> QED  BY <1>1, <3>1 DEF DecisionStates, Requests
  <2>3. \/ dec' = [dec EXCEPT ![d] = [dec[d] EXCEPT !.pc = "synced"]]
        \/ dec' = [dec EXCEPT ![d] = w] /\ mig.status = "pr_opened"
        \/ dec' = [dec EXCEPT ![d] = NoDecision]
    BY <1>1, <1>5 DEF Load, Advance, Drop
  <2> HIDE DEF w
  <2> QED  BY <1>1, <1>2, <1>3, <2>1, <2>2, <2>3
<1>6. CASE VerifyPull(d)
  <2>1. dec[d].pc = "loaded" /\ UNCHANGED <<mig, rec, gh, pub>>  BY <1>6 DEF VerifyPull
  <2>2. \/ \E pc \in {"verified", "synced"} : dec' = [dec EXCEPT ![d] = [dec[d] EXCEPT !.pc = pc]]
        \/ dec' = [dec EXCEPT ![d] = NoDecision]
    BY <1>1, <1>6 DEF VerifyPull, Advance, Drop
  <2>3. ASSUME NEW pc \in {"verified", "synced"},
               dec' = [dec EXCEPT ![d] = [dec[d] EXCEPT !.pc = pc]]
        PROVE  /\ dec' \in [Deciders -> DecisionStates] /\ dec'[d].op = dec[d].op
               /\ \A e \in Deciders \ {d} : dec'[e] = dec[e]
    BY <1>1, <1>3, <2>1, <2>3
  <2>4. ASSUME dec' = [dec EXCEPT ![d] = NoDecision]
        PROVE  /\ dec' \in [Deciders -> DecisionStates] /\ dec'[d].pc = "idle"
               /\ \A e \in Deciders \ {d} : dec'[e] = dec[e]
    BY <1>1, <1>2, <2>4
  <2> QED  BY <2>1, <2>2, <2>3, <2>4
<1>7. CASE Synchronize(d)
  <2>1. /\ dec[d].pc = "verified" /\ UNCHANGED <<mig, rec, pub>>
        /\ gh' \in {gh, [gh EXCEPT !.draft = FALSE], [gh EXCEPT !.pull = "closed"]}
    BY <1>7 DEF Synchronize, Decided
  <2>2. \/ dec' = [dec EXCEPT ![d] = [dec[d] EXCEPT !.pc = "synced"]]
        \/ dec' = [dec EXCEPT ![d] = NoDecision]
    BY <1>1, <1>7 DEF Synchronize, Advance, Drop
  <2>3. PICK w \in DecisionStates : w.pc \in {"synced", "idle"} /\ dec' = [dec EXCEPT ![d] = w]
    <3>1. [dec[d] EXCEPT !.pc = "synced"] \in DecisionStates
          /\ [dec[d] EXCEPT !.pc = "synced"].pc = "synced"
      BY <1>3, <2>1
    <3> QED  BY <1>2, <2>2, <3>1
  <2>4. /\ dec' \in [Deciders -> DecisionStates] /\ dec'[d].pc \in {"synced", "idle"}
        /\ \A e \in Deciders \ {d} : dec'[e] = dec[e]
    BY <1>1, <2>3
  <2> QED  BY <2>1, <2>4
<1> QED  BY <1>4, <1>5, <1>6, <1>7

LEMMA GitHubEffects ==
  ASSUME gh \in GitHubStates
  PROVE  /\ [gh EXCEPT !.draft = FALSE] \in GitHubStates
         /\ [gh EXCEPT !.draft = FALSE].checks = gh.checks
         /\ [gh EXCEPT !.draft = FALSE].branch = gh.branch
         /\ [gh EXCEPT !.draft = FALSE].head = gh.head
         /\ [gh EXCEPT !.draft = FALSE].pull = gh.pull
         /\ [gh EXCEPT !.draft = FALSE].draft = FALSE
         /\ [gh EXCEPT !.pull = "closed"] \in GitHubStates
         /\ [gh EXCEPT !.pull = "closed"].checks = gh.checks
         /\ [gh EXCEPT !.pull = "closed"].branch = gh.branch
         /\ [gh EXCEPT !.pull = "closed"].head = gh.head
         /\ [gh EXCEPT !.pull = "closed"].pull = "closed"
         /\ [gh EXCEPT !.pull = "closed"].draft = gh.draft
BY DEF GitHubStates

LEMMA MeddlerEffects ==
  ASSUME Base, Meddler
  PROVE  /\ MayMeddle /\ UNCHANGED <<mig, rec, pub, dec>>
         /\ \/ gh' = Pushed(Foreign)
            \/ gh' \in { [gh EXCEPT !.draft = FALSE], [gh EXCEPT !.pull = "closed"] }
BY DEF Meddler, PushForeign, CloseByHand, ReadyByHand

LEMMA ApplyKeepsBase ==
  ASSUME Base, NEW d \in Deciders, Apply(d) PROVE Base'
<1> DEFINE op == dec[d].op
           n  == IF op = "revise" THEN mig.attempt + 1 ELSE mig.attempt
<1>1. /\ mig \in MigStates /\ dec \in [Deciders -> DecisionStates]
      /\ UNCHANGED <<rec, gh, pub>> /\ dec' = [dec EXCEPT ![d] = NoDecision]
  BY DEF Apply, Drop, Base, Types
<1>2. dec' \in [Deciders -> DecisionStates]
  BY <1>1 DEF DecisionStates
<1>3. CASE mig' = mig
  <2>1. gh' \in GitHubStates  BY <1>1 DEF Base, Types
  <2> QED  BY <1>1, <1>2, <1>3, <2>1, OutsidersKeepBase
<1>4. CASE /\ MayDecide(op) /\ n <= MaxAttempts /\ mig.version < MaxVersion
           /\ mig' = [Becomes(DecisionStatus[op]) EXCEPT !.attempt = n,
                                !.verified = @ /\ op # "revise"]
  <2>1. op \in {"approve", "revise", "snooze", "decline"}
    <3>1. dec[d].pc = "synced"  BY DEF Apply
    <3>2. dec[d] # NoDecision  BY <3>1 DEF NoDecision
    <3> QED  BY <1>1, <3>2 DEF DecisionStates, Requests
  <2>2. mig.status \in {"pr_opened", "ready"}  BY <1>4 DEF MayDecide
  <2>3. n \in Commits /\ n >= mig.attempt  BY <1>1, <1>4 DEF MigStates
  <2>4. mig'.status \notin {"pr_opening", "pr_opened"} /\ mig'.attempt = n /\ mig' \in MigStates
    <3> DEFINE s == DecisionStatus[op]
               v == mig.verified /\ op # "revise"
    <3>2. s \in {"approved", "needs_revision", "snoozed", "declined"}
      BY <2>1 DEF DecisionStatus
    <3>3. v \in BOOLEAN /\ mig.version + 1 \in 1..MaxVersion + 1
      BY <1>1, <1>4 DEF MigStates
    <3>4. mig' = [[mig EXCEPT !.status = s, !.version = @ + 1]
                      EXCEPT !.attempt = n, !.verified = v]
      BY <1>1, <1>4 DEF Becomes, MigStates
    <3> HIDE DEF s, v, op, n
    <3> QED  BY <1>1, <2>3, <3>2, <3>3, <3>4 DEF MigStates
  <2> HIDE DEF op, n
  <2>5. Types'  BY <1>1, <1>2, <2>4 DEF Base, Types
  <2>6. Phases'  BY <1>1, <2>2, <2>4 DEF Base, Phases
  <2>7. Checkpoints'
    BY <1>1, <2>3, <2>4 DEF Base, Types, Checkpoints, OfItsAttempt, MigStates, RecordStates
  <2>8. Working'  BY <1>1 DEF Base, Working, InStep
  <2> QED  BY <2>5, <2>6, <2>7, <2>8 DEF Base
<1> QED  BY <1>3, <1>4 DEF Apply

LEMMA NextKeepsBase ==
  ASSUME Base, [Next]_vars PROVE Base'
<1>1. CASE UNCHANGED vars
  BY <1>1 DEF vars, Base, Types, Phases, Checkpoints, OfItsAttempt, Working, InStep
<1>2. CASE Publisher
  BY <1>2, ClaimKeepsBase, ChecksKeepBase, MakeCommitKeepsBase, RefKeepsBase, DraftKeepsBase,
     AttachCheckKeepsBase, SettlementKeepsBase DEF Publisher
<1>3. ASSUME NEW d \in Deciders, Decision(d) PROVE Base'
  <2>1. CASE Apply(d)  BY <2>1, ApplyKeepsBase
  <2>2. CASE \/ \E op \in {"approve", "revise", "snooze", "decline"} : Send(d, op)
             \/ Load(d) \/ VerifyPull(d) \/ Synchronize(d)
    <3>1. gh \in GitHubStates  BY DEF Base, Types
    <3>2. gh' \in {gh, [gh EXCEPT !.draft = FALSE], [gh EXCEPT !.pull = "closed"]}
      BY <2>2, DecisionEffects
    <3>3. gh' \in GitHubStates /\ gh'.checks = gh.checks  BY <3>1, <3>2, GitHubEffects
    <3> QED  BY <2>2, <3>3, DecisionEffects, OutsidersKeepBase
  <2> QED  BY <1>3, <2>1, <2>2 DEF Decision
<1>4. CASE Meddler
  <2>1. gh \in GitHubStates /\ dec \in [Deciders -> DecisionStates] /\ Foreign \in 0..Foreign
    BY DEF Base, Types
  <2>2. gh' \in GitHubStates /\ gh'.checks = gh.checks
    <3>1. CASE gh' = Pushed(Foreign)
      <4> DEFINE commit == Foreign
      <4>1. commit \in 0..Foreign  OBVIOUS
      <4> HIDE DEF commit
      <4>2. Pushed(commit) \in GitHubStates /\ Pushed(commit).checks = gh.checks
        BY <2>1, <4>1, PushedFacts
      <4> QED  BY <3>1, <4>2 DEF commit
    <3>2. CASE gh' \in { [gh EXCEPT !.draft = FALSE], [gh EXCEPT !.pull = "closed"] }
      BY <2>1, <3>2, GitHubEffects
    <3> QED  BY <1>4, <3>1, <3>2, MeddlerEffects
  <2> QED  BY <1>4, <2>1, <2>2, MeddlerEffects, OutsidersKeepBase
<1> QED
  BY <1>1, <1>2, <1>3, <1>4, QueuePublicationKeepsBase, RegenerateKeepsBase DEF Next

LEMMA InitEstablishesBase ==
  ASSUME Init PROVE Base
<1>1. /\ mig \in MigStates /\ mig.status = "ready" /\ mig.attempt = 1
  <2>1. 1 \in 1..MaxVersion + 1 /\ 1 \in Commits  OBVIOUS
  <2> QED  BY <2>1 DEF Init, MigStates
<1>2. /\ rec \in RecordStates /\ rec.status = "absent" /\ rec.commit = 0 /\ rec.check = 0
      /\ rec.head = 0 /\ rec.attempt = 0
  BY DEF Init, NoRecord, RecordStates
<1>3. pub \in WorkerStates /\ pub.pc = "idle" /\ pub.record = rec
  <2>1. 0 \in 0..Foreign /\ 0 \in 0..MaxAttempts  OBVIOUS
  <2> QED  BY <1>2, <2>1 DEF Init, Idle, WorkerStates
<1>4. gh \in GitHubStates
  <2>1. 0 \in 0..Foreign  OBVIOUS
  <2> QED  BY <2>1 DEF Init, GitHubStates
<1>5. dec \in [Deciders -> DecisionStates]  BY DEF Init, DecisionStates
<1>6. Types  BY <1>1, <1>2, <1>3, <1>4, <1>5 DEF Types
<1>7. Phases /\ Working  BY <1>1, <1>2, <1>3 DEF Phases, Working
<1>8. Checkpoints  BY <1>1, <1>2, <1>3 DEF Checkpoints, OfItsAttempt
<1> QED  BY <1>6, <1>7, <1>8 DEF Base

\* Every variable of Publication keeps its type.
THEOREM PublicationTypesHold == Spec => []TypeOK
<1>1. Base => TypeOK
  BY DEF Base, Types, TypeOK, MigStates, RecordStates, GitHubStates, WorkerStates
<1> QED  BY <1>1, InitEstablishesBase, NextKeepsBase, PTL DEF Spec

-----------------------------------------------------------------------------
(* The branch, as long as nobody touches it while a publication is running *)

Undisturbed == Meddling # "anytime"

OnOurBranch ==
  /\ pub.pc \in {"commit", "ref"} => gh.branch = pub.seen /\ BranchIsOurs(pub.seen)
  /\ pub.pc = "draft" => gh.branch = pub.commit
  /\ pub.pc \in {"check", "done"} => gh.branch = pub.commit /\ gh.head = pub.commit
  /\ gh.pull = "open" => gh.branch # 0

\* What a step that moves on, a step that stops and a write do to the worker.
LEMMA GoEffects ==
  ASSUME Base, pub.pc # "idle",
         NEW pc \in {"pull", "branch", "commit", "ref", "draft", "check", "done", "failing",
                     "conflicted"},
         Go(pc)
  PROVE  /\ pub'.pc = pc /\ pub'.record = pub.record /\ pub'.seen = pub.seen
         /\ pub'.commit = pub.commit
BY WorkerGoes DEF Go

LEMMA StopEffects ==
  ASSUME Base, pub.pc # "idle", Conflict \/ Raise
  PROVE  /\ pub'.pc \in {"failing", "conflicted"} /\ pub'.record = pub.record
         /\ pub'.seen = pub.seen /\ pub'.commit = pub.commit
BY GoEffects DEF Conflict, Raise

LEMMA WriteEffects ==
  ASSUME Base, pub.pc # "idle", NEW after, NEW checkpoint, NEW worker,
         Writes(after, checkpoint, worker)
  PROVE  /\ UNCHANGED <<mig, dec>>
         /\ \/ gh' = after /\ rec' = checkpoint /\ pub' = worker
            \/ /\ pub'.pc = "failing" /\ pub'.record = pub.record /\ pub'.seen = pub.seen
               /\ pub'.commit = pub.commit /\ rec' = rec /\ gh' \in {gh, after}
<1>1. CASE gh' = after /\ rec' = checkpoint /\ pub' = worker  BY <1>1 DEF Writes
<1>2. CASE Raise /\ rec' = rec /\ gh' \in {gh, after}
  <2>1. Go("failing")  BY <1>2 DEF Raise
  <2> QED  BY <1>2, <2>1, GoEffects DEF Writes
<1> QED  BY <1>1, <1>2 DEF Writes

LEMMA NextPcFacts ==
  ASSUME Base, pub.pc # "idle", NEW pc \in {"draft", "check", "done"}
  PROVE  /\ NextPc(pc).pc = pc /\ NextPc(pc).record = pub.record
         /\ NextPc(pc).seen = pub.seen /\ NextPc(pc).commit = pub.commit
BY WorkerGoes DEF NextPc

\* The worker's writes, in the fields they touch.
LEMMA CreateBranchEffects ==
  ASSUME Base, CreateBranch
  PROVE  /\ pub.pc = "ref" /\ ~pub.record.pull /\ UNCHANGED <<mig, dec>>
         /\ pub'.commit = pub.commit /\ pub'.record = pub.record /\ rec'.pull = rec.pull
         /\ pub'.pc \in {"draft", "failing", "conflicted"}
         /\ \/ gh' = gh /\ (pub'.pc = "draft" => pub.seen # 0)
            \/ pub.seen = 0 /\ gh.branch = 0 /\ gh' = Pushed(pub.commit)
<1>1. pub.pc = "ref" /\ ~pub.record.pull  BY DEF CreateBranch, At
<1>2. /\ pub \in WorkerStates /\ rec \in RecordStates /\ HeadRecorded.pull = rec.pull
  BY <1>1, AtWork DEF HeadRecorded, RecordStates
<1>3. CASE /\ pub.seen = 0 /\ gh.branch = 0
           /\ Writes(Pushed(pub.commit), HeadRecorded, NextPc("draft"))
  BY <1>1, <1>2, <1>3, WriteEffects, NextPcFacts
<1>4. CASE Conflict /\ UNCHANGED <<mig, rec, gh, dec>>
  BY <1>1, <1>2, <1>4, StopEffects
<1>5. CASE pub.seen # 0 /\ rec' = HeadRecorded /\ Go("draft") /\ UNCHANGED <<mig, gh, dec>>
  BY <1>1, <1>2, <1>5, GoEffects
<1> QED  BY <1>3, <1>4, <1>5 DEF CreateBranch

LEMMA UpdateBranchEffects ==
  ASSUME Base, UpdateBranch
  PROVE  /\ pub.pc = "ref" /\ pub.record.pull /\ UNCHANGED <<mig, dec>>
         /\ pub'.commit = pub.commit /\ pub'.record = pub.record /\ rec'.pull = rec.pull
         /\ pub'.pc \in {"draft", "failing"}
         /\ \/ gh' = gh /\ (pub'.pc = "draft" => pub.seen = pub.commit)
            \/ pub.seen # pub.commit /\ gh' = Pushed(pub.commit)
<1>1. pub.pc = "ref" /\ pub.record.pull  BY DEF UpdateBranch, At
<1>2. /\ pub \in WorkerStates /\ rec \in RecordStates /\ HeadRecorded.pull = rec.pull
  BY <1>1, AtWork DEF HeadRecorded, RecordStates
<1>3. CASE /\ pub.seen # pub.commit
           /\ Writes(Pushed(pub.commit), HeadRecorded, NextPc("draft"))
  BY <1>1, <1>2, <1>3, WriteEffects, NextPcFacts
<1>4. CASE pub.seen = pub.commit /\ Go("draft") /\ UNCHANGED <<mig, rec, gh, dec>>
  BY <1>1, <1>2, <1>4, GoEffects
<1> QED  BY <1>3, <1>4 DEF UpdateBranch

LEMMA OpenDraftEffects ==
  ASSUME Base, OpenDraft
  PROVE  /\ pub.pc = "draft" /\ ~pub.record.pull /\ UNCHANGED <<mig, dec>>
         /\ pub'.commit = pub.commit /\ (rec.pull => rec'.pull)
         /\ pub'.pc \in {"check", "failing", "conflicted"}
         /\ \/ gh' = gh /\ rec'.pull = rec.pull /\ pub'.pc # "check"
            \/ /\ gh.pull # "open" /\ gh'.pull = "open" /\ gh'.draft
               /\ gh'.head = gh.branch /\ gh'.branch = gh.branch /\ gh'.checks = gh.checks
<1>1. pub.pc = "draft" /\ ~pub.record.pull  BY DEF OpenDraft, At
<1> DEFINE opened == [gh EXCEPT !.pull = "open", !.draft = TRUE, !.head = gh.branch]
           checkpoint == [rec EXCEPT !.pull = TRUE]
<1>2. /\ opened.pull = "open" /\ opened.draft /\ opened.head = gh.branch
      /\ opened.branch = gh.branch /\ opened.checks = gh.checks /\ checkpoint.pull
  BY <1>1, AtWork DEF GitHubStates, RecordStates
<1>3. CASE gh.pull # "open" /\ Writes(opened, checkpoint, NextPc("check"))
  <2> HIDE DEF opened, checkpoint
  <2> QED  BY <1>1, <1>2, <1>3, WriteEffects, NextPcFacts
<1>4. CASE Conflict /\ UNCHANGED <<mig, rec, gh, dec>>
  BY <1>1, <1>4, StopEffects
<1> QED  BY <1>3, <1>4 DEF OpenDraft

LEMMA UpdateDraftEffects ==
  ASSUME Base, UpdateDraft
  PROVE  /\ pub.pc = "draft" /\ pub.record.pull /\ UNCHANGED <<mig, dec, gh>>
         /\ pub'.commit = pub.commit /\ (rec.pull => rec'.pull)
         /\ pub'.pc \in {"check", "failing", "conflicted"}
         /\ pub'.pc = "check" => gh.head = pub.commit
<1>1. pub.pc = "draft" /\ pub.record.pull  BY DEF UpdateDraft, At
<1> DEFINE checkpoint == [rec EXCEPT !.pull = TRUE]
<1>2. checkpoint.pull  BY <1>1, AtWork DEF RecordStates
<1>3. CASE gh.head = pub.commit /\ Writes(gh, checkpoint, NextPc("check"))
  <2> HIDE DEF checkpoint
  <2> QED  BY <1>1, <1>2, <1>3, WriteEffects, NextPcFacts
<1>4. CASE Conflict /\ UNCHANGED <<mig, rec, gh, dec>>
  BY <1>1, <1>4, StopEffects
<1> QED  BY <1>3, <1>4 DEF UpdateDraft

LEMMA AttachCheckEffects ==
  ASSUME Base, AttachCheck
  PROVE  /\ pub.pc = "check" /\ UNCHANGED <<mig, dec>>
         /\ pub'.commit = pub.commit /\ rec'.pull = rec.pull
         /\ pub'.pc \in {"done", "failing"}
         /\ gh'.branch = gh.branch /\ gh'.head = gh.head /\ gh'.pull = gh.pull
         /\ gh'.draft = gh.draft
<1>1. pub.pc = "check"  BY DEF AttachCheck, At
<1> DEFINE checkpoint == [rec EXCEPT !.check = pub.commit]
           after == [gh EXCEPT !.checks = @ \cup {pub.commit}]
<1>2. /\ checkpoint.pull = rec.pull /\ after.branch = gh.branch /\ after.head = gh.head
      /\ after.pull = gh.pull /\ after.draft = gh.draft
  BY <1>1, AtWork DEF GitHubStates, RecordStates
<1>3. CASE Writes(after, checkpoint, NextPc("done"))
  <2> HIDE DEF checkpoint, after
  <2> QED  BY <1>1, <1>2, <1>3, WriteEffects, NextPcFacts
<1>4. CASE Go("done") /\ UNCHANGED <<mig, rec, gh, dec>>
  BY <1>1, <1>4, GoEffects
<1> QED  BY <1>3, <1>4 DEF AttachCheck

\* Every other step of the worker, and every step of the control plane, leaves
\* GitHub alone.
LEMMA CheckEffects ==
  ASSUME Base, CheckBase \/ CheckPull \/ CheckBranch \/ MakeCommit
  PROVE  /\ UNCHANGED <<mig, gh, dec>> /\ rec'.pull = rec.pull /\ pub'.record = pub.record
         /\ pub.pc \in {"base", "pull", "branch", "commit"}
         /\ \/ pub'.pc \in {"pull", "branch", "failing", "conflicted"}
            \/ pub.pc = "branch" /\ pub'.pc = "commit" /\ pub'.seen = gh.branch
               /\ BranchIsOurs(gh.branch)
            \/ pub.pc = "commit" /\ pub'.pc = "ref" /\ pub'.seen = pub.seen
         /\ pub'.pc = "branch" /\ pub.record.pull => DraftIsOurs
         /\ pub'.pc \in {"commit", "ref"} => pub.pc \in {"branch", "commit"}
<1>1. CASE CheckBase \/ CheckPull
  <2>1. pub.pc \in {"base", "pull"} /\ UNCHANGED <<mig, rec, gh, dec>>
    BY <1>1 DEF CheckBase, CheckPull, At
  <2>2. CASE Conflict \/ Raise  BY <2>1, <2>2, StopEffects
  <2>3. CASE Go("pull")  BY <2>1, <2>3, GoEffects
  <2>4. CASE Go("branch") /\ (pub.record.pull => DraftIsOurs)  BY <2>1, <2>4, GoEffects
  <2> QED  BY <1>1, <2>2, <2>3, <2>4 DEF CheckBase, CheckPull
<1>2. CASE CheckBranch
  <2>1. pub.pc = "branch" /\ UNCHANGED <<mig, rec, gh, dec>>  BY <1>2 DEF CheckBranch, At
  <2>2. CASE Conflict  BY <2>1, <2>2, StopEffects
  <2>3. CASE BranchIsOurs(gh.branch) /\ pub' = [pub EXCEPT !.pc = "commit", !.seen = gh.branch]
    BY <2>1, <2>3 DEF Base, Types, WorkerStates
  <2> QED  BY <1>2, <2>2, <2>3 DEF CheckBranch
<1>3. CASE MakeCommit
  <2>1. pub.pc = "commit" /\ pub \in WorkerStates /\ rec \in RecordStates
    BY <1>3 DEF MakeCommit, At, Base, Types
  <2>2. ASSUME NEW c PROVE /\ [pub EXCEPT !.pc = "ref", !.commit = c].pc = "ref"
                           /\ [pub EXCEPT !.pc = "ref", !.commit = c].seen = pub.seen
                           /\ [pub EXCEPT !.pc = "ref", !.commit = c].record = pub.record
    BY <2>1 DEF WorkerStates
  <2>3. CommitRecorded(pub.record.attempt).pull = rec.pull
    BY <2>1 DEF CommitRecorded, RecordStates
  <2>4. CASE Writes(gh, CommitRecorded(pub.record.attempt),
                    [pub EXCEPT !.pc = "ref", !.commit = pub.record.attempt])
    <3> DEFINE checkpoint == CommitRecorded(pub.record.attempt)
               worker == [pub EXCEPT !.pc = "ref", !.commit = pub.record.attempt]
    <3>1. /\ worker.pc = "ref" /\ worker.seen = pub.seen /\ worker.record = pub.record
          /\ checkpoint.pull = rec.pull /\ Writes(gh, checkpoint, worker)
      BY <2>2, <2>3, <2>4
    <3> HIDE DEF checkpoint, worker
    <3>2. /\ UNCHANGED <<mig, dec>>
          /\ \/ gh' = gh /\ rec' = checkpoint /\ pub' = worker
             \/ /\ pub'.pc = "failing" /\ pub'.record = pub.record /\ rec' = rec /\ gh' = gh
      BY <2>1, <3>1, WriteEffects
    <3> QED  BY <2>1, <3>1, <3>2
  <2>5. CASE /\ pub' = [pub EXCEPT !.pc = "ref", !.commit = pub.record.commit]
             /\ UNCHANGED <<mig, rec, gh, dec>>
    BY <2>1, <2>2, <2>5
  <2> QED  BY <1>3, <2>4, <2>5 DEF MakeCommit
<1> QED  BY <1>1, <1>2, <1>3

LEMMA SettlementEffects ==
  ASSUME Base, Complete \/ Fail
  PROVE  /\ UNCHANGED <<gh, dec>> /\ rec'.pull = rec.pull /\ mig.status = "pr_opening"
         /\ pub'.pc \in {"idle", "failing"}
         /\ mig'.status = "pr_opened" =>
              /\ pub.pc = "done" /\ mig'.attempt = mig.attempt /\ rec'.check = rec.check
              /\ rec'.commit = pub.commit /\ rec'.head = pub.commit
<1>1. /\ mig \in MigStates /\ rec \in RecordStates /\ pub \in WorkerStates
      /\ pub.pc # "idle" /\ rec.status = "publishing" /\ mig.status = "pr_opening"
  BY DEF Complete, Fail, At, Base, Types, Phases
<1>2. Idle.pc = "idle"  BY DEF Idle
<1>3. \A s \in {"pr_opened", "blocked"} : Becomes(s).status = s /\ Becomes(s).attempt = mig.attempt
  BY <1>1 DEF Becomes, MigStates
<1>4. CASE /\ pub.pc = "done" /\ mig' = Becomes("pr_opened") /\ pub' = Idle
           /\ rec' = [rec EXCEPT !.status = "completed", !.commit = pub.commit,
                                 !.head = pub.commit]
           /\ UNCHANGED <<gh, dec>>
  <2>1. /\ rec'.pull = rec.pull /\ rec'.check = rec.check /\ rec'.commit = pub.commit
        /\ rec'.head = pub.commit
    BY <1>1, <1>4 DEF RecordStates
  <2> QED  BY <1>1, <1>2, <1>3, <1>4, <2>1
<1>5. CASE Raise /\ UNCHANGED <<mig, rec, gh, dec>>
  <2>1. Go("failing")  BY <1>5 DEF Raise
  <2>2. pub'.pc = "failing"  BY <1>1, <2>1, GoEffects
  <2> QED  BY <1>1, <1>5, <2>2
<1>6. CASE /\ pub' = Idle /\ mig' = Becomes("blocked") /\ UNCHANGED <<gh, dec>>
           /\ rec' = [rec EXCEPT !.status = "failed"]
  <2>1. rec'.pull = rec.pull  BY <1>1, <1>6 DEF RecordStates
  <2> QED  BY <1>1, <1>2, <1>3, <1>6, <2>1
<1>7. CASE Complete  BY <1>4, <1>5, <1>7 DEF Complete, At
<1>8. CASE Fail  BY <1>1, <1>6, <1>8 DEF Fail
<1> QED  BY <1>7, <1>8

LEMMA ClaimEffects ==
  ASSUME Base, Claim
  PROVE  /\ UNCHANGED <<mig, gh, dec>> /\ pub.pc = "idle" /\ pub'.pc = "base"
         /\ rec'.pull = rec.pull /\ mig.status = "pr_opening"
<1>1. /\ UNCHANGED <<mig, gh, dec>> /\ pub.pc = "idle" /\ rec \in RecordStates
      /\ rec.status = "queued" /\ rec' = [rec EXCEPT !.status = "publishing"]
      /\ pub' = [Idle EXCEPT !.pc = "base", !.record = rec]
  BY DEF Claim, At, Base, Types
<1>2. pub'.pc = "base"  BY <1>1 DEF Idle
<1>3. rec'.pull = rec.pull  BY <1>1 DEF RecordStates
<1>4. mig.status = "pr_opening"  BY <1>1 DEF Base, Phases
<1> QED  BY <1>1, <1>2, <1>3, <1>4

LEMMA ControlPlaneEffects ==
  ASSUME Base, QueuePublication \/ \E verified \in BOOLEAN : Regenerate(verified)
  PROVE  /\ UNCHANGED <<gh, pub, dec>> /\ rec'.pull = rec.pull
         /\ mig.status \notin {"pr_opening", "pr_opened"} /\ mig'.status # "pr_opened"
<1>1. mig \in MigStates /\ rec \in RecordStates  BY DEF Base, Types
<1>2. CASE QueuePublication
  <2>1. rec'.pull = rec.pull  BY <1>1, <1>2 DEF QueuePublication, Requeued, RecordStates
  <2>2. mig'.status = "pr_opening"  BY <1>1, <1>2 DEF QueuePublication, Becomes, MigStates
  <2> QED  BY <1>2, <2>1, <2>2 DEF QueuePublication
<1>3. CASE \E verified \in BOOLEAN : Regenerate(verified)
  <2>1. PICK verified \in BOOLEAN : Regenerate(verified)  BY <1>3
  <2>2. PICK n : mig' = [Becomes(IF verified THEN "ready" ELSE "blocked")
                           EXCEPT !.attempt = n, !.verified = verified]
    BY <2>1 DEF Regenerate
  <2>3. mig'.status # "pr_opened"  BY <1>1, <2>2 DEF Becomes, MigStates
  <2> QED  BY <2>1, <2>3 DEF Regenerate
<1> QED  BY <1>2, <1>3

\* What a decision can do to GitHub and to the migration.
LEMMA DecisionLeaves ==
  ASSUME Base, NEW d \in Deciders, Decision(d)
  PROVE  /\ UNCHANGED <<rec, pub>>
         /\ gh'.branch = gh.branch /\ gh'.head = gh.head /\ gh'.checks = gh.checks
         /\ \/ gh' = gh
            \/ /\ dec[d].pc = "verified" /\ mig' = mig
               /\ \/ gh'.pull = gh.pull /\ ~gh'.draft
                  \/ gh'.pull = "closed" /\ gh'.draft = gh.draft
         /\ \A e \in Deciders \ {d} : dec'[e] = dec[e]
         /\ dec'[d].pc \in {"loaded", "verified"} =>
              mig' = mig /\ (dec[d].pc \in {"loaded", "verified"} \/ mig.status = "pr_opened")
         /\ \/ mig' = mig
            \/ /\ mig.status # "pr_opening"
               /\ mig'.status \notin {"pr_opening", "pr_opened"}
<1>1. CASE Apply(d)
  <2>1. mig \in MigStates /\ dec \in [Deciders -> DecisionStates]  BY DEF Base, Types
  <2>2. UNCHANGED <<rec, gh, pub>> /\ dec' = [dec EXCEPT ![d] = NoDecision]
    BY <1>1 DEF Apply, Drop
  <2>3. dec'[d].pc = "idle" /\ \A e \in Deciders \ {d} : dec'[e] = dec[e]
    BY <2>1, <2>2 DEF NoDecision
  <2>4. \/ mig' = mig
        \/ mig.status # "pr_opening" /\ mig'.status \notin {"pr_opening", "pr_opened"}
    <3>1. CASE UNCHANGED mig  BY <3>1
    <3>2. CASE MayDecide(dec[d].op) /\ mig' # mig
      <4>1. PICK n, v : mig' = [Becomes(DecisionStatus[dec[d].op]) EXCEPT !.attempt = n,
                                                                         !.verified = v]
        <5>1. PICK n : mig' = [Becomes(DecisionStatus[dec[d].op]) EXCEPT !.attempt = n,
                                 !.verified = @ /\ dec[d].op # "revise"]
          BY <1>1, <3>2 DEF Apply
        <5> QED  BY <5>1
      <4>2. dec[d].op \in {"approve", "revise", "snooze", "decline"}
        <5>1. dec[d].pc = "synced"  BY <1>1 DEF Apply
        <5>2. dec[d] # NoDecision  BY <5>1 DEF NoDecision
        <5> QED  BY <2>1, <5>2 DEF DecisionStates, Requests
      <4>3. DecisionStatus[dec[d].op] \in {"approved", "needs_revision", "snoozed", "declined"}
        BY <4>2 DEF DecisionStatus
      <4>4. mig'.status = DecisionStatus[dec[d].op]
        BY <2>1, <4>1 DEF Becomes, MigStates
      <4> QED  BY <3>2, <4>3, <4>4 DEF MayDecide
    <3> QED  BY <1>1, <3>1, <3>2 DEF Apply
  <2> QED  BY <2>2, <2>3, <2>4
<1>2. CASE \/ \E op \in {"approve", "revise", "snooze", "decline"} : Send(d, op)
           \/ Load(d) \/ VerifyPull(d) \/ Synchronize(d)
  <2>1. gh \in GitHubStates  BY DEF Base, Types
  <2> QED  BY <1>2, <2>1, DecisionEffects, GitHubEffects
<1> QED  BY <1>1, <1>2 DEF Decision

LEMMA MeddlerLeaves ==
  ASSUME Base, Meddler
  PROVE  /\ MayMeddle /\ UNCHANGED <<mig, rec, pub, dec>>
         /\ gh'.branch \in {gh.branch, Foreign} /\ gh'.head \in {gh.head, Foreign}
         /\ gh'.pull = "open" => gh.pull = "open"
<1>1. gh \in GitHubStates /\ Foreign \in 0..Foreign /\ MayMeddle
      /\ UNCHANGED <<mig, rec, pub, dec>>
  BY MeddlerEffects DEF Base, Types
<1>2. CASE gh' = Pushed(Foreign)
  <2> DEFINE commit == Foreign
  <2>1. commit \in 0..Foreign /\ gh' = Pushed(commit)  BY <1>2
  <2> HIDE DEF commit
  <2>2. /\ gh'.branch = commit /\ gh'.pull = gh.pull
        /\ gh'.head \in {gh.head, commit}
    BY <1>1, <2>1, PushedFacts
  <2> QED  BY <1>1, <2>2 DEF commit
<1>3. CASE gh' = [gh EXCEPT !.draft = FALSE]
  BY <1>1, <1>3, GitHubEffects
<1>4. CASE gh.pull = "open" /\ gh' = [gh EXCEPT !.pull = "closed"]
  BY <1>1, <1>4, GitHubEffects
<1> QED  BY <1>2, <1>3, <1>4, <1>1 DEF Meddler, PushForeign, CloseByHand, ReadyByHand

-----------------------------------------------------------------------------
(* Nobody touches the branch while a publication is running. *)

LEMMA WorkerKeepsOnOurBranch ==
  ASSUME Base, Base', OnOurBranch, Publisher
  PROVE  OnOurBranch'
<1>1. CASE Claim  BY <1>1, ClaimEffects DEF OnOurBranch
<1>2. CASE CheckBase \/ CheckPull \/ CheckBranch \/ MakeCommit
  BY <1>2, CheckEffects DEF OnOurBranch, BranchIsOurs
<1>3. CASE CreateBranch
  <2>1. /\ pub.pc = "ref" /\ pub.commit \in Commits /\ gh \in GitHubStates
        /\ pub.record.commit \in {0, pub.commit}
    <3>1. pub.pc = "ref"  BY <1>3, CreateBranchEffects
    <3> QED  BY <3>1, AtWork DEF OfItsAttempt
  <2>2. CASE gh' = gh /\ (pub'.pc = "draft" => pub.seen # 0)
    BY <1>3, <2>1, <2>2, CreateBranchEffects DEF OnOurBranch, BranchIsOurs
  <2>3. CASE gh' = Pushed(pub.commit)
    <3>1. gh'.branch = pub.commit  BY <2>1, <2>3, PushedFacts
    <3> QED  BY <1>3, <2>1, <3>1, CreateBranchEffects DEF OnOurBranch
  <2> QED  BY <1>3, <2>2, <2>3, CreateBranchEffects
<1>4. CASE UpdateBranch
  <2>1. pub.pc = "ref" /\ pub.commit \in Commits /\ gh \in GitHubStates
    <3>1. pub.pc = "ref"  BY <1>4, UpdateBranchEffects
    <3> QED  BY <3>1, AtWork
  <2>2. CASE gh' = gh /\ (pub'.pc = "draft" => pub.seen = pub.commit)
    BY <1>4, <2>1, <2>2, UpdateBranchEffects DEF OnOurBranch
  <2>3. CASE gh' = Pushed(pub.commit)
    <3>1. gh'.branch = pub.commit  BY <2>1, <2>3, PushedFacts
    <3> QED  BY <1>4, <2>1, <3>1, UpdateBranchEffects DEF OnOurBranch
  <2> QED  BY <1>4, <2>2, <2>3, UpdateBranchEffects
<1>5. CASE OpenDraft
  <2>1. pub.pc = "draft" /\ pub.commit \in Commits
    <3>1. pub.pc = "draft"  BY <1>5, OpenDraftEffects
    <3> QED  BY <3>1, AtWork
  <2> QED  BY <1>5, <2>1, OpenDraftEffects DEF OnOurBranch
<1>6. CASE UpdateDraft  BY <1>6, UpdateDraftEffects DEF OnOurBranch
<1>7. CASE AttachCheck  BY <1>7, AttachCheckEffects DEF OnOurBranch
<1>8. CASE Complete \/ Fail  BY <1>8, SettlementEffects DEF OnOurBranch
<1> QED  BY <1>1, <1>2, <1>3, <1>4, <1>5, <1>6, <1>7, <1>8 DEF Publisher

LEMMA NextKeepsOnOurBranch ==
  ASSUME Undisturbed, Base, Base', OnOurBranch, [Next]_vars
  PROVE  OnOurBranch'
<1>1. CASE UNCHANGED vars  BY <1>1 DEF vars, OnOurBranch, BranchIsOurs
<1>2. CASE QueuePublication \/ \E verified \in BOOLEAN : Regenerate(verified)
  BY <1>2, ControlPlaneEffects DEF OnOurBranch, BranchIsOurs
<1>3. CASE Publisher  BY <1>3, WorkerKeepsOnOurBranch
<1>4. ASSUME NEW d \in Deciders, Decision(d) PROVE OnOurBranch'
  BY <1>4, DecisionLeaves DEF OnOurBranch, BranchIsOurs
<1>5. CASE Meddler
  <2>1. pub.pc = "idle" /\ Foreign # 0
    BY <1>5, MeddlerLeaves DEF MayMeddle, Undisturbed
  <2> QED  BY <1>5, <2>1, MeddlerLeaves DEF OnOurBranch
<1> QED  BY <1>1, <1>2, <1>3, <1>4, <1>5 DEF Next

LEMMA InitEstablishesOnOurBranch ==
  ASSUME Init PROVE OnOurBranch
BY DEF Init, Idle, OnOurBranch

OwnBranch == Base /\ OnOurBranch

LEMMA OwnBranchAlways ==
  ASSUME Undisturbed PROVE Spec => []OwnBranch
<1>1. Init => OwnBranch
  BY InitEstablishesBase, InitEstablishesOnOurBranch DEF OwnBranch
<1>2. OwnBranch /\ [Next]_vars => OwnBranch'
  BY NextKeepsBase, NextKeepsOnOurBranch DEF OwnBranch
<1> QED  BY <1>1, <1>2, PTL DEF Spec

\* However often publications fail and are tried again, and whatever people did
\* to the branch between them, no commit somebody else pushed is overwritten,
\* as long as nobody pushes while one runs (reconcile_branch reads the head,
\* then forces the reference).
THEOREM HumanWorkIsSafeBetweenPublications ==
  ASSUME Meddling # "anytime" PROVE Spec => HumanWorkSurvives
<1> DEFINE Survives == gh.branch = Foreign => gh'.branch = Foreign
<1>1. OwnBranch /\ [Next]_vars => [Survives]_vars
  <2> SUFFICES ASSUME OwnBranch, Next, gh.branch = Foreign PROVE gh'.branch = Foreign
    OBVIOUS
  <2>1. Base /\ OnOurBranch /\ gh \in GitHubStates  BY DEF OwnBranch, Base, Types
  <2>2. CASE QueuePublication \/ \E verified \in BOOLEAN : Regenerate(verified)
    BY <2>1, <2>2, ControlPlaneEffects
  <2>3. CASE \E d \in Deciders : Decision(d)  BY <2>1, <2>3, DecisionLeaves
  <2>4. CASE Meddler  BY <2>1, <2>4, MeddlerLeaves
  <2>5. CASE Claim \/ CheckBase \/ CheckPull \/ CheckBranch \/ MakeCommit
    BY <2>1, <2>5, ClaimEffects, CheckEffects
  <2>6. CASE CreateBranch
    <3>1. gh.branch # 0  OBVIOUS
    <3> QED  BY <2>1, <2>6, <3>1, CreateBranchEffects
  <2>7. CASE UpdateBranch
    <3>1. pub.pc = "ref" /\ pub.record.pull  BY <2>1, <2>7, UpdateBranchEffects
    <3>2. pub.seen \in {pub.record.head, pub.record.commit} /\ gh.branch = pub.seen
      BY <2>1, <3>1 DEF OnOurBranch, BranchIsOurs
    <3>3. pub.record.head \in 0..MaxAttempts /\ pub.record.commit \in 0..MaxAttempts
      BY <2>1 DEF Base, Types, WorkerStates, RecordStates
    <3> QED  BY <3>2, <3>3
  <2>8. CASE OpenDraft  BY <2>1, <2>8, OpenDraftEffects
  <2>9. CASE UpdateDraft \/ AttachCheck  BY <2>1, <2>9, UpdateDraftEffects, AttachCheckEffects
  <2>10. CASE Complete \/ Fail  BY <2>1, <2>10, SettlementEffects
  <2> QED
    BY <2>2, <2>3, <2>4, <2>5, <2>6, <2>7, <2>8, <2>9, <2>10 DEF Next, Publisher
<1>2. Spec => []OwnBranch  BY OwnBranchAlways DEF Undisturbed
<1> QED  BY <1>1, <1>2, PTL DEF Spec, HumanWorkSurvives

\* A publication completes only when the branch and the pull request are at the
\* commit of the attempt it was made for, whatever people did before it began
\* (publish: branch, draft and check of one commit, then complete_publication).
THEOREM PublicationIsOfItsCommit ==
  ASSUME Meddling # "anytime" PROVE Spec => CompletesOnItsOwnCommit
<1> DEFINE Own == mig.status = "pr_opening" /\ mig'.status = "pr_opened" =>
                    gh.branch = mig.attempt /\ gh.head = mig.attempt
<1>1. OwnBranch /\ [Next]_vars => [Own]_vars
  <2> SUFFICES ASSUME OwnBranch, Next, mig.status = "pr_opening", mig'.status = "pr_opened"
               PROVE  gh.branch = mig.attempt /\ gh.head = mig.attempt
    OBVIOUS
  <2>1. Base /\ OnOurBranch  BY DEF OwnBranch
  <2>2. mig' # mig  OBVIOUS
  <2>3. ~(QueuePublication \/ \E verified \in BOOLEAN : Regenerate(verified))
    BY <2>1, ControlPlaneEffects
  <2>4. ~(\E d \in Deciders : Decision(d))  BY <2>1, <2>2, DecisionLeaves
  <2>5. ~Meddler  BY <2>1, <2>2, MeddlerLeaves
  <2>6. Complete \/ Fail
    BY <2>1, <2>2, <2>3, <2>4, <2>5, ClaimEffects, CheckEffects, CreateBranchEffects,
       UpdateBranchEffects, OpenDraftEffects, UpdateDraftEffects, AttachCheckEffects
       DEF Next, Publisher
  <2>7. pub.pc = "done"  BY <2>1, <2>6, SettlementEffects
  <2> QED  BY <2>1, <2>7, AtWork DEF OnOurBranch
<1>2. Spec => []OwnBranch  BY OwnBranchAlways DEF Undisturbed
<1> QED  BY <1>1, <1>2, PTL DEF Spec, CompletesOnItsOwnCommit

-----------------------------------------------------------------------------
(* One decision at a time *)

OneDecider == \A d, e \in Deciders : d = e

\* The worker that found the draft still has it; a decision about to be
\* synchronized is about an opened draft, on which no worker works.
DraftAtWork ==
  /\ pub.pc \in {"branch", "commit", "ref"} /\ pub.record.pull => gh.pull = "open" /\ gh.draft
  /\ \A d \in Deciders : dec[d].pc \in {"loaded", "verified"} => mig.status = "pr_opened"

LEMMA NextKeepsDraftAtWork ==
  ASSUME Undisturbed, OneDecider, OwnBranch, DraftAtWork, [Next]_vars
  PROVE  DraftAtWork'
<1>1. Base /\ OnOurBranch /\ gh \in GitHubStates  BY DEF OwnBranch, Base, Types
<1>2. CASE UNCHANGED vars  BY <1>2 DEF vars, DraftAtWork
<1>3. CASE QueuePublication \/ \E verified \in BOOLEAN : Regenerate(verified)
  BY <1>1, <1>3, ControlPlaneEffects DEF DraftAtWork
<1>4. CASE Publisher
  <2>1. pub.pc # "idle" \/ mig.status = "pr_opening"
    BY <1>1, <1>4, ClaimEffects, CheckEffects, CreateBranchEffects, UpdateBranchEffects,
       OpenDraftEffects, UpdateDraftEffects, AttachCheckEffects, SettlementEffects
       DEF Publisher
  <2>2. mig.status = "pr_opening"  BY <1>1, <2>1 DEF Base, Phases
  <2>3. dec' = dec
    BY <1>1, <1>4, ClaimEffects, CheckEffects, CreateBranchEffects, UpdateBranchEffects,
       OpenDraftEffects, UpdateDraftEffects, AttachCheckEffects, SettlementEffects
       DEF Publisher
  <2>4. \A d \in Deciders : dec'[d].pc \notin {"loaded", "verified"}
    BY <2>2, <2>3 DEF DraftAtWork
  <2>5. pub'.pc \in {"branch", "commit", "ref"} /\ pub'.record.pull =>
          gh'.pull = "open" /\ gh'.draft
    <3>1. CASE CheckBase \/ CheckPull \/ CheckBranch \/ MakeCommit
      BY <1>1, <3>1, CheckEffects DEF DraftAtWork, DraftIsOurs
    <3>2. CASE ~(CheckBase \/ CheckPull \/ CheckBranch \/ MakeCommit)
      BY <1>1, <1>4, <3>2, ClaimEffects, CreateBranchEffects, UpdateBranchEffects,
         OpenDraftEffects, UpdateDraftEffects, AttachCheckEffects, SettlementEffects
         DEF Publisher
    <3> QED  BY <3>1, <3>2
  <2> QED  BY <2>4, <2>5 DEF DraftAtWork
<1>5. ASSUME NEW d \in Deciders, Decision(d) PROVE DraftAtWork'
  <2>1. dec'[d].pc \in {"loaded", "verified"} => mig'.status = "pr_opened"
    BY <1>1, <1>5, DecisionLeaves DEF DraftAtWork
  <2>2. \A e \in Deciders : e = d  BY DEF OneDecider
  <2>3. dec[d].pc = "verified" => pub.pc = "idle"
    BY <1>1 DEF DraftAtWork, Base, Phases
  <2>4. pub'.pc \in {"branch", "commit", "ref"} => gh' = gh /\ pub' = pub
    BY <1>1, <1>5, <2>3, DecisionLeaves
  <2> QED  BY <2>1, <2>2, <2>4 DEF DraftAtWork
<1>6. CASE Meddler
  <2>1. pub.pc = "idle" /\ pub' = pub /\ dec' = dec /\ mig' = mig
    BY <1>1, <1>6, MeddlerLeaves DEF MayMeddle, Undisturbed
  <2> QED  BY <2>1 DEF DraftAtWork
<1> QED  BY <1>2, <1>3, <1>4, <1>5, <1>6 DEF Next

LEMMA InitEstablishesDraftAtWork ==
  ASSUME Init PROVE DraftAtWork
BY DEF Init, Idle, NoDecision, DraftAtWork

\* The commit the worker pushes goes onto a draft, or where there is no pull
\* request yet.
LEMMA PushesGoOntoTheDraft ==
  ASSUME OwnBranch, DraftAtWork, CreateBranch \/ UpdateBranch, gh' # gh
  PROVE  /\ gh' = Pushed(pub.commit) /\ pub.commit \in Commits /\ gh \in GitHubStates
         /\ \/ gh.pull # "open" /\ pub.record.pull = FALSE
            \/ /\ gh.pull = "open" /\ gh.draft /\ gh.branch = pub.record.head
               /\ pub.record.head < pub.commit
<1>1. Base /\ OnOurBranch /\ pub.pc = "ref"
  BY CreateBranchEffects, UpdateBranchEffects DEF OwnBranch
<1>2. /\ pub \in WorkerStates /\ gh \in GitHubStates /\ pub.commit \in Commits
      /\ pub.record.commit \in {0, pub.commit} /\ pub.record.head <= pub.commit
  BY <1>1, AtWork DEF OfItsAttempt
<1>3. CASE CreateBranch
  <2>1. ~pub.record.pull /\ gh.branch = 0 /\ gh' = Pushed(pub.commit)
    BY <1>1, <1>3, CreateBranchEffects
  <2>2. pub.record.pull \in BOOLEAN  BY <1>2 DEF WorkerStates, RecordStates
  <2> QED  BY <1>1, <1>2, <2>1, <2>2 DEF OnOurBranch
<1>4. CASE UpdateBranch
  <2>1. pub.record.pull /\ pub.seen # pub.commit /\ gh' = Pushed(pub.commit)
    BY <1>1, <1>4, UpdateBranchEffects
  <2>2. gh.pull = "open" /\ gh.draft  BY <1>1, <2>1 DEF DraftAtWork
  <2>3. gh.branch = pub.seen /\ pub.seen \in {pub.record.head, pub.record.commit}
    BY <1>1, <2>1 DEF OnOurBranch, BranchIsOurs
  <2>4. gh.branch # 0  BY <1>1, <2>2 DEF OnOurBranch
  <2>5. pub.record.head \in 0..MaxAttempts  BY <1>2 DEF WorkerStates, RecordStates
  <2> QED  BY <1>2, <2>1, <2>2, <2>3, <2>4, <2>5
<1> QED  BY <1>3, <1>4

OwnDraft == OwnBranch /\ DraftAtWork

LEMMA OwnDraftAlways ==
  ASSUME Undisturbed, OneDecider PROVE Spec => []OwnDraft
<1>1. Init => OwnDraft
  BY InitEstablishesBase, InitEstablishesOnOurBranch, InitEstablishesDraftAtWork
     DEF OwnBranch, OwnDraft
<1>2. OwnDraft /\ [Next]_vars => OwnDraft'
  BY NextKeepsBase, NextKeepsOnOurBranch, NextKeepsDraftAtWork DEF OwnBranch, OwnDraft
<1> QED  BY <1>1, <1>2, PTL DEF Spec

\* With one decision at a time and nobody in the way of a running publication,
\* the publisher never pushes under a pull request that is ready for review
\* (validate_existing_pull_request, then reconcile_branch some calls later).
THEOREM ReadyIsLeftAlone ==
  ASSUME Meddling # "anytime", \A d, e \in Deciders : d = e
  PROVE  Spec => ReadyIsNotRewritten
<1> DEFINE LeftAlone == gh.pull = "open" /\ ~gh.draft => gh'.head \in {gh.head, Foreign}
<1>1. OwnDraft /\ [Next]_vars => [LeftAlone]_vars
  <2> SUFFICES ASSUME OwnDraft, Next, gh.pull = "open", ~gh.draft
               PROVE  gh'.head \in {gh.head, Foreign}
    OBVIOUS
  <2>1. Base /\ OwnBranch /\ DraftAtWork  BY DEF OwnDraft, OwnBranch
  <2>2. CASE QueuePublication \/ \E verified \in BOOLEAN : Regenerate(verified)
    BY <2>1, <2>2, ControlPlaneEffects
  <2>3. CASE \E d \in Deciders : Decision(d)  BY <2>1, <2>3, DecisionLeaves
  <2>4. CASE Meddler  BY <2>1, <2>4, MeddlerLeaves
  <2>5. CASE Claim \/ CheckBase \/ CheckPull \/ CheckBranch \/ MakeCommit
    BY <2>1, <2>5, ClaimEffects, CheckEffects
  <2>6. CASE CreateBranch \/ UpdateBranch
    <3>1. CASE gh' = gh  BY <3>1
    <3>2. CASE gh' # gh
      <4>1. /\ gh' = Pushed(pub.commit) /\ gh.pull # "open"
        BY <2>1, <2>6, <3>2, PushesGoOntoTheDraft
      <4> QED  BY <4>1
    <3> QED  BY <3>1, <3>2
  <2>7. CASE OpenDraft  BY <2>1, <2>7, OpenDraftEffects
  <2>8. CASE UpdateDraft \/ AttachCheck  BY <2>1, <2>8, UpdateDraftEffects, AttachCheckEffects
  <2>9. CASE Complete \/ Fail  BY <2>1, <2>9, SettlementEffects
  <2> QED
    BY <2>2, <2>3, <2>4, <2>5, <2>6, <2>7, <2>8, <2>9 DEF Next, Publisher
<1>2. Spec => []OwnDraft  BY OwnDraftAlways DEF Undisturbed, OneDecider
<1> QED  BY <1>1, <1>2, PTL DEF Spec, ReadyIsNotRewritten

-----------------------------------------------------------------------------
(* Nobody but the publisher and the decisions acts on GitHub. *)

Unmeddled == Meddling = "never"

LEMMA NobodyMeddles ==
  ASSUME Unmeddled PROVE Undisturbed /\ ~MayMeddle
BY DEF Unmeddled, Undisturbed, MayMeddle

LEMMA NextKeepsOpened ==
  ASSUME Unmeddled, OwnBranch, OpenedShowsTheAttempt, [Next]_vars
  PROVE  OpenedShowsTheAttempt'
<1>1. Base /\ OnOurBranch  BY DEF OwnBranch
<1>2. CASE UNCHANGED vars  BY <1>2 DEF vars, OpenedShowsTheAttempt
<1>3. CASE QueuePublication \/ \E verified \in BOOLEAN : Regenerate(verified)
  BY <1>1, <1>3, ControlPlaneEffects DEF OpenedShowsTheAttempt
<1>4. CASE Publisher /\ ~(Complete \/ Fail)
  <2>1. mig' = mig
    BY <1>1, <1>4, ClaimEffects, CheckEffects, CreateBranchEffects, UpdateBranchEffects,
       OpenDraftEffects, UpdateDraftEffects, AttachCheckEffects DEF Publisher
  <2>2. pub.pc # "idle" \/ mig.status = "pr_opening"
    BY <1>1, <1>4, ClaimEffects, CheckEffects, CreateBranchEffects, UpdateBranchEffects,
       OpenDraftEffects, UpdateDraftEffects, AttachCheckEffects DEF Publisher
  <2>3. mig.status # "pr_opened"  BY <1>1, <2>2 DEF Base, Phases
  <2> QED  BY <2>1, <2>3 DEF OpenedShowsTheAttempt
<1>5. CASE Complete \/ Fail
  <2> SUFFICES ASSUME mig'.status = "pr_opened"
               PROVE  /\ gh'.branch = mig'.attempt /\ gh'.head = mig'.attempt
                      /\ mig'.attempt \in gh'.checks
                      /\ rec'.commit = mig'.attempt /\ rec'.head = mig'.attempt
                      /\ rec'.check = mig'.attempt
    BY DEF OpenedShowsTheAttempt
  <2>1. /\ pub.pc = "done" /\ mig'.attempt = mig.attempt /\ gh' = gh
        /\ rec'.check = rec.check /\ rec'.commit = pub.commit /\ rec'.head = pub.commit
    BY <1>1, <1>5, SettlementEffects
  <2>2. /\ pub.commit = mig.attempt /\ rec.check = mig.attempt /\ pub.commit # 0
        /\ rec.check # 0 => rec.check \in gh.checks
    BY <1>1, <2>1, AtWork DEF InStep
  <2>3. gh.branch = pub.commit /\ gh.head = pub.commit  BY <1>1, <2>1 DEF OnOurBranch
  <2> QED  BY <2>1, <2>2, <2>3
<1>6. ASSUME NEW d \in Deciders, Decision(d) PROVE OpenedShowsTheAttempt'
  BY <1>1, <1>6, DecisionLeaves DEF OpenedShowsTheAttempt
<1>7. ~Meddler  BY <1>1, MeddlerLeaves, NobodyMeddles
<1> QED  BY <1>2, <1>3, <1>4, <1>5, <1>6, <1>7 DEF Next

\* A migration is shown as opened only while the branch, the pull request, the
\* check and the record are all of its current attempt, whatever calls failed
\* on the way (publish and complete_publication).
THEOREM OpenedIsWhatGitHubShows ==
  ASSUME Meddling = "never" PROVE Spec => []OpenedShowsTheAttempt
<1>1. Init => OpenedShowsTheAttempt  BY DEF Init, OpenedShowsTheAttempt
<1>2. OwnBranch /\ OpenedShowsTheAttempt /\ [Next]_vars => OpenedShowsTheAttempt'
  BY NextKeepsOpened DEF Unmeddled
<1>3. Spec => []OwnBranch  BY OwnBranchAlways, NobodyMeddles DEF Unmeddled
<1> QED  BY <1>1, <1>2, <1>3, PTL DEF Spec

\* The record knows of every pull request that is no longer open, and of none
\* that is not there.
PullKnown ==
  /\ gh.pull = "open" => gh.head = gh.branch
  /\ gh.pull = "closed" => rec.pull
  /\ rec.pull => gh.pull # "none"
  /\ gh.pull = "none" => gh.head = 0
  /\ \A d \in Deciders : dec[d].pc \in {"loaded", "verified"} => rec.pull

LEMMA NextKeepsPullKnown ==
  ASSUME Unmeddled, Base, PullKnown, [Next]_vars
  PROVE  PullKnown'
<1>1. CASE UNCHANGED vars  BY <1>1 DEF vars, PullKnown
<1>2. CASE QueuePublication \/ \E verified \in BOOLEAN : Regenerate(verified)
  BY <1>2, ControlPlaneEffects DEF PullKnown
<1>3. CASE Claim \/ CheckBase \/ CheckPull \/ CheckBranch \/ MakeCommit \/ Complete \/ Fail
  BY <1>3, ClaimEffects, CheckEffects, SettlementEffects DEF PullKnown
<1>4. CASE CreateBranch \/ UpdateBranch
  <2>1. /\ rec'.pull = rec.pull /\ dec' = dec /\ gh' \in {gh, Pushed(pub.commit)}
        /\ pub.pc = "ref"
    BY <1>4, CreateBranchEffects, UpdateBranchEffects
  <2>2. pub.commit \in 0..Foreign /\ gh \in GitHubStates  BY <2>1, AtWork
  <2> QED  BY <2>1, <2>2, PushedFacts DEF PullKnown
<1>5. CASE OpenDraft
  <2>1. ~pub.record.pull /\ pub.pc = "draft" /\ dec' = dec  BY <1>5, OpenDraftEffects
  <2>2. ~rec.pull  BY <2>1, AtWork DEF InStep
  <2> QED  BY <1>5, <2>1, <2>2, OpenDraftEffects DEF PullKnown
<1>6. CASE UpdateDraft
  <2>1. pub.record.pull /\ pub.pc = "draft"  BY <1>6, UpdateDraftEffects
  <2>2. rec.pull  BY <2>1, AtWork DEF InStep
  <2> QED  BY <1>6, <2>2, UpdateDraftEffects DEF PullKnown
<1>7. CASE AttachCheck  BY <1>7, AttachCheckEffects DEF PullKnown
<1>8. ASSUME NEW d \in Deciders, Decision(d) PROVE PullKnown'
  <2>1. \A e \in Deciders : dec'[e].pc \in {"loaded", "verified"} => rec'.pull
    <3>1. mig.status = "pr_opened" => rec.pull  BY DEF Base, Checkpoints
    <3> QED  BY <1>8, <3>1, DecisionLeaves DEF PullKnown
  <2>2. dec[d].pc = "verified" => rec.pull  BY DEF PullKnown
  <2> QED  BY <1>8, <2>1, <2>2, DecisionLeaves DEF PullKnown
<1>9. ~Meddler  BY MeddlerLeaves, NobodyMeddles
<1> QED
  BY <1>1, <1>2, <1>3, <1>4, <1>5, <1>6, <1>7, <1>8, <1>9 DEF Next, Publisher

LEMMA InitEstablishesPullKnown ==
  ASSUME Init PROVE PullKnown
BY DEF Init, NoRecord, NoDecision, PullKnown

\* The pull request as the abstract specification sees it.
Shown == IF gh.pull = "open" THEN IF gh.draft THEN "draft" ELSE "ready" ELSE gh.pull

LEMMA StepsMaintainADraft ==
  ASSUME OwnDraft, PullKnown, Unmeddled, Next
  PROVE  Draft!Next \/ (Shown' = Shown /\ gh'.head = gh.head)
<1> USE DEF Shown
<1>1. Base /\ OwnBranch /\ DraftAtWork /\ gh \in GitHubStates
  BY DEF OwnDraft, OwnBranch, Base, Types
<1>2. CASE gh' = gh  BY <1>2
<1>3. CASE gh' # gh /\ (CreateBranch \/ UpdateBranch)
  <2>1. /\ gh' = Pushed(pub.commit) /\ pub.commit \in Commits
        /\ \/ gh.pull # "open"
           \/ /\ gh.pull = "open" /\ gh.draft /\ gh.branch = pub.record.head
              /\ pub.record.head < pub.commit
    BY <1>1, <1>3, PushesGoOntoTheDraft
  <2>2. /\ gh'.pull = gh.pull /\ gh'.draft = gh.draft
        /\ gh'.head = IF gh.pull = "open" THEN pub.commit ELSE gh.head
    <3>1. pub.commit \in 0..Foreign  BY <2>1
    <3> QED  BY <1>1, <2>1, <3>1, PushedFacts
  <2>3. CASE gh.pull # "open"  BY <2>2, <2>3
  <2>4. CASE gh.pull = "open"
    <3>1. gh.head < pub.commit  BY <2>1, <2>4 DEF PullKnown
    <3> QED  BY <2>1, <2>2, <2>4, <3>1 DEF Draft!Next, Draft!Update
  <2> QED  BY <2>3, <2>4
<1>4. CASE gh' # gh /\ OpenDraft
  <2>1. /\ ~pub.record.pull /\ pub.pc = "draft" /\ gh.pull # "open" /\ gh'.pull = "open"
        /\ gh'.draft /\ gh'.head = gh.branch
    BY <1>1, <1>4, OpenDraftEffects
  <2>2. ~rec.pull /\ gh.branch = pub.commit /\ pub.commit \in Commits
    <3>1. rec.pull = pub.record.pull  BY <1>1, <2>1, AtWork DEF InStep
    <3>2. pub.commit \in Commits  BY <1>1, <2>1, AtWork
    <3>3. gh.branch = pub.commit  BY <1>1, <2>1 DEF OwnBranch, OnOurBranch
    <3> QED  BY <2>1, <3>1, <3>2, <3>3
  <2>3. gh.pull = "none"  BY <1>1, <2>1, <2>2 DEF PullKnown, GitHubStates
  <2> QED  BY <2>1, <2>2, <2>3 DEF Draft!Next, Draft!Open
<1>5. CASE AttachCheck  BY <1>1, <1>5, AttachCheckEffects
<1>6. ASSUME NEW d \in Deciders, Decision(d), gh' # gh
      PROVE  Draft!Next \/ (Shown' = Shown /\ gh'.head = gh.head)
  <2>1. /\ dec[d].pc = "verified" /\ gh'.head = gh.head
        /\ \/ gh'.pull = gh.pull /\ ~gh'.draft
           \/ gh'.pull = "closed"
    BY <1>1, <1>6, DecisionLeaves
  <2>2. gh.pull \in {"open", "closed"}  BY <1>1, <2>1 DEF PullKnown, GitHubStates
  <2> QED  BY <2>1, <2>2 DEF Draft!Next, Draft!MarkReady, Draft!Close
<1>7. gh' # gh => \/ CreateBranch \/ UpdateBranch \/ OpenDraft \/ AttachCheck
                  \/ \E d \in Deciders : Decision(d)
  BY <1>1, ControlPlaneEffects, ClaimEffects, CheckEffects, UpdateDraftEffects,
     SettlementEffects, MeddlerLeaves, NobodyMeddles DEF Next, Publisher
<1> QED  BY <1>2, <1>3, <1>4, <1>5, <1>6, <1>7

\* With one decision at a time and nobody meddling, the publisher and the
\* decisions implement the abstract draft pull request: opened once, rewritten
\* only while a draft and only by a later attempt, readied or closed once
\* (publisher.py and actions.py together).
THEOREM PublisherMaintainsADraft ==
  ASSUME Meddling = "never", \A d, e \in Deciders : d = e
  PROVE  Spec => MaintainsADraft
<1>1. Init => Draft!Init /\ PullKnown
  BY InitEstablishesPullKnown DEF Init, Draft!Init
<1>2. OwnDraft /\ PullKnown /\ [Next]_vars => [Draft!Next]_<<Shown, gh.head>>
  <2> SUFFICES ASSUME OwnDraft, PullKnown, [Next]_vars
               PROVE  Draft!Next \/ (Shown' = Shown /\ gh'.head = gh.head)
    OBVIOUS
  <2>1. CASE UNCHANGED vars  BY <2>1 DEF vars, Shown
  <2>2. CASE Next  BY <2>2, StepsMaintainADraft DEF Unmeddled
  <2> QED  BY <2>1, <2>2
<1>3. OwnDraft /\ PullKnown /\ [Next]_vars => PullKnown'
  BY NextKeepsPullKnown DEF Unmeddled, OwnDraft, OwnBranch
<1>4. Spec => []OwnDraft
  BY OwnDraftAlways, NobodyMeddles DEF Unmeddled, OneDecider
<1>5. Spec => Draft!Init /\ [][Draft!Next]_<<Shown, gh.head>>
  BY <1>1, <1>2, <1>3, <1>4, PTL DEF Spec
<1> QED  BY <1>5 DEF MaintainsADraft, Draft!Spec, Shown

=============================================================================
