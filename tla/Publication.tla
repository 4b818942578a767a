----------------------------- MODULE Publication -----------------------------
(***************************************************************************)
(* How the publication worker and the developers' decisions act on GitHub. *)
(*                                                                         *)
(* One migration, its pull_request_records row, its branch and its pull    *)
(* request.  Each GitHub read and each GitHub write is a step of its own;  *)
(* the checkpoint that follows a write is read by nobody before the worker *)
(* ends, so it is taken together with the write.  Generation is reduced to *)
(* its outcome (Regenerate) and the queue to the record's status: their    *)
(* interleavings are the subject of MigrationLifecycle, where at most one  *)
(* worker is shown to publish at a time.                                   *)
(*                                                                         *)
(* A commit is named by the attempt it was made from: its tree, parent,    *)
(* author and date are all taken from the attempt's evidence, so making it *)
(* again gives the same object.  0 stands for "none".                      *)
(***************************************************************************)
EXTENDS Integers

CONSTANTS Deciders,     \* concurrent decision requests
          MaxAttempts,  \* bound: attempts of the migration
          MaxVersion,   \* bound: transitions of the migration
          Faults,       \* how GitHub calls may fail
          Meddling      \* when other people touch the branch or the draft

ASSUME BoundsAssumption == MaxAttempts \in Nat \ {0} /\ MaxVersion \in Nat \ {0}
ASSUME FaultsAssumption == Faults \subseteq {"refused", "lost"}
ASSUME MeddlingAssumption == Meddling \in {"never", "between", "anytime"}

VARIABLES mig,   \* the migrations row: status, version, current attempt
          rec,   \* the pull_request_records row
          gh,    \* the repository on GitHub
          pub,   \* the publication worker
          dec    \* decision requests being served

vars == <<mig, rec, gh, pub, dec>>

Foreign == MaxAttempts + 1      \* a commit someone else pushed
Commits == 1..MaxAttempts

NoRecord == [status |-> "absent", attempt |-> 0, commit |-> 0, head |-> 0,
             pull |-> FALSE, check |-> 0]
Idle     == [pc |-> "idle", record |-> NoRecord, seen |-> 0, commit |-> 0]
NoDecision == [pc |-> "idle", op |-> "none", expected |-> 0, head |-> 0]

\* The migration has just become ready with its first attempt; versions are
\* counted from there.
Init ==
  /\ mig = [status |-> "ready", version |-> 1, attempt |-> 1, verified |-> TRUE]
  /\ rec = NoRecord
  /\ gh  = [branch |-> 0, pull |-> "none", draft |-> FALSE, head |-> 0, checks |-> {}]
  /\ pub = Idle
  /\ dec = [d \in Deciders |-> NoDecision]

-----------------------------------------------------------------------------
(* The migration *)

Becomes(status) == [mig EXCEPT !.status = status, !.version = @ + 1]

CheckpointsKept(record, attempt) ==                                    \* mutant
  [record EXCEPT !.status = "queued", !.attempt = attempt]
HeadAdopted(record, attempt) ==                                        \* mutant
  [record EXCEPT !.status = "queued", !.attempt = attempt, !.head = gh.branch,
                 !.commit = IF record.attempt = attempt THEN @ ELSE 0]
\* The record of a later attempt starts its checkpoints afresh, but keeps the
\* branch head and the pull request it has to update.
Requeued(record, attempt) ==
  [record EXCEPT !.status  = "queued", !.attempt = attempt,
                 !.commit = IF record.attempt = attempt THEN @ ELSE 0,
                 !.check  = IF record.attempt = attempt THEN @ ELSE 0]

\* queue_publication
QueuePublication ==
  /\ mig.status \in {"ready", "blocked"} /\ mig.verified
  /\ mig.version < MaxVersion
  /\ mig' = Becomes("pr_opening")
  /\ rec' = Requeued(rec, mig.attempt)
  /\ UNCHANGED <<gh, pub, dec>>

\* A generation run to its end: of the attempt a revision created, or of a new
\* attempt of a blocked migration.
Regenerate(verified) ==
  /\ mig.status \in {"needs_revision", "blocked"}
  /\ mig.version < MaxVersion
  /\ LET n == IF mig.status = "blocked" THEN mig.attempt + 1 ELSE mig.attempt
     IN  /\ n <= MaxAttempts
         /\ mig' = [Becomes(IF verified THEN "ready" ELSE "blocked")
                      EXCEPT !.attempt = n, !.verified = verified]
  /\ UNCHANGED <<rec, gh, pub, dec>>

-----------------------------------------------------------------------------
(* The publication worker *)

At(pc)   == pub.pc = pc
Go(pc)   == pub' = [pub EXCEPT !.pc = pc]
Conflict == Go("conflicted")    \* BranchCollision, RemoteStateConflict, HTTP 422
Raise    == Go("failing")       \* any other error

\* claim_publication: the worker goes on with the record as it was then.
Claim ==
  /\ At("idle") /\ rec.status = "queued"
  /\ rec' = [rec EXCEPT !.status = "publishing"]
  /\ pub' = [Idle EXCEPT !.pc = "base", !.record = rec]
  /\ UNCHANGED <<mig, gh, dec>>

\* Credentials, permissions and the base branch: either the base still is the
\* verified snapshot, or the publication fails before anything is written.
CheckBase ==
  /\ At("base")
  /\ Go("pull") \/ Raise
  /\ UNCHANGED <<mig, rec, gh, dec>>

DraftIsThere == gh.pull = "open" /\ gh.head = pub.record.head            \* mutant
\* The existing pull request is still the draft the record describes.
DraftIsOurs == gh.pull = "open" /\ gh.draft /\ gh.head = pub.record.head

CheckPull ==
  /\ At("pull")
  /\ IF pub.record.pull => DraftIsOurs THEN Go("branch") ELSE Conflict
  /\ UNCHANGED <<mig, rec, gh, dec>>

\* What the branch may point to: nothing or the recorded commit before the pull
\* request exists, the recorded head or the recorded commit afterwards.
BranchIsOurs(seen) ==
  IF pub.record.pull THEN seen \in {pub.record.head, pub.record.commit}
  ELSE seen = 0 \/ (pub.record.commit # 0 /\ seen = pub.record.commit)

CheckBranch ==
  /\ At("branch")
  /\ IF BranchIsOurs(gh.branch)
     THEN pub' = [pub EXCEPT !.pc = "commit", !.seen = gh.branch]
     ELSE Conflict
  /\ UNCHANGED <<mig, rec, gh, dec>>

\* A GitHub write that turns the repository into `after`, and its checkpoint.
\* It may be refused, or succeed with its answer (or its checkpoint) lost.
Writes(after, checkpoint, worker) ==
  /\ \/ gh' = after /\ rec' = checkpoint /\ pub' = worker
     \/ "refused" \in Faults /\ Raise /\ UNCHANGED <<gh, rec>>
     \/ "lost" \in Faults /\ gh' = after /\ Raise /\ UNCHANGED rec
  /\ UNCHANGED <<mig, dec>>

CommitRecorded(commit) == [rec EXCEPT !.commit = commit]

\* One tree and one commit, unless the record has them already.
MakeCommit ==
  /\ At("commit")
  /\ IF pub.record.commit # 0
     THEN /\ pub' = [pub EXCEPT !.pc = "ref", !.commit = pub.record.commit]
          /\ UNCHANGED <<mig, rec, gh, dec>>
     ELSE Writes(gh, CommitRecorded(pub.record.attempt),
                 [pub EXCEPT !.pc = "ref", !.commit = pub.record.attempt])

\* The repository with the branch at another commit: an open pull request
\* follows its branch.
Pushed(commit) ==
  [gh EXCEPT !.branch = commit, !.head = IF gh.pull = "open" THEN commit ELSE @]

HeadRecorded == [rec EXCEPT !.head = pub.commit]
NextPc(pc)   == [pub EXCEPT !.pc = pc]

\* The branch is created, or reconciled with what an earlier try created.
CreateBranch ==
  /\ At("ref") /\ ~pub.record.pull
  /\ IF pub.seen = 0
     THEN IF gh.branch = 0
          THEN Writes(Pushed(pub.commit), HeadRecorded, NextPc("draft"))
          ELSE Conflict /\ UNCHANGED <<mig, rec, gh, dec>>
     ELSE /\ rec' = HeadRecorded /\ Go("draft")
          /\ UNCHANGED <<mig, gh, dec>>

\* Or, once there is a pull request, forced to the new commit.
UpdateBranch ==
  /\ At("ref") /\ pub.record.pull
  /\ IF pub.seen # pub.commit
     THEN Writes(Pushed(pub.commit), HeadRecorded, NextPc("draft"))
     ELSE Go("draft") /\ UNCHANGED <<mig, rec, gh, dec>>

\* The draft is opened; GitHub allows one open pull request per branch.
OpenDraft ==
  /\ At("draft") /\ ~pub.record.pull
  /\ IF gh.pull = "open"
     THEN Conflict /\ UNCHANGED <<mig, rec, gh, dec>>
     ELSE Writes([gh EXCEPT !.pull = "open", !.draft = TRUE, !.head = gh.branch],
                 [rec EXCEPT !.pull = TRUE], NextPc("check"))

\* Or its title and body are updated, if its head is the commit just pushed.
UpdateDraft ==
  /\ At("draft") /\ pub.record.pull
  /\ IF gh.head = pub.commit
     THEN Writes(gh, [rec EXCEPT !.pull = TRUE], NextPc("check"))
     ELSE Conflict /\ UNCHANGED <<mig, rec, gh, dec>>

\* A check run is attached to the commit, unless the record has one.
AttachCheck ==
  /\ At("check")
  /\ IF pub.record.check # 0
     THEN Go("done") /\ UNCHANGED <<mig, rec, gh, dec>>
     ELSE Writes([gh EXCEPT !.checks = @ \cup {pub.commit}],
                 [rec EXCEPT !.check = pub.commit], NextPc("done"))

OwnsMigration == mig.status = "pr_opening" /\ mig.attempt = pub.record.attempt

\* complete_publication
Complete ==
  /\ At("done")
  /\ IF rec.status = "publishing" /\ OwnsMigration
     THEN /\ rec' = [rec EXCEPT !.status = "completed", !.commit = pub.commit,
                                !.head = pub.commit]
          /\ mig' = Becomes("pr_opened")
          /\ pub' = Idle
     ELSE Raise /\ UNCHANGED <<mig, rec>>
  /\ UNCHANGED <<gh, dec>>

\* fail_publication
Fail ==
  /\ pub.pc \in {"failing", "conflicted"}
  /\ IF rec.status = "publishing"
     THEN /\ rec' = [rec EXCEPT !.status = "failed"]
          /\ mig' = IF mig.status = "pr_opening" THEN Becomes("blocked") ELSE mig
     ELSE UNCHANGED <<mig, rec>>
  /\ pub' = Idle
  /\ UNCHANGED <<gh, dec>>

Publisher ==
  \/ Claim \/ CheckBase \/ CheckPull \/ CheckBranch \/ MakeCommit
  \/ CreateBranch \/ UpdateBranch \/ OpenDraft \/ UpdateDraft \/ AttachCheck
  \/ Complete \/ Fail

-----------------------------------------------------------------------------
(* Decision requests: GitHub first, then the database. *)

DecisionStatus == [ approve |-> "approved", revise  |-> "needs_revision",
                    snooze  |-> "snoozed",  decline |-> "declined" ]
MayDecide(op) == mig.status = "pr_opened" \/ (mig.status = "ready" /\ op # "approve")

\* A request arrives with the version its client has read.
Send(d, op) ==
  /\ dec[d].pc = "idle"
  /\ dec' = [dec EXCEPT ![d] =
       [ pc |-> IF op \in {"approve", "decline"} THEN "sent" ELSE "synced",
         op |-> op, expected |-> mig.version, head |-> 0 ]]
  /\ UNCHANGED <<mig, rec, gh, pub>>

Drop(d)     == dec' = [dec EXCEPT ![d] = NoDecision]
Advance(d, pc) == dec' = [dec EXCEPT ![d].pc = pc]

\* migration_has_opened_pull_request and load_pull_request_action
Load(d) ==
  /\ dec[d].pc = "sent"
  /\ IF mig.status # "pr_opened" THEN Advance(d, "synced")
     ELSE IF mig.version = dec[d].expected /\ rec.status = "completed"
     THEN dec' = [dec EXCEPT ![d] = [@ EXCEPT !.pc = "loaded", !.head = rec.head]]
     ELSE Drop(d)
  /\ UNCHANGED <<mig, rec, gh, pub>>

\* The pull request as it is now: someone may have been there before.
VerifyPull(d) ==
  /\ dec[d].pc = "loaded"
  /\ \/ /\ gh.head = dec[d].head
        /\ \/ dec[d].op = "approve" /\ gh.pull = "open"
              /\ Advance(d, IF gh.draft THEN "verified" ELSE "synced")
           \/ dec[d].op = "decline"
              /\ Advance(d, IF gh.pull = "open" THEN "verified" ELSE "synced")
     \/ /\ gh.head # dec[d].head \/ (dec[d].op = "approve" /\ gh.pull # "open")
        /\ Drop(d)
     \/ "refused" \in Faults /\ Drop(d)
  /\ UNCHANGED <<mig, rec, gh, pub>>

Decided(op) == IF op = "approve" THEN [gh EXCEPT !.draft = FALSE]
               ELSE [gh EXCEPT !.pull = "closed"]

\* markPullRequestReadyForReview, or PATCH state=closed
Synchronize(d) ==
  /\ dec[d].pc = "verified"
  /\ \/ gh' = Decided(dec[d].op) /\ Advance(d, "synced")
     \/ "lost" \in Faults /\ gh' = Decided(dec[d].op) /\ Drop(d)
     \/ "refused" \in Faults /\ Drop(d) /\ UNCHANGED gh
  /\ UNCHANGED <<mig, rec, pub>>

\* apply_developer_action: the optimistic decision in the database.
Apply(d) ==
  LET op == dec[d].op
      n  == IF op = "revise" THEN mig.attempt + 1 ELSE mig.attempt
  IN  /\ dec[d].pc = "synced"
      /\ IF mig.version = dec[d].expected /\ MayDecide(op)
         THEN /\ n <= MaxAttempts /\ mig.version < MaxVersion
              /\ mig' = [Becomes(DecisionStatus[op]) EXCEPT !.attempt = n,
                                   !.verified = @ /\ op # "revise"]
         ELSE UNCHANGED mig
      /\ Drop(d)
      /\ UNCHANGED <<rec, gh, pub>>

Decision(d) ==
  \/ \E op \in {"approve", "revise", "snooze", "decline"} : Send(d, op)
  \/ Load(d) \/ VerifyPull(d) \/ Synchronize(d) \/ Apply(d)

-----------------------------------------------------------------------------
(* Other people with write access to the repository. *)

MayMeddle == \/ Meddling = "anytime"
             \/ Meddling = "between" /\ pub.pc = "idle"

PushForeign == MayMeddle /\ gh' = Pushed(Foreign) /\ UNCHANGED <<mig, rec, pub, dec>>

CloseByHand == /\ MayMeddle /\ gh.pull = "open"
               /\ gh' = [gh EXCEPT !.pull = "closed"]
               /\ UNCHANGED <<mig, rec, pub, dec>>

ReadyByHand == /\ MayMeddle /\ gh.pull = "open" /\ gh.draft
               /\ gh' = [gh EXCEPT !.draft = FALSE]
               /\ UNCHANGED <<mig, rec, pub, dec>>

Meddler == PushForeign \/ CloseByHand \/ ReadyByHand

-----------------------------------------------------------------------------
Next == \/ QueuePublication
        \/ \E verified \in BOOLEAN : Regenerate(verified)
        \/ Publisher
        \/ \E d \in Deciders : Decision(d)
        \/ Meddler

Spec == Init /\ [][Next]_vars

-----------------------------------------------------------------------------
(* Properties *)

\* Every variable has its type.
TypeOK ==
  /\ mig \in [ status : {"ready", "pr_opening", "pr_opened", "blocked", "needs_revision",
                         "approved", "snoozed", "declined"},
               version : 1..MaxVersion + 1, attempt : Commits, verified : BOOLEAN ]
  /\ rec.status \in {"absent", "queued", "publishing", "completed", "failed"}
  /\ {rec.attempt, rec.commit, rec.head, rec.check} \subseteq 0..MaxAttempts
  /\ gh \in [ branch : 0..Foreign, pull : {"none", "open", "closed"}, draft : BOOLEAN,
              head : 0..Foreign, checks : SUBSET Commits ]
  /\ pub.pc \in {"idle", "base", "pull", "branch", "commit", "ref", "draft", "check",
                 "done", "failing", "conflicted"}
  /\ {pub.seen, pub.commit} \subseteq 0..Foreign

\* A migration is pr_opened only if GitHub shows exactly the commit of its
\* current attempt, with the check run attached to it, whatever failed and was
\* tried again on the way (nobody meddling).
OpenedShowsTheAttempt ==
  mig.status = "pr_opened" =>
    /\ gh.branch = mig.attempt /\ gh.head = mig.attempt
    /\ mig.attempt \in gh.checks
    /\ rec.commit = mig.attempt /\ rec.head = mig.attempt /\ rec.check = mig.attempt

\* However people have left the branch and the draft before a publication, it
\* completes only on its own commit.
CompletesOnItsOwnCommit ==
  [][mig.status = "pr_opening" /\ mig'.status = "pr_opened" =>
       gh.branch = mig.attempt /\ gh.head = mig.attempt]_vars

\* The publisher and the decisions maintain one draft pull request as promised.
Draft == INSTANCE DraftPullRequest
           WITH pull <- IF gh.pull = "open"
                        THEN IF gh.draft THEN "draft" ELSE "ready"
                        ELSE gh.pull,
                content <- gh.head
MaintainsADraft == Draft!Spec

\* A commit somebody else pushed to the branch is never overwritten.
HumanWorkSurvives == [][gh.branch = Foreign => gh'.branch = Foreign]_vars

\* Nobody meddling, the publication of the first attempt is resumed however
\* often it failed: it is never stopped by what its own earlier tries left on
\* GitHub (phase-5, "individual resumable checkpoints").  It is not so when the
\* answer to the request that opens the draft is lost.
ResumesItsOwnWork == pub.record.attempt = 1 => pub.pc # "conflicted"

\* The head of a pull request that is ready for review is rewritten by nobody
\* but the humans working on it (phase-5, "a manually readied/closed draft").
ReadyIsNotRewritten ==
  [][gh.pull = "open" /\ ~gh.draft => gh'.head \in {gh.head, Foreign}]_vars

\* The pull request of a migration under revision is a draft (phase-5, "Revision
\* leaves the current PR draft so the next successful attempt can synchronize it").
\* It is not so with two decisions at a time.
RevisedDraftStaysDraft == mig.status = "needs_revision" /\ gh.pull = "open" => gh.draft

=============================================================================
