----------------------- MODULE SandboxExecutorProofs -----------------------
(***************************************************************************)
(* What the sandbox verification guarantees, proved for every proposal,     *)
(* bound, number of attempts and combination of faults.                     *)
(*                                                                          *)
(* The stored answer is judged by the history `ran', so the invariant ties  *)
(* the Worker's local variables to that history place by place: before the  *)
(* loop nothing has run; in the loop everything that ran has passed, on the *)
(* patched tree; after it the status is the history's; and an answer, once  *)
(* given, is a summary of both that nothing changes any more.               *)
(***************************************************************************)
EXTENDS SandboxExecutor, FiniteSetTheorems, WellFoundedInduction, TLAPS

-----------------------------------------------------------------------------
(* The inductive invariant, one attempt at a time *)

Places == {"none", "fetch", "mkdir", "files", "edits", "checks", "finally", "answered", "dead"}

Entry == [did : CheckOutcomes, on : {"partial", "patched"}]

\* An attempt that has not been posted has no invocation.
IdleIsNotStarted(a) == client[a] = "idle" => worker[a].at = "none"

\* The Worker's checks are those of the history.
RecordsWhatRan(a) ==
  /\ Len(worker[a].checks) = Len(ran[a])
  /\ Len(ran[a]) <= Len(Checks(a))
  /\ \A i \in 1..Len(ran[a]) : worker[a].checks[i] = ran[a][i].did

RanInOrder(a) ==
  /\ \A i \in 1..Len(ran[a]) : ran[a][i].on = "patched"
  /\ \A i, j \in 1..Len(ran[a]) : i < j => ran[a][i].did = "passed"

NothingRanYet(a) ==
  worker[a].at \in {"none", "fetch", "mkdir", "files", "edits"} =>
    /\ worker[a].status = "passed"
    /\ ran[a] = <<>>

AllPassedSoFar(a) ==
  worker[a].at = "checks" =>
    /\ tree[a] = "patched"
    /\ worker[a].status = "passed"
    /\ \A i \in 1..Len(ran[a]) : ran[a][i].did = "passed"

\* A status is what the history says.
Earned(a, status) ==
  /\ status = "passed" => /\ Len(ran[a]) = Len(Checks(a))
                          /\ \A i \in 1..Len(ran[a]) : ran[a][i].did = "passed"
  /\ status = "failed" => \E i \in 1..Len(ran[a]) : ran[a][i].did = "failed"

StatusIsEarned(a) == worker[a].at = "finally" => Earned(a, worker[a].status)

\* A response is a summary of the history and of the teardown.
Honest(a, r) ==
  /\ r \in Responses
  /\ Len(r.checks) = Len(Checks(a))
  /\ \A i \in 1..Len(Checks(a)) :
       r.checks[i] = IF i \in 1..Len(ran[a]) THEN ran[a][i].did ELSE "blocked"
  /\ Earned(a, r.status)
  /\ r.destroyed => container[a] = "gone"
  /\ r.status = "passed" => r.destroyed

Refused(r) == "refused" \in DOMAIN r /\ r \in [refused : {{400}, {401}, {404}}]

AnswersAreHonest(a) ==
  /\ worker[a].at # "answered" => answer[a] = {}
  /\ \A r, s \in answer[a] : r = s
  /\ \A r \in answer[a] : Refused(r) \/ Honest(a, r)

AcceptedIsGuarded(a) ==
  client[a] = "accepted" =>
    /\ worker[a].at = "answered"
    /\ \A r \in answer[a] : /\ "refused" \notin DOMAIN r
                            /\ recommended[a] = "approve" => r.status = "passed"

AttemptInv(a) ==
  /\ IdleIsNotStarted(a) /\ RecordsWhatRan(a) /\ RanInOrder(a) /\ NothingRanYet(a)
  /\ AllPassedSoFar(a) /\ StatusIsEarned(a) /\ AnswersAreHonest(a) /\ AcceptedIsGuarded(a)

Types ==
  /\ deployment \in Deployments
  /\ proposal \in [Attempts -> Proposals]
  /\ \A a \in Attempts : posted[a] \subseteq BuildSandboxRequest(proposal[a])
  /\ posted = [a \in Attempts |-> posted[a]]
  /\ client \in [Attempts -> {"idle", "waiting", "accepted", "unavailable", "gave_up"}]
  /\ recommended \in [Attempts -> {"none", "approve", "revise", "snooze", "decline"}]
  /\ worker \in [Attempts -> [at : Places,
                              status : {"passed", "failed", "infrastructure_error"},
                              checks : Seq(CheckOutcomes)]]
  /\ container \in [Attempts -> {"none", "live", "gone"}]
  /\ tree \in [Attempts -> {"empty", "partial", "snapshot", "patched"}]
  /\ ran \in [Attempts -> Seq(Entry)]
  /\ spent \in [Attempts -> Nat]
  /\ answer = [a \in Attempts |-> answer[a]]

IInv == Types /\ \A a \in Attempts : AttemptInv(a)

-----------------------------------------------------------------------------
(* Lemmas about the operators *)

\* The requested checks are a sequence of commands.
LEMMA ChecksAreCommands ==
  ASSUME Types, NEW a \in Attempts
  PROVE  /\ Checks(a) \in Seq(Commands) /\ Len(Checks(a)) \in Nat
         /\ \A i \in 1..Len(Checks(a)) : Checks(a)[i].timeout \in Nat
<1>1. proposal[a] \in Proposals  BY DEF Types
<1>2. Checks(a) \in Seq(Commands)  BY <1>1, ExecutorAssumption DEF Checks
<1>3. Len(Checks(a)) \in Nat /\ \A i \in 1..Len(Checks(a)) : Checks(a)[i] \in Commands
  BY <1>2
<1>4. \A c \in Commands : c.timeout \in Nat  BY DEF Commands
<1> QED  BY <1>2, <1>3, <1>4

\* The status stays a status, and fails only with a check that fails.
LEMMA StatusAfterIsAStatus ==
  ASSUME NEW status \in {"passed", "failed", "infrastructure_error"},
         NEW outcome \in CheckOutcomes
  PROVE  /\ StatusAfter(status, outcome) \in {"passed", "failed", "infrastructure_error"}
         /\ StatusAfter("passed", outcome) = "passed" <=> outcome = "passed"
         /\ StatusAfter("passed", outcome) = "failed" <=> outcome = "failed"
  BY DEF StatusAfter, CheckOutcomes

\* The parts of an attempt that its invariant is about.
Same(b) ==
  /\ worker'[b] = worker[b] /\ client'[b] = client[b] /\ recommended'[b] = recommended[b]
  /\ container'[b] = container[b] /\ tree'[b] = tree[b] /\ ran'[b] = ran[b]
  /\ answer'[b] = answer[b] /\ proposal'[b] = proposal[b]

\* A step of another attempt leaves the invariant of this one.
LEMMA OthersAreLeftAlone ==
  ASSUME NEW b \in Attempts, AttemptInv(b), Same(b)
  PROVE  AttemptInv(b)'
<1>1. IdleIsNotStarted(b)'  BY DEF AttemptInv, Same, IdleIsNotStarted
<1>2. RecordsWhatRan(b)'  BY DEF AttemptInv, Same, RecordsWhatRan, Checks
<1>3. RanInOrder(b)'  BY DEF AttemptInv, Same, RanInOrder
<1>4. NothingRanYet(b)'  BY DEF AttemptInv, Same, NothingRanYet
<1>5. AllPassedSoFar(b)'  BY DEF AttemptInv, Same, AllPassedSoFar
<1>6. StatusIsEarned(b)'  BY DEF AttemptInv, Same, StatusIsEarned, Earned, Checks
<1>7. AnswersAreHonest(b)'
  BY DEF AttemptInv, Same, AnswersAreHonest, Honest, Earned, Checks
<1>8. AcceptedIsGuarded(b)'  BY DEF AttemptInv, Same, AcceptedIsGuarded
<1> QED  BY <1>1, <1>2, <1>3, <1>4, <1>5, <1>6, <1>7, <1>8 DEF AttemptInv

\* The Worker moves on, or throws, and nothing else of its state changes.
LEMMA WorkerGoes ==
  ASSUME Types, NEW a \in Attempts, NEW place \in Places, Goes(a, place)
  PROVE  /\ worker' \in [Attempts -> [at : Places,
                                     status : {"passed", "failed", "infrastructure_error"},
                                     checks : Seq(CheckOutcomes)]]
         /\ worker'[a].at = place /\ worker'[a].status = worker[a].status
         /\ worker'[a].checks = worker[a].checks
         /\ \A b \in Attempts \ {a} : worker'[b] = worker[b]
<1> DEFINE w == [worker[a] EXCEPT !.at = place]
<1>1. worker' = [worker EXCEPT ![a] = w]  BY DEF Types, Goes
<1>2. worker[a] \in [at : Places, status : {"passed", "failed", "infrastructure_error"},
                     checks : Seq(CheckOutcomes)]
  BY DEF Types
<1>3. /\ w \in [at : Places, status : {"passed", "failed", "infrastructure_error"},
               checks : Seq(CheckOutcomes)]
      /\ w.at = place /\ w.status = worker[a].status /\ w.checks = worker[a].checks
  BY <1>2
<1> HIDE DEF w
<1> QED  BY <1>1, <1>3 DEF Types

LEMMA WorkerThrows ==
  ASSUME Types, NEW a \in Attempts, Throws(a)
  PROVE  /\ worker' \in [Attempts -> [at : Places,
                                     status : {"passed", "failed", "infrastructure_error"},
                                     checks : Seq(CheckOutcomes)]]
         /\ worker'[a].at = "finally" /\ worker'[a].status = "infrastructure_error"
         /\ worker'[a].checks = worker[a].checks
         /\ \A b \in Attempts \ {a} : worker'[b] = worker[b]
<1> DEFINE w == [worker[a] EXCEPT !.at = "finally", !.status = "infrastructure_error"]
<1>1. worker' = [worker EXCEPT ![a] = w]  BY DEF Types, Throws
<1>2. worker[a] \in [at : Places, status : {"passed", "failed", "infrastructure_error"},
                     checks : Seq(CheckOutcomes)]
  BY DEF Types
<1>3. /\ w \in [at : Places, status : {"passed", "failed", "infrastructure_error"},
               checks : Seq(CheckOutcomes)]
      /\ w.at = "finally" /\ w.status = "infrastructure_error" /\ w.checks = worker[a].checks
  BY <1>2 DEF Places
<1> HIDE DEF w
<1> QED  BY <1>1, <1>3 DEF Types

\* Before anything has run the history does not constrain the attempt: whatever
\* the Worker then does, short of running a check, keeps the invariant.
LEMMA NothingRanKeepsInv ==
  ASSUME NEW a \in Attempts, AttemptInv(a), Types,
         worker[a].at \in {"none", "fetch", "mkdir", "files", "edits"},
         proposal' = proposal, ran' = ran, answer' = answer,
         worker'[a].checks = worker[a].checks,
         client'[a] # "accepted",
         client'[a] = "idle" => worker'[a].at = "none",
         \/ worker'[a].at \in {"none", "fetch", "mkdir", "files", "edits"}
            /\ worker'[a].status = worker[a].status
         \/ worker'[a].at = "checks" /\ tree'[a] = "patched"
            /\ worker'[a].status = worker[a].status
         \/ worker'[a].at = "finally" /\ worker'[a].status = "infrastructure_error"
  PROVE  AttemptInv(a)'
<1>1. ran[a] = <<>> /\ worker[a].status = "passed" /\ answer[a] = {}
  BY DEF AttemptInv, NothingRanYet, AnswersAreHonest
<1>2. Len(ran[a]) = 0  BY <1>1
<1>3. RecordsWhatRan(a)'  BY DEF AttemptInv, RecordsWhatRan, Checks
<1>4. RanInOrder(a)'  BY DEF AttemptInv, RanInOrder
<1>5. IdleIsNotStarted(a)' /\ AcceptedIsGuarded(a)'  BY DEF IdleIsNotStarted, AcceptedIsGuarded
<1>6. NothingRanYet(a)'  BY <1>1 DEF NothingRanYet
<1>7. AllPassedSoFar(a)'  BY <1>1, <1>2 DEF AllPassedSoFar
<1>8. StatusIsEarned(a)'  BY DEF StatusIsEarned, Earned
<1>9. AnswersAreHonest(a)'  BY <1>1 DEF AnswersAreHonest
<1> QED  BY <1>3, <1>4, <1>5, <1>6, <1>7, <1>8, <1>9 DEF AttemptInv

-----------------------------------------------------------------------------
(* One lemma per action *)

LEMMA PostKeepsInv ==
  ASSUME IInv, NEW a \in Attempts, Post(a)
  PROVE  IInv'
<1> USE DEF IInv
<1>1. AttemptInv(a) /\ worker[a].at = "none" /\ Types
  BY DEF AttemptInv, IdleIsNotStarted, Post
<1>2. \/ client' = [client EXCEPT ![a] = "unavailable"] /\ worker' = worker
      \/ client' = [client EXCEPT ![a] = "waiting"] /\ Goes(a, "fetch")
  BY DEF Post, Goes
<1>3. /\ worker' \in [Attempts -> [at : Places,
                                  status : {"passed", "failed", "infrastructure_error"},
                                  checks : Seq(CheckOutcomes)]]
      /\ worker'[a].status = worker[a].status /\ worker'[a].checks = worker[a].checks
      /\ worker'[a].at \in {"none", "fetch"}
      /\ \A b \in Attempts \ {a} : worker'[b] = worker[b]
  BY <1>1, <1>2, WorkerGoes DEF Types, Places
<1>4. /\ client' \in [Attempts -> {"idle", "waiting", "accepted", "unavailable", "gave_up"}]
      /\ client'[a] \in {"waiting", "unavailable"}
      /\ \A b \in Attempts \ {a} : client'[b] = client[b]
  <2>1. client \in [Attempts -> {"idle", "waiting", "accepted", "unavailable", "gave_up"}]
    BY DEF Types
  <2>2. PICK state \in {"waiting", "unavailable"} : client' = [client EXCEPT ![a] = state]
    BY <1>2
  <2> QED  BY <2>1, <2>2
<1>5. /\ posted' = [b \in Attempts |-> posted'[b]]
      /\ \A b \in Attempts : posted'[b] \subseteq BuildSandboxRequest(proposal[b])
  BY DEF Types, Post
<1>6. /\ proposal' = proposal /\ deployment' = deployment /\ recommended' = recommended
      /\ container' = container /\ tree' = tree /\ ran' = ran /\ spent' = spent
      /\ answer' = answer
  BY DEF Post
<1>7. Types'  BY <1>3, <1>4, <1>5, <1>6 DEF Types
<1>8. AttemptInv(a)'  BY <1>1, <1>3, <1>4, <1>6, NothingRanKeepsInv
<1>9. ASSUME NEW b \in Attempts \ {a} PROVE AttemptInv(b)'
  BY <1>3, <1>4, <1>6, OthersAreLeftAlone DEF Same
<1> QED  BY <1>7, <1>8, <1>9

LEMMA FetchKeepsInv ==
  ASSUME IInv, NEW a \in Attempts, Fetch(a)
  PROVE  IInv'
<1> USE DEF IInv
<1>1. AttemptInv(a) /\ worker[a].at = "fetch" /\ Types  BY DEF Fetch, At
<1>2. PICK request \in posted[a] :
        IF Refusal(request) = {} THEN Goes(a, "mkdir") /\ answer' = answer
        ELSE /\ Goes(a, "answered")
             /\ answer' = [answer EXCEPT ![a] = {[refused |-> Refusal(request)]}]
  BY DEF Fetch
<1>3. /\ proposal' = proposal /\ deployment' = deployment /\ recommended' = recommended
      /\ container' = container /\ tree' = tree /\ ran' = ran /\ spent' = spent
      /\ client' = client
  BY DEF Fetch
<1>4. /\ posted' = [b \in Attempts |-> posted'[b]]
      /\ \A b \in Attempts : posted'[b] \subseteq BuildSandboxRequest(proposal[b])
  BY DEF Types, Fetch
<1>5. /\ worker' \in [Attempts -> [at : Places,
                                  status : {"passed", "failed", "infrastructure_error"},
                                  checks : Seq(CheckOutcomes)]]
      /\ worker'[a].status = worker[a].status /\ worker'[a].checks = worker[a].checks
      /\ worker'[a].at = IF Refusal(request) = {} THEN "mkdir" ELSE "answered"
      /\ \A b \in Attempts \ {a} : worker'[b] = worker[b]
  BY <1>1, <1>2, WorkerGoes DEF Places
<1>6. /\ answer' = [b \in Attempts |-> answer'[b]]
      /\ \A b \in Attempts \ {a} : answer'[b] = answer[b]
  BY <1>2 DEF Types
<1>7. Types'  BY <1>3, <1>4, <1>5, <1>6 DEF Types
<1>8. client[a] \notin {"idle", "accepted"} /\ ran[a] = <<>>
  BY <1>1 DEF AttemptInv, IdleIsNotStarted, AcceptedIsGuarded, NothingRanYet
<1>9. AttemptInv(a)'
  <2>1. CASE Refusal(request) = {}
    BY <1>1, <1>2, <1>3, <1>5, <1>8, <2>1, NothingRanKeepsInv
  <2>2. CASE Refusal(request) # {}
    <3>1. Refusal(request) \in {{400}, {401}, {404}}
      BY <1>1, <2>2, ExecutorAssumption DEF Refusal, Types
    <3>2. answer'[a] = {[refused |-> Refusal(request)]}  BY <1>1, <1>2, <2>2 DEF Types
    <3>3. \A r \in answer'[a] : Refused(r)  BY <3>1, <3>2 DEF Refused
    <3>4. AnswersAreHonest(a)'  BY <1>5, <2>2, <3>2, <3>3 DEF AnswersAreHonest
    <3>5. IdleIsNotStarted(a)' /\ AcceptedIsGuarded(a)' /\ NothingRanYet(a)' /\ AllPassedSoFar(a)'
            /\ StatusIsEarned(a)'
      BY <1>3, <1>5, <1>8, <2>2 DEF IdleIsNotStarted, AcceptedIsGuarded, NothingRanYet,
           AllPassedSoFar, StatusIsEarned
    <3>6. RecordsWhatRan(a)' /\ RanInOrder(a)'
      BY <1>1, <1>3, <1>5 DEF RecordsWhatRan, RanInOrder, AttemptInv, Checks
    <3> QED  BY <3>4, <3>5, <3>6 DEF AttemptInv
  <2> QED  BY <2>1, <2>2
<1>10. ASSUME NEW b \in Attempts \ {a} PROVE AttemptInv(b)'
  BY <1>3, <1>5, <1>6, OthersAreLeftAlone DEF Same
<1> QED  BY <1>7, <1>9, <1>10

\* The three awaits before the loop: each of them goes on or throws.
LEMMA BeforeChecksKeepsInv ==
  ASSUME IInv, NEW a \in Attempts, MakeRoot(a) \/ WriteRepository(a) \/ WriteEdits(a)
  PROVE  IInv'
<1> USE DEF IInv
<1>1. AttemptInv(a) /\ Types  OBVIOUS
<1>2. worker[a].at \in {"mkdir", "files", "edits"}
  BY DEF MakeRoot, WriteRepository, WriteEdits, WriteFiles, At
<1>3. /\ clientSide' = clientSide /\ ran' = ran /\ spent' = spent /\ answer' = answer
      /\ proposal' = proposal /\ client' = client
  BY DEF MakeRoot, WriteRepository, WriteEdits, WriteFiles, clientSide
<1>4. /\ \/ Goes(a, "files") \/ Goes(a, "edits") \/ Throws(a)
         \/ Goes(a, "checks") /\ tree' = [tree EXCEPT ![a] = "patched"]
      /\ container' \in {container, [container EXCEPT ![a] = "live"]}
      /\ \E written \in {"snapshot", "patched", "partial"} :
           tree' \in {tree, [tree EXCEPT ![a] = written]}
  BY DEF MakeRoot, WriteRepository, WriteEdits, WriteFiles
<1>5. /\ worker' \in [Attempts -> [at : Places,
                                  status : {"passed", "failed", "infrastructure_error"},
                                  checks : Seq(CheckOutcomes)]]
      /\ worker'[a].checks = worker[a].checks
      /\ \/ worker'[a].at \in {"files", "edits"} /\ worker'[a].status = worker[a].status
         \/ /\ worker'[a].at = "checks" /\ tree' = [tree EXCEPT ![a] = "patched"]
            /\ worker'[a].status = worker[a].status
         \/ worker'[a].at = "finally" /\ worker'[a].status = "infrastructure_error"
      /\ \A b \in Attempts \ {a} : worker'[b] = worker[b]
  <2>1. CASE Goes(a, "files")  BY <1>1, <2>1, WorkerGoes DEF Places
  <2>2. CASE Goes(a, "edits")  BY <1>1, <2>2, WorkerGoes DEF Places
  <2>3. CASE Goes(a, "checks") /\ tree' = [tree EXCEPT ![a] = "patched"]
    BY <1>1, <2>3, WorkerGoes DEF Places
  <2>4. CASE Throws(a)  BY <1>1, <2>4, WorkerThrows
  <2> QED  BY <1>4, <2>1, <2>2, <2>3, <2>4
<1>6. /\ container' \in [Attempts -> {"none", "live", "gone"}]
      /\ tree' \in [Attempts -> {"empty", "partial", "snapshot", "patched"}]
      /\ \A b \in Attempts \ {a} : container'[b] = container[b] /\ tree'[b] = tree[b]
  <2>1. PICK written \in {"snapshot", "patched", "partial"} :
          tree' \in {tree, [tree EXCEPT ![a] = written]}
    BY <1>4
  <2>2. /\ tree' \in [Attempts -> {"empty", "partial", "snapshot", "patched"}]
        /\ \A b \in Attempts \ {a} : tree'[b] = tree[b]
    <3>1. tree \in [Attempts -> {"empty", "partial", "snapshot", "patched"}]  BY DEF Types
    <3>2. CASE tree' = tree  BY <3>1, <3>2
    <3>3. CASE tree' = [tree EXCEPT ![a] = written]  BY <3>1, <3>3
    <3> QED  BY <2>1, <3>2, <3>3
  <2>3. /\ container' \in [Attempts -> {"none", "live", "gone"}]
        /\ \A b \in Attempts \ {a} : container'[b] = container[b]
    <3>1. container \in [Attempts -> {"none", "live", "gone"}]  BY DEF Types
    <3>2. CASE container' = container  BY <3>1, <3>2
    <3>3. CASE container' = [container EXCEPT ![a] = "live"]  BY <3>1, <3>3
    <3> QED  BY <1>4, <3>2, <3>3
  <2> QED  BY <2>2, <2>3
<1>7. Types'  BY <1>3, <1>5, <1>6 DEF Types, clientSide
<1>8. client[a] \notin {"idle", "accepted"}
  BY <1>1, <1>2 DEF AttemptInv, IdleIsNotStarted, AcceptedIsGuarded
<1>9. tree' = [tree EXCEPT ![a] = "patched"] => tree'[a] = "patched"  BY DEF Types
<1>10. AttemptInv(a)'  BY <1>1, <1>2, <1>3, <1>5, <1>8, <1>9, NothingRanKeepsInv
<1>11. ASSUME NEW b \in Attempts \ {a} PROVE AttemptInv(b)'
  BY <1>3, <1>5, <1>6, OthersAreLeftAlone DEF Same, clientSide
<1> QED  BY <1>7, <1>10, <1>11

LEMMA RunCheckKeepsInv ==
  ASSUME IInv, NEW a \in Attempts, RunCheck(a)
  PROVE  IInv'
<1> USE DEF IInv
<1>1. AttemptInv(a) /\ Types /\ worker[a].at = "checks" /\ Len(worker[a].checks) < Len(Checks(a))
  BY DEF RunCheck, At
<1> DEFINE n == Len(ran[a])
           next == Checks(a)[Len(worker[a].checks) + 1]
<1>2. PICK outcome \in CheckOutcomes, minutes \in 1..next.timeout :
        /\ ran' = [ran EXCEPT ![a] = Append(@, [did |-> outcome, on |-> tree[a]])]
        /\ spent' = [spent EXCEPT ![a] = @ + minutes]
        /\ worker' = [worker EXCEPT
             ![a].at     = IF EndsLoop(a, outcome) THEN "finally" ELSE "checks",
             ![a].status = StatusAfter(@, outcome),
             ![a].checks = Append(@, outcome)]
  BY DEF RunCheck
<1>3. /\ clientSide' = clientSide /\ container' = container /\ tree' = tree /\ answer' = answer
      /\ proposal' = proposal /\ client' = client /\ recommended' = recommended
  BY DEF RunCheck, clientSide
<1>4. /\ n \in Nat /\ Len(worker[a].checks) = n /\ n < Len(Checks(a)) /\ Len(Checks(a)) \in Nat
      /\ tree[a] = "patched" /\ worker[a].status = "passed" /\ answer[a] = {}
      /\ \A i \in 1..n : ran[a][i].did = "passed" /\ ran[a][i].on = "patched"
      /\ \A i \in 1..n : worker[a].checks[i] = ran[a][i].did
  BY <1>1, ChecksAreCommands
     DEF Types, AttemptInv, RecordsWhatRan, RanInOrder, AllPassedSoFar, AnswersAreHonest
<1>5. minutes \in Nat
  <2>1. n + 1 \in 1..Len(Checks(a))  BY <1>4
  <2>2. next.timeout \in Nat  BY <1>1, <1>4, <2>1, ChecksAreCommands
  <2> QED  BY <2>2
<1> DEFINE e == [did |-> outcome, on |-> "patched"]
<1>6. /\ ran' \in [Attempts -> Seq(Entry)] /\ ran'[a] = Append(ran[a], e)
      /\ \A b \in Attempts \ {a} : ran'[b] = ran[b]
  <2>1. e \in Entry  BY DEF Entry
  <2>2. ran' = [ran EXCEPT ![a] = Append(ran[a], e)]  BY <1>2, <1>4 DEF Types
  <2>3. Append(ran[a], e) \in Seq(Entry)  BY <2>1 DEF Types
  <2> HIDE DEF e
  <2> QED  BY <2>2, <2>3 DEF Types
<1>7. /\ Len(ran'[a]) = n + 1 /\ ran'[a][n + 1] = e
      /\ \A i \in 1..n : ran'[a][i] = ran[a][i]
  BY <1>6, <1>4 DEF Types
<1> DEFINE status == StatusAfter("passed", outcome)
<1>8. /\ status \in {"passed", "failed", "infrastructure_error"}
      /\ status = "passed" <=> outcome = "passed"
      /\ status = "failed" <=> outcome = "failed"
  BY StatusAfterIsAStatus
<1>9. /\ worker' \in [Attempts -> [at : Places,
                                  status : {"passed", "failed", "infrastructure_error"},
                                  checks : Seq(CheckOutcomes)]]
      /\ worker'[a].at = IF EndsLoop(a, outcome) THEN "finally" ELSE "checks"
      /\ worker'[a].status = status
      /\ worker'[a].checks = Append(worker[a].checks, outcome)
      /\ \A b \in Attempts \ {a} : worker'[b] = worker[b]
  <2> HIDE DEF status
  <2>1. worker[a] \in [at : Places, status : {"passed", "failed", "infrastructure_error"},
                       checks : Seq(CheckOutcomes)]
    BY <1>1 DEF Types
  <2>2. StatusAfter(worker[a].status, outcome) = status  BY <1>4 DEF status
  <2>3. Append(worker[a].checks, outcome) \in Seq(CheckOutcomes)  BY <2>1
  <2> DEFINE w == [worker[a] EXCEPT !.at = IF EndsLoop(a, outcome) THEN "finally" ELSE "checks",
                                    !.status = status, !.checks = Append(@, outcome)]
  <2>4. worker' = [worker EXCEPT ![a] = w]  BY <1>2, <1>1, <2>2 DEF Types
  <2>5. w \in [at : Places, status : {"passed", "failed", "infrastructure_error"},
              checks : Seq(CheckOutcomes)]
    BY <2>1, <2>3, <1>8 DEF Places
  <2>6. /\ w.at = IF EndsLoop(a, outcome) THEN "finally" ELSE "checks"
        /\ w.status = status /\ w.checks = Append(worker[a].checks, outcome)
    BY <2>1
  <2> HIDE DEF w
  <2> QED  BY <1>1, <2>4, <2>5, <2>6 DEF Types
<1> HIDE DEF status, next
<1>10. spent' \in [Attempts -> Nat]  BY <1>2, <1>5 DEF Types
<1>11. Types'  BY <1>3, <1>6, <1>9, <1>10 DEF Types, clientSide
<1>12. RecordsWhatRan(a)'
  <2>1. Len(worker'[a].checks) = n + 1 /\ worker'[a].checks[n + 1] = outcome
        /\ \A i \in 1..n : worker'[a].checks[i] = worker[a].checks[i]
    <3>1. worker[a].checks \in Seq(CheckOutcomes)  BY <1>1 DEF Types
    <3> QED  BY <1>4, <1>9, <3>1
  <2>2. Checks(a)' = Checks(a)  BY <1>3 DEF Checks
  <2>3. \A i \in 1..(n + 1) : i \in 1..n \/ i = n + 1  BY <1>4
  <2>4. \A i \in 1..Len(ran'[a]) : worker'[a].checks[i] = ran'[a][i].did
    <3> SUFFICES ASSUME NEW i \in 1..(n + 1)
                 PROVE  worker'[a].checks[i] = ran'[a][i].did
      BY <1>7
    <3>1. CASE i \in 1..n  BY <3>1, <1>4, <1>7, <2>1
    <3>2. CASE i = n + 1  BY <3>2, <1>7, <2>1
    <3> QED  BY <2>3, <3>1, <3>2
  <2>5. Len(worker'[a].checks) = Len(ran'[a]) /\ Len(ran'[a]) <= Len(Checks(a))
    BY <1>4, <1>7, <2>1
  <2> QED  BY <2>2, <2>4, <2>5 DEF RecordsWhatRan
<1>13. RanInOrder(a)'
  <2>1. ASSUME NEW i \in 1..(n + 1) PROVE ran'[a][i].on = "patched"
    <3>1. CASE i \in 1..n  BY <3>1, <1>4, <1>7
    <3>2. CASE i = n + 1  BY <3>2, <1>7
    <3> QED  BY <1>4, <3>1, <3>2
  <2>2. ASSUME NEW i \in 1..(n + 1), NEW j \in 1..(n + 1), i < j
        PROVE  ran'[a][i].did = "passed"
    <3>1. i \in 1..n  BY <1>4, <2>2
    <3> QED  BY <1>4, <1>7, <3>1
  <2>3. Len(ran'[a]) = n + 1  BY <1>7
  <2> HIDE DEF n
  <2> QED  BY <2>1, <2>2, <2>3 DEF RanInOrder
<1>14. IdleIsNotStarted(a)' /\ NothingRanYet(a)' /\ AcceptedIsGuarded(a)' /\ AnswersAreHonest(a)'
  <2>1. worker'[a].at \in {"finally", "checks"}  BY <1>9
  <2>2. client[a] \notin {"idle", "accepted"}
    BY <1>1 DEF AttemptInv, IdleIsNotStarted, AcceptedIsGuarded
  <2> QED  BY <2>1, <2>2, <1>3, <1>4
             DEF IdleIsNotStarted, NothingRanYet, AcceptedIsGuarded, AnswersAreHonest
<1>15. outcome = "passed" => \A i \in 1..Len(ran'[a]) : ran'[a][i].did = "passed"
  BY <1>4, <1>7
<1>16. AllPassedSoFar(a)'
  <2>1. worker'[a].at = "checks" => outcome = "passed"  BY <1>9 DEF EndsLoop
  <2> QED  BY <2>1, <1>3, <1>4, <1>8, <1>9, <1>15 DEF AllPassedSoFar
<1>17. StatusIsEarned(a)'
  <2>1. Checks(a)' = Checks(a)  BY <1>3 DEF Checks
  <2>2. ASSUME worker'[a].at = "finally", outcome = "passed"
        PROVE  Len(ran'[a]) = Len(Checks(a))
    BY <2>2, <1>4, <1>7, <1>9 DEF EndsLoop
  <2>3. outcome = "failed" => \E i \in 1..Len(ran'[a]) : ran'[a][i].did = "failed"
    BY <1>4, <1>7
  <2> QED  BY <2>1, <2>2, <2>3, <1>8, <1>9, <1>15 DEF StatusIsEarned, Earned
<1>18. AttemptInv(a)'
  BY <1>12, <1>13, <1>14, <1>16, <1>17 DEF AttemptInv
<1>19. ASSUME NEW b \in Attempts \ {a} PROVE AttemptInv(b)'
  BY <1>3, <1>6, <1>9, OthersAreLeftAlone DEF Same
<1> QED  BY <1>11, <1>18, <1>19

\* What the Worker answers summarizes what ran and what did not.
LEMMA ResponseIsHonest ==
  ASSUME IInv, NEW a \in Attempts, worker[a].at = "finally", NEW destroyed \in BOOLEAN
  PROVE  LET r == Response(a, destroyed)
         IN  /\ r \in Responses /\ r.destroyed = destroyed
             /\ Len(r.checks) = Len(Checks(a))
             /\ \A i \in 1..Len(Checks(a)) :
                  r.checks[i] = IF i \in 1..Len(ran[a]) THEN ran[a][i].did ELSE "blocked"
             /\ Earned(a, r.status)
             /\ r.status = "passed" => r.destroyed
<1> USE DEF IInv
<1> DEFINE r == Response(a, destroyed)
           n == Len(ran[a])
           m == Len(Checks(a))
           done == worker[a].checks
           rest == Blocked(a)
<1>1. AttemptInv(a) /\ Types  OBVIOUS
<1>2. /\ n \in Nat /\ m \in Nat /\ n <= m /\ Len(done) = n
      /\ \A i \in 1..n : done[i] = ran[a][i].did
      /\ done \in Seq(CheckOutcomes)
      /\ worker[a].status \in {"passed", "failed", "infrastructure_error"}
  BY <1>1, ChecksAreCommands DEF AttemptInv, RecordsWhatRan, Types
<1>3. rest \in Seq({"blocked"}) /\ Len(rest) = m - n
      /\ \A i \in 1..(m - n) : rest[i] = "blocked"
  BY <1>2 DEF Blocked
<1>4. r = [status |-> IF destroyed THEN worker[a].status ELSE "infrastructure_error",
           checks |-> done \o rest, destroyed |-> destroyed]
  BY DEF Response
<1>5. Earned(a, worker[a].status)  BY <1>1 DEF AttemptInv, StatusIsEarned
<1> HIDE DEF r, rest, done
<1>6. /\ done \o rest \in Seq(CheckOutcomes \cup {"blocked"})
      /\ Len(done \o rest) = m
      /\ \A i \in 1..m : (done \o rest)[i] = IF i <= n THEN done[i] ELSE rest[i - n]
  <2>1. done \in Seq(CheckOutcomes \cup {"blocked"}) /\ rest \in Seq(CheckOutcomes \cup {"blocked"})
    BY <1>2, <1>3
  <2> QED  BY <1>2, <1>3, <2>1
<1>7. \A i \in 1..m : r.checks[i] = IF i \in 1..n THEN ran[a][i].did ELSE "blocked"
  <2> SUFFICES ASSUME NEW i \in 1..m
               PROVE  r.checks[i] = IF i \in 1..n THEN ran[a][i].did ELSE "blocked"
    OBVIOUS
  <2>1. r.checks = done \o rest  BY <1>4
  <2>2. CASE i <= n  BY <1>2, <1>6, <2>1, <2>2
  <2>3. CASE ~(i <= n)
    <3>1. i - n \in 1..(m - n)  BY <1>2, <2>3
    <3> QED  BY <1>2, <1>3, <1>6, <2>1, <2>3, <3>1
  <2> QED  BY <2>2, <2>3
<1>8. r \in Responses  BY <1>2, <1>4, <1>6 DEF Responses
<1>9. Len(r.checks) = m /\ r.destroyed = destroyed /\ (r.status = "passed" => destroyed)
  BY <1>4, <1>6
<1>10. Earned(a, r.status)  BY <1>4, <1>5 DEF Earned
<1> QED  BY <1>7, <1>8, <1>9, <1>10 DEF r

LEMMA FinishKeepsInv ==
  ASSUME IInv, NEW a \in Attempts, Finish(a)
  PROVE  IInv'
<1> USE DEF IInv
<1>1. AttemptInv(a) /\ Types /\ worker[a].at = "finally"  BY DEF Finish, At
<1>2. PICK destroyed \in BOOLEAN :
        /\ container' \in {[container EXCEPT ![a] = "gone"],
                           IF destroyed THEN [container EXCEPT ![a] = "gone"] ELSE container}
        /\ answer' = [answer EXCEPT ![a] = {Response(a, destroyed)}]
  BY DEF Finish
<1>3. /\ clientSide' = clientSide /\ tree' = tree /\ ran' = ran /\ spent' = spent
      /\ client' = client /\ proposal' = proposal /\ recommended' = recommended
  BY DEF Finish, clientSide
<1>4. /\ worker' \in [Attempts -> [at : Places,
                                  status : {"passed", "failed", "infrastructure_error"},
                                  checks : Seq(CheckOutcomes)]]
      /\ worker'[a].at = "answered" /\ worker'[a].checks = worker[a].checks
      /\ \A b \in Attempts \ {a} : worker'[b] = worker[b]
  BY <1>1, WorkerGoes DEF Finish, Places
<1>5. /\ container' \in [Attempts -> {"none", "live", "gone"}]
      /\ destroyed => container'[a] = "gone"
      /\ \A b \in Attempts \ {a} : container'[b] = container[b]
  <2>1. container \in [Attempts -> {"none", "live", "gone"}]  BY DEF Types
  <2>2. CASE container' = [container EXCEPT ![a] = "gone"]  BY <2>1, <2>2
  <2>3. CASE ~destroyed /\ container' = container  BY <2>1, <2>3
  <2> QED  BY <1>2, <2>2, <2>3
<1>6. /\ answer' = [b \in Attempts |-> answer'[b]]
      /\ answer'[a] = {Response(a, destroyed)}
      /\ \A b \in Attempts \ {a} : answer'[b] = answer[b]
  BY <1>2 DEF Types
<1>7. Types'  BY <1>3, <1>4, <1>5, <1>6 DEF Types, clientSide
<1>8. ASSUME NEW r \in answer'[a] PROVE Honest(a, r)'
  <2>1. r = Response(a, destroyed)  BY <1>6
  <2>2. /\ r \in Responses /\ r.destroyed = destroyed
        /\ Len(r.checks) = Len(Checks(a))
        /\ \A i \in 1..Len(Checks(a)) :
             r.checks[i] = IF i \in 1..Len(ran[a]) THEN ran[a][i].did ELSE "blocked"
        /\ Earned(a, r.status)
        /\ r.status = "passed" => r.destroyed
    BY <1>1, <2>1, ResponseIsHonest
  <2>3. Checks(a)' = Checks(a) /\ Earned(a, r.status)'
    BY <1>3, <2>2 DEF Checks, Earned
  <2>4. Responses' = Responses  BY DEF Responses
  <2> QED  BY <1>3, <1>5, <2>2, <2>3, <2>4 DEF Honest
<1>9. AnswersAreHonest(a)'
  <2>1. worker'[a].at = "answered"  BY <1>4
  <2>2. \A r, s \in answer'[a] : r = s  BY <1>6
  <2> QED  BY <1>8, <2>1, <2>2 DEF AnswersAreHonest
<1>10. IdleIsNotStarted(a)' /\ NothingRanYet(a)' /\ AllPassedSoFar(a)' /\ StatusIsEarned(a)'
         /\ AcceptedIsGuarded(a)'
  <2>1. client[a] \notin {"idle", "accepted"}
    BY <1>1 DEF AttemptInv, IdleIsNotStarted, AcceptedIsGuarded
  <2> QED  BY <1>3, <1>4, <2>1 DEF IdleIsNotStarted, NothingRanYet, AllPassedSoFar,
             StatusIsEarned, AcceptedIsGuarded
<1>11. RecordsWhatRan(a)' /\ RanInOrder(a)'
  BY <1>1, <1>3, <1>4 DEF AttemptInv, RecordsWhatRan, RanInOrder, Checks
<1>12. AttemptInv(a)'  BY <1>9, <1>10, <1>11 DEF AttemptInv
<1>13. ASSUME NEW b \in Attempts \ {a} PROVE AttemptInv(b)'
  BY <1>3, <1>4, <1>5, <1>6, OthersAreLeftAlone DEF Same
<1> QED  BY <1>7, <1>12, <1>13

LEMMA WorkerDiesKeepsInv ==
  ASSUME IInv, NEW a \in Attempts, WorkerDies(a)
  PROVE  IInv'
<1> USE DEF IInv
<1>1. AttemptInv(a) /\ Types /\ worker[a].at \notin {"none", "answered"}  BY DEF WorkerDies
<1>2. /\ clientSide' = clientSide /\ tree' = tree /\ ran' = ran /\ spent' = spent
      /\ client' = client /\ proposal' = proposal /\ recommended' = recommended
      /\ container' = container /\ answer' = answer
  BY DEF WorkerDies, clientSide
<1>3. /\ worker' \in [Attempts -> [at : Places,
                                  status : {"passed", "failed", "infrastructure_error"},
                                  checks : Seq(CheckOutcomes)]]
      /\ worker'[a].at = "dead" /\ worker'[a].checks = worker[a].checks
      /\ \A b \in Attempts \ {a} : worker'[b] = worker[b]
  BY <1>1, WorkerGoes DEF WorkerDies, Places
<1>4. Types'  BY <1>2, <1>3 DEF Types, clientSide
<1>5. client[a] \notin {"idle", "accepted"} /\ answer[a] = {}
  BY <1>1 DEF AttemptInv, IdleIsNotStarted, AcceptedIsGuarded, AnswersAreHonest
<1>6. IdleIsNotStarted(a)' /\ NothingRanYet(a)' /\ AllPassedSoFar(a)' /\ StatusIsEarned(a)'
        /\ AcceptedIsGuarded(a)' /\ AnswersAreHonest(a)'
  BY <1>2, <1>3, <1>5 DEF IdleIsNotStarted, NothingRanYet, AllPassedSoFar, StatusIsEarned,
       AcceptedIsGuarded, AnswersAreHonest
<1>7. RecordsWhatRan(a)' /\ RanInOrder(a)'
  BY <1>1, <1>2, <1>3 DEF AttemptInv, RecordsWhatRan, RanInOrder, Checks
<1>8. AttemptInv(a)'  BY <1>6, <1>7 DEF AttemptInv
<1>9. ASSUME NEW b \in Attempts \ {a} PROVE AttemptInv(b)'
  BY <1>2, <1>3, OthersAreLeftAlone DEF Same
<1> QED  BY <1>4, <1>8, <1>9

\* A container that goes to sleep is one the answer did not count on.
LEMMA ContainerSleepsKeepsInv ==
  ASSUME IInv, NEW a \in Attempts, ContainerSleeps(a)
  PROVE  IInv'
<1> USE DEF IInv
<1>1. AttemptInv(a) /\ Types  OBVIOUS
<1>2. /\ clientSide' = clientSide /\ tree' = tree /\ ran' = ran /\ spent' = spent
      /\ client' = client /\ proposal' = proposal /\ recommended' = recommended
      /\ worker' = worker /\ answer' = answer
  BY DEF ContainerSleeps, clientSide
<1>3. /\ container' \in [Attempts -> {"none", "live", "gone"}]
      /\ container'[a] = "gone"
      /\ \A b \in Attempts \ {a} : container'[b] = container[b]
  BY DEF ContainerSleeps, Types
<1>4. Types'  BY <1>2, <1>3 DEF Types, clientSide
<1>5. IdleIsNotStarted(a)' /\ NothingRanYet(a)' /\ AllPassedSoFar(a)' /\ AcceptedIsGuarded(a)'
  BY <1>1, <1>2 DEF AttemptInv, IdleIsNotStarted, NothingRanYet, AllPassedSoFar, AcceptedIsGuarded
<1>6. RecordsWhatRan(a)' /\ RanInOrder(a)' /\ StatusIsEarned(a)'
  BY <1>1, <1>2 DEF AttemptInv, RecordsWhatRan, RanInOrder, StatusIsEarned, Earned, Checks
<1>7. ASSUME NEW r, Honest(a, r) PROVE Honest(a, r)'
  BY <1>2, <1>3, <1>7 DEF Honest, Earned, Checks
<1>8. AnswersAreHonest(a)'  BY <1>1, <1>2, <1>7 DEF AttemptInv, AnswersAreHonest
<1>9. AttemptInv(a)'  BY <1>5, <1>6, <1>8 DEF AttemptInv
<1>10. ASSUME NEW b \in Attempts \ {a} PROVE AttemptInv(b)'
  BY <1>2, <1>3, OthersAreLeftAlone DEF Same
<1> QED  BY <1>4, <1>9, <1>10

\* The guard lets a recommendation to approve through only with a passed,
\* torn-down verification.
LEMMA GuardIsSound ==
  ASSUME NEW action \in {"approve", "decline"}, NEW r
  PROVE  /\ GuardRecommendation(action, r) \in {"approve", "revise", "snooze", "decline"}
         /\ GuardRecommendation(action, r) = "approve" => r.status = "passed"
  BY DEF GuardRecommendation

\* What the generation worker does once it waits changes its own state only.
LEMMA ClientKeepsInv ==
  ASSUME IInv, NEW a \in Attempts, Receive(a) \/ GiveUp(a) \/ LoseConnection(a)
  PROVE  IInv'
<1> USE DEF IInv
<1>1. AttemptInv(a) /\ Types  OBVIOUS
<1>2. /\ workerSide' = workerSide /\ deployment' = deployment /\ proposal' = proposal
      /\ posted' = posted /\ worker' = worker /\ container' = container /\ tree' = tree
      /\ ran' = ran /\ spent' = spent /\ answer' = answer
  BY DEF Receive, GiveUp, LoseConnection, workerSide
<1>3. \/ /\ client' = [client EXCEPT ![a] = "accepted"]
         /\ \E r \in answer[a], action \in {"approve", "decline"} :
              /\ "refused" \notin DOMAIN r
              /\ recommended' = [recommended EXCEPT ![a] = GuardRecommendation(action, r)]
      \/ /\ recommended' = recommended
         /\ \E state \in {"unavailable", "gave_up"} : client' = [client EXCEPT ![a] = state]
  <2>1. CASE Receive(a)
    <3>1. PICK r \in answer[a] :
            IF "refused" \in DOMAIN r \/ ~ Consistent(a, r)
            THEN Takes(a, "unavailable") /\ UNCHANGED recommended
            ELSE \/ /\ Takes(a, "accepted")
                    /\ \E action \in {"approve", "decline"} :
                         recommended' = [recommended EXCEPT
                                           ![a] = GuardRecommendation(action, r)]
                 \/ /\ "connection" \in Faults
                    /\ Takes(a, "unavailable") /\ UNCHANGED recommended
      BY <2>1 DEF Receive
    <3> QED  BY <3>1 DEF Takes
  <2>2. CASE GiveUp(a) \/ LoseConnection(a)  BY <2>2 DEF GiveUp, LoseConnection, Takes
  <2> QED  BY <2>1, <2>2
<1>4. /\ client' \in [Attempts -> {"idle", "waiting", "accepted", "unavailable", "gave_up"}]
      /\ client'[a] # "idle"
      /\ recommended' \in [Attempts -> {"none", "approve", "revise", "snooze", "decline"}]
      /\ \A b \in Attempts \ {a} : client'[b] = client[b] /\ recommended'[b] = recommended[b]
  <2>1. /\ client \in [Attempts -> {"idle", "waiting", "accepted", "unavailable", "gave_up"}]
        /\ recommended \in [Attempts -> {"none", "approve", "revise", "snooze", "decline"}]
    BY DEF Types
  <2>2. CASE /\ client' = [client EXCEPT ![a] = "accepted"]
             /\ \E r \in answer[a], action \in {"approve", "decline"} :
                  /\ "refused" \notin DOMAIN r
                  /\ recommended' = [recommended EXCEPT ![a] = GuardRecommendation(action, r)]
    <3>1. PICK r \in answer[a], action \in {"approve", "decline"} :
            recommended' = [recommended EXCEPT ![a] = GuardRecommendation(action, r)]
      BY <2>2
    <3>2. GuardRecommendation(action, r) \in {"approve", "revise", "snooze", "decline"}
      BY GuardIsSound
    <3> QED  BY <2>1, <2>2, <3>1, <3>2
  <2>3. CASE /\ recommended' = recommended
             /\ \E state \in {"unavailable", "gave_up"} : client' = [client EXCEPT ![a] = state]
    BY <2>1, <2>3
  <2> QED  BY <1>3, <2>2, <2>3
<1>5. Types'  BY <1>2, <1>4 DEF Types
<1>6. IdleIsNotStarted(a)' /\ NothingRanYet(a)' /\ AllPassedSoFar(a)'
  BY <1>1, <1>2, <1>4 DEF AttemptInv, IdleIsNotStarted, NothingRanYet, AllPassedSoFar
<1>7. RecordsWhatRan(a)' /\ RanInOrder(a)' /\ StatusIsEarned(a)' /\ AnswersAreHonest(a)'
  BY <1>1, <1>2 DEF AttemptInv, RecordsWhatRan, RanInOrder, StatusIsEarned, AnswersAreHonest,
       Honest, Earned, Checks
<1>8. AcceptedIsGuarded(a)'
  <2> SUFFICES ASSUME client'[a] = "accepted" PROVE AcceptedIsGuarded(a)'
    BY DEF AcceptedIsGuarded
  <2>1. client'[a] \notin {"unavailable", "gave_up"}  OBVIOUS
  <2>2. PICK r \in answer[a], action \in {"approve", "decline"} :
          /\ "refused" \notin DOMAIN r
          /\ recommended' = [recommended EXCEPT ![a] = GuardRecommendation(action, r)]
    BY <1>3, <2>1 DEF Types
  <2>3. worker[a].at = "answered" /\ \A s \in answer[a] : s = r
    BY <1>1, <2>2 DEF AttemptInv, AnswersAreHonest
  <2>4. recommended'[a] = "approve" => r.status = "passed"
    BY <2>2, GuardIsSound DEF Types
  <2> QED  BY <1>2, <2>2, <2>3, <2>4 DEF AcceptedIsGuarded
<1>9. AttemptInv(a)'  BY <1>6, <1>7, <1>8 DEF AttemptInv
<1>10. ASSUME NEW b \in Attempts \ {a} PROVE AttemptInv(b)'
  BY <1>2, <1>4, OthersAreLeftAlone DEF Same
<1> QED  BY <1>5, <1>9, <1>10

-----------------------------------------------------------------------------
(* The invariant, and what follows from it *)

LEMMA InitEstablishesInv == Init => IInv
<1> SUFFICES ASSUME Init PROVE IInv  OBVIOUS
<1>1. Types  BY DEF Init, Types, NotStarted, Places
<1>2. ASSUME NEW a \in Attempts PROVE AttemptInv(a)
  <2>1. /\ worker[a] = NotStarted /\ ran[a] = <<>> /\ answer[a] = {} /\ client[a] = "idle"
    BY DEF Init
  <2>2. Len(Checks(a)) \in Nat  BY <1>1, ChecksAreCommands
  <2>3. worker[a].at = "none" /\ worker[a].status = "passed" /\ worker[a].checks = <<>>
    BY <2>1 DEF NotStarted
  <2>4. Len(ran[a]) = 0 /\ Len(worker[a].checks) = 0  BY <2>1, <2>3
  <2>5. RecordsWhatRan(a) /\ RanInOrder(a)
    BY <2>2, <2>4 DEF RecordsWhatRan, RanInOrder
  <2>6. IdleIsNotStarted(a) /\ NothingRanYet(a) /\ AllPassedSoFar(a) /\ StatusIsEarned(a)
          /\ AnswersAreHonest(a) /\ AcceptedIsGuarded(a)
    BY <2>1, <2>3 DEF IdleIsNotStarted, NothingRanYet, AllPassedSoFar, StatusIsEarned,
         AnswersAreHonest, AcceptedIsGuarded
  <2> QED  BY <2>5, <2>6 DEF AttemptInv
<1> QED  BY <1>1, <1>2 DEF IInv

LEMMA NextKeepsInv == IInv /\ [Next]_vars => IInv'
<1> SUFFICES ASSUME IInv, [Next]_vars PROVE IInv'  OBVIOUS
<1>1. ASSUME NEW a \in Attempts, Post(a) PROVE IInv'  BY <1>1, PostKeepsInv
<1>2. ASSUME NEW a \in Attempts, WorkerStep(a) PROVE IInv'
  BY <1>2, FetchKeepsInv, BeforeChecksKeepsInv, RunCheckKeepsInv, FinishKeepsInv DEF WorkerStep
<1>3. ASSUME NEW a \in Attempts, StopsWaiting(a) \/ LoseConnection(a) PROVE IInv'
  BY <1>3, ClientKeepsInv DEF StopsWaiting
<1>4. ASSUME NEW a \in Attempts, WorkerDies(a) PROVE IInv'  BY <1>4, WorkerDiesKeepsInv
<1>5. ASSUME NEW a \in Attempts, ContainerSleeps(a) PROVE IInv'
  BY <1>5, ContainerSleepsKeepsInv
<1>6. CASE UNCHANGED vars
  <2>1. \A a \in Attempts : Same(a)  BY <1>6 DEF vars, Same
  <2>2. \A a \in Attempts : AttemptInv(a)'  BY <2>1, OthersAreLeftAlone DEF IInv
  <2>3. Types'  BY <1>6 DEF IInv, Types, vars
  <2> QED  BY <2>2, <2>3 DEF IInv
<1> QED  BY <1>1, <1>2, <1>3, <1>4, <1>5, <1>6 DEF Next

\* The history, the Worker and the answer stay in step (execute in
\* sandbox-worker/src/index.ts), in every interleaving of the attempts and faults.
THEOREM InvariantHolds == Spec => []IInv
  BY InitEstablishesInv, NextKeepsInv, PTL DEF Spec

\* Every variable keeps its type, for any number of attempts, any proposals,
\* bounds and faults.
THEOREM SandboxTypesHold == Spec => []TypeOK
<1>1. IInv => TypeOK
  <2> SUFFICES ASSUME IInv PROVE TypeOK  OBVIOUS
  <2>1. ASSUME NEW a \in Attempts, NEW r \in answer[a]
        PROVE  r \in Responses \/ r \in [refused : {{400}, {401}, {404}}]
    BY <2>1 DEF IInv, AttemptInv, AnswersAreHonest, Refused, Honest
  <2> QED  BY <2>1 DEF IInv, Types, TypeOK, Places, Entry
<1> QED  BY <1>1, InvariantHolds, PTL

\* An accepted answer is the Worker's own, and there is one.
LEMMA AcceptedAnswersAreHonest ==
  ASSUME IInv, NEW a \in Attempts, client[a] = "accepted", NEW r \in answer[a]
  PROVE  /\ Honest(a, r) /\ RanInOrder(a)
         /\ recommended[a] = "approve" => r.status = "passed"
         /\ Len(ran[a]) \in Nat /\ DOMAIN ran[a] = 1..Len(ran[a])
         /\ \A i \in DOMAIN ran[a] : ran[a][i] \in Entry
         /\ Len(ran[a]) <= Len(Checks(a)) /\ Len(Checks(a)) \in Nat
<1>1. AttemptInv(a) /\ Types  BY DEF IInv
<1>2. "refused" \notin DOMAIN r /\ (recommended[a] = "approve" => r.status = "passed")
  BY <1>1 DEF AttemptInv, AcceptedIsGuarded
<1>3. Honest(a, r)  BY <1>1, <1>2 DEF AttemptInv, AnswersAreHonest, Refused
<1>4. /\ Len(ran[a]) \in Nat /\ DOMAIN ran[a] = 1..Len(ran[a])
      /\ \A i \in DOMAIN ran[a] : ran[a][i] \in Entry
  BY <1>1 DEF Types
<1>5. Len(ran[a]) <= Len(Checks(a)) /\ Len(Checks(a)) \in Nat
  BY <1>1, ChecksAreCommands DEF AttemptInv, RecordsWhatRan
<1> QED  BY <1>1, <1>2, <1>3, <1>4, <1>5 DEF AttemptInv

\* A passed verification and an approval are earned: every requested check ran
\* on the patched tree and passed, and the container is gone, whatever fails.
THEOREM VerificationIsEarned == Spec => []CreditIsEarned
<1>1. IInv => CreditIsEarned
  <2> SUFFICES ASSUME IInv, NEW a \in Attempts, client[a] = "accepted", NEW r \in answer[a],
                      r.status = "passed" \/ recommended[a] = "approve"
               PROVE  AllPassed(a) /\ container[a] # "live"
    BY DEF CreditIsEarned
  <2>1. Honest(a, r) /\ RanInOrder(a) /\ r.status = "passed"
    BY AcceptedAnswersAreHonest
  <2>2. container[a] = "gone"  BY <2>1 DEF Honest
  <2>3. Len(ran[a]) = Len(Checks(a)) /\ \A i \in 1..Len(ran[a]) : ran[a][i].did = "passed"
    BY <2>1 DEF Honest, Earned
  <2>4. ASSUME NEW i \in DOMAIN ran[a]
        PROVE  ran[a][i] = [did |-> "passed", on |-> "patched"]
    <3>1. i \in 1..Len(ran[a]) /\ ran[a][i] \in Entry  BY AcceptedAnswersAreHonest
    <3>2. ran[a][i].did = "passed" /\ ran[a][i].on = "patched"  BY <2>1, <2>3, <3>1 DEF RanInOrder
    <3> QED  BY <3>1, <3>2 DEF Entry
  <2> QED  BY <2>2, <2>3, <2>4 DEF AllPassed
<1> QED  BY <1>1, InvariantHolds, PTL

\* The stored checks are the requested ones in order, what ran before what was
\* blocked, and nothing ran after a check that did not pass.
THEOREM StoredEvidenceIsOrdered == Spec => []EvidenceIsOrdered
<1>1. IInv => EvidenceIsOrdered
  <2> SUFFICES ASSUME IInv, NEW a \in Attempts, client[a] = "accepted", NEW r \in answer[a]
               PROVE  /\ Len(r.checks) = Len(Checks(a))
                      /\ \A i \in DOMAIN r.checks :
                           r.checks[i] = IF i \in DOMAIN ran[a] THEN ran[a][i].did ELSE "blocked"
                      /\ \A i, j \in DOMAIN ran[a] : i < j => ran[a][i].did = "passed"
    BY DEF EvidenceIsOrdered
  <2>1. Honest(a, r) /\ RanInOrder(a) /\ DOMAIN ran[a] = 1..Len(ran[a])
    BY AcceptedAnswersAreHonest
  <2>2. DOMAIN r.checks = 1..Len(Checks(a))
    <3>1. r.checks \in Seq(CheckOutcomes \cup {"blocked"}) /\ Len(r.checks) = Len(Checks(a))
      BY <2>1 DEF Honest, Responses
    <3> QED  BY <3>1
  <2> QED  BY <2>1, <2>2 DEF Honest, RanInOrder
<1> QED  BY <1>1, InvariantHolds, PTL

\* A failed verification blames the code only for what it did: a requested
\* command ran on the patched tree and exited with an error.
THEOREM FailuresAreTheCodes == Spec => []FailureIsTheCodes
<1>1. IInv => FailureIsTheCodes
  <2> SUFFICES ASSUME IInv, NEW a \in Attempts, client[a] = "accepted", NEW r \in answer[a],
                      r.status = "failed"
               PROVE  \E i \in DOMAIN ran[a] : ran[a][i] = [did |-> "failed", on |-> "patched"]
    BY DEF FailureIsTheCodes
  <2>1. Honest(a, r) /\ RanInOrder(a) /\ DOMAIN ran[a] = 1..Len(ran[a])
    BY AcceptedAnswersAreHonest
  <2>2. PICK i \in 1..Len(ran[a]) : ran[a][i].did = "failed"  BY <2>1 DEF Honest, Earned
  <2>3. ran[a][i] \in Entry  BY <2>1, AcceptedAnswersAreHonest
  <2>4. ran[a][i].on = "patched"  BY <2>1 DEF RanInOrder
  <2>5. ran[a][i] = [did |-> "failed", on |-> "patched"]  BY <2>2, <2>3, <2>4 DEF Entry
  <2> QED  BY <2>1, <2>5
<1> QED  BY <1>1, InvariantHolds, PTL

-----------------------------------------------------------------------------
(* The two policies *)

\* Induction on the natural numbers, over the set of those a formula holds for.
LEMMA EveryNat ==
  ASSUME NEW T, 0 \in T, \A n \in T \cap Nat : n + 1 \in T PROVE Nat \subseteq T
<1> DEFINE Less == OpToRel(<, Nat)
           Bad == Nat \ T
<1>1. SUFFICES ASSUME Bad # {} PROVE FALSE  OBVIOUS
<1>2. IsWellFoundedOn(Less, Nat)  BY NatLessThanWellFounded
<1>3. \A x, y \in Bad : <<y, x>> \in Less <=> y < x  BY DEF OpToRel
<1>4. Bad \subseteq Nat  OBVIOUS
<1> HIDE DEF Less, Bad
<1>5. PICK x \in Bad : \A y \in Bad : ~ (<<y, x>> \in Less)  BY <1>1, <1>2, <1>4, WFMin
<1>6. x \in Nat /\ x \notin T  BY DEF Bad
<1>7. x # 0 /\ x - 1 \in Nat  BY <1>6
<1>8. x - 1 \notin T
  <2>1. x - 1 \in T => (x - 1) + 1 \in T  BY <1>7
  <2>2. (x - 1) + 1 = x  BY <1>6
  <2> QED  BY <1>6, <2>1, <2>2
<1>9. x - 1 \in Bad /\ x - 1 < x  BY <1>6, <1>7, <1>8 DEF Bad
<1> QED  BY <1>3, <1>5, <1>9

\* Every number up to the size of a set of positions is the rank of one of them.
LEMMA RanksAreTaken ==
  ASSUME NEW m \in Nat, NEW K \in SUBSET (1..m)
  PROVE  /\ Cardinality(K) \in Nat
         /\ \A n \in 1..Cardinality(K) : \E i \in K : Cardinality(K \cap 1..i) = n
<1> DEFINE Below(j) == K \cap 1..j
           Ranked(j) == \A n \in 1..Cardinality(Below(j)) :
                          \E i \in K : Cardinality(Below(i)) = n
           T == {j \in Nat : Ranked(j)}
<1>1. \A j \in Nat : IsFiniteSet(Below(j)) /\ Cardinality(Below(j)) \in Nat
  <2> TAKE j \in Nat
  <2>1. IsFiniteSet(1..j)  BY FS_Interval
  <2>2. Below(j) \in SUBSET (1..j)  OBVIOUS
  <2>3. IsFiniteSet(Below(j))  BY <2>1, <2>2, FS_Subset
  <2> QED  BY <2>3, FS_CardinalityType
<1>2. 0 \in T
  <2>1. Below(0) = {}  OBVIOUS
  <2>2. Cardinality(Below(0)) = 0  BY <2>1, FS_EmptySet
  <2> QED  BY <2>2
<1>3. ASSUME NEW j \in T \cap Nat PROVE j + 1 \in T
  <2>1. CASE j + 1 \notin K
    <3>1. Below(j + 1) = Below(j)  BY <2>1
    <3> QED  BY <3>1
  <2>2. CASE j + 1 \in K
    <3>1. Below(j + 1) = Below(j) \cup {j + 1}  BY <2>2
    <3>2. j + 1 \notin Below(j)  OBVIOUS
    <3>3. Cardinality(Below(j + 1)) = Cardinality(Below(j)) + 1
      <4>1. IsFiniteSet(Below(j))  BY <1>1
      <4> HIDE DEF Below
      <4> QED  BY <3>1, <3>2, <4>1, FS_AddElement
    <3>4. ASSUME NEW n \in 1..Cardinality(Below(j + 1))
          PROVE  \E i \in K : Cardinality(Below(i)) = n
      <4>1. Cardinality(Below(j)) \in Nat  BY <1>1
      <4>2. CASE n = Cardinality(Below(j + 1))  BY <2>2, <4>2
      <4>3. CASE n # Cardinality(Below(j + 1))
        <5>1. n \in 1..Cardinality(Below(j))
          <6> HIDE DEF Below
          <6> QED  BY <3>3, <4>1, <4>3
        <5> QED  BY <5>1
      <4> QED  BY <4>2, <4>3
    <3>5. j + 1 \in Nat  OBVIOUS
    <3> HIDE DEF Below
    <3> QED  BY <3>4, <3>5
  <2> QED  BY <2>1, <2>2
<1>4. m \in T
  <2> HIDE DEF T
  <2>1. Nat \subseteq T  BY <1>2, <1>3, EveryNat
  <2> QED  BY <2>1
<1>5. Below(m) = K  OBVIOUS
<1> QED  BY <1>1, <1>4, <1>5

\* What Keep returns: items of the sequence that are kept, none of them twice
\* unless the sequence has it twice; and the sequence when all are kept.
LEMMA KeepKeeps ==
  ASSUME NEW X, NEW s \in Seq(X), NEW kept
  PROVE  /\ Keep(s, kept) \in Seq(X \cap kept)
         /\ ItemsOf(Keep(s, kept)) \subseteq ItemsOf(s) \cap kept
         /\ AllDistinct(s) => AllDistinct(Keep(s, kept))
         /\ ItemsOf(s) \subseteq kept => Keep(s, kept) = s
<1> DEFINE K == {i \in DOMAIN s : s[i] \in kept}
           Place(n) == CHOOSE i \in K : Cardinality(K \cap 1..i) = n
           size == Cardinality(K)
<1>1. Keep(s, kept) = [n \in 1..size |-> s[Place(n)]]  BY DEF Keep
<1>2. Len(s) \in Nat /\ DOMAIN s = 1..Len(s)  OBVIOUS
<1>3. size \in Nat /\ \A n \in 1..size : \E i \in K : Cardinality(K \cap 1..i) = n
  <2>1. K \in SUBSET (1..Len(s))  BY <1>2
  <2> HIDE DEF K
  <2> QED  BY <1>2, <2>1, RanksAreTaken
<1>4. \A n \in 1..size : Place(n) \in K /\ Cardinality(K \cap 1..Place(n)) = n
  <2> HIDE DEF K
  <2> QED  BY <1>3
<1>5. \A i \in K : i \in DOMAIN s /\ s[i] \in X \cap kept  BY <1>2
<1>6. \A n \in 1..size : Place(n) \in DOMAIN s /\ s[Place(n)] \in X \cap kept
  <2> HIDE DEF K, Place, size
  <2> QED  BY <1>4, <1>5
<1>7. \A n, k \in 1..size : Place(n) = Place(k) => n = k
  <2> HIDE DEF K, Place, size
  <2> QED  BY <1>4
<1>8. ItemsOf(s) \subseteq kept => size = Len(s) /\ \A n \in 1..size : Place(n) = n
  <2> SUFFICES ASSUME ItemsOf(s) \subseteq kept
               PROVE  size = Len(s) /\ \A n \in 1..size : Place(n) = n
    OBVIOUS
  <2>1. K = 1..Len(s)  BY <1>2 DEF ItemsOf
  <2>2. \A j \in Nat : Cardinality(1..j) = j
    <3> TAKE j \in Nat
    <3> QED  BY FS_Interval
  <2>3. size = Len(s)  BY <1>2, <2>1, <2>2
  <2>4. ASSUME NEW n \in 1..size PROVE Place(n) = n
    <3>1. Place(n) \in 1..Len(s) /\ Cardinality(K \cap 1..Place(n)) = n  BY <1>4, <2>1
    <3> HIDE DEF Place
    <3>2. K \cap 1..Place(n) = 1..Place(n)  BY <2>1, <3>1
    <3>3. Cardinality(1..Place(n)) = Place(n)  BY <2>2, <3>1
    <3> QED  BY <3>1, <3>2, <3>3
  <2> QED  BY <2>3, <2>4
<1> HIDE DEF K, Place, size
<1>9. Keep(s, kept) \in Seq(X \cap kept)  BY <1>1, <1>3, <1>6
<1>10. ItemsOf(Keep(s, kept)) \subseteq ItemsOf(s) \cap kept
  BY <1>1, <1>6 DEF ItemsOf
<1>11. AllDistinct(s) => AllDistinct(Keep(s, kept))
  BY <1>1, <1>6, <1>7 DEF AllDistinct
<1>12. ItemsOf(s) \subseteq kept => Keep(s, kept) = s
  BY <1>1, <1>2, <1>8
<1> QED  BY <1>9, <1>10, <1>11, <1>12

\* A path as Posix leaves it.
LEMMA PosixNames ==
  ASSUME NEW path \in Paths
  PROVE  /\ Posix(path.names) \in Seq(STRING)
         /\ ItemsOf(Posix(path.names)) \subseteq ItemsOf(path.names) \ {"", "."}
         /\ ItemsOf(path.names) \cap {"", "."} = {} => Posix(path.names) = path.names
<1> DEFINE names == path.names
           kept == ItemsOf(names) \ {"", "."}
<1>1. names \in Seq(STRING)  BY DEF Paths
<1>2. ItemsOf(names) \cap {"", "."} = {} => ItemsOf(names) \subseteq kept  OBVIOUS
<1>3. Posix(names) = Keep(names, kept)  BY DEF Posix
<1>4. kept \subseteq ItemsOf(names) \ {"", "."}  OBVIOUS
<1> HIDE DEF kept, names
<1>5. /\ Keep(names, kept) \in Seq(STRING \cap kept)
      /\ ItemsOf(Keep(names, kept)) \subseteq ItemsOf(names) \cap kept
      /\ ItemsOf(names) \subseteq kept => Keep(names, kept) = names
  BY <1>1, KeepKeeps
<1>6. Posix(names) \in Seq(STRING)  BY <1>3, <1>5
<1>7. ItemsOf(Posix(names)) \subseteq ItemsOf(names) \ {"", "."}  BY <1>3, <1>4, <1>5
<1>8. ItemsOf(names) \cap {"", "."} = {} => Posix(names) = names  BY <1>2, <1>3, <1>5
<1> QED  BY <1>6, <1>7, <1>8 DEF names

\* What the worker's policy lets through, the Worker's lets through as sent,
\* unless the name is no more than a key suffix.
LEMMA SentPathsPass ==
  ASSUME NEW path \in Paths, NormalizeRepositoryPath(path) # {}, ~ HiddenKey(path)
  PROVE  /\ NormalizePath(Sent(path)) # {}
         /\ Sent(path) \in Paths
         /\ ~ path.odd
<1> DEFINE names == Posix(path.names)
<1>1. /\ ~ path.odd /\ ".." \notin ItemsOf(path.names) /\ names # <<>>
      /\ ~ Denied(names, SuffixNames)
  BY DEF NormalizeRepositoryPath
<1>2. ItemsOf(names) \subseteq ItemsOf(path.names) \ {"", "."}  BY PosixNames
<1>3. Sent(path) = [odd |-> FALSE, names |-> names]  BY DEF Sent
<1>4. names \in Seq(STRING)  BY PosixNames
<1>5. names[Len(names)] \notin KeyNames \ SuffixNames  BY DEF HiddenKey
<1> HIDE DEF names
<1>6. ItemsOf(names) \cap {"", ".", ".."} = {}  BY <1>1, <1>2
<1>7. ~ Denied(names, KeyNames)
  <2> DEFINE low == [i \in DOMAIN names |-> Lower(names[i])]
  <2>1. /\ \A p \in DeniedPrefixes : ~ (Len(p) <= Len(low) /\ SubSeq(low, 1, Len(p)) = p)
        /\ low[Len(low)] \notin DeniedNames \cup SuffixNames
    BY <1>1 DEF Denied
  <2>2. Len(low) = Len(names) /\ Len(names) \in DOMAIN names
    <3>1. names # <<>>  BY <1>1
    <3> QED  BY <1>4, <3>1
  <2>3. low[Len(low)] = Lower(names[Len(names)])  BY <2>2
  <2>4. \A n : Lower(n) \in KeyNames => Lower(n) = n
    BY DEF Lower, KeyNames
  <2>5. low[Len(low)] \notin KeyNames
    <3> HIDE DEF low
    <3> QED  BY <1>5, <2>1, <2>3, <2>4
  <2> HIDE DEF low
  <2>6. low[Len(low)] \notin DeniedNames \cup KeyNames  BY <2>1, <2>5
  <2> QED  BY <2>1, <2>6 DEF Denied, low
<1>8. NormalizePath(Sent(path)) = {names}
  <2>1. ~ Sent(path).odd /\ Sent(path).names = names  BY <1>3
  <2>2. names # <<>>  BY <1>1
  <2> QED  BY <1>6, <1>7, <2>1, <2>2, Zenon DEF NormalizePath
<1>9. Sent(path) \in Paths  BY <1>3, <1>4 DEF Paths
<1> QED  BY <1>1, <1>8, <1>9

\* The files of a bundle: distinct files of the tree that the policy lets in.
LEMMA BundleOfListing ==
  ASSUME NEW files, IsListing(files)
  PROVE  /\ Bundle(files) \in Seq(Paths) /\ AllDistinct(Bundle(files))
         /\ \A path \in ItemsOf(Bundle(files)) :
              /\ path \in Paths /\ NormalizeRepositoryPath(path) # {}
              /\ Posix(path.names) = path.names
<1> DEFINE kept == {path \in ItemsOf(files) : NormalizeRepositoryPath(path) # {}}
<1>1. files \in Seq(Paths) /\ AllDistinct(files)  BY DEF IsListing
<1>2. Bundle(files) = Keep(files, kept)  BY DEF Bundle
<1>3. \A path \in ItemsOf(files) : /\ path \in Paths
                                  /\ ItemsOf(path.names) \cap {"", "."} = {}
  <2>1. \A path \in ItemsOf(files) : path \in Paths  BY <1>1 DEF ItemsOf
  <2>2. \A path \in ItemsOf(files) : ItemsOf(path.names) \cap {"", "."} = {}
    BY Zenon DEF IsListing
  <2> QED  BY <2>1, <2>2
<1>4. \A path \in kept : path \in ItemsOf(files) /\ NormalizeRepositoryPath(path) # {}
  OBVIOUS
<1> HIDE DEF kept
<1>5. /\ Keep(files, kept) \in Seq(Paths \cap kept)
      /\ ItemsOf(Keep(files, kept)) \subseteq ItemsOf(files) \cap kept
      /\ AllDistinct(Keep(files, kept))
  BY <1>1, KeepKeeps
<1>6. Bundle(files) \in Seq(Paths) /\ AllDistinct(Bundle(files))  BY <1>2, <1>5
<1>7. ASSUME NEW path \in ItemsOf(Bundle(files))
      PROVE  /\ path \in Paths /\ NormalizeRepositoryPath(path) # {}
             /\ Posix(path.names) = path.names
  <2>1. path \in ItemsOf(files) /\ path \in kept  BY <1>2, <1>5
  <2>2. path \in Paths /\ ItemsOf(path.names) \cap {"", "."} = {}  BY <1>3, <2>1
  <2> QED  BY <1>4, <2>1, <2>2, PosixNames
<1> QED  BY <1>6, <1>7

\* The two copies of the policy agree on what the worker sends, the named
\* differences excepted.
LEMMA PoliciesAgree ==
  ASSUME NEW p \in Proposals, NEW request \in BuildSandboxRequest(p), ~ PoliciesDiffer(p)
  PROVE  ReadBoundedJson(request) /\ ParseExecutionRequest(request)
<1> DEFINE bundle == Bundle(p.tree)
           files  == [i \in DOMAIN bundle |-> Sent(bundle[i])]
           edits  == [i \in DOMAIN p.edits |-> Sent(p.edits[i])]
<1>1. ProposalIsValid(p) /\ Len(bundle) <= MaxBundleFiles  BY DEF BuildSandboxRequest
<1>2. request = [files |-> files, edits |-> edits, checks |-> p.checks]
  BY <1>1 DEF BuildSandboxRequest
<1>3. request.files = files /\ request.edits = edits /\ request.checks = p.checks
  BY <1>2
<1>4. IsListing(p.tree) /\ p.edits \in Seq(Paths) /\ p.checks \in Seq(Commands)
  BY ExecutorAssumption
<1>5. /\ bundle \in Seq(Paths) /\ AllDistinct(bundle)
      /\ \A path \in ItemsOf(bundle) : /\ path \in Paths /\ NormalizeRepositoryPath(path) # {}
                                       /\ Posix(path.names) = path.names
  BY <1>4, BundleOfListing
<1>6. /\ \A path \in ItemsOf(bundle) \cup ItemsOf(p.edits) : ~ HiddenKey(path)
      /\ \A check \in ItemsOf(p.checks) : check.arguments # "wide"
      /\ AllDistinct([i \in DOMAIN p.edits |-> Posix(p.edits[i].names)])
  BY DEF PoliciesDiffer
<1>7. /\ Len(p.edits) \in 1..MaxEdits
      /\ Len(p.checks) \in 1..MaxChecks /\ AllDistinct(Ids(p.checks))
      /\ \A path \in ItemsOf(p.edits) : NormalizeRepositoryPath(path) # {}
      /\ \A check \in ItemsOf(p.checks) :
            /\ check.allowed /\ check.arguments \in {"short", "wide"}
            /\ check.timeout \in 1..MaxTimeout
  BY <1>1 DEF ProposalIsValid
<1> HIDE DEF bundle
<1>8. Len(files) = Len(bundle) /\ Len(edits) = Len(p.edits) /\ Len(bundle) \in Nat
  BY <1>4, <1>5
<1>9. /\ {MaxFiles, MaxEdits, MaxChecks, MaxTimeout, MaxRequest, MaxBundleFiles} \subseteq Nat
      /\ MaxBundleFiles <= MaxFiles /\ MaxBundleFiles + MaxEdits <= MaxRequest
  BY PolicyAssumption
<1>10. /\ Len(files) <= MaxFiles /\ Len(edits) \in 1..MaxEdits
       /\ Len(files) + Len(edits) \in 1..MaxRequest
  <2> HIDE DEF files, edits
  <2> QED  BY <1>1, <1>7, <1>8, <1>9
<1>11. \A path \in ItemsOf(bundle) \cup ItemsOf(p.edits) :
          path \in Paths /\ NormalizeRepositoryPath(path) # {} /\ ~ HiddenKey(path)
  <2>1. \A path \in ItemsOf(p.edits) : path \in Paths  BY <1>4 DEF ItemsOf
  <2> QED  BY <1>5, <1>6, <1>7, <2>1
<1>12. \A path \in ItemsOf(files) \cup ItemsOf(edits) : NormalizePath(path) # {}
  <2>1. \A sent \in ItemsOf(files) : \E path \in ItemsOf(bundle) : sent = Sent(path)
    BY DEF ItemsOf
  <2>2. \A sent \in ItemsOf(edits) : \E path \in ItemsOf(p.edits) : sent = Sent(path)
    BY DEF ItemsOf
  <2>3. \A path \in ItemsOf(bundle) \cup ItemsOf(p.edits) : NormalizePath(Sent(path)) # {}
    BY <1>11, SentPathsPass
  <2> HIDE DEF files, edits
  <2> QED  BY <2>1, <2>2, <2>3
<1>13. AllDistinct(files)
  <2> SUFFICES ASSUME NEW i \in DOMAIN bundle, NEW j \in DOMAIN bundle,
                      Sent(bundle[i]) = Sent(bundle[j])
               PROVE  i = j
    BY DEF AllDistinct
  <2>1. bundle[i] \in ItemsOf(bundle) /\ bundle[j] \in ItemsOf(bundle)  BY DEF ItemsOf
  <2>2. Posix(bundle[i].names) = Posix(bundle[j].names)
    <3>1. Sent(bundle[i]).names = Sent(bundle[j]).names  OBVIOUS
    <3> QED  BY <3>1 DEF Sent
  <2>3. bundle[i].names = bundle[j].names  BY <1>5, <2>1, <2>2
  <2>4. bundle[i].odd = FALSE /\ bundle[j].odd = FALSE
    <3>1. bundle[i].odd \in BOOLEAN /\ bundle[j].odd \in BOOLEAN
      BY <1>5, <2>1 DEF Paths
    <3>2. ~ bundle[i].odd /\ ~ bundle[j].odd  BY <1>11, <2>1, SentPathsPass
    <3> QED  BY <3>1, <3>2
  <2>5. bundle[i] = bundle[j]
    <3>1. bundle[i] \in Paths /\ bundle[j] \in Paths  BY <1>5, <2>1
    <3> QED  BY <2>3, <2>4, <3>1 DEF Paths
  <2> QED  BY <1>5, <2>5 DEF AllDistinct
<1>14. AllDistinct(edits)
  <2> SUFFICES ASSUME NEW i \in DOMAIN p.edits, NEW j \in DOMAIN p.edits,
                      Sent(p.edits[i]) = Sent(p.edits[j])
               PROVE  i = j
    BY DEF AllDistinct
  <2>1. Posix(p.edits[i].names) = Posix(p.edits[j].names)
    <3>1. Sent(p.edits[i]).names = Sent(p.edits[j]).names  OBVIOUS
    <3> QED  BY <3>1 DEF Sent
  <2> QED  BY <1>6, <2>1 DEF AllDistinct
<1>15. \A check \in ItemsOf(p.checks) : ParseCommand(check) # {}
  <2> SUFFICES ASSUME NEW check \in ItemsOf(p.checks) PROVE ParseCommand(check) # {}
    OBVIOUS
  <2>1. check.allowed /\ check.arguments = "short" /\ check.timeout \in 1..MaxTimeout
    BY <1>6, <1>7
  <2> QED  BY <2>1 DEF ParseCommand
<1> HIDE DEF files, edits
<1>16. ReadBoundedJson(request)  BY <1>3, <1>10 DEF ReadBoundedJson
<1>17. ParseExecutionRequest(request)
  BY <1>3, <1>7, <1>10, <1>12, <1>13, <1>14, <1>15 DEF ParseExecutionRequest
<1> QED  BY <1>16, <1>17

\* A refusal as invalid names one of the differences: by what the Worker has
\* parsed, which is what the generation worker built.
THEOREM PoliciesDifferWhereNamed == Spec => []RefusalIsExplained
<1>1. Init => RefusalIsExplained  BY DEF Init, RefusalIsExplained
<1>2. IInv /\ RefusalIsExplained /\ [Next]_vars => RefusalIsExplained'
  <2> SUFFICES ASSUME IInv, RefusalIsExplained, [Next]_vars,
                      NEW b \in Attempts, NEW r \in answer'[b],
                      "refused" \in DOMAIN r, r.refused = {400}
               PROVE  PoliciesDiffer(proposal[b])'
    BY DEF RefusalIsExplained
  <2>1. answer[b] = answer'[b] /\ proposal' = proposal => PoliciesDiffer(proposal[b])'
    BY DEF RefusalIsExplained
  <2>2. CASE UNCHANGED vars  BY <2>1, <2>2 DEF vars
  <2>3. ASSUME NEW a \in Attempts,
               \/ Post(a) \/ MakeRoot(a) \/ WriteRepository(a) \/ WriteEdits(a)
               \/ RunCheck(a) \/ StopsWaiting(a)
               \/ WorkerDies(a) \/ ContainerSleeps(a) \/ LoseConnection(a)
        PROVE  PoliciesDiffer(proposal[b])'
    <3>1. answer' = answer /\ proposal' = proposal
      BY <2>3 DEF Post, MakeRoot, WriteRepository, WriteEdits, WriteFiles, RunCheck,
           StopsWaiting, Receive, GiveUp, LoseConnection, WorkerDies, ContainerSleeps,
           clientSide, workerSide
    <3> QED  BY <2>1, <3>1
  <2>4. ASSUME NEW a \in Attempts, Finish(a) PROVE PoliciesDiffer(proposal[b])'
    <3>1. /\ proposal' = proposal
          /\ \E destroyed \in BOOLEAN : answer' = [answer EXCEPT ![a] = {Response(a, destroyed)}]
      BY <2>4 DEF Finish, clientSide
    <3>2. CASE a = b
      <4>1. \A destroyed \in BOOLEAN : "refused" \notin DOMAIN Response(a, destroyed)
        BY DEF Response
      <4>2. answer \in [Attempts -> {answer[c] : c \in Attempts}]
        BY DEF IInv, Types
      <4>3. \E destroyed \in BOOLEAN : r = Response(a, destroyed)
        BY <3>1, <3>2, <4>2
      <4> QED  BY <4>1, <4>3
    <3>3. CASE a # b
      <4>1. answer'[b] = answer[b]  BY <3>1, <3>3
      <4> QED  BY <2>1, <3>1, <4>1
    <3> QED  BY <3>2, <3>3
  <2>5. ASSUME NEW a \in Attempts, Fetch(a) PROVE PoliciesDiffer(proposal[b])'
    <3>1. proposal' = proposal  BY <2>5 DEF Fetch
    <3>2. PICK request \in posted[a] :
            IF Refusal(request) = {} THEN answer' = answer
            ELSE answer' = [answer EXCEPT ![a] = {[refused |-> Refusal(request)]}]
      BY <2>5 DEF Fetch
    <3>3. CASE Refusal(request) = {} \/ a # b
      <4>1. answer = [c \in Attempts |-> answer[c]]  BY DEF IInv, Types
      <4>2. CASE Refusal(request) = {}  BY <2>1, <3>1, <3>2, <4>2
      <4>3. CASE Refusal(request) # {} /\ a # b
        <5>1. answer'[b] = answer[b]  BY <3>2, <4>1, <4>3
        <5> QED  BY <2>1, <3>1, <5>1
      <4> QED  BY <3>3, <4>2, <4>3
    <3>4. CASE Refusal(request) # {} /\ a = b
      <4>1. r.refused = Refusal(request)
        <5>1. answer'[a] = {[refused |-> Refusal(request)]}
          BY <3>2, <3>4 DEF IInv, Types
        <5> QED  BY <3>4, <5>1
      <4>2. ~ (ReadBoundedJson(request) /\ ParseExecutionRequest(request))
        <5>1. deployment \in {"ready", "wrong_url", "wrong_token", "no_token"}
          BY ExecutorAssumption DEF IInv, Types
        <5>2. {404} # {400} /\ {401} # {400}  OBVIOUS
        <5> QED  BY <3>4, <4>1, <5>1, <5>2 DEF Refusal
      <4>3. proposal[a] \in Proposals /\ request \in BuildSandboxRequest(proposal[a])
        BY <3>2 DEF IInv, Types
      <4>4. PoliciesDiffer(proposal[a])  BY <4>2, <4>3, PoliciesAgree
      <4> QED  BY <3>1, <3>4, <4>4
    <3> QED  BY <3>3, <3>4
  <2> QED  BY <2>2, <2>3, <2>4, <2>5 DEF Next, WorkerStep
<1> QED  BY <1>1, <1>2, InvariantHolds, PTL DEF Spec

=============================================================================
