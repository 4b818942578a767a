--------------------------- MODULE SandboxExecutor ---------------------------
(***************************************************************************)
(* The verification of a proposed patch: the generation worker posts it to *)
(* the sandbox Worker, which starts a container of its own for it, writes  *)
(* the repository and the edits, runs the requested checks in order, tears *)
(* the container down and answers; the generation worker validates the     *)
(* answer and guards the reviewer's recommendation with it.                *)
(*                                                                         *)
(* Every await of the Worker is an action, and so is everything that can   *)
(* go wrong there.  Time is the minutes a request has taken; only checks   *)
(* take any.                                                               *)
(***************************************************************************)
EXTENDS SandboxPolicy

CONSTANTS Attempts,      \* migration attempts that reach verification
          Proposals,     \* what the models may propose, and for which tree
          Deployments,   \* how the two services may be configured
          MaxInstances,  \* containers the platform runs at a time
          Patience,      \* minutes the client waits for the answer
          MaxDuration,   \* GENERATION_MAX_SANDBOX_DURATION_MS, in minutes
          Faults         \* what may go wrong on the way

ASSUME ExecutorAssumption ==
  /\ Deployments \subseteq {"ready", "wrong_url", "wrong_token", "no_token"}
  /\ {MaxInstances, Patience, MaxDuration} \subseteq Nat
  /\ Faults \subseteq {"container", "teardown", "worker", "connection"}
  /\ \A p \in Proposals :
       IsListing(p.tree) /\ p.edits \in Seq(Paths) /\ p.checks \in Seq(Commands)

VARIABLES deployment,   \* how they are configured
          proposal,     \* the proposal of each attempt
          posted,       \* the request on its way: {} or {request}
          client,       \* how far the generation worker is with it
          recommended,  \* the recommendation it stores, after the guard
          worker,       \* the Worker's invocation
          container,    \* the container of the invocation
          tree,         \* what is written in it
          ran,          \* history: what each check did there
          spent,        \* minutes since the request was posted
          answer        \* the response: {} or {response}

vars == <<deployment, proposal, posted, client, recommended, worker, container, tree, ran, spent, answer>>

-----------------------------------------------------------------------------
CheckOutcomes == {"passed", "failed", "timed_out", "infrastructure_error"}

\* The Worker's local variables: where it is, status, checks, destroyed.
NotStarted == [at |-> "none", status |-> "passed", checks |-> <<>>]

\* Its refusals: not found, unauthorized, invalid request.
Refusal(r) ==
  CASE deployment = "wrong_url" -> {404}
    [] deployment \in {"wrong_token", "no_token"} -> {401}
    [] deployment = "ready" -> IF ReadBoundedJson(r) /\ ParseExecutionRequest(r)
                               THEN {} ELSE {400}

Checks(a) == proposal[a].checks

Live == {a \in Attempts : container[a] = "live"}

Init ==
  /\ deployment \in Deployments
  /\ proposal \in [Attempts -> Proposals]
  /\ posted = [a \in Attempts |-> {}]
  /\ client = [a \in Attempts |-> "idle"]
  /\ recommended = [a \in Attempts |-> "none"]
  /\ worker = [a \in Attempts |-> NotStarted]
  /\ container = [a \in Attempts |-> "none"]
  /\ tree = [a \in Attempts |-> "empty"]
  /\ ran = [a \in Attempts |-> <<>>]
  /\ spent = [a \in Attempts |-> 0]
  /\ answer = [a \in Attempts |-> {}]

-----------------------------------------------------------------------------
(* The generation worker posts the request *)

workerSide == <<worker, container, tree, ran, spent, answer>>

\* build_sandbox_request and execute, up to the wait.  A policy error ends
\* the attempt before anything is posted.
Post(a) ==
  /\ client[a] = "idle"
  /\ posted' = [posted EXCEPT ![a] = BuildSandboxRequest(proposal[a])]
  /\ IF posted'[a] = {}
     THEN /\ client' = [client EXCEPT ![a] = "unavailable"]
          /\ UNCHANGED worker
     ELSE /\ client' = [client EXCEPT ![a] = "waiting"]
          /\ worker' = [worker EXCEPT ![a].at = "fetch"]
  /\ UNCHANGED <<deployment, proposal, recommended, container, tree, ran, spent, answer>>

-----------------------------------------------------------------------------
(* The sandbox Worker *)

At(a, place)   == worker[a].at = place
Goes(a, place) == worker' = [worker EXCEPT ![a].at = place]

clientSide == <<deployment, proposal, posted, client, recommended>>

\* The outer catch: the status, and then the finally clause.
Throws(a) ==
  worker' = [worker EXCEPT ![a].at = "finally", ![a].status = "infrastructure_error"]

\* fetch: the route, the token and the parse come before any container.
Fetch(a) ==
  /\ At(a, "fetch")
  /\ \E request \in posted[a] :
       \E refusal \in {Refusal(request)} :
         IF refusal = {}
         THEN Goes(a, "mkdir") /\ UNCHANGED answer
         ELSE /\ Goes(a, "answered")
              /\ answer' = [answer EXCEPT ![a] = {[refused |-> refusal]}]
  /\ posted' = [posted EXCEPT ![a] = {}]
  /\ UNCHANGED <<deployment, proposal, client, recommended, container, tree, ran, spent>>

\* The first call starts the container.  It throws when the platform has no
\* room for another one, or for reasons of its own.
MakeRoot(a) ==
  /\ At(a, "mkdir")
  /\ \/ /\ Cardinality(Live) < MaxInstances
        /\ container' = [container EXCEPT ![a] = "live"]
        /\ Goes(a, "files")
     \/ /\ Cardinality(Live) >= MaxInstances \/ "container" \in Faults
        /\ Throws(a) /\ UNCHANGED container
     \/ /\ Cardinality(Live) < MaxInstances /\ "container" \in Faults
        /\ container' = [container EXCEPT ![a] = "live"]
        /\ Throws(a)
  /\ UNCHANGED <<clientSide, tree, ran, spent, answer>>

\* writeFiles: digest, directory and file of each entry in turn.
WriteFiles(a, from, written, to) ==
  /\ At(a, from)
  /\ \/ /\ tree' = [tree EXCEPT ![a] = written]
        /\ Goes(a, to)
     \/ /\ "container" \in Faults
        /\ tree' = [tree EXCEPT ![a] = "partial"]
        /\ Throws(a)
  /\ UNCHANGED <<clientSide, container, ran, spent, answer>>

WriteRepository(a) == WriteFiles(a, "files", "snapshot", "edits")
WriteEdits(a)      == WriteFiles(a, "edits", "patched", "checks")

\* The status after a check: only an exit code blames the code.
BlamesTheCode(status, outcome) ==                                        \* mutant
  IF outcome = "passed" THEN status ELSE "failed"
StatusAfter(status, outcome) ==
  CASE outcome = "passed" -> status
    [] outcome = "failed" -> "failed"
    [] OTHER              -> "infrastructure_error"

EndsOnFailure(a, outcome) == outcome # "passed"                          \* mutant
\* The loop ends after the last check and at the first that does not pass.
EndsLoop(a, outcome) ==
  outcome # "passed" \/ Len(worker[a].checks) + 1 = Len(Checks(a))

\* One turn of the loop.  A command that times out has taken all its time.
RunCheck(a) ==
  /\ At(a, "checks") /\ Len(worker[a].checks) < Len(Checks(a))
  /\ LET next == Checks(a)[Len(worker[a].checks) + 1] IN
       \E outcome \in CheckOutcomes, minutes \in 1..next.timeout :
         /\ outcome = "timed_out" => minutes = next.timeout
         /\ outcome = "infrastructure_error" => "container" \in Faults
         /\ ran' = [ran EXCEPT ![a] = Append(@, [did |-> outcome, on |-> tree[a]])]
         /\ spent' = [spent EXCEPT ![a] = @ + minutes]
         /\ worker' = [worker EXCEPT
              ![a].at     = IF EndsLoop(a, outcome) THEN "finally" ELSE "checks",
              ![a].status = StatusAfter(@, outcome),
              ![a].checks = Append(@, outcome)]
  /\ UNCHANGED <<clientSide, container, tree, answer>>

\* The checks that did not run.
Blocked(a) == [i \in 1..(Len(Checks(a)) - Len(worker[a].checks)) |-> "blocked"]

TrustsTeardown(a, destroyed) ==                                          \* mutant
  [status |-> worker[a].status, checks |-> worker[a].checks \o Blocked(a),
   destroyed |-> TRUE]
Response(a, destroyed) ==
  [status    |-> IF destroyed THEN worker[a].status ELSE "infrastructure_error",
   checks    |-> worker[a].checks \o Blocked(a),
   destroyed |-> destroyed]

\* The finally clause and the answer.  When destroy loses its race against
\* ten seconds, or throws, the container may or may not be gone.
Finish(a) ==
  /\ At(a, "finally")
  /\ \E destroyed \in BOOLEAN :
       /\ destroyed \/ "teardown" \in Faults
       /\ container' \in {[container EXCEPT ![a] = "gone"],
                          IF destroyed THEN [container EXCEPT ![a] = "gone"]
                                       ELSE container}
       /\ answer' = [answer EXCEPT ![a] = {Response(a, destroyed)}]
  /\ Goes(a, "answered")
  /\ UNCHANGED <<clientSide, tree, ran, spent>>

\* The platform ends the invocation; nothing of it runs any more, the finally
\* clause neither.
WorkerDies(a) ==
  /\ "worker" \in Faults
  /\ worker[a].at \in {"fetch", "mkdir", "files", "edits", "checks", "finally"}
  /\ Goes(a, "dead")
  /\ UNCHANGED <<clientSide, container, tree, ran, spent, answer>>

\* The platform puts an idle container to sleep.
ContainerSleeps(a) ==
  /\ container[a] = "live" /\ worker[a].at \in {"answered", "dead"}
  /\ container' = [container EXCEPT ![a] = "gone"]
  /\ UNCHANGED <<clientSide, worker, tree, ran, spent, answer>>

-----------------------------------------------------------------------------
(* The generation worker takes the answer *)

\* execute, after the wait, and validate_execution.
Consistent(a, response) ==
  /\ Len(response.checks) = Len(Checks(a))
  /\ response.status = "passed" => /\ response.destroyed
                                   /\ \A c \in ItemsOf(response.checks) : c = "passed"
  /\ spent[a] <= MaxDuration

\* _guard_recommendation.
GuardRecommendation(action, response) ==
  IF action # "approve" \/ (response.status = "passed" /\ response.destroyed)
  THEN action
  ELSE IF response.status = "failed" THEN "revise" ELSE "snooze"

Takes(a, state) == client' = [client EXCEPT ![a] = state]

\* The answer arrives in time.  The reviewer recommends approval or something
\* else, or its call fails.
Receive(a) ==
  /\ client[a] = "waiting" /\ spent[a] <= Patience
  /\ \E response \in answer[a] :
       IF "refused" \in DOMAIN response \/ ~ Consistent(a, response)
       THEN Takes(a, "unavailable") /\ UNCHANGED recommended
       ELSE \/ /\ Takes(a, "accepted")
               /\ \E action \in {"approve", "decline"} :
                    recommended' = [recommended EXCEPT
                                      ![a] = GuardRecommendation(action, response)]
            \/ /\ "connection" \in Faults
               /\ Takes(a, "unavailable") /\ UNCHANGED recommended
  /\ UNCHANGED <<deployment, proposal, posted, workerSide>>

\* The read timeout of the client; the Worker is not told.
GiveUp(a) ==
  /\ client[a] = "waiting"
  /\ spent[a] >= Patience \/ At(a, "dead")
  /\ Takes(a, "gave_up")
  /\ UNCHANGED <<deployment, proposal, posted, recommended, workerSide>>

LoseConnection(a) ==
  /\ client[a] = "waiting" /\ "connection" \in Faults
  /\ Takes(a, "unavailable")
  /\ UNCHANGED <<deployment, proposal, posted, recommended, workerSide>>

-----------------------------------------------------------------------------
WorkerStep(a) ==
  Fetch(a) \/ MakeRoot(a) \/ WriteRepository(a) \/ WriteEdits(a) \/ RunCheck(a) \/ Finish(a)

StopsWaiting(a) == Receive(a) \/ GiveUp(a)

Next == \E a \in Attempts :
  \/ Post(a) \/ WorkerStep(a) \/ StopsWaiting(a)
  \/ WorkerDies(a) \/ ContainerSleeps(a) \/ LoseConnection(a)

Spec == Init /\ [][Next]_vars

\* An invocation that the platform does not end goes on, every call of it
\* being bounded by a time limit, and the client's wait is bounded too.
FairSpec == Spec /\ \A a \in Attempts : WF_vars(WorkerStep(a)) /\ WF_vars(StopsWaiting(a))

-----------------------------------------------------------------------------
(* Correctness *)

Responses == [status : {"passed", "failed", "infrastructure_error"},
              checks : Seq(CheckOutcomes \cup {"blocked"}), destroyed : BOOLEAN]

TypeOK ==
  /\ deployment \in Deployments
  /\ proposal \in [Attempts -> Proposals]
  /\ \A a \in Attempts : posted[a] \subseteq BuildSandboxRequest(proposal[a])
  /\ client \in [Attempts -> {"idle", "waiting", "accepted", "unavailable", "gave_up"}]
  /\ recommended \in [Attempts -> {"none", "approve", "revise", "snooze", "decline"}]
  /\ worker \in [Attempts -> [at : {"none", "fetch", "mkdir", "files", "edits", "checks",
                                    "finally", "answered", "dead"},
                              status : {"passed", "failed", "infrastructure_error"},
                              checks : Seq(CheckOutcomes)]]
  /\ container \in [Attempts -> {"none", "live", "gone"}]
  /\ tree \in [Attempts -> {"empty", "partial", "snapshot", "patched"}]
  /\ ran \in [Attempts -> Seq([did : CheckOutcomes, on : {"partial", "patched"}])]
  /\ spent \in [Attempts -> Nat]
  /\ \A a \in Attempts : \A r \in answer[a] :
        r \in Responses \/ r \in [refused : {{400}, {401}, {404}}]

\* What the attempt's checks did: all requested ones ran on the patched tree
\* and passed.
AllPassed(a) ==
  /\ Len(ran[a]) = Len(Checks(a))
  /\ \A i \in DOMAIN ran[a] : ran[a][i] = [did |-> "passed", on |-> "patched"]

\* An attempt stored with a passed verification or a recommendation to
\* approve has run every requested check on the patched repository, all of
\* them passed, and its container is gone: whatever failed on the way, and
\* whatever the reviewer recommends (the guards of executor.py and service.py
\* on the Worker's answer).
CreditIsEarned ==
  \A a \in Attempts : client[a] = "accepted" =>
    \A r \in answer[a] :
      r.status = "passed" \/ recommended[a] = "approve" =>
        AllPassed(a) /\ container[a] # "live"

\* The stored checks are the requested ones in order: first those that ran,
\* as they went, then those that did not, as blocked; and none ran after one
\* that did not pass.
EvidenceIsOrdered ==
  \A a \in Attempts : client[a] = "accepted" =>
    \A r \in answer[a] :
      /\ Len(r.checks) = Len(Checks(a))
      /\ \A i \in DOMAIN r.checks :
           r.checks[i] = IF i \in DOMAIN ran[a] THEN ran[a][i].did ELSE "blocked"
      /\ \A i, j \in DOMAIN ran[a] : i < j => ran[a][i].did = "passed"

\* A failed verification, which sends the patch back for revision, means that
\* a requested command ran on the patched tree and exited with an error; a
\* timeout, a missing container or a failed teardown never counts as one.
FailureIsTheCodes ==
  \A a \in Attempts : client[a] = "accepted" =>
    \A r \in answer[a] : r.status = "failed" =>
      \E i \in DOMAIN ran[a] : ran[a][i] = [did |-> "failed", on |-> "patched"]

\* What one policy lets through and the other does not: a file that is only
\* a key suffix, arguments longer in UTF-16 units than in code points, and
\* two edits whose paths differ only as written.
HiddenKey(path) == Posix(path.names)[Len(Posix(path.names))] \in KeyNames \ SuffixNames
PoliciesDiffer(p) ==
  \/ \E path \in ItemsOf(Bundle(p.tree)) \cup ItemsOf(p.edits) : HiddenKey(path)
  \/ \E check \in ItemsOf(p.checks) : check.arguments = "wide"
  \/ ~ AllDistinct([i \in DOMAIN p.edits |-> Posix(p.edits[i].names)])

\* The Worker refuses as invalid no request that the generation worker built
\* under its own policy, those three cases excepted: the two copies of the
\* policy and of the bounds agree on everything else.
RefusalIsExplained ==
  \A a \in Attempts : \A r \in answer[a] :
    "refused" \in DOMAIN r /\ r.refused = {400} => PoliciesDiffer(proposal[a])

\* Every request is answered unless the platform ends the invocation, whatever
\* throws in the Worker (no branch of execute is left without an answer), and
\* every posted attempt is decided: it takes the answer or stops waiting.
EveryRequestIsAnswered ==
  \A a \in Attempts :
    /\ At(a, "fetch") ~> worker[a].at \in {"answered", "dead"}
    /\ client[a] = "waiting" ~> client[a] # "waiting"

=============================================================================
