---------------------------- MODULE SandboxPolicy ----------------------------
(***************************************************************************)
(* What may enter the sandbox.  The generation worker builds a request     *)
(* from the checked-out repository and the proposed patch under its own    *)
(* policy (policy.py); the sandbox Worker parses the request again under a *)
(* second copy of that policy (policy.ts) and refuses it as a whole when   *)
(* one path, command or bound does not pass.                               *)
(*                                                                         *)
(* A path is a sequence of names, `odd' when it is absolute or holds a     *)
(* backslash or a NUL.  A command is the class of its executable and of    *)
(* its arguments, and its time limit in minutes.  Arguments are `wide'     *)
(* when 500 code points hold them and 500 UTF-16 units do not.  Texts that *)
(* look like credentials, stale digests and edits no plan step expects are *)
(* left out: the worker refuses or skips them before any of this.          *)
(***************************************************************************)
EXTENDS Naturals, Sequences, FiniteSets

CONSTANTS MaxFiles,        \* MAX_FILES of the Worker
          MaxEdits,        \* MAX_EDITS, and the bound of PatchProposal
          MaxChecks,       \* MAX_CHECKS, and the bound of PatchProposal
          MaxTimeout,      \* MAX_COMMAND_TIMEOUT_MS, and the bound of VerificationCommand
          MaxRequest,      \* MAX_REQUEST_BYTES, in files
          MaxBundleFiles   \* MAX_BUNDLE_FILES of the generation worker

ASSUME PolicyAssumption ==
  /\ {MaxFiles, MaxEdits, MaxChecks, MaxTimeout, MaxRequest, MaxBundleFiles} \subseteq Nat
  /\ MaxBundleFiles <= MaxFiles
  /\ MaxBundleFiles + MaxEdits <= MaxRequest  \* 6 MB + 2 MB in base64 fit in 12 MB

\* VerificationCommand, as either side may meet one.
Commands == [id : STRING, allowed : BOOLEAN, arguments : {"short", "wide", "long"},
             timeout : Nat]

Paths == [odd : BOOLEAN, names : Seq(STRING)]

ItemsOf(s) == {s[i] : i \in DOMAIN s}

\* The items of s that are in kept, in their order: SelectSeq, by counting.
Keep(s, kept) ==
  LET places == {i \in DOMAIN s : s[i] \in kept}
      Place(n) == CHOOSE i \in places : Cardinality(places \cap 1..i) = n
  IN  [n \in 1..Cardinality(places) |-> s[Place(n)]]

\* Names that stand for the classes the policies tell apart.
KeyNames     == {"server.pem", ".pem"}         \* endsWith(".pem"), and .key, .p12, .pfx
SuffixNames  == {"server.pem"}                 \* what PurePosixPath.suffix sees of them
DeniedNames  == {".env", ".env.prod"}          \* DENIED_FILE_NAMES and .env.*
Lower(name)  == IF name = ".GIT" THEN ".git" ELSE name

DeniedPrefixes == {<<".git">>, <<".github", "workflows">>}

Denied(names, keys) ==
  LET low == [i \in DOMAIN names |-> Lower(names[i])]
  IN  \/ \E p \in DeniedPrefixes : Len(p) <= Len(low) /\ SubSeq(low, 1, Len(p)) = p
      \/ low[Len(low)] \in DeniedNames \cup keys

-----------------------------------------------------------------------------
(* policy.ts: each parser yields the set of what it accepts, {} when it throws *)

NormalizePath(path) ==
  IF \/ path.odd \/ path.names = <<>>
     \/ ItemsOf(path.names) \cap {"", ".", ".."} # {}
     \/ Denied(path.names, KeyNames)
  THEN {} ELSE {path.names}

ParseCommand(check) ==
  IF check.allowed /\ check.arguments = "short" /\ check.timeout \in 1..MaxTimeout
  THEN {check} ELSE {}

AllDistinct(s) == \A i, j \in DOMAIN s : s[i] = s[j] => i = j

Ids(checks) == [i \in DOMAIN checks |-> checks[i].id]

ParseExecutionRequest(request) ==
  /\ Len(request.files) <= MaxFiles
  /\ Len(request.edits) \in 1..MaxEdits
  /\ Len(request.checks) \in 1..MaxChecks
  /\ \A path \in ItemsOf(request.files) \cup ItemsOf(request.edits) :
        NormalizePath(path) # {}
  /\ \A check \in ItemsOf(request.checks) : ParseCommand(check) # {}
  /\ AllDistinct(request.files)
  /\ AllDistinct(request.edits)
  /\ AllDistinct(Ids(request.checks))

\* readBoundedJson: the declared length and the bytes that come are bounded.
ReadBoundedJson(request) ==
  Len(request.files) + Len(request.edits) \in 1..MaxRequest

-----------------------------------------------------------------------------
(* policy.py and models.py, in the generation worker *)

\* PurePosixPath drops empty names and single dots.
Posix(names) == Keep(names, ItemsOf(names) \ {"", "."})

ForgetsKeys(path) ==                                                     \* mutant
  IF path.odd \/ ".." \in ItemsOf(path.names) \/ Posix(path.names) = <<>> THEN {}
  ELSE IF Denied(Posix(path.names), {}) THEN {} ELSE {Posix(path.names)}
\* The path "." has no names; the file system holds no such file, and a plan
\* step that expects it is not one.
NormalizeRepositoryPath(path) ==
  IF \/ path.odd \/ ".." \in ItemsOf(path.names) \/ Posix(path.names) = <<>>
     \/ Denied(Posix(path.names), SuffixNames)
  THEN {} ELSE {Posix(path.names)}

\* PatchProposal and validate_patch: the edits are distinct as written and
\* allowed, the commands are distinct, allowed and bounded.
ProposalIsValid(p) ==
  /\ Len(p.edits) \in 1..MaxEdits /\ AllDistinct(p.edits)
  /\ Len(p.checks) \in 1..MaxChecks /\ AllDistinct(Ids(p.checks))
  /\ \A path \in ItemsOf(p.edits) : NormalizeRepositoryPath(path) # {}
  /\ \A check \in ItemsOf(p.checks) :
        /\ check.allowed /\ check.arguments \in {"short", "wide"}
        /\ check.timeout \in 1..MaxTimeout

\* A directory walk lists each file once, its path as as_posix() writes it.
IsListing(tree) ==
  /\ tree \in Seq(Paths) /\ AllDistinct(tree)
  /\ \A path \in ItemsOf(tree) : ItemsOf(path.names) \cap {"", "."} = {}

\* The files of the tree that the policy lets into the bundle, in order.
Bundle(tree) == Keep(tree, {path \in ItemsOf(tree) : NormalizeRepositoryPath(path) # {}})

\* Rewrites a path as build_sandbox_request sends it.
Sent(path) == [odd |-> FALSE, names |-> Posix(path.names)]

\* validate_patch and build_sandbox_request: {} stands for PatchPolicyError.
BuildSandboxRequest(p) ==
  IF ProposalIsValid(p) /\ Len(Bundle(p.tree)) <= MaxBundleFiles
  THEN {[files  |-> [i \in DOMAIN Bundle(p.tree) |-> Sent(Bundle(p.tree)[i])],
         edits  |-> [i \in DOMAIN p.edits |-> Sent(p.edits[i])],
         checks |-> p.checks]}
  ELSE {}

=============================================================================
