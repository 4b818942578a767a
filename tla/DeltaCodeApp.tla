--------------------------- MODULE DeltaCodeApp ----------------------------
(***************************************************************************)
(* The frontend: one page per path (DeltaCodeApp in app/DeltaCodeApp.tsx).  *)
(* Every link between pages is an anchor, so the browser loads the document *)
(* anew and a page starts from nothing: a behaviour opens one page, and the *)
(* variables of the others stay closed.                                     *)
(***************************************************************************)
EXTENDS MigrationPage, RunPage, WorkspacePages

VARIABLE route   \* the page that is open

vars == <<route, migrationVars, run, jobs, overlapped, tab,
          rows, present, inbox, page, header>>

-----------------------------------------------------------------------------
\* The first segment of the path, and whether there is another.
Paths == { <<first, deeper>> : first \in {"", "migrations", "changes", "providers",
             "overview", "runs", "repositories", "settings", "onboarding", "product"},
           deeper \in {"no", "account", "integrations", "other"} }

\* Exact paths first, then prefixes; what matches nothing is not found.
Route(path) ==
  LET first == path[1]
      deeper == path[2]
  IN  CASE deeper = "no" /\ first \in {"", "product"}      -> "static"
        [] deeper = "no" /\ first = "migrations"           -> "inbox"
        [] deeper = "no" /\ first \in {"providers", "overview", "runs",
                                       "repositories", "onboarding"} -> first
        [] deeper # "no" /\ first = "migrations"           -> "migration"
        [] deeper # "no" /\ first = "changes"              -> "change"
        [] deeper # "no" /\ first = "runs"                 -> "run"
        [] first = "settings" /\ deeper \in {"no", "account"}     -> "settings"
        [] first = "settings" /\ deeper = "integrations"          -> "integrations"
        [] OTHER                                           -> "not found"

\* LandingPage, ProductPage and OnboardingPage have no dashboard header, nor
\* has the page for what is not found.
\* The header neither reads nor changes what is below it; above a migration or a run it is left closed.
Headed == route \notin {"static", "onboarding", "not found"}

MigrationClosed ==
  /\ server = Row("queued", 1, "none") /\ view = NoRow
  /\ loading = FALSE /\ error = FALSE
  /\ load = NoCall /\ details = NoCall /\ poll = [p \in Polls |-> NoCall]
  /\ pending = "none" /\ command = NoCommand

RunClosed ==
  /\ run = RunRow("pending", 0) /\ jobs = [j \in JobIds |-> "absent"]
  /\ overlapped = FALSE
  /\ tab = [t \in Tabs |-> CHOOSE c \in DemoTab : c.shown = NoRun]

Init ==
  /\ live \in BOOLEAN
  /\ route \in {Route(path) : path \in Paths}
  /\ IF route = "migration" THEN MigrationInit ELSE MigrationClosed
  /\ IF route = "run" THEN RunInit ELSE RunClosed
  /\ rows \in IF route = "inbox" /\ live THEN SUBSET (1..MaxRows) ELSE {{}}
  /\ present = {}
  /\ inbox = IF route = "inbox" THEN OpenInbox ELSE ClosedInbox
  /\ page = IF route \in LoadOncePages THEN OpenPage(route) ELSE ClosedPage
  /\ header = IF Headed /\ route \notin {"migration", "run"}
              THEN OpenHeader ELSE ClosedHeader

Next ==
  \/ /\ route = "migration" /\ MigrationNext
     /\ UNCHANGED <<route, run, jobs, overlapped, tab, rows, present, inbox, page, header>>
  \/ /\ route = "run" /\ RunNext
     /\ UNCHANGED <<route, server, view, loading, error, load, details, poll, pending,
                    command, rows, present, inbox, page, header>>
  \/ /\ route \notin {"migration", "run"} /\ WorkspaceNext
     /\ UNCHANGED <<route, server, view, loading, error, load, details, poll, pending,
                    command, run, jobs, overlapped, tab>>

Spec == Init /\ [][Next]_vars /\ MigrationFairness /\ RunFairness

-----------------------------------------------------------------------------
(* Properties *)

\* The type invariant: each page's variables hold what its code can put there.
TypeOK == MigrationTypeOK /\ RunTypeOK /\ WorkspaceTypeOK

=============================================================================
