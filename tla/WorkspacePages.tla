-------------------------- MODULE WorkspacePages ---------------------------
(***************************************************************************)
(* The pages that load when they open and then only show what they have:    *)
(* the migration inbox, which reads page after page of a list that grows    *)
(* meanwhile, the pages of app/DeltaCodeApp.tsx that read runs and the      *)
(* identity, and the header above them.                                     *)
(***************************************************************************)
EXTENDS ApiClient, Integers, FiniteSetsExt, SequencesExt

CONSTANTS MaxRows,     \* bound: migrations of the workspace
          PageSize     \* rows of one page of the inbox

ASSUME PageSizeAssumption == PageSize \in Nat \ {0} /\ MaxRows \in Nat

VARIABLES rows,        \* migrations, by their place in (created_at, id) order
          present,     \* those there when the inbox first read
          inbox,       \* what the inbox lists, and its requests
          page,        \* the state of a page that loads once
          header       \* AppHeader's requests and what it shows

workspaceVars == <<live, rows, present, inbox, page, header>>

-----------------------------------------------------------------------------
(* The migration inbox *)

\* list_records: newest first, strictly below the cursor, which is the last row
\* of the page before and is given when there is more.
BelowOrAtCursor(cursor) == {r \in rows : cursor = 0 \/ r <= cursor}       \* mutant
BelowCursor(cursor) == {r \in rows : cursor = 0 \/ r < cursor}

\* ORDER BY created_at DESC, id DESC LIMIT
Newest(limit, found) ==
  CHOOSE s \in BoundedSeq(found, limit) :
    /\ \A i, j \in DOMAIN s : i < j => s[i] > s[j]
    /\ \A r \in found : \/ \E i \in DOMAIN s : s[i] = r
                        \/ Len(s) = limit /\ \A i \in DOMAIN s : s[i] > r

\* One row more than the page holds tells whether there is another page.
Listing(cursor) ==
  LET fetched == Newest(PageSize + 1, BelowCursor(cursor))
      items   == SubSeq(fetched, 1, Min({PageSize, Len(fetched)}))
  IN  [ items  |-> items,
        cursor |-> IF Len(fetched) > PageSize THEN items[PageSize] ELSE 0 ]

NoPage == [items |-> <<>>, cursor |-> 0]

ClosedInbox == [ listed |-> <<>>, cursor |-> 0, loading |-> FALSE, error |-> "none",
                 call |-> "idle", answer |-> NoPage ]
\* A preview lists demoMigrations, which no request produced.
OpenInbox == [ClosedInbox EXCEPT !.loading = live,
                                 !.call = IF live THEN "sent" ELSE "idle",
                                 !.listed = IF live THEN <<>> ELSE <<0>>]

\* A migration is created by the fan-out of a change.  created_at is taken
\* before the commit, so a row may appear below rows that are already there.
RowCreated(r) ==
  /\ live /\ r \in 1..MaxRows \ rows
  /\ rows' = rows \cup {r}
  /\ UNCHANGED <<live, present, inbox, page, header>>

ServeInbox ==
  /\ inbox.call = "sent"
  /\ \E result \in {FetchMigrations(r) : r \in Responses} :
       inbox' = [inbox EXCEPT !.call = result,
                              !.answer = IF result = "value" THEN Listing(inbox.cursor)
                                         ELSE NoPage]
  /\ present' = IF inbox.loading /\ inbox'.call = "value" THEN rows ELSE present
  /\ UNCHANGED <<live, rows, page, header>>

\* The load effect and loadMore: both append to what is listed, which is
\* nothing at first; an error is never cleared and hides the list.
ArriveInbox ==
  /\ inbox.call \notin {"idle", "sent"}
  /\ inbox' = IF inbox.call = "value"
              THEN [inbox EXCEPT !.listed = @ \o inbox.answer.items,
                                 !.cursor = inbox.answer.cursor, !.loading = FALSE,
                                 !.call = "idle", !.answer = NoPage]
              ELSE [inbox EXCEPT !.error = inbox.call, !.loading = FALSE,
                                 !.call = "idle"]
  /\ UNCHANGED <<live, rows, present, page, header>>

\* "Load more migrations": shown while there is a cursor and no error, disabled
\* while a page is on its way.
LoadMore ==
  /\ inbox.cursor # 0 /\ inbox.error = "none" /\ inbox.call = "idle"
  /\ inbox' = [inbox EXCEPT !.call = "sent"]
  /\ UNCHANGED <<live, rows, present, page, header>>

ListShown == ~inbox.loading /\ inbox.error = "none"

-----------------------------------------------------------------------------
(* The pages that load once *)

LoadOncePages == {"providers", "change", "runs", "overview", "repositories",
                  "integrations", "settings", "onboarding"}
WorkspaceDataPages == {"overview", "repositories", "integrations"}
IdentityPages      == {"settings", "onboarding"}

\* useWorkspaceData awaits runs and the identity together.
Requests(p) == CASE p \in WorkspaceDataPages -> {"list", "me"}
                 [] p \in IdentityPages      -> {"me"}
                 [] OTHER                    -> {"list"}

Fetch(p, q, r) == CASE q = "me"        -> FetchMe(r)
                    [] p = "providers" -> FetchProviders(r)
                    [] p = "change"    -> FetchChange(r)
                    [] OTHER           -> FetchRuns(r)

\* What a page shows before it hears anything.  RunsPage starts with the
\* demonstration runs whatever the build; a preview of the settings has no user.
FirstData(p) == IF ~live \/ p = "runs" THEN "demo" ELSE "empty"
FirstUser(p) == IF live \/ p = "settings" THEN "none" ELSE "preview"

ClosedPage == [ kind |-> "none", data |-> "empty", user |-> "none",
                loading |-> FALSE, error |-> "none", call |-> <<>> ]
OpenPage(p) ==
  [ kind |-> p, data |-> FirstData(p), user |-> FirstUser(p), loading |-> live,
    error |-> "none",
    call |-> [q \in Requests(p) |-> IF live THEN "sent" ELSE "idle"] ]

ServePage(q) ==
  /\ q \in DOMAIN page.call /\ page.call[q] = "sent"
  /\ \E result \in {Fetch(page.kind, q, r) : r \in Responses} :
       page' = [page EXCEPT !.call[q] = result]
  /\ UNCHANGED <<live, rows, present, inbox, header>>

Failures == {q \in DOMAIN page.call : page.call[q] \in Errors}
Answers  == {q \in DOMAIN page.call : page.call[q] \in {"value", "null"}}
Settled(pg, data, user, error) ==
  [pg EXCEPT !.data = data, !.user = user, !.error = error, !.loading = FALSE,
             !.call = [q \in DOMAIN pg.call |-> "idle"]]
User(result) == IF result = "value" THEN "user" ELSE "none"

\* ProvidersOverview, ChangeDetailView
SettleList ==
  /\ page.kind \in {"providers", "change"}
  /\ page' = IF Failures = {} THEN Settled(page, "live", page.user, "none")
             ELSE Settled(page, page.data, page.user, page.call["list"])

KeepsDemoRuns ==                                                          \* mutant
  /\ page.kind = "runs"
  /\ page' = IF Failures = {} THEN Settled(page, "live", page.user, "none")
             ELSE Settled(page, page.data, page.user, page.call["list"])
\* RunsPage clears the demonstration runs with the error.
SettleRuns ==
  /\ page.kind = "runs"
  /\ page' = IF Failures = {} THEN Settled(page, "live", page.user, "none")
             ELSE Settled(page, "empty", page.user, page.call["list"])

\* useWorkspaceData: the first request that fails decides; without an identity
\* the runs are shown beneath a request to sign in.
SettleWorkspace ==
  /\ page.kind \in WorkspaceDataPages
  /\ IF Failures = {}
     THEN page' = Settled(page, "live", User(page.call["me"]),
                          IF page.call["me"] = "value" THEN "none" ELSE "sign_in")
     ELSE \E q \in Failures : page' = Settled(page, page.data, page.user, page.call[q])

\* SettingsPage, OnboardingPage: a failure reads as signed out.
SettleIdentity ==
  /\ page.kind \in IdentityPages
  /\ page' = Settled(page, page.data, User(page.call["me"]), "none")

\* Promise.all: every request has answered, or one has failed.
Settle ==
  /\ DOMAIN page.call # {} /\ (Answers = DOMAIN page.call \/ Failures # {})
  /\ SettleList \/ SettleRuns \/ SettleWorkspace \/ SettleIdentity
  /\ UNCHANGED <<live, rows, present, inbox, header>>

-----------------------------------------------------------------------------
(* What each page then shows: of which rows, of whom, and which notices. *)

Instead(notice) == IF page.error # "none" THEN {"error"}
                   ELSE IF page.loading THEN {"loading"} ELSE {notice}

ShowsProviders == Instead(page.data)

ShowsChange == IF page.loading THEN {"loading"}
               ELSE IF page.error # "none" \/ page.data = "empty" THEN {"error"}
               ELSE {page.data}

\* DashboardSummary counts the runs at all times.
ShowsRuns == {page.data} \cup Instead("table")

\* The error stands above metrics and panels that are shown all the same.
ShowsOverview == {page.data, page.user} \cup
                 (IF page.error # "none" THEN {"error"} ELSE {}) \cup
                 (IF page.loading THEN {"loading"} ELSE {"panels"})

ShowsRepositories == Instead(page.user)

ShowsIntegrations == {page.user} \cup Instead("connected")

ShowsSettings == IF page.loading THEN {"loading"}
                 ELSE IF page.user = "none" THEN {"sign in"} ELSE {page.user}

ShowsOnboarding == IF page.user = "none" THEN {"sign in"} ELSE {page.user}

Shows == CASE page.kind = "providers"    -> ShowsProviders
           [] page.kind = "change"       -> ShowsChange
           [] page.kind = "runs"         -> ShowsRuns
           [] page.kind = "overview"     -> ShowsOverview
           [] page.kind = "repositories" -> ShowsRepositories
           [] page.kind = "integrations" -> ShowsIntegrations
           [] page.kind = "settings"     -> ShowsSettings
           [] page.kind = "onboarding"   -> ShowsOnboarding

-----------------------------------------------------------------------------
(* AppHeader *)

ClosedHeader == [user |-> "none", me |-> "idle", api |-> "none"]
OpenHeader == [ user |-> "none", me |-> IF live THEN "sent" ELSE "idle",
                api |-> IF live THEN "checking" ELSE "preview" ]

HeaderHearsUser ==
  /\ header.me = "sent"
  /\ \E r \in Responses :
       header' = [header EXCEPT !.user = User(FetchMe(r)), !.me = "idle"]
  /\ UNCHANGED <<live, rows, present, inbox, page>>

HeaderHearsApi ==
  /\ header.api = "checking"
  /\ \E r \in Responses, capable \in BOOLEAN :
       header' = [header EXCEPT !.api = CheckApiConnection(r, capable)]
  /\ UNCHANGED <<live, rows, present, inbox, page>>

-----------------------------------------------------------------------------
WorkspaceNext ==
  \/ \E r \in 1..MaxRows : RowCreated(r)
  \/ ServeInbox \/ ArriveInbox \/ LoadMore
  \/ \E q \in {"list", "me"} : ServePage(q)
  \/ Settle
  \/ HeaderHearsUser \/ HeaderHearsApi

-----------------------------------------------------------------------------
(* Properties *)

\* Every variable of these pages holds what their code can put there.
WorkspaceTypeOK ==
  /\ live \in BOOLEAN
  /\ rows \subseteq 1..MaxRows /\ present \subseteq rows
  /\ inbox.listed \in Seq(0..MaxRows) /\ inbox.cursor \in 0..MaxRows
  /\ inbox.error \in Errors \cup {"none"}
  /\ inbox.call \in {"idle", "sent", "value"} \cup Errors
  /\ page.kind \in LoadOncePages \cup {"none"}
  /\ page.data \in {"empty", "demo", "live"} /\ page.user \in {"none", "preview", "user"}
  /\ page.error \in Errors \cup {"none"}
  /\ \A q \in DOMAIN page.call : page.call[q] \in {"idle", "sent"} \cup Results
  /\ header.user \in {"none", "user"}
  /\ header.api \in {"none", "preview", "checking", "connected", "upgrade-required",
                     "unavailable"}

\* However the list grows between two of its pages, the inbox lists no migration
\* twice and, once there is nothing more to load, every one that was there when
\* it opened.
PagesListEachOnce ==
  live => /\ \A i, j \in DOMAIN inbox.listed :
               inbox.listed[i] = inbox.listed[j] => i = j
          /\ ListShown /\ inbox.cursor = 0 /\ inbox.call = "idle"
               => present \subseteq {inbox.listed[i] : i \in DOMAIN inbox.listed}

\* "failed authenticated requests stay visible as errors and are never replaced
\* with preview data" (LOCAL_DEVELOPMENT.md): a page of the live build that has
\* heard everything shows live data of a signed-in user, or says so; it shows no
\* demonstration data, and no connection without an identity.
LiveFailuresStayVisible ==
  live /\ page.kind # "none" /\ ~page.loading =>
    LET shown == Shows
    IN  /\ shown \cap {"demo", "preview"} = {}
        /\ shown \cap {"error", "sign in"} = {} =>
             /\ page.data = "live" \/ page.kind \in IdentityPages
             /\ "me" \in DOMAIN page.call => page.user = "user"
        /\ "connected" \in shown => page.user = "user"

=============================================================================
