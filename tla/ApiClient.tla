----------------------------- MODULE ApiClient -----------------------------
(***************************************************************************)
(* How the browser reads the API: app/lib/data.ts and app/lib/migrations.ts.*)
(* Each fetch function turns an HTTP response into a value or an error; the *)
(* pages only ever see the result.                                          *)
(***************************************************************************)

VARIABLE live   \* liveApiUrl is set; fixed when the frontend is built

\* How a request can end: the classes of status code the functions tell apart,
\* a body that is no JSON, and a fetch that rejects.
Responses == {"ok", "unauthorized", "not_found", "refused", "garbled", "unreachable"}

Results == {"value", "null", "sign_in", "upgrade", "failed"}
Errors  == {"sign_in", "upgrade", "failed"}

\* readJson; fetchRuns, fetchRun and retryRun spell the same cases out.
ReadJson(r) == CASE r = "ok"           -> "value"
                 [] r = "unauthorized" -> "sign_in"
                 [] OTHER              -> "failed"

FetchRuns(r)      == ReadJson(r)
FetchRun(r)       == ReadJson(r)
RetryRun(r)       == ReadJson(r)
FetchMigration(r) == ReadJson(r)
FetchChange(r)    == ReadJson(r)

\* An API without these routes is told from one that lacks the row.
FetchMigrations(r) == IF r = "not_found" THEN "upgrade" ELSE ReadJson(r)
FetchProviders(r)  == IF r = "not_found" THEN "upgrade" ELSE ReadJson(r)

\* No publication yet is an answer.
FetchPublication(r) == IF r = "not_found" THEN "null" ELSE ReadJson(r)

\* Every response that is not ok reads as signed out; only a rejected fetch, or
\* a body that is no JSON, throws.
FetchMe(r) == CASE r = "ok"                          -> "value"
                [] r \in {"garbled", "unreachable"}  -> "failed"
                [] OTHER                             -> "null"

\* checkApiConnection; capable: the body lists migrations and providers.  A
\* rejected fetch is caught by its caller, which shows the same word.
CheckApiConnection(r, capable) ==
  IF r # "ok" THEN "unavailable"
  ELSE IF capable THEN "connected" ELSE "upgrade-required"

=============================================================================
