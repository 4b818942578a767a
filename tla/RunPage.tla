------------------------------ MODULE RunPage ------------------------------
(***************************************************************************)
(* The page of one comparison run: RunDetailPage in app/DeltaCodeApp.tsx,   *)
(* open in several browser tabs, with the routes and the task it follows    *)
(* (app/main.py, app/tasks.py).                                             *)
(*                                                                          *)
(* Nothing orders the writers of the runs row: the task writes what it has  *)
(* when it has it, a retry resets the row whatever its status and queues    *)
(* another task.  Jobs are numbered in the order they are queued; a verdict *)
(* is known by the job that wrote it.                                       *)
(***************************************************************************)
EXTENDS ApiClient, Integers, FiniteSets

CONSTANTS Tabs,     \* pages open on the run
          MaxJobs   \* bound: comparison jobs of the run

ASSUME MaxJobsAssumption == MaxJobs \in Nat \ {0}

VARIABLES run,        \* the runs row: its status, and the job of its verdict
          jobs,       \* run_comparison jobs in the queue, by number
          overlapped, \* a retry was committed before earlier work had ended
          tab         \* the state of each page

runVars == <<live, run, jobs, overlapped, tab>>

-----------------------------------------------------------------------------
JobIds  == 1..MaxJobs
Ongoing == {"pending", "running"}
Ended   == {"done", "failed"}

RunRow(status, by) == [status |-> status, by |-> by]
RunRows == [status : Ongoing \cup Ended, by : 0..MaxJobs]
NoRun   == RunRow("null", 0)

\* What fetchRun is doing: nothing, or one request; the 3.5 s the page waits
\* before it asks again are part of the time the request takes.
Fetching == [pc |-> "sent", run |-> NoRun]
Stopped  == [pc |-> "idle", run |-> NoRun]

Queued     == {j \in JobIds : jobs[j] # "absent"}
Unfinished == {j \in JobIds : jobs[j] \in {"todo", "running"}}

\* A page opened on a number fetches the run; on anything else the effect
\* returns at once.  A preview shows a demonstration run, or none.
OpenTab ==
  { [ shown |-> NoRun, loading |-> TRUE, error |-> FALSE, fetch |-> f,
      retry |-> "idle", job |-> 0, asked |-> 0 ] : f \in {Fetching, Stopped} }
DemoTab ==
  { [ shown |-> r, loading |-> FALSE, error |-> FALSE, fetch |-> Stopped,
      retry |-> "idle", job |-> 0, asked |-> 0 ] :
      r \in {NoRun} \cup {RunRow(s, 0) : s \in {"pending", "running", "done"}} }

\* create_run and the webhook commit the row, then defer its job; a defer that
\* fails leaves what a job that dies in the queue leaves.
RunInit ==
  /\ run = RunRow("pending", 0)
  /\ jobs = [j \in JobIds |-> IF j = 1 THEN "todo" ELSE "absent"]
  /\ overlapped = FALSE
  /\ \E opened \in IF live THEN OpenTab ELSE DemoTab : tab = [t \in Tabs |-> opened]

-----------------------------------------------------------------------------
(* run_comparison *)

JobStarts(j) ==
  /\ live /\ jobs[j] = "todo"
  /\ jobs' = [jobs EXCEPT ![j] = "running"]
  /\ run' = RunRow("running", 0)
  /\ UNCHANGED <<live, overlapped, tab>>

JobEnds(j) ==
  /\ jobs[j] = "running"
  /\ jobs' = [jobs EXCEPT ![j] = "ended"]
  /\ \E s \in Ended : run' = RunRow(s, j)
  /\ UNCHANGED <<live, overlapped, tab>>

\* The worker process dies, or a status update raises outside the task's try.
JobDies(j) ==
  /\ live /\ j \in Unfinished
  /\ jobs' = [jobs EXCEPT ![j] = "ended"]
  /\ UNCHANGED <<live, run, overlapped, tab>>

-----------------------------------------------------------------------------
(* Following the run *)

ServeFetch(t) ==
  /\ tab[t].fetch = Fetching
  /\ \E result \in {FetchRun(r) : r \in Responses} :
       tab' = [tab EXCEPT ![t].fetch =
                 IF result = "value" THEN [pc |-> "answered", run |-> run]
                                     ELSE [pc |-> "failed", run |-> NoRun]]
  /\ UNCHANGED <<live, run, jobs, overlapped>>

OnlyPending(row) == IF row.status = "pending" THEN Fetching ELSE Stopped     \* mutant
AfterFetch(row)  == IF row.status \in Ongoing THEN Fetching ELSE Stopped

\* An error ends the chain of timers for good.
ArriveFetch(t) ==
  /\ \/ /\ tab[t].fetch.pc = "answered"
        /\ tab' = [tab EXCEPT ![t].shown = tab[t].fetch.run,
                              ![t].error = FALSE, ![t].loading = FALSE,
                              ![t].fetch = AfterFetch(tab[t].fetch.run)]
     \/ /\ tab[t].fetch.pc = "failed"
        /\ tab' = [tab EXCEPT ![t].error = TRUE, ![t].loading = FALSE,
                              ![t].fetch = Stopped]
  /\ UNCHANGED <<live, run, jobs, overlapped>>

-----------------------------------------------------------------------------
(* Retrying it *)

Rendered(t) == ~tab[t].loading /\ ~tab[t].error /\ tab[t].shown # NoRun

\* The verdict card; RunState in its place while the run goes on.
ShowsVerdict(t)  == Rendered(t) /\ tab[t].shown.status \in Ended
ShowsProgress(t) == Rendered(t) /\ tab[t].shown.status \in Ongoing

\* handleRetry
ClickRetry(t) ==
  /\ live /\ Rendered(t)
  /\ tab[t].retry = "idle" /\ tab[t].shown.status \notin Ongoing
  /\ tab' = [tab EXCEPT ![t].retry = "sent"]
  /\ UNCHANGED <<live, run, jobs, overlapped>>

KeepsResult == run                                                        \* mutant
Reset == RunRow("pending", 0)

\* retry_run commits the reset without looking at the status...
CommitRetry(t) ==
  /\ tab[t].retry = "sent"
  /\ run' = Reset
  /\ overlapped' = (\/ overlapped \/ Unfinished # {}
                    \/ \E u \in Tabs : tab[u].retry = "committed")
  /\ tab' = [tab EXCEPT ![t].retry = "committed"]
  /\ UNCHANGED <<live, jobs>>

\* ...then defers the job and answers; the defer, or the answer, may fail.
DeferRetry(t) ==
  /\ tab[t].retry = "committed"
  /\ \/ \E j \in JobIds \ Queued :
          /\ \A i \in JobIds \ Queued : j <= i
          /\ jobs' = [jobs EXCEPT ![j] = "todo"]
          /\ tab' \in { [tab EXCEPT ![t].retry = "accepted", ![t].job = j],
                        [tab EXCEPT ![t].retry = "refused"] }
     \/ tab' = [tab EXCEPT ![t].retry = "refused"] /\ UNCHANGED jobs
  /\ UNCHANGED <<live, run, overlapped>>

\* 401, 404 or a lost request: nothing was written.
RefuseRetry(t) ==
  /\ tab[t].retry = "sent"
  /\ tab' = [tab EXCEPT ![t].retry = "refused"]
  /\ UNCHANGED <<live, run, jobs, overlapped>>

\* Success shows the run as pending and starts the effect over; what the former
\* one still had in flight is aborted.
ArriveRetry(t) ==
  /\ \/ /\ tab[t].retry = "accepted"
        /\ tab' = [tab EXCEPT ![t].retry = "idle", ![t].asked = tab[t].job, ![t].job = 0,
                              ![t].shown = RunRow("pending", 0),
                              ![t].fetch = Fetching]
     \/ /\ tab[t].retry = "refused"
        /\ tab' = [tab EXCEPT ![t].retry = "idle"]
  /\ UNCHANGED <<live, run, jobs, overlapped>>

-----------------------------------------------------------------------------
RunNext ==
  \/ \E j \in JobIds : JobStarts(j) \/ JobEnds(j) \/ JobDies(j)
  \/ \E t \in Tabs : \/ ServeFetch(t) \/ ArriveFetch(t)
                     \/ ClickRetry(t) \/ CommitRetry(t) \/ DeferRetry(t)
                     \/ RefuseRetry(t) \/ ArriveRetry(t)

\* Workers take the jobs of the queue and end them; requests and timers end.
RunFairness ==
  /\ \A j \in JobIds : WF_runVars(JobStarts(j) \/ JobEnds(j))
  /\ \A t \in Tabs : /\ WF_runVars(ServeFetch(t) \/ ArriveFetch(t))
                     /\ WF_runVars(DeferRetry(t))

-----------------------------------------------------------------------------
(* Properties *)

\* Every variable of the page holds what its code can put there.
RunTypeOK ==
  /\ live \in BOOLEAN /\ overlapped \in BOOLEAN
  /\ run \in RunRows
  /\ jobs \in [JobIds -> {"absent", "todo", "running", "ended"}]
  /\ tab \in [Tabs -> [ shown : RunRows \cup {NoRun}, loading : BOOLEAN,
                        error : BOOLEAN,
                        fetch : [ pc : {"idle", "sent", "answered", "failed"},
                                  run : RunRows \cup {NoRun} ],
                        retry : {"idle", "sent", "committed", "accepted", "refused"},
                        job : 0..MaxJobs, asked : 0..MaxJobs ]]

\* The verdict a page shows is never older than the retry its developer was
\* told had been accepted, whatever the order in which jobs, timers, fetches
\* and other tabs' retries fall, as long as no retry was committed over
\* unfinished work (retry_run does not prevent that).
VerdictIsOfTheLastRetry ==
  ~overlapped => \A t \in Tabs : ShowsVerdict(t) => tab[t].shown.by >= tab[t].asked

\* "This page refreshes automatically" (RunState): a page that shows its run
\* as pending or running comes to show the verdict, or that the run cannot be
\* loaded, unless the run has lost its job.
Orphaned   == /\ run.status \in Ongoing /\ Unfinished = {}
              /\ \A t \in Tabs : tab[t].retry # "committed"
PendingRunIsFollowed ==
  \A t \in Tabs : live /\ ShowsProgress(t) ~> (~ShowsProgress(t) \/ Orphaned)

=============================================================================
