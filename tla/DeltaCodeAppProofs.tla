------------------------- MODULE DeltaCodeAppProofs -------------------------
(***************************************************************************)
(* The types of the frontend and the safety of its pages, for any number   *)
(* of reads in flight, versions, tabs, jobs and migrations and pages of    *)
(* any size: the pages that command (of a run, of a migration), the pages  *)
(* that load once, and the inbox, which reads one page after another.      *)
(***************************************************************************)
EXTENDS DeltaCodeApp, TLAPS, WellFoundedInduction

-----------------------------------------------------------------------------
(* The run pages *)

\* The invariant.  As long as no retry overlaps earlier work the jobs of a run
\* follow one another, so only the last one queued can still write the row.
FetchStates == [pc : {"idle", "sent", "answered", "failed"}, run : RunRows \cup {NoRun}]
TabStates == [ shown : RunRows \cup {NoRun}, loading : BOOLEAN, error : BOOLEAN,
               fetch : FetchStates,
               retry : {"idle", "sent", "committed", "accepted", "refused"},
               job : 0..MaxJobs, asked : 0..MaxJobs ]

RunTypes ==
  /\ overlapped \in BOOLEAN
  /\ run \in RunRows
  /\ jobs \in [JobIds -> {"absent", "todo", "running", "ended"}]
  /\ tab \in [Tabs -> TabStates]

\* Jobs are queued in the order of their numbers, and a retry knows only jobs
\* that were queued.
JobsInOrder ==
  /\ \A i \in Queued : \A k \in JobIds : k <= i => k \in Queued
  /\ \A t \in Tabs : {tab[t].job, tab[t].asked} \subseteq Queued \cup {0}

OneWriter ==
  ~overlapped =>
    /\ \A i \in Unfinished, k \in Queued : k <= i
    /\ \A t, u \in Tabs : tab[t].retry = "committed" /\ tab[u].retry = "committed" => t = u
    /\ \A t \in Tabs : tab[t].retry = "committed" =>
                         Unfinished = {} /\ run.status \in Ongoing

\* A verdict, in the row, on its way to a page or on a page, is not older than
\* the last job that was queued when it was read.
TabIsCurrent(w) ==
  /\ w.fetch.pc = "answered" /\ w.fetch.run.status \in Ended => w.fetch.run.by >= w.asked
  /\ w.shown.status \in Ended => w.shown.by >= w.asked

VerdictsAreLast ==
  ~overlapped =>
    /\ run.status \in Ended => \A k \in Queued : k <= run.by
    /\ \A t \in Tabs : TabIsCurrent(tab[t])

RunInv == RunTypes /\ JobsInOrder /\ OneWriter /\ VerdictsAreLast


LEMMA RowsAreRows ==
  /\ NoRun \notin RunRows /\ NoRun.status \notin Ended
  /\ \A s \in Ongoing \cup Ended, j \in 0..MaxJobs :
       RunRow(s, j) \in RunRows /\ RunRow(s, j).status = s /\ RunRow(s, j).by = j
  /\ \A r \in RunRows : r.by \in 0..MaxJobs
  /\ Ongoing \cap Ended = {}
  BY MaxJobsAssumption DEF NoRun, RunRow, RunRows, Ongoing, Ended

\* A step of one page that neither writes the row nor commits a retry.
LEMMA TabKeepsInv ==
  ASSUME RunInv, NEW t \in Tabs, NEW w \in TabStates,
         tab' = [tab EXCEPT ![t] = w], UNCHANGED <<run, jobs, overlapped>>,
         {w.job, w.asked} \subseteq Queued \cup {0},
         w.retry = "committed" => tab[t].retry = "committed",
         ~overlapped => TabIsCurrent(w)
  PROVE  RunInv'
<1>1. /\ tab' \in [Tabs -> TabStates] /\ tab'[t] = w
      /\ \A u \in Tabs \ {t} : tab'[u] = tab[u]
  BY DEF RunInv, RunTypes
<1>2. Queued' = Queued /\ Unfinished' = Unfinished  BY DEF Queued, Unfinished
<1>3. RunTypes'  BY <1>1 DEF RunInv, RunTypes
<1>4. JobsInOrder'
  <2>1. \A u \in Tabs : {tab'[u].job, tab'[u].asked} \subseteq Queued \cup {0}
    BY <1>1 DEF RunInv, JobsInOrder
  <2> QED  BY <1>2, <2>1 DEF RunInv, JobsInOrder
<1>5. OneWriter'
  <2>1. \A u \in Tabs : tab'[u].retry = "committed" => tab[u].retry = "committed"
    BY <1>1
  <2> QED  BY <1>2, <2>1 DEF RunInv, OneWriter
<1>6. VerdictsAreLast'
  <2>1. ~overlapped => \A u \in Tabs : TabIsCurrent(tab'[u])
    BY <1>1 DEF RunInv, VerdictsAreLast
  <2>2. \A u \in Tabs : TabIsCurrent(tab[u])' <=> TabIsCurrent(tab'[u])  BY DEF TabIsCurrent
  <2> QED  BY <1>2, <2>1, <2>2 DEF RunInv, VerdictsAreLast
<1> QED  BY <1>3, <1>4, <1>5, <1>6 DEF RunInv

LEMMA ServeFetchKeepsInv ==
  ASSUME RunInv, NEW t \in Tabs, ServeFetch(t)
  PROVE  RunInv'
<1>1. PICK fetch \in {[pc |-> "answered", run |-> run], [pc |-> "failed", run |-> NoRun]} :
        tab' = [tab EXCEPT ![t].fetch = fetch]
  BY DEF ServeFetch
<1> DEFINE w == [tab[t] EXCEPT !.fetch = fetch]
<1>2. tab[t] \in TabStates /\ run \in RunRows  BY DEF RunInv, RunTypes
<1>3. fetch \in FetchStates  BY <1>1, <1>2 DEF FetchStates
<1>4. /\ w \in TabStates /\ w.fetch = fetch /\ w.shown = tab[t].shown /\ w.job = tab[t].job
      /\ w.asked = tab[t].asked /\ w.retry = tab[t].retry
  BY <1>2, <1>3 DEF TabStates
<1>5. tab' = [tab EXCEPT ![t] = w] /\ UNCHANGED <<run, jobs, overlapped>>
  BY <1>1 DEF ServeFetch, RunInv, RunTypes
<1> HIDE DEF w
<1>6. ~overlapped => TabIsCurrent(w)
  <2> SUFFICES ASSUME ~overlapped PROVE TabIsCurrent(w)  OBVIOUS
  <2>1. TabIsCurrent(tab[t]) /\ (run.status \in Ended => \A k \in Queued : k <= run.by)
    BY DEF RunInv, VerdictsAreLast
  <2>2. tab[t].asked \in Queued \cup {0} /\ run.by \in 0..MaxJobs
    BY <1>2, RowsAreRows DEF RunInv, JobsInOrder
  <2>3. CASE fetch = [pc |-> "answered", run |-> run]
    BY <1>4, <2>1, <2>2, <2>3, MaxJobsAssumption DEF TabIsCurrent, Queued, JobIds
  <2>4. CASE fetch = [pc |-> "failed", run |-> NoRun]  BY <1>4, <2>1, <2>4 DEF TabIsCurrent
  <2> QED  BY <1>1, <2>3, <2>4
<1>7. {w.job, w.asked} \subseteq Queued \cup {0}  BY <1>4 DEF RunInv, JobsInOrder
<1> QED  BY <1>4, <1>5, <1>6, <1>7, TabKeepsInv

LEMMA ArriveFetchKeepsInv ==
  ASSUME RunInv, NEW t \in Tabs, ArriveFetch(t)
  PROVE  RunInv'
<1>1. tab[t] \in TabStates /\ tab[t].fetch.run \in RunRows \cup {NoRun}
  BY DEF RunInv, RunTypes, TabStates, FetchStates
<1>2. {Fetching, Stopped} \subseteq FetchStates /\ Fetching.pc = "sent" /\ Stopped.pc = "idle"
  BY DEF Fetching, Stopped, FetchStates
<1>3. UNCHANGED <<run, jobs, overlapped>>  BY DEF ArriveFetch
<1>4. CASE tab[t].fetch.pc = "answered"
  <2> DEFINE next == AfterFetch(tab[t].fetch.run)
             w == [tab[t] EXCEPT !.shown = tab[t].fetch.run, !.error = FALSE,
                                 !.loading = FALSE, !.fetch = next]
  <2>1. tab' = [tab EXCEPT ![t].shown = tab[t].fetch.run, ![t].error = FALSE,
                           ![t].loading = FALSE, ![t].fetch = next]
    BY <1>4 DEF ArriveFetch
  <2>2. next \in {Fetching, Stopped}  BY DEF AfterFetch
  <2> HIDE DEF next
  <2>3. /\ w \in TabStates /\ w.fetch = next /\ w.shown = tab[t].fetch.run
        /\ w.job = tab[t].job /\ w.asked = tab[t].asked /\ w.retry = tab[t].retry
    BY <1>1, <1>2, <2>2 DEF TabStates
  <2>4. tab' = [tab EXCEPT ![t] = w]  BY <2>1 DEF RunInv, RunTypes
  <2> HIDE DEF w
  <2>5. ~overlapped => TabIsCurrent(w)
    BY <1>2, <1>4, <2>2, <2>3 DEF TabIsCurrent, RunInv, VerdictsAreLast
  <2>6. {w.job, w.asked} \subseteq Queued \cup {0}  BY <2>3 DEF RunInv, JobsInOrder
  <2> QED  BY <1>3, <2>3, <2>4, <2>5, <2>6, TabKeepsInv
<1>5. CASE tab[t].fetch.pc = "failed"
  <2> DEFINE w == [tab[t] EXCEPT !.error = TRUE, !.loading = FALSE, !.fetch = Stopped]
  <2>1. tab' = [tab EXCEPT ![t].error = TRUE, ![t].loading = FALSE, ![t].fetch = Stopped]
    BY <1>5 DEF ArriveFetch
  <2>2. /\ w \in TabStates /\ w.fetch = Stopped /\ w.shown = tab[t].shown
        /\ w.job = tab[t].job /\ w.asked = tab[t].asked /\ w.retry = tab[t].retry
    BY <1>1, <1>2 DEF TabStates
  <2>3. tab' = [tab EXCEPT ![t] = w]  BY <2>1 DEF RunInv, RunTypes
  <2> HIDE DEF w
  <2>4. ~overlapped => TabIsCurrent(w)
    BY <1>2, <2>2 DEF TabIsCurrent, RunInv, VerdictsAreLast
  <2>5. {w.job, w.asked} \subseteq Queued \cup {0}  BY <2>2 DEF RunInv, JobsInOrder
  <2> QED  BY <1>3, <2>2, <2>3, <2>4, <2>5, TabKeepsInv
<1> QED  BY <1>4, <1>5 DEF ArriveFetch

LEMMA RetryRequestKeepsInv ==
  ASSUME RunInv, NEW t \in Tabs, ClickRetry(t) \/ RefuseRetry(t)
  PROVE  RunInv'
<1>1. tab[t] \in TabStates  BY DEF RunInv, RunTypes
<1>2. PICK retry \in {"sent", "refused"} : tab' = [tab EXCEPT ![t].retry = retry]
  BY DEF ClickRetry, RefuseRetry
<1> DEFINE w == [tab[t] EXCEPT !.retry = retry]
<1>3. /\ w \in TabStates /\ w.fetch = tab[t].fetch /\ w.shown = tab[t].shown
      /\ w.job = tab[t].job /\ w.asked = tab[t].asked /\ w.retry = retry
  BY <1>1, <1>2 DEF TabStates
<1>4. tab' = [tab EXCEPT ![t] = w] /\ UNCHANGED <<run, jobs, overlapped>>
  BY <1>2 DEF RunInv, RunTypes, ClickRetry, RefuseRetry
<1> HIDE DEF w
<1>5. ~overlapped => TabIsCurrent(w)  BY <1>3 DEF TabIsCurrent, RunInv, VerdictsAreLast
<1>6. {w.job, w.asked} \subseteq Queued \cup {0}  BY <1>3 DEF RunInv, JobsInOrder
<1> QED  BY <1>2, <1>3, <1>4, <1>5, <1>6, TabKeepsInv

LEMMA ArriveRetryKeepsInv ==
  ASSUME RunInv, NEW t \in Tabs, ArriveRetry(t)
  PROVE  RunInv'
<1>1. tab[t] \in TabStates /\ {tab[t].job, tab[t].asked} \subseteq Queued \cup {0}
  BY DEF RunInv, RunTypes, JobsInOrder
<1>2. UNCHANGED <<run, jobs, overlapped>>  BY DEF ArriveRetry
<1>3. CASE tab[t].retry = "accepted"
  <2> DEFINE w == [tab[t] EXCEPT !.retry = "idle", !.asked = tab[t].job, !.job = 0,
                                 !.shown = RunRow("pending", 0), !.fetch = Fetching]
  <2>1. tab' = [tab EXCEPT ![t].retry = "idle", ![t].asked = tab[t].job, ![t].job = 0,
                           ![t].shown = RunRow("pending", 0), ![t].fetch = Fetching]
    BY <1>3 DEF ArriveRetry
  <2>2. RunRow("pending", 0) \in RunRows /\ RunRow("pending", 0).status \notin Ended
        /\ Fetching \in FetchStates /\ Fetching.pc = "sent" /\ 0 \in 0..MaxJobs
    BY MaxJobsAssumption DEF RunRow, RunRows, Ongoing, Ended, Fetching, FetchStates
  <2>3. /\ w \in TabStates /\ w.fetch = Fetching /\ w.shown = RunRow("pending", 0)
        /\ w.job = 0 /\ w.asked = tab[t].job /\ w.retry = "idle"
    BY <1>1, <2>2 DEF TabStates
  <2>4. tab' = [tab EXCEPT ![t] = w]  BY <2>1 DEF RunInv, RunTypes
  <2> HIDE DEF w
  <2>5. TabIsCurrent(w)  BY <2>2, <2>3 DEF TabIsCurrent
  <2> QED  BY <1>1, <1>2, <2>3, <2>4, <2>5, TabKeepsInv
<1>4. CASE tab[t].retry = "refused"
  <2> DEFINE w == [tab[t] EXCEPT !.retry = "idle"]
  <2>1. tab' = [tab EXCEPT ![t].retry = "idle"]  BY <1>4 DEF ArriveRetry
  <2>2. /\ w \in TabStates /\ w.fetch = tab[t].fetch /\ w.shown = tab[t].shown
        /\ w.job = tab[t].job /\ w.asked = tab[t].asked /\ w.retry = "idle"
    BY <1>1 DEF TabStates
  <2>3. tab' = [tab EXCEPT ![t] = w]  BY <2>1 DEF RunInv, RunTypes
  <2> HIDE DEF w
  <2>4. ~overlapped => TabIsCurrent(w)  BY <2>2 DEF TabIsCurrent, RunInv, VerdictsAreLast
  <2> QED  BY <1>1, <1>2, <2>2, <2>3, <2>4, TabKeepsInv
<1> QED  BY <1>3, <1>4 DEF ArriveRetry

\* The task: only the last job queued is unfinished, unless retries overlapped.
LEMMA JobKeepsInv ==
  ASSUME RunInv, NEW j \in JobIds, JobStarts(j) \/ JobEnds(j) \/ JobDies(j)
  PROVE  RunInv'
<1>1. PICK to \in {"running", "ended"} :
        /\ jobs' = [jobs EXCEPT ![j] = to]
        /\ \/ run' = run
           \/ run' = RunRow("running", 0)
           \/ \E s \in Ended : run' = RunRow(s, j)
  BY DEF JobStarts, JobEnds, JobDies
<1>2. j \in Unfinished /\ j \in Queued /\ UNCHANGED <<overlapped, tab>>
  BY DEF JobStarts, JobEnds, JobDies, Unfinished, Queued
<1>3. /\ jobs' \in [JobIds -> {"absent", "todo", "running", "ended"}]
      /\ Queued' = Queued /\ Unfinished' \subseteq Unfinished
  BY <1>1, <1>2 DEF RunInv, RunTypes, Queued, Unfinished
<1>4. j \in 1..MaxJobs /\ j \in 0..MaxJobs  BY MaxJobsAssumption DEF JobIds
<1>5. run' \in RunRows
  <2>1. CASE run' = run  BY <2>1 DEF RunInv, RunTypes
  <2>2. CASE run' = RunRow("running", 0)
    BY <2>2, RowsAreRows, MaxJobsAssumption DEF Ongoing
  <2>3. CASE \E s \in Ended : run' = RunRow(s, j)  BY <2>3, <1>4, RowsAreRows
  <2> QED  BY <1>1, <2>1, <2>2, <2>3
<1>6. RunTypes'  BY <1>2, <1>3, <1>5 DEF RunInv, RunTypes
<1>7. JobsInOrder'  BY <1>2, <1>3 DEF RunInv, JobsInOrder
<1>8. OneWriter'
  <2>1. ~overlapped => \A t \in Tabs : tab[t].retry # "committed"
    BY <1>2 DEF RunInv, OneWriter
  <2> QED  BY <1>2, <1>3, <2>1 DEF RunInv, OneWriter
<1>9. VerdictsAreLast'
  <2>1. ~overlapped => \A k \in Queued : k <= j  BY <1>2 DEF RunInv, OneWriter
  <2>2. ~overlapped /\ run'.status \in Ended => \A k \in Queued : k <= run'.by
    <3>1. CASE run' = run  BY <3>1 DEF RunInv, VerdictsAreLast
    <3>2. CASE run' = RunRow("running", 0)
      BY <3>2, RowsAreRows, MaxJobsAssumption DEF Ongoing, Ended
    <3>3. CASE \E s \in Ended : run' = RunRow(s, j)  BY <2>1, <3>3, <1>4, RowsAreRows
    <3> QED  BY <1>1, <3>1, <3>2, <3>3
  <2> QED  BY <1>2, <1>3, <2>2 DEF RunInv, VerdictsAreLast, TabIsCurrent
<1> QED  BY <1>6, <1>7, <1>8, <1>9 DEF RunInv

LEMMA CommitRetryKeepsInv ==
  ASSUME RunInv, NEW t \in Tabs, CommitRetry(t)
  PROVE  RunInv'
<1> DEFINE w == [tab[t] EXCEPT !.retry = "committed"]
<1>1. tab[t] \in TabStates  BY DEF RunInv, RunTypes
<1>2. /\ w \in TabStates /\ w.fetch = tab[t].fetch /\ w.shown = tab[t].shown
      /\ w.job = tab[t].job /\ w.asked = tab[t].asked /\ w.retry = "committed"
  BY <1>1 DEF TabStates
<1>3. tab' = [tab EXCEPT ![t] = w] /\ jobs' = jobs
  BY DEF CommitRetry, RunInv, RunTypes
<1> HIDE DEF w
<1>4. tab' \in [Tabs -> TabStates] /\ tab'[t] = w /\ \A u \in Tabs \ {t} : tab'[u] = tab[u]
  BY <1>2, <1>3 DEF RunInv, RunTypes
<1>5. run' \in RunRows /\ run'.status = "pending"
  BY RowsAreRows, MaxJobsAssumption DEF CommitRetry, Reset, Ongoing
<1>6. /\ overlapped' \in BOOLEAN
      /\ ~overlapped' => /\ ~overlapped /\ Unfinished = {}
                         /\ \A u \in Tabs : tab[u].retry # "committed"
  BY DEF CommitRetry
<1>7. Queued' = Queued /\ Unfinished' = Unfinished  BY <1>3 DEF Queued, Unfinished
<1>8. RunTypes'  BY <1>3, <1>4, <1>5, <1>6 DEF RunInv, RunTypes
<1>9. JobsInOrder'
  <2>1. \A u \in Tabs : {tab'[u].job, tab'[u].asked} \subseteq Queued \cup {0}
    BY <1>2, <1>4 DEF RunInv, JobsInOrder
  <2> QED  BY <1>7, <2>1 DEF RunInv, JobsInOrder
<1>10. OneWriter'
  <2>1. ~overlapped' => \A u \in Tabs : tab'[u].retry = "committed" => u = t
    BY <1>4, <1>6
  <2> QED  BY <1>5, <1>6, <1>7, <2>1 DEF OneWriter, Ongoing
<1>11. VerdictsAreLast'
  <2>1. ~overlapped => \A u \in Tabs : TabIsCurrent(tab'[u])
    BY <1>2, <1>4 DEF RunInv, VerdictsAreLast, TabIsCurrent
  <2> QED  BY <1>5, <1>6, <2>1 DEF VerdictsAreLast, TabIsCurrent, Ended
<1> QED  BY <1>8, <1>9, <1>10, <1>11 DEF RunInv

LEMMA DeferRetryKeepsInv ==
  ASSUME RunInv, NEW t \in Tabs, DeferRetry(t)
  PROVE  RunInv'
<1>1. tab[t] \in TabStates /\ tab[t].retry = "committed" /\ UNCHANGED <<run, overlapped>>
  BY DEF DeferRetry, RunInv, RunTypes
<1>2. CASE tab' = [tab EXCEPT ![t].retry = "refused"] /\ jobs' = jobs
  <2> DEFINE w == [tab[t] EXCEPT !.retry = "refused"]
  <2>1. /\ w \in TabStates /\ w.fetch = tab[t].fetch /\ w.shown = tab[t].shown
        /\ w.job = tab[t].job /\ w.asked = tab[t].asked /\ w.retry = "refused"
    BY <1>1 DEF TabStates
  <2>2. tab' = [tab EXCEPT ![t] = w]  BY <1>2 DEF RunInv, RunTypes
  <2> HIDE DEF w
  <2>3. ~overlapped => TabIsCurrent(w)  BY <2>1 DEF TabIsCurrent, RunInv, VerdictsAreLast
  <2>4. {w.job, w.asked} \subseteq Queued \cup {0}  BY <2>1 DEF RunInv, JobsInOrder
  <2> QED  BY <1>1, <1>2, <2>1, <2>2, <2>3, <2>4, TabKeepsInv
<1>3. ASSUME NEW j \in JobIds \ Queued, \A i \in JobIds \ Queued : j <= i,
             jobs' = [jobs EXCEPT ![j] = "todo"],
             tab' \in { [tab EXCEPT ![t].retry = "accepted", ![t].job = j],
                       [tab EXCEPT ![t].retry = "refused"] }
      PROVE  RunInv'
  <2>1. PICK retry \in {"accepted", "refused"}, job \in {j, tab[t].job} :
          tab' = [tab EXCEPT ![t] = [tab[t] EXCEPT !.retry = retry, !.job = job]]
    <3>1. CASE tab' = [tab EXCEPT ![t].retry = "accepted", ![t].job = j]
      BY <3>1 DEF RunInv, RunTypes
    <3>2. CASE tab' = [tab EXCEPT ![t].retry = "refused"]
      <4>1. [tab[t] EXCEPT !.retry = "refused"]
              = [tab[t] EXCEPT !.retry = "refused", !.job = tab[t].job]
        BY <1>1 DEF TabStates
      <4>2. tab' = [tab EXCEPT ![t] = [tab[t] EXCEPT !.retry = "refused"]]
        BY <3>2 DEF RunInv, RunTypes
      <4> QED  BY <4>1, <4>2
    <3> QED  BY <1>3, <3>1, <3>2
  <2> DEFINE w == [tab[t] EXCEPT !.retry = retry, !.job = job]
  <2>2. job \in 0..MaxJobs  BY <1>1, MaxJobsAssumption DEF TabStates, JobIds
  <2>3. /\ w \in TabStates /\ w.fetch = tab[t].fetch /\ w.shown = tab[t].shown
        /\ w.job = job /\ w.asked = tab[t].asked /\ w.retry = retry
    BY <1>1, <2>1, <2>2 DEF TabStates
  <2>4. tab' = [tab EXCEPT ![t] = w]  BY <2>1
  <2> HIDE DEF w
  <2>5. tab' \in [Tabs -> TabStates] /\ tab'[t] = w /\ \A u \in Tabs \ {t} : tab'[u] = tab[u]
    BY <2>3, <2>4 DEF RunInv, RunTypes
  <2>6. /\ jobs' \in [JobIds -> {"absent", "todo", "running", "ended"}]
        /\ Queued' = Queued \cup {j} /\ Unfinished' = Unfinished \cup {j}
    BY <1>3 DEF RunInv, RunTypes, Queued, Unfinished
  <2>7. \A k \in Queued : k < j
    <3> SUFFICES ASSUME NEW k \in Queued PROVE k < j  OBVIOUS
    <3>1. j \in JobIds /\ k \in JobIds /\ ~(j <= k)
      BY <1>3 DEF RunInv, JobsInOrder, Queued
    <3> QED  BY <3>1, MaxJobsAssumption DEF JobIds
  <2>8. RunTypes'  BY <1>1, <2>5, <2>6 DEF RunInv, RunTypes
  <2>9. JobsInOrder'
    <3>1. \A u \in Tabs : {tab'[u].job, tab'[u].asked} \subseteq Queued \cup {j} \cup {0}
      BY <2>1, <2>3, <2>5 DEF RunInv, JobsInOrder
    <3>2. ASSUME NEW k \in JobIds, k <= j PROVE k \in Queued \cup {j}
      <4>1. k \notin Queued => j <= k  BY <1>3
      <4> QED  BY <3>2, <4>1, MaxJobsAssumption DEF JobIds
    <3> QED  BY <2>6, <3>1, <3>2 DEF RunInv, JobsInOrder
  <2>10. ~overlapped => /\ Unfinished = {} /\ run.status \in Ongoing
                        /\ \A u \in Tabs : tab[u].retry = "committed" => u = t
    BY <1>1 DEF RunInv, OneWriter
  <2>11. OneWriter'
    <3>1. ~overlapped => \A u \in Tabs : tab'[u].retry # "committed"
      BY <2>1, <2>3, <2>5, <2>10
    <3>2. ~overlapped => \A i \in Unfinished \cup {j}, k \in Queued \cup {j} : k <= i
      BY <2>7, <2>10, MaxJobsAssumption DEF JobIds, Queued
    <3> QED  BY <1>1, <2>6, <3>1, <3>2 DEF OneWriter
  <2>12. VerdictsAreLast'
    <3>1. ~overlapped => \A u \in Tabs : TabIsCurrent(tab'[u])
      BY <2>3, <2>5 DEF RunInv, VerdictsAreLast, TabIsCurrent
    <3>2. ~overlapped => run.status \notin Ended  BY <2>10 DEF Ongoing, Ended
    <3> QED  BY <1>1, <3>1, <3>2 DEF VerdictsAreLast, TabIsCurrent
  <2> QED  BY <2>8, <2>9, <2>11, <2>12 DEF RunInv
<1> QED  BY <1>2, <1>3 DEF DeferRetry

LEMMA RunNextKeepsInv ==
  ASSUME RunInv, RunNext PROVE RunInv'
<1>1. ASSUME NEW j \in JobIds, JobStarts(j) \/ JobEnds(j) \/ JobDies(j) PROVE RunInv'
  BY <1>1, JobKeepsInv
<1>2. ASSUME NEW t \in Tabs, \/ ServeFetch(t) \/ ArriveFetch(t) \/ ClickRetry(t) \/ CommitRetry(t)
                            \/ DeferRetry(t) \/ RefuseRetry(t) \/ ArriveRetry(t)
      PROVE  RunInv'
  BY <1>2, ServeFetchKeepsInv, ArriveFetchKeepsInv, RetryRequestKeepsInv, CommitRetryKeepsInv,
     DeferRetryKeepsInv, ArriveRetryKeepsInv
<1> QED  BY <1>1, <1>2 DEF RunNext

LEMMA InitEstablishesRunInv ==
  ASSUME Init PROVE RunInv
<1> DEFINE Opened(r, l, f) ==
             [ shown |-> r, loading |-> l, error |-> FALSE, fetch |-> f,
               retry |-> "idle", job |-> 0, asked |-> 0 ]
           FirstRows == {NoRun} \cup {RunRow(s, 0) : s \in {"pending", "running", "done"}}
           fresh(c) == /\ c \in TabStates /\ c.retry = "idle" /\ c.job = 0 /\ c.asked = 0
                       /\ c.shown = NoRun \/ (c.shown \in RunRows /\ c.shown.by = 0)
                       /\ c.fetch.pc # "answered"
<1>0. /\ {Fetching, Stopped} \subseteq FetchStates
      /\ Fetching.pc # "answered" /\ Stopped.pc # "answered"
  BY DEF Fetching, Stopped, FetchStates
<1>1. \A c \in OpenTab \cup DemoTab : fresh(c)
  <2>1. \A r \in FirstRows : r = NoRun \/ (r \in RunRows /\ r.by = 0)
    <3>1. \A s \in {"pending", "running", "done"} : s \in Ongoing \cup Ended
      BY DEF Ongoing, Ended
    <3> QED  BY <3>1, RowsAreRows, MaxJobsAssumption
  <2>2. ASSUME NEW r \in FirstRows, NEW l \in BOOLEAN, NEW f \in {Fetching, Stopped}
        PROVE  fresh(Opened(r, l, f))
    <3>1. r \in RunRows \cup {NoRun} /\ (r = NoRun \/ (r \in RunRows /\ r.by = 0))
      BY <2>1
    <3>2. f \in FetchStates /\ f.pc # "answered" /\ 0 \in 0..MaxJobs
      BY <1>0, MaxJobsAssumption
    <3> HIDE DEF FirstRows
    <3> QED  BY <3>1, <3>2 DEF TabStates
  <2>3. \A c \in OpenTab : \E f \in {Fetching, Stopped} : c = Opened(NoRun, TRUE, f)
    BY DEF OpenTab
  <2>4. \A c \in DemoTab : \E r \in FirstRows : c = Opened(r, FALSE, Stopped)
    BY DEF DemoTab
  <2>5. NoRun \in FirstRows  OBVIOUS
  <2> HIDE DEF fresh, Opened, FirstRows
  <2> QED  BY <2>2, <2>3, <2>4, <2>5
<1>2. \E c \in DemoTab : c.shown = NoRun
  <2>1. Opened(NoRun, FALSE, Stopped).shown = NoRun  OBVIOUS
  <2>2. \A r \in FirstRows : Opened(r, FALSE, Stopped) \in DemoTab  BY DEF DemoTab
  <2>3. NoRun \in FirstRows  OBVIOUS
  <2> HIDE DEF Opened, FirstRows
  <2> QED  BY <2>1, <2>2, <2>3
<1> HIDE DEF Opened, FirstRows
<1>3. PICK c \in OpenTab \cup DemoTab : tab = [t \in Tabs |-> c]
  <2>1. CASE RunInit  BY <2>1 DEF RunInit
  <2>2. CASE RunClosed  BY <2>2, <1>2 DEF RunClosed
  <2> QED  BY <2>1, <2>2 DEF Init
<1>4. fresh(c)  BY <1>1, <1>3
<1>5. /\ run = RunRow("pending", 0) /\ overlapped = FALSE
      /\ jobs = [j \in JobIds |-> IF j = 1 THEN "todo" ELSE "absent"]
         \/ jobs = [j \in JobIds |-> "absent"]
  BY DEF Init, RunInit, RunClosed
<1>6. run \in RunRows /\ run.status \in Ongoing /\ run.status \notin Ended
  BY <1>5, MaxJobsAssumption DEF RunRow, RunRows, Ongoing, Ended
<1>7. jobs \in [JobIds -> {"absent", "todo", "running", "ended"}] /\ Queued \subseteq {1}
      /\ Unfinished \subseteq {1}
  BY <1>5 DEF Queued, Unfinished
<1>8. RunTypes  BY <1>3, <1>4, <1>5, <1>6, <1>7 DEF RunTypes
<1>9. JobsInOrder
  BY <1>3, <1>4, <1>7, MaxJobsAssumption DEF JobsInOrder, JobIds
<1>10. OneWriter  BY <1>3, <1>4, <1>7 DEF OneWriter
<1>11. VerdictsAreLast
  BY <1>3, <1>4, <1>6, RowsAreRows, MaxJobsAssumption DEF VerdictsAreLast, TabIsCurrent
<1> QED  BY <1>8, <1>9, <1>10, <1>11 DEF RunInv


LEMMA NextKeepsRunInv ==
  ASSUME RunInv, [Next]_vars PROVE RunInv'
<1>1. CASE route = "run" /\ RunNext  BY <1>1, RunNextKeepsInv
<1>2. CASE UNCHANGED <<run, jobs, overlapped, tab>>
  BY <1>2 DEF RunInv, RunTypes, JobsInOrder, OneWriter, VerdictsAreLast, TabIsCurrent,
       Queued, Unfinished
<1> QED  BY <1>1, <1>2 DEF Next, vars

\* The verdict a page shows is not older than the retry it was told had been
\* accepted (retry_run, run_comparison and RunDetailPage), for any number of
\* tabs and jobs, as long as no retry is committed over unfinished work.
THEOREM PageShowsTheLastVerdict == Spec => []VerdictIsOfTheLastRetry
<1>1. RunInv => VerdictIsOfTheLastRetry
  BY DEF RunInv, VerdictsAreLast, TabIsCurrent, VerdictIsOfTheLastRetry, ShowsVerdict
<1> QED  BY <1>1, InitEstablishesRunInv, NextKeepsRunInv, PTL DEF Spec

-----------------------------------------------------------------------------
(* The migration page *)

Calls == {NoCall, Sent, Failed} \cup {Answered(row) : row \in Rows}
Commands == [ pc : {"idle", "sent", "accepted", "refused"}, op : Operations \cup {"none"},
              shown : Rows \cup {NoRow}, reply : Rows \cup {NoRow} ]

PageTypes ==
  /\ live \in BOOLEAN /\ loading \in BOOLEAN /\ error \in BOOLEAN
  /\ server \in Rows /\ view \in Rows \cup {NoRow}
  /\ load \in Calls /\ details \in {NoCall, Sent} /\ poll \in [Polls -> Calls]
  /\ pending \in Forms \cup {"none"} /\ command \in Commands

\* What the page allowed the developer to ask for when it showed v.
Permitted(v) == Buttons(v) \cup (IF CanDecide(v) THEN Forms ELSE {})

\* Nothing moves the page under the developer: a form is open, or a request
\* out, only over a row that no timer reads, after the load has ended.
PageIsStill ==
  /\ load # NoCall \/ details # NoCall => live /\ loading
  /\ load = NoCall \/ details = NoCall
  /\ loading => pending = "none" /\ command.pc = "idle"
  /\ pending # "none" => CanDecide(view)
  /\ \A p \in Polls : poll[p] # NoCall => live /\ Polled(view)
  /\ command.pc # "idle" => live /\ command.shown = view /\ command.op \in Permitted(view)

\* A row that was read is the row, or older than the row.
Read(row) == row.version < server.version \/ row = server

\* What the page has merged may differ from the row of the same version only
\* where the answer differs from it: the status queue_publication answers with,
\* and the evidence of the attempt before.
Merged(v) == /\ v.version = server.version
             /\ \/ v.status = "queued" /\ server.status = "pr_opening"
                \/ v.status = "planning" /\ server.status = "planning"

RowsAreRead ==
  /\ server.status = "ready" => server.evidence = "publishable"
  /\ load.pc = "answered" => Read(load.row)
  /\ \A p \in Polls : poll[p].pc = "answered" => Read(poll[p].row)
  /\ live => view = NoRow \/ Read(view) \/ Merged(view)
  /\ command.pc = "accepted" => /\ command.reply = Commit(command.shown, command.op)
                                /\ Read(command.reply)

PageInv == PageTypes /\ PageIsStill /\ RowsAreRead

\* Rows and the table, in the facts the proofs below need of them.
LEMMA RowFacts ==
  /\ \A s \in MigrationStatus, n \in Nat, e \in {"none", "publishable", "other"} :
       /\ Row(s, n, e) \in Rows
       /\ Row(s, n, e).status = s /\ Row(s, n, e).version = n /\ Row(s, n, e).evidence = e
  /\ \A r \in Rows : r.status \in MigrationStatus /\ r.version \in Nat
                     /\ r.evidence \in {"none", "publishable", "other"}
  /\ NoRow \notin Rows /\ NoRow.status = "null"
  BY DEF Row, Rows, NoRow, MigrationStatus, MigrationTransitions

LEMMA CallFacts ==
  /\ {NoCall, Sent, Failed} \subseteq Calls
  /\ \A r \in Rows : Answered(r) \in Calls /\ Answered(r).pc = "answered"
                     /\ Answered(r).row = r
  /\ NoCall.pc = "idle" /\ Sent.pc = "sent" /\ Failed.pc = "failed"
  /\ NoCall # Sent /\ NoCall # Failed
  /\ \A c \in Calls : c.pc = "answered" => c.row \in Rows
<1>1. NoCall.pc = "idle" /\ Sent.pc = "sent" /\ Failed.pc = "failed"
  BY DEF NoCall, Sent, Failed
<1>2. \A r \in Rows : Answered(r).pc = "answered" /\ Answered(r).row = r
  BY DEF Answered
<1>3. NoCall # Sent /\ NoCall # Failed  BY <1>1
<1>4. \A c \in Calls : c \in {NoCall, Sent, Failed} \/ \E r \in Rows : c = Answered(r)
  BY DEF Calls
<1>5. \A c \in Calls : c.pc = "answered" => c.row \in Rows  BY <1>1, <1>2, <1>4
<1>6. {NoCall, Sent, Failed} \subseteq Calls /\ \A r \in Rows : Answered(r) \in Calls
  BY DEF Calls
<1> QED  BY <1>1, <1>2, <1>3, <1>5, <1>6

LEMMA StatusFacts ==
  /\ {"queued", "planning", "generating", "verifying", "ready", "needs_revision", "blocked",
      "pr_opening", "pr_opened", "snoozed", "declined", "approved"} \subseteq MigrationStatus
  /\ \A op \in Operations : TargetStatus[op] \in MigrationStatus /\ TargetStatus[op] # "ready"
  BY DEF MigrationStatus, MigrationTransitions, Operations, Decisions, TargetStatus

\* What the page permits on a row is an edge of the table from that row...
LEMMA PermittedIsAnEdge ==
  ASSUME NEW v \in Rows, NEW op \in Permitted(v)
  PROVE  op \in Operations /\ TargetStatus[op] \in MigrationTransitions[v.status]
<1>1. /\ op \in Operations
      /\ op \in {"revise", "snooze", "decline"} => v.status \in {"ready", "pr_opened"}
      /\ op = "publish" => CanPublish(v)
      /\ op = "generate" => CanGenerate(v)
      /\ op = "approve" => v.status = "pr_opened"
  BY DEF Permitted, Buttons, Forms, CanDecide, Operations, Decisions
<1>2. CASE op = "generate"
  BY <1>1, <1>2 DEF CanGenerate, TargetStatus, MigrationTransitions
<1>3. CASE op = "publish"
  BY <1>1, <1>3 DEF CanPublish, TargetStatus, MigrationTransitions
<1>4. CASE op = "approve"
  BY <1>1, <1>4 DEF TargetStatus, MigrationTransitions
<1>5. CASE op \in {"revise", "snooze", "decline"}
  BY <1>1, <1>5 DEF TargetStatus, MigrationTransitions
<1> QED  BY <1>1, <1>2, <1>3, <1>4, <1>5 DEF Operations, Decisions

\* ...and the control plane accepts it...
LEMMA PermittedIsAccepted ==
  ASSUME NEW v \in Rows, NEW op \in Permitted(v),
         v.status = "ready" => v.evidence = "publishable"
  PROVE  op \in Operations /\ Accepts(v, op, v.version)
<1>1. op = "publish" => CanPublish(v)
  BY DEF Permitted, Buttons, Forms
<1>2. op = "publish" => v.evidence = "publishable"  BY <1>1 DEF CanPublish
<1> QED  BY <1>2, PermittedIsAnEdge DEF Accepts, ValidTransition

\* ...and on what differs from the row by a merge it permits nothing the row's
\* table would accept.
LEMMA MergedIsRefused ==
  ASSUME NEW v, NEW op \in Permitted(v), Merged(v)
  PROVE  ~Accepts(server, op, v.version) /\ v.status # "planning"
<1>1. CASE v.status = "planning"
  BY <1>1 DEF Permitted, Buttons, CanDecide, CanGenerate, CanPublish
<1>2. CASE v.status = "queued" /\ server.status = "pr_opening"
  <2>1. op = "generate"
    BY <1>2 DEF Permitted, Buttons, CanDecide, CanGenerate, CanPublish
  <2> QED  BY <1>2, <2>1 DEF Accepts, ValidTransition, TargetStatus, MigrationTransitions
<1> QED  BY <1>1, <1>2 DEF Merged


\* What an operation commits is the row's next version, and no reader has it yet.
LEMMA CommitFacts ==
  ASSUME NEW row \in Rows, NEW op \in Operations
  PROVE  /\ Commit(row, op) \in Rows /\ Commit(row, op).version = row.version + 1
         /\ Commit(row, op).status = TargetStatus[op] /\ Commit(row, op).status # "ready"
         /\ Commit(row, op).evidence = IF op \in {"generate", "revise"} THEN "none"
                                       ELSE row.evidence
<1>1. /\ TargetStatus[op] \in MigrationStatus /\ TargetStatus[op] # "ready"
      /\ row.version + 1 \in Nat /\ row.evidence \in {"none", "publishable", "other"}
  BY StatusFacts, RowFacts
<1>2. (IF op \in {"generate", "revise"} THEN "none" ELSE row.evidence)
        \in {"none", "publishable", "other"}
  BY <1>1
<1> QED  BY <1>1, <1>2, RowFacts DEF Commit

\* The row moves to a later version: everything read or merged before is older.
LEMMA ServerStepKeepsInv ==
  ASSUME PageInv, server' \in Rows, server'.version > server.version,
         server'.status = "ready" => server'.evidence = "publishable",
         UNCHANGED <<live, view, loading, error, load, details, poll, pending>>,
         command' \in Commands, command'.shown = command.shown, command'.op = command.op,
         command'.pc # "idle" => command.pc # "idle",
         command'.pc = "accepted" => \/ command' = command
                                     \/ /\ command'.reply = Commit(command.shown, command.op)
                                        /\ command'.reply = server'
  PROVE  PageInv'
<1>1. PageTypes'  BY DEF PageInv, PageTypes
<1>2. PageIsStill'
  BY DEF PageInv, PageIsStill, Permitted, Polled, Buttons, CanDecide, CanGenerate, CanPublish
<1>3. \A row \in Rows : Read(row) => row.version < server'.version
  BY RowFacts DEF PageInv, PageTypes, Read
<1>4. RowsAreRead'
  <2>1. load.pc = "answered" => Read(load.row)'
    BY <1>3, CallFacts DEF PageInv, PageTypes, RowsAreRead, Read
  <2>2. \A p \in Polls : poll[p].pc = "answered" => Read(poll[p].row)'
    BY <1>3, CallFacts DEF PageInv, PageTypes, RowsAreRead, Read
  <2>3. live => view = NoRow \/ Read(view)'
    <3> SUFFICES ASSUME live, view # NoRow PROVE Read(view)'  OBVIOUS
    <3>1. view \in Rows /\ server \in Rows  BY DEF PageInv, PageTypes
    <3>2. Read(view) \/ Merged(view)  BY DEF PageInv, RowsAreRead
    <3>3. view.version < server'.version  BY <1>3, <3>1, <3>2, RowFacts DEF Merged
    <3> QED  BY <3>3 DEF Read
  <2>4. ASSUME command'.pc = "accepted"
        PROVE  command'.reply = Commit(command'.shown, command'.op) /\ Read(command.reply)'
    <3>1. CASE command' = command
      <4>1. Read(command.reply) /\ command.reply = Commit(command.shown, command.op)
        BY <2>4, <3>1 DEF PageInv, RowsAreRead
      <4>2. command.reply \in Rows
        <5>1. command.shown = view /\ command.op \in Permitted(view) /\ live
          BY <2>4, <3>1 DEF PageInv, PageIsStill
        <5>2. command.op \in Operations
          BY <5>1 DEF Permitted, Buttons, Forms, Operations, Decisions
        <5>3. view \in Rows
          BY <5>1, RowFacts DEF PageInv, PageTypes, Permitted, Buttons, CanDecide, CanGenerate,
             CanPublish
        <5> QED  BY <4>1, <5>1, <5>2, <5>3, CommitFacts
      <4> QED  BY <1>3, <3>1, <4>1, <4>2 DEF Read
    <3>2. CASE command'.reply = Commit(command.shown, command.op) /\ command'.reply = server'
      BY <3>2 DEF Read
    <3> QED  BY <2>4, <3>1, <3>2
  <2> QED  BY <2>1, <2>2, <2>3, <2>4 DEF RowsAreRead
<1> QED  BY <1>1, <1>2, <1>4 DEF PageInv

\* The row moves on its own: workers and other developers.
LEMMA OthersKeepInv ==
  ASSUME PageInv,
         \/ AttemptClaimed \/ AttemptCompleted \/ AttemptFailed
         \/ PublicationEnds \/ OtherDeveloper
  PROVE  PageInv'
<1>1. server \in Rows /\ server.version \in Nat /\ server.status \in MigrationStatus
      /\ server.evidence \in {"none", "publishable", "other"}
  BY RowFacts DEF PageInv, PageTypes
<1>2. PICK row : ServerMoves(row) /\ row \in Rows /\ row.version > server.version
                 /\ (row.status = "ready" => row.evidence = "publishable")
  <2>0. ASSUME NEW s \in {"generating", "pr_opened", "blocked"}
        PROVE  /\ Row(s, server.version + 1, server.evidence) \in Rows
               /\ Row(s, server.version + 1, server.evidence).version > server.version
               /\ Row(s, server.version + 1, server.evidence).status # "ready"
    <3>1. /\ s \in MigrationStatus /\ s # "ready" /\ server.version + 1 \in Nat
          /\ server.version + 1 > server.version
      BY <1>1, StatusFacts
    <3> QED  BY <1>1, <3>1, RowFacts
  <2>1. CASE AttemptClaimed
    <3>1. ServerMoves(Row("generating", server.version + 1, server.evidence))
      BY <2>1 DEF AttemptClaimed
    <3> QED  BY <2>0, <3>1
  <2>2. CASE AttemptCompleted
    <3>1. Evidence("approve", {"passed"}) = "publishable"  BY DEF Evidence
    <3>2. PICK to \in {"ready", "needs_revision", "blocked"} :
            ServerMoves(Row(to, server.version + 2,
                            IF to = "ready" THEN Evidence("approve", {"passed"}) ELSE "other"))
      BY <2>2 DEF AttemptCompleted
    <3> DEFINE e == IF to = "ready" THEN Evidence("approve", {"passed"}) ELSE "other"
    <3>3. e \in {"none", "publishable", "other"} /\ (to = "ready" => e = "publishable")
      BY <3>1
    <3>4. ServerMoves(Row(to, server.version + 2, e))  BY <3>2
    <3> HIDE DEF e
    <3> QED  BY <1>1, <3>3, <3>4, RowFacts, StatusFacts
  <2>3. CASE AttemptFailed
    <3>1. ServerMoves(Row("blocked", server.version + 1, server.evidence))
      BY <2>3 DEF AttemptFailed
    <3> QED  BY <2>0, <3>1
  <2>4. CASE PublicationEnds
    <3>1. PICK to \in {"pr_opened", "blocked"} :
            ServerMoves(Row(to, server.version + 1, server.evidence))
      BY <2>4 DEF PublicationEnds
    <3> QED  BY <2>0, <3>1
  <2>5. CASE OtherDeveloper
    BY <1>1, <2>5, CommitFacts DEF OtherDeveloper
  <2> QED  BY <2>1, <2>2, <2>3, <2>4, <2>5
<1>3. /\ server' = row
      /\ UNCHANGED <<live, view, loading, error, load, details, poll, pending, command>>
  BY <1>2 DEF ServerMoves
<1>4. command \in Commands  BY DEF PageInv, PageTypes
<1> QED  BY <1>2, <1>3, <1>4, ServerStepKeepsInv

\* CommitCommand is only reached with the row the developer was looking at.
LEMMA CommittedIsShown ==
  ASSUME PageInv, CommitCommand
  PROVE  /\ command.shown = server /\ command.op \in Operations
         /\ command.op \in Permitted(server)
<1>1. /\ live /\ command.shown = view /\ command.op \in Permitted(view)
      /\ Accepts(server, command.op, view.version)
  BY DEF CommitCommand, PageInv, PageIsStill
<1>2. command.op \in Operations
  BY <1>1 DEF Permitted, Buttons, Forms, Operations, Decisions
<1>3. view # NoRow
  BY <1>1, RowFacts DEF Permitted, Buttons, CanDecide, CanGenerate, CanPublish
<1>4. Read(view) \/ Merged(view)  BY <1>1, <1>3 DEF PageInv, RowsAreRead
<1>5. ~Merged(view)  BY <1>1, MergedIsRefused
<1>6. view.version = server.version  BY <1>1 DEF Accepts, ValidTransition
<1>7. view = server  BY <1>4, <1>5, <1>6, RowFacts DEF Read, PageInv, PageTypes
<1> QED  BY <1>1, <1>2, <1>7

LEMMA CommitCommandKeepsInv ==
  ASSUME PageInv, CommitCommand
  PROVE  PageInv'
<1>1. command.shown = server /\ command.op \in Operations  BY CommittedIsShown
<1>2. server \in Rows /\ command \in Commands  BY DEF PageInv, PageTypes
<1>3. /\ server' \in Rows /\ server'.version > server.version /\ server'.status # "ready"
      /\ server' = Commit(command.shown, command.op)
  BY <1>1, <1>2, CommitFacts, RowFacts DEF CommitCommand
<1>4. /\ command' \in Commands /\ command'.shown = command.shown /\ command'.op = command.op
      /\ command'.pc = "accepted" => command'.reply = server'
      /\ command.pc = "sent"
  BY <1>2, <1>3 DEF CommitCommand, Commands
<1>5. UNCHANGED <<live, view, loading, error, load, details, poll, pending>>
  BY DEF CommitCommand
<1> QED  BY <1>3, <1>4, <1>5, ServerStepKeepsInv


\* Steps that leave the row alone and show the page a row v: after a read, after
\* an answer, or the one it has.
LEMMA PageStepKeepsInv ==
  ASSUME PageInv, server' = server, live' = live, loading' \in BOOLEAN, error' \in BOOLEAN,
         view' \in Rows \cup {NoRow},
         live => view' = NoRow \/ Read(view') \/ Merged(view'),
         load' \in Calls, load'.pc = "answered" => Read(load'.row),
         details' \in {NoCall, Sent}, load' # NoCall \/ details' # NoCall => live /\ loading',
         load' = NoCall \/ details' = NoCall,
         poll' \in [Polls -> Calls],
         \A p \in Polls : /\ poll'[p].pc = "answered" => Read(poll'[p].row)
                          /\ poll'[p] # NoCall => live /\ Polled(view'),
         pending' \in Forms \cup {"none"}, pending' # "none" => CanDecide(view'),
         loading' => pending' = "none" /\ command'.pc = "idle",
         command' \in Commands,
         command'.pc # "idle" => /\ live /\ command'.shown = view'
                                 /\ command'.op \in Permitted(view'),
         command'.pc = "accepted" => command' = command
  PROVE  PageInv'
<1>1. PageTypes'  BY DEF PageInv, PageTypes
<1>2. PageIsStill'
  BY DEF PageInv, PageIsStill, Permitted, Polled, Buttons, CanDecide, CanGenerate, CanPublish
<1>3. RowsAreRead'  BY DEF PageInv, RowsAreRead, Read, Merged
<1> QED  BY <1>1, <1>2, <1>3 DEF PageInv

\* What such a step leaves alone keeps what the invariant says of it.
LEMMA AsBefore ==
  ASSUME PageInv
  PROVE  /\ live \in BOOLEAN /\ loading \in BOOLEAN /\ error \in BOOLEAN
         /\ server \in Rows /\ view \in Rows \cup {NoRow}
         /\ live => view = NoRow \/ Read(view) \/ Merged(view)
         /\ load \in Calls /\ (load.pc = "answered" => Read(load.row))
         /\ details \in {NoCall, Sent} /\ (load # NoCall \/ details # NoCall => live /\ loading)
         /\ load = NoCall \/ details = NoCall
         /\ poll \in [Polls -> Calls]
         /\ \A p \in Polls : /\ poll[p].pc = "answered" => Read(poll[p].row)
                             /\ poll[p] # NoCall => live /\ Polled(view)
         /\ pending \in Forms \cup {"none"} /\ (pending # "none" => CanDecide(view))
         /\ loading => pending = "none" /\ command.pc = "idle"
         /\ command \in Commands
         /\ command.pc # "idle" => /\ live /\ command.shown = view
                                  /\ command.op \in Permitted(view)
BY DEF PageInv, PageTypes, PageIsStill, RowsAreRead

LEMMA ServeLoadKeepsInv ==
  ASSUME PageInv, ServeLoad PROVE PageInv'
<1>1. load' \in {Answered(server), Failed}  BY DEF ServeLoad, Served
<1>2. server \in Rows  BY DEF PageInv, PageTypes
<1>3. /\ load' \in Calls /\ (load'.pc = "answered" => Read(load'.row))
      /\ load # NoCall
  BY <1>1, <1>2, CallFacts DEF Read, ServeLoad
<1>4. UNCHANGED <<live, server, view, loading, error, details, poll, pending, command>>
  BY DEF ServeLoad
<1> QED  BY <1>3, <1>4, AsBefore, PageStepKeepsInv

\* The reads in flight after a step that shows v.
LEMMA PollsAfterFacts ==
  ASSUME PageInv, NEW v
  PROVE  /\ PollsAfter(v) \in [Polls -> Calls]
         /\ \A p \in Polls : /\ PollsAfter(v)[p] \in {NoCall, poll[p]}
                             /\ PollsAfter(v)[p] # NoCall => live /\ Polled(v)
BY CallFacts DEF PollsAfter, PageInv, PageTypes, PageIsStill, Polled

LEMMA ArriveLoadKeepsInv ==
  ASSUME PageInv, ArriveLoad PROVE PageInv'
<1>1. /\ load' = NoCall /\ UNCHANGED <<live, server, pending, command>>
      /\ live /\ loading /\ details = NoCall /\ pending = "none" /\ command.pc = "idle"
  BY CallFacts DEF ArriveLoad, PageInv, PageIsStill
<1>2. CASE load.pc = "answered"
  <2>1. /\ view' = load.row /\ details' = Sent /\ poll' = PollsAfter(load.row)
        /\ UNCHANGED <<loading, error>>
    BY <1>2 DEF ArriveLoad
  <2>2. load.row \in Rows /\ Read(load.row)
    BY <1>2, CallFacts DEF PageInv, PageTypes, RowsAreRead
  <2>3. \A p \in Polls : poll'[p].pc = "answered" => Read(poll'[p].row)
    BY <2>1, PollsAfterFacts, CallFacts DEF PageInv, RowsAreRead
  <2> QED
    BY <1>1, <2>1, <2>2, <2>3, PollsAfterFacts, CallFacts, AsBefore, PageStepKeepsInv
<1>3. CASE load.pc = "failed"
  <2>1. error' = TRUE /\ loading' = FALSE /\ UNCHANGED <<view, details, poll>>
    BY <1>3 DEF ArriveLoad
  <2> QED  BY <1>1, <2>1, CallFacts, AsBefore, PageStepKeepsInv
<1> QED  BY <1>2, <1>3 DEF ArriveLoad


LEMMA ArriveDetailsKeepsInv ==
  ASSUME PageInv, ArriveDetails PROVE PageInv'
<1>1. /\ error' \in BOOLEAN /\ details' = NoCall /\ loading' = FALSE
      /\ UNCHANGED <<live, server, view, load, poll, pending, command>>
  <2>1. \A change, publication \in Responses : DetailsFailed(change, publication) \in BOOLEAN
    BY DEF DetailsFailed
  <2>2. error' \in {DetailsFailed(change, publication) : change, publication \in Responses}
    BY DEF ArriveDetails
  <2>3. error' \in BOOLEAN  BY <2>1, <2>2
  <2> QED  BY <2>3 DEF ArriveDetails
<1>2. load = NoCall  BY CallFacts DEF ArriveDetails, PageInv, PageIsStill
<1> QED  BY <1>1, <1>2, AsBefore, PageStepKeepsInv

LEMMA PollKeepsInv ==
  ASSUME PageInv, NEW p \in Polls, StartPoll(p) \/ ServePoll(p)
  PROVE  PageInv'
<1>1. PICK c \in {Sent, Answered(server), Failed} : poll' = [poll EXCEPT ![p] = c]
  BY DEF StartPoll, ServePoll, Served
<1>2. c \in Calls /\ (c.pc = "answered" => Read(c.row))
  BY <1>1, CallFacts, AsBefore DEF Read
<1>3. live /\ Polled(view)
  BY CallFacts DEF StartPoll, ServePoll, PageInv, PageIsStill
<1>4. /\ poll' \in [Polls -> Calls]
      /\ \A q \in Polls : poll'[q].pc = "answered" => Read(poll'[q].row)
  BY <1>1, <1>2, AsBefore
<1>5. UNCHANGED <<live, server, view, loading, error, load, details, pending, command>>
  BY DEF StartPoll, ServePoll
<1> QED  BY <1>3, <1>4, <1>5, AsBefore, PageStepKeepsInv

\* A row the timer reads is one without forms or buttons.
LEMMA PolledIsNotPermitted ==
  ASSUME NEW v, Polled(v) PROVE Permitted(v) = {} /\ ~CanDecide(v)
BY DEF Polled, ActiveStatuses, Permitted, Buttons, CanDecide, CanGenerate, CanPublish

LEMMA ArrivePollKeepsInv ==
  ASSUME PageInv, NEW p \in Polls, ArrivePoll(p)
  PROVE  PageInv'
<1>1. /\ poll[p] # NoCall /\ poll[p].pc \in {"answered", "failed"}
      /\ UNCHANGED <<live, server, loading, load, details, pending, command>>
  BY CallFacts DEF ArrivePoll
<1>2. live /\ Polled(view)  BY <1>1 DEF PageInv, PageIsStill
<1>3. pending = "none" /\ command.pc = "idle"
  BY <1>2, PolledIsNotPermitted DEF PageInv, PageTypes, PageIsStill, Commands
<1>4. CASE poll[p].pc = "answered"
  <2> DEFINE v == poll[p].row
  <2>1. view' = v /\ poll' = [PollsAfter(v) EXCEPT ![p] = NoCall] /\ error' = error
    BY <1>4 DEF ArrivePoll
  <2>2. v \in Rows /\ Read(v)  BY <1>4, CallFacts, AsBefore
  <2> HIDE DEF v
  <2>3. /\ poll' \in [Polls -> Calls]
        /\ \A q \in Polls : /\ poll'[q] \in {NoCall, poll[q]}
                            /\ poll'[q] # NoCall => live /\ Polled(v)
    BY <2>1, PollsAfterFacts, CallFacts
  <2>4. \A q \in Polls : poll'[q].pc = "answered" => Read(poll'[q].row)
    BY <2>3, CallFacts, AsBefore
  <2> QED  BY <1>1, <1>3, <2>1, <2>2, <2>3, <2>4, AsBefore, PageStepKeepsInv
<1>5. CASE poll[p].pc = "failed"
  <2>1. error' = TRUE /\ poll' = [poll EXCEPT ![p] = NoCall] /\ view' = view
    BY <1>5 DEF ArrivePoll
  <2>2. /\ poll' \in [Polls -> Calls] /\ \A q \in Polls : poll'[q] \in {NoCall, poll[q]}
    BY <2>1, CallFacts, AsBefore
  <2>3. \A q \in Polls : poll'[q].pc = "answered" => Read(poll'[q].row)
    BY <2>2, CallFacts, AsBefore
  <2> QED  BY <1>1, <1>2, <2>1, <2>2, <2>3, AsBefore, PageStepKeepsInv
<1> QED  BY <1>1, <1>4, <1>5

LEMMA FormKeepsInv ==
  ASSUME PageInv, (\E op \in Forms : OpenForm(op)) \/ CancelForm
  PROVE  PageInv'
<1>1. /\ ~loading /\ pending' \in Forms \cup {"none"} /\ (pending' # "none" => CanDecide(view))
      /\ UNCHANGED <<live, server, view, loading, error, load, details, poll, command>>
  BY DEF OpenForm, CancelForm, Shown
<1> QED  BY <1>1, AsBefore, PageStepKeepsInv

\* What is offered is permitted: a form is open only over a row to decide.
LEMMA OfferedIsPermitted ==
  ASSUME PageInv PROVE Offered \subseteq Permitted(view)
<1>1. pending # "none" => CanDecide(view)  BY AsBefore
<1>2. "none" \notin Forms  BY DEF Forms
<1> QED  BY <1>1, <1>2 DEF Offered, Permitted

LEMMA ExecuteKeepsInv ==
  ASSUME PageInv, NEW op \in Operations, Execute(op)
  PROVE  PageInv'
<1>1. /\ live /\ ~loading /\ op \in Permitted(view)
      /\ command' = [pc |-> "sent", op |-> op, shown |-> view, reply |-> NoRow]
      /\ UNCHANGED <<live, server, view, loading, error, load, details, poll, pending>>
  BY OfferedIsPermitted DEF Execute, Shown
<1>2. command' \in Commands  BY <1>1, AsBefore DEF Commands
<1> QED  BY <1>1, <1>2, AsBefore, PageStepKeepsInv

LEMMA RefuseCommandKeepsInv ==
  ASSUME PageInv, RefuseCommand PROVE PageInv'
<1>1. /\ command' = [command EXCEPT !.pc = "refused"] /\ command.pc = "sent"
      /\ UNCHANGED <<live, server, view, loading, error, load, details, poll, pending>>
  BY DEF RefuseCommand
<1>2. /\ command' \in Commands /\ command'.pc = "refused" /\ command'.op = command.op
      /\ command'.shown = command.shown
  BY <1>1, AsBefore DEF Commands
<1> QED  BY <1>1, <1>2, AsBefore, PageStepKeepsInv


\* The answer of a command, merged into the row the page has.
LEMMA MergeFacts ==
  ASSUME NEW v \in Rows, NEW op \in Operations, NEW n \in Nat
  PROVE  /\ Merge(v, op, n) \in Rows /\ Merge(v, op, n).version = n
         /\ op = "generate" => Merge(v, op, n).status = "planning"
         /\ op = "publish" => Merge(v, op, n).status = "queued"
         /\ op \notin {"generate", "publish"} /\ n = v.version + 1
              => Merge(v, op, n) = Commit(v, op)
<1>1. /\ TargetStatus[op] \in MigrationStatus /\ v.evidence \in {"none", "publishable", "other"}
      /\ {"planning", "queued", "needs_revision"} \subseteq MigrationStatus
  BY StatusFacts, RowFacts
<1>2. PICK s \in MigrationStatus, e \in {"none", "publishable", "other"} :
        /\ Merge(v, op, n) = Row(s, n, e)
        /\ op = "generate" => s = "planning"
        /\ op = "publish" => s = "queued"
        /\ op \notin {"generate", "publish"} => Commit(v, op) = Row(s, v.version + 1, e)
  <2>1. CASE op = "generate"
    <3>1. Merge(v, op, n) = Row("planning", n, v.evidence)  BY <1>1, <2>1 DEF Merge
    <3> QED  BY <1>1, <2>1, <3>1
  <2>2. CASE op = "publish"
    <3>1. Merge(v, op, n) = Row("queued", n, v.evidence)  BY <1>1, <2>2 DEF Merge
    <3> QED  BY <1>1, <2>2, <3>1
  <2>3. CASE op = "revise"
    <3>1. Merge(v, op, n) = Row("needs_revision", n, "none")  BY <2>3 DEF Merge
    <3>2. Commit(v, op) = Row("needs_revision", v.version + 1, "none")
      BY <2>3 DEF Commit, TargetStatus
    <3> QED  BY <1>1, <2>3, <3>1, <3>2
  <2>4. CASE op \in {"approve", "snooze", "decline"}
    <3>1. Merge(v, op, n) = Row(TargetStatus[op], n, v.evidence)  BY <1>1, <2>4 DEF Merge
    <3>2. Commit(v, op) = Row(TargetStatus[op], v.version + 1, v.evidence)
      BY <2>4 DEF Commit
    <3> QED  BY <1>1, <2>4, <3>1, <3>2
  <2> QED  BY <2>1, <2>2, <2>3, <2>4 DEF Operations, Decisions
<1> QED  BY <1>2, RowFacts

LEMMA ArriveCommandKeepsInv ==
  ASSUME PageInv, ArriveCommand PROVE PageInv'
<1>1. /\ command.pc # "idle" /\ command.pc \in {"accepted", "refused"}
      /\ command' = NoCommand
      /\ UNCHANGED <<live, server, loading, error, load, details>>
  BY DEF ArriveCommand
<1>2. NoCommand \in Commands /\ NoCommand.pc = "idle"  BY DEF NoCommand, Commands
<1>3. CASE command.pc = "refused"
  <2>1. UNCHANGED <<view, poll, pending>>  BY <1>3 DEF ArriveCommand
  <2> QED  BY <1>1, <1>2, <2>1, AsBefore, PageStepKeepsInv
<1>4. CASE command.pc = "accepted"
  <2> DEFINE op == command.op
             v  == Merge(view, command.op, command.reply.version)
  <2>1. view' = v /\ poll' = PollsAfter(v) /\ pending' = "none"
    BY <1>4 DEF ArriveCommand, FormAfterSuccess
  <2>2. /\ command.shown = view /\ op \in Permitted(view)
        /\ command.reply = Commit(view, op) /\ Read(command.reply)
    BY <1>1, <1>4 DEF PageInv, PageIsStill, RowsAreRead
  <2>3. op \in Operations
    BY <2>2 DEF Permitted, Buttons, Forms, Operations, Decisions
  <2>4. view \in Rows
    BY <2>2, RowFacts, AsBefore DEF Permitted, Buttons, CanDecide, CanGenerate, CanPublish
  <2>5. /\ command.reply \in Rows /\ command.reply.version = view.version + 1
        /\ command.reply.status = TargetStatus[op]
    BY <2>2, <2>3, <2>4, CommitFacts
  <2>6. /\ v \in Rows /\ v.version = command.reply.version
        /\ op = "generate" => v.status = "planning"
        /\ op = "publish" => v.status = "queued"
        /\ op \notin {"generate", "publish"} => v = command.reply
    BY <2>2, <2>3, <2>4, <2>5, MergeFacts, RowFacts
  <2> HIDE DEF op, v
  <2>7. Read(v) \/ Merged(v)
    <3>1. CASE command.reply.version < server.version  BY <2>6, <3>1 DEF Read
    <3>2. CASE command.reply = server
      <4>1. op = "generate" => server.status = "planning"  BY <2>5, <3>2 DEF TargetStatus
      <4>2. op = "publish" => server.status = "pr_opening"  BY <2>5, <3>2 DEF TargetStatus
      <4> QED  BY <2>6, <3>2, <4>1, <4>2 DEF Read, Merged
    <3> QED  BY <2>2, <3>1, <3>2 DEF Read
  <2>8. \A p \in Polls : poll'[p].pc = "answered" => Read(poll'[p].row)
    BY <2>1, PollsAfterFacts, CallFacts, AsBefore
  <2> QED  BY <1>1, <1>2, <2>1, <2>6, <2>7, <2>8, PollsAfterFacts, AsBefore, PageStepKeepsInv
<1> QED  BY <1>1, <1>3, <1>4

\* A preview sends nothing: it only keeps the types, and the forms in their place.
LEMMA ExecutePreviewKeepsInv ==
  ASSUME PageInv, NEW op \in Operations, ExecutePreview(op)
  PROVE  PageInv'
<1>1. /\ ~live /\ view \in Rows /\ pending' = "none"
      /\ view' = Row(PreviewStatus[op], view.version + 1, view.evidence)
      /\ UNCHANGED <<live, server, loading, error, load, details, poll, command>>
  BY AsBefore DEF ExecutePreview, Shown, FormAfterSuccess
<1>2. PreviewStatus[op] \in MigrationStatus
  BY StatusFacts DEF PreviewStatus, Operations, Decisions
<1>3. view' \in Rows  BY <1>1, <1>2, RowFacts
<1>4. command.pc = "idle" /\ \A p \in Polls : poll[p] = NoCall
  BY <1>1, AsBefore
<1> QED  BY <1>1, <1>3, <1>4, CallFacts, AsBefore, PageStepKeepsInv

LEMMA MigrationNextKeepsInv ==
  ASSUME PageInv, MigrationNext PROVE PageInv'
<1>1. CASE \/ AttemptClaimed \/ AttemptCompleted \/ AttemptFailed
           \/ PublicationEnds \/ OtherDeveloper
  BY <1>1, OthersKeepInv
<1>2. CASE ServeLoad \/ ArriveLoad \/ ArriveDetails
  BY <1>2, ServeLoadKeepsInv, ArriveLoadKeepsInv, ArriveDetailsKeepsInv
<1>3. CASE \E p \in Polls : StartPoll(p) \/ ServePoll(p) \/ ArrivePoll(p)
  BY <1>3, PollKeepsInv, ArrivePollKeepsInv
<1>4. CASE (\E op \in Forms : OpenForm(op)) \/ CancelForm
  BY <1>4, FormKeepsInv
<1>5. CASE \E op \in Operations : Execute(op) \/ ExecutePreview(op)
  BY <1>5, ExecuteKeepsInv, ExecutePreviewKeepsInv
<1>6. CASE CommitCommand \/ RefuseCommand \/ ArriveCommand
  BY <1>6, CommitCommandKeepsInv, RefuseCommandKeepsInv, ArriveCommandKeepsInv
<1> QED  BY <1>1, <1>2, <1>3, <1>4, <1>5, <1>6 DEF MigrationNext

\* Whether the build is live was decided when it was built.
LEMMA LiveStays ==
  ASSUME [Next]_vars PROVE live' = live
<1>1. ASSUME MigrationNext PROVE live' = live
  <2>1. CASE \/ AttemptClaimed \/ AttemptCompleted \/ AttemptFailed
             \/ PublicationEnds \/ OtherDeveloper
    BY <2>1 DEF AttemptClaimed, AttemptCompleted, AttemptFailed, PublicationEnds,
         OtherDeveloper, ServerMoves
  <2>2. CASE ServeLoad \/ ArriveLoad \/ ArriveDetails
    BY <2>2 DEF ServeLoad, ArriveLoad, ArriveDetails
  <2>3. CASE \E p \in Polls : StartPoll(p) \/ ServePoll(p) \/ ArrivePoll(p)
    BY <2>3 DEF StartPoll, ServePoll, ArrivePoll
  <2>4. CASE (\E op \in Forms : OpenForm(op)) \/ CancelForm
    BY <2>4 DEF OpenForm, CancelForm
  <2>5. CASE \E op \in Operations : Execute(op) \/ ExecutePreview(op)
    BY <2>5 DEF Execute, ExecutePreview
  <2>6. CASE CommitCommand \/ RefuseCommand \/ ArriveCommand
    BY <2>6 DEF CommitCommand, RefuseCommand, ArriveCommand
  <2> QED  BY <1>1, <2>1, <2>2, <2>3, <2>4, <2>5, <2>6 DEF MigrationNext
<1>2. ASSUME RunNext PROVE live' = live
  BY <1>2 DEF RunNext, JobStarts, JobEnds, JobDies, ServeFetch, ArriveFetch, ClickRetry,
       CommitRetry, DeferRetry, RefuseRetry, ArriveRetry
<1>3. ASSUME WorkspaceNext PROVE live' = live
  BY <1>3 DEF WorkspaceNext, RowCreated, ServeInbox, ArriveInbox, LoadMore, ServePage, Settle,
       HeaderHearsUser, HeaderHearsApi
<1> QED  BY <1>1, <1>2, <1>3 DEF Next, vars, migrationVars

LEMMA NextKeepsPageInv ==
  ASSUME PageInv, [Next]_vars PROVE PageInv'
<1>1. CASE route = "migration" /\ MigrationNext  BY <1>1, MigrationNextKeepsInv
<1>2. CASE UNCHANGED migrationVars
  BY <1>2 DEF migrationVars, PageInv, PageTypes, PageIsStill, RowsAreRead, Read, Merged,
       Permitted, Polled, Buttons, CanDecide, CanGenerate, CanPublish
<1> QED  BY <1>1, <1>2, LiveStays DEF Next, vars, migrationVars

LEMMA InitEstablishesPageInv ==
  ASSUME Init PROVE PageInv
<1>1. server = Row("queued", 1, "none") /\ server \in Rows /\ server.status = "queued"
  BY RowFacts, StatusFacts DEF Init, MigrationInit, MigrationClosed
<1>2. /\ live \in BOOLEAN /\ loading \in BOOLEAN /\ error = FALSE
      /\ details = NoCall /\ poll = [p \in Polls |-> NoCall]
      /\ pending = "none" /\ command = NoCommand
      /\ load \in {NoCall, Sent} /\ (load # NoCall => live /\ loading)
      /\ view \in Demo \cup {NoRow} /\ (live => view = NoRow)
  BY DEF Init, MigrationInit, MigrationClosed
<1>3. Demo \subseteq Rows
  <2> SUFFICES ASSUME NEW s \in DOMAIN DemoMigrations
      PROVE  Row(s, DemoMigrations[s], IF s \in {"ready", "pr_opened", "snoozed"}
                                       THEN BaseEvidence ELSE "none") \in Rows
    BY DEF Demo
  <2>1. s \in MigrationStatus /\ DemoMigrations[s] \in Nat
    BY StatusFacts DEF DemoMigrations
  <2>2. BaseEvidence = "publishable"  BY DEF BaseEvidence, Evidence
  <2> QED  BY <2>1, <2>2, RowFacts
<1>4. NoCommand \in Commands /\ NoCommand.pc = "idle"  BY DEF NoCommand, Commands
<1>5. PageTypes  BY <1>1, <1>2, <1>3, <1>4, CallFacts DEF PageTypes
<1>6. PageIsStill  BY <1>2, <1>4 DEF PageIsStill
<1>7. RowsAreRead  BY <1>1, <1>2, <1>4, CallFacts DEF RowsAreRead
<1> QED  BY <1>5, <1>6, <1>7 DEF PageInv

\* The control plane accepts every button, and the open form, of a page that
\* shows the row as it is (ActionPanel, and validate_transition behind it).
THEOREM PageOffersWhatIsAccepted == Spec => []OfferedIsAccepted
<1>1. PageInv => OfferedIsAccepted
  <2> SUFFICES ASSUME PageInv, live, Shown, view.version = server.version,
                      view.status = server.status, NEW op \in Offered
               PROVE  Accepts(server, op, view.version)
    BY DEF OfferedIsAccepted
  <2>1. op \in Permitted(view)  BY OfferedIsPermitted
  <2>2. view # NoRow /\ (Read(view) \/ Merged(view))  BY AsBefore DEF Shown
  <2>3. ~Merged(view)
    BY <2>1, MergedIsRefused DEF Merged
  <2>4. view = server  BY <2>2, <2>3, RowFacts, AsBefore DEF Read
  <2>5. server.status = "ready" => server.evidence = "publishable"
    BY DEF PageInv, RowsAreRead
  <2> QED  BY <2>1, <2>4, <2>5, PermittedIsAccepted, AsBefore
<1> QED  BY <1>1, InitEstablishesPageInv, NextKeepsPageInv, PTL DEF Spec

\* An operation commits on the row its developer was looking at, whatever the
\* order in which polls, answers and other writers fall (execute and
\* validate_transition).
THEOREM PageDecidesOnWhatItShows == Spec => DecidedOnWhatWasShown
<1>1. ASSUME PageInv, [Next]_vars
      PROVE  [server' # server /\ command' # command => command.shown = server]_migrationVars
  <2>1. CASE route = "migration" /\ MigrationNext
    <3>1. CASE CommitCommand  BY <1>1, <3>1, CommittedIsShown
    <3>2. CASE \/ AttemptClaimed \/ AttemptCompleted \/ AttemptFailed
               \/ PublicationEnds \/ OtherDeveloper
      BY <3>2 DEF AttemptClaimed, AttemptCompleted, AttemptFailed, PublicationEnds,
           OtherDeveloper, ServerMoves
    <3>3. CASE server' = server  BY <3>3
    <3> QED
      BY <2>1, <3>1, <3>2, <3>3 DEF MigrationNext, ServeLoad, ArriveLoad, ArriveDetails,
         StartPoll, ServePoll, ArrivePoll, OpenForm, CancelForm, Execute, ExecutePreview,
         RefuseCommand, ArriveCommand
  <2>2. CASE UNCHANGED server  BY <2>2
  <2> QED  BY <1>1, <2>1, <2>2 DEF Next, vars, migrationVars
<1> QED  BY <1>1, InitEstablishesPageInv, NextKeepsPageInv, PTL DEF Spec, DecidedOnWhatWasShown

\* A preview takes the page only along the edges of the control plane's table,
\* one version each (execute of the preview build, and state.py).
THEOREM PreviewWalksTheTable == Spec => PreviewFollowsTheTable
<1>1. ASSUME PageInv, [Next]_vars
      PROVE  [~live /\ view' # view => Preview!Advance(1)]_migrationVars
  <2>1. ASSUME NEW op \in Operations, ExecutePreview(op)
        PROVE  Preview!Advance(1)
    <3>1. op \in Permitted(view)  BY <1>1, <2>1, OfferedIsPermitted DEF ExecutePreview
    <3>2. /\ view \in Rows /\ PreviewStatus[op] = TargetStatus[op]
          /\ view' = Row(PreviewStatus[op], view.version + 1, view.evidence)
      BY <1>1, <2>1, AsBefore DEF ExecutePreview, Shown, PreviewStatus, TargetStatus, Operations,
         Decisions
    <3>3. /\ view'.status = TargetStatus[op] /\ view'.version = view.version + 1
      BY <3>2 DEF Row
    <3>4. TargetStatus[op] \in MigrationTransitions[view.status]
      BY <3>1, <3>2, PermittedIsAnEdge
    <3> QED  BY <3>3, <3>4 DEF Preview!Advance, Preview!Path
  <2>2. CASE route = "migration" /\ MigrationNext
    <3>1. ASSUME NEW p \in Polls, ArrivePoll(p) PROVE live
      BY <1>1, <3>1, CallFacts, AsBefore DEF ArrivePoll
    <3>2. ASSUME ArriveCommand PROVE live
      BY <1>1, <3>2, AsBefore DEF ArriveCommand
    <3>3. ASSUME ArriveLoad PROVE live
      BY <1>1, <3>3, CallFacts, AsBefore DEF ArriveLoad
    <3> QED
      BY <2>1, <2>2, <3>1, <3>2, <3>3 DEF MigrationNext, AttemptClaimed, AttemptCompleted,
         AttemptFailed, PublicationEnds, OtherDeveloper, ServerMoves, ServeLoad, ArriveDetails,
         StartPoll, ServePoll, OpenForm, CancelForm, Execute, CommitCommand, RefuseCommand
  <2>3. CASE UNCHANGED view  BY <2>3
  <2> QED  BY <1>1, <2>2, <2>3 DEF Next, vars, migrationVars
<1> QED  BY <1>1, InitEstablishesPageInv, NextKeepsPageInv, PTL DEF Spec, PreviewFollowsTheTable

-----------------------------------------------------------------------------
(* The pages that load once *)

\* The invariant: until everything a page asked for has been heard it shows what
\* it started with; what it shows after that is settled, and nothing is asked.
PageKinds == LoadOncePages \cup {"none"}
CallsOf(kind) == IF kind = "none" THEN {<<>>}
                 ELSE [Requests(kind) -> {"idle", "sent"} \cup Results]
LoadOnceStates ==
  [ kind : PageKinds, data : {"empty", "demo", "live"}, user : {"none", "preview", "user"},
    loading : BOOLEAN, error : Errors \cup {"none"},
    call : UNION {CallsOf(kind) : kind \in PageKinds} ]

LoadOnceTypes ==
  /\ live \in BOOLEAN
  /\ page \in LoadOnceStates /\ page.call \in CallsOf(page.kind)

\* What LiveFailuresStayVisible asks of a page that no longer loads.
Says(pg, shown) ==
  /\ shown \cap {"demo", "preview"} = {}
  /\ shown \cap {"error", "sign in"} = {} =>
       /\ pg.data = "live" \/ pg.kind \in IdentityPages
       /\ "me" \in DOMAIN pg.call => pg.user = "user"
  /\ "connected" \in shown => pg.user = "user"
SaysWhatItHas == Says(page, Shows)

Unheard == /\ page.data = FirstData(page.kind) /\ page.user = FirstUser(page.kind)
           /\ page.error = "none"
Heard   == /\ \A q \in DOMAIN page.call : page.call[q] = "idle"
           /\ SaysWhatItHas

LoadsOnce ==
  live /\ page.kind # "none" => IF page.loading THEN Unheard ELSE Heard

LoadOnceInv == LoadOnceTypes /\ LoadsOnce

\* A page says what it has when it has it all, or says that it has not.
LEMMA SaysAll ==
  ASSUME NEW pg, NEW shown, shown \cap {"demo", "preview"} = {},
         pg.data = "live" \/ pg.kind \in IdentityPages,
         "me" \in DOMAIN pg.call => pg.user = "user",
         "connected" \in shown => pg.user = "user"
  PROVE  Says(pg, shown)
  BY Zenon DEF Says

LEMMA SaysNotice ==
  ASSUME NEW pg, NEW shown, shown \cap {"demo", "preview"} = {}, "connected" \notin shown,
         "error" \in shown \/ "sign in" \in shown
  PROVE  Says(pg, shown)
<1>1. "error" \in shown => shown \cap {"error", "sign in"} # {}  BY Zenon
<1>2. "sign in" \in shown => shown \cap {"error", "sign in"} # {}  BY Zenon
<1>3. shown \cap {"error", "sign in"} # {}  BY <1>1, <1>2, Zenon
<1> QED  BY <1>3, Zenon DEF Says

LEMMA SettledIs ==
  ASSUME LoadOnceTypes, page.kind # "none",
         NEW data \in {"empty", "demo", "live"}, NEW user \in {"none", "preview", "user"},
         NEW notice \in Errors \cup {"none"}, page' = Settled(page, data, user, notice)
  PROVE  /\ page' \in LoadOnceStates /\ page'.call \in CallsOf(page'.kind)
         /\ page'.kind = page.kind /\ page'.data = data /\ page'.user = user
         /\ page'.loading = FALSE /\ page'.error = notice
         /\ DOMAIN page'.call = DOMAIN page.call /\ DOMAIN page.call = Requests(page.kind)
         /\ \A q \in DOMAIN page'.call : page'.call[q] = "idle"
<1>1. page \in LoadOnceStates /\ page.kind \in PageKinds
      /\ DOMAIN page.call = Requests(page.kind)
  BY DEF LoadOnceTypes, LoadOnceStates, CallsOf
<1> DEFINE call == [q \in DOMAIN page.call |-> "idle"]
           D == {"empty", "demo", "live"}
           U == {"none", "preview", "user"}
           E == Errors \cup {"none"}
           C == UNION {CallsOf(kind) : kind \in PageKinds}
           S == [kind : PageKinds, data : D, user : U, loading : BOOLEAN, error : E, call : C]
<1>2. call \in CallsOf(page.kind) /\ DOMAIN call = DOMAIN page.call
      /\ \A q \in DOMAIN call : call[q] = "idle"
  BY <1>1 DEF CallsOf
<1>3. page \in S /\ LoadOnceStates = S  BY <1>1 DEF LoadOnceStates
<1>4. data \in D /\ user \in U /\ notice \in E /\ call \in C  BY <1>1, <1>2
<1>5. page' = [page EXCEPT !.data = data, !.user = user, !.error = notice,
                           !.loading = FALSE, !.call = call]
  BY DEF Settled
<1> HIDE DEF D, U, E, C, call
<1>6. page' \in S  BY <1>3, <1>4, <1>5
<1>7. /\ page'.kind = page.kind /\ page'.data = data /\ page'.user = user
      /\ page'.loading = FALSE /\ page'.error = notice /\ page'.call = call
  BY <1>3, <1>4, <1>5
<1> QED  BY <1>1, <1>2, <1>3, <1>6, <1>7

LEMMA ServePageKeepsInv ==
  ASSUME LoadOnceInv, NEW q, ServePage(q) PROVE LoadOnceInv'
<1>1. PICK result \in {Fetch(page.kind, q, r) : r \in Responses} :
        page' = [page EXCEPT !.call[q] = result]
  BY DEF ServePage
<1>2. result \in Results
  BY <1>1 DEF Fetch, FetchMe, FetchProviders, FetchChange, FetchRuns, ReadJson, Results
<1>3. page \in LoadOnceStates /\ page.call \in CallsOf(page.kind) /\ q \in DOMAIN page.call
      /\ page.call[q] = "sent"
  BY DEF LoadOnceInv, LoadOnceTypes, ServePage
<1>4. page.kind # "none"  BY <1>3 DEF CallsOf
<1>5. page.call \in [Requests(page.kind) -> {"idle", "sent"} \cup Results]
  BY <1>3, <1>4 DEF CallsOf
<1> DEFINE call == [page.call EXCEPT ![q] = result]
<1>6. call \in CallsOf(page.kind)
  BY <1>2, <1>4, <1>5 DEF CallsOf
<1>7. page' = [page EXCEPT !.call = call]  BY <1>1
<1> HIDE DEF call
<1>8. /\ page'.kind = page.kind /\ page'.data = page.data /\ page'.user = page.user
      /\ page'.loading = page.loading /\ page'.error = page.error /\ page'.call = call
      /\ page' \in LoadOnceStates
  BY <1>3, <1>6, <1>7 DEF LoadOnceStates
<1>9. live' = live  BY DEF ServePage
<1>10. LoadOnceTypes'
  BY <1>6, <1>8, <1>9 DEF LoadOnceTypes, LoadOnceInv, CallsOf, Requests, PageKinds
<1>11. live /\ page.kind # "none" => page.loading /\ Unheard
  BY <1>3 DEF LoadOnceInv, LoadsOnce, Heard, LoadOnceStates
<1>12. Unheard => Unheard'
  BY <1>8, <1>9 DEF Unheard, FirstData, FirstUser
<1>13. LoadsOnce'  BY <1>8, <1>9, <1>11, <1>12 DEF LoadsOnce
<1> QED  BY <1>10, <1>13 DEF LoadOnceInv

LEMMA SettledKeepsInv ==
  ASSUME LoadOnceInv, live' = live, page.kind # "none",
         NEW data \in {"empty", "demo", "live"}, NEW user \in {"none", "preview", "user"},
         NEW notice \in Errors \cup {"none"},
         page' = Settled(page, data, user, notice),
         live => SaysWhatItHas'
  PROVE  LoadOnceInv'
<1>1. /\ page' \in LoadOnceStates /\ page'.call \in CallsOf(page'.kind)
      /\ page'.loading = FALSE /\ page'.kind = page.kind
      /\ \A q \in DOMAIN page'.call : page'.call[q] = "idle"
  BY SettledIs DEF LoadOnceInv
<1>2. LoadOnceTypes'
  BY <1>1 DEF LoadOnceTypes, LoadOnceInv, CallsOf, Requests, PageKinds
<1>3. LoadsOnce'  BY <1>1 DEF LoadsOnce, Heard
<1> QED  BY <1>2, <1>3 DEF LoadOnceInv

\* Of a page that has everything it asked for, or a failure: what it knows.
LEMMA SettlesOn ==
  ASSUME LoadOnceInv, Settle
  PROVE  /\ page.kind \in LoadOncePages /\ live' = live
         /\ DOMAIN page.call = Requests(page.kind)
         /\ page.data \in {"empty", "demo", "live"} /\ page.user \in {"none", "preview", "user"}
         /\ live => Unheard
         /\ Failures = {} => \A q \in DOMAIN page.call : page.call[q] \in {"value", "null"}
<1>1. page \in LoadOnceStates /\ page.call \in CallsOf(page.kind) /\ live' = live
  BY DEF LoadOnceInv, LoadOnceTypes, Settle
<1>2. page.kind # "none"  BY <1>1 DEF Settle, CallsOf
<1>3. page.kind \in LoadOncePages /\ DOMAIN page.call = Requests(page.kind)
  BY <1>1, <1>2 DEF LoadOnceStates, PageKinds, CallsOf
<1>4. \E q \in DOMAIN page.call : page.call[q] # "idle"
  BY DEF Settle, Answers, Failures, Errors
<1>5. live => Unheard
  BY <1>2, <1>4 DEF LoadOnceInv, LoadsOnce, Heard
<1>6. Failures = {} => \A q \in DOMAIN page.call : page.call[q] \in {"value", "null"}
  BY DEF Settle, Answers
<1> QED  BY <1>1, <1>3, <1>5, <1>6 DEF LoadOnceStates

LEMMA SettleListKeepsInv ==
  ASSUME LoadOnceInv, Settle, SettleList \/ SettleRuns PROVE LoadOnceInv'
<1>1. page.kind \in {"providers", "change", "runs"}  BY DEF SettleList, SettleRuns
<1>2. DOMAIN page.call = {"list"}
  BY <1>1, SettlesOn DEF Requests, WorkspaceDataPages, IdentityPages
<1>3. PICK data \in {"empty", "demo", "live"}, notice \in Errors \cup {"none"} :
        /\ page' = Settled(page, data, page.user, notice)
        /\ \/ data = "live" /\ notice = "none"
           \/ notice \in Errors /\ (live => data = "empty")
  <2>1. CASE Failures = {}
    BY <2>1 DEF SettleList, SettleRuns
  <2>2. CASE Failures # {}
    <3>1. page.call["list"] \in Errors  BY <2>2, <1>2 DEF Failures
    <3>2. CASE SettleRuns  BY <2>2, <3>1, <3>2 DEF SettleRuns
    <3>3. CASE SettleList
      <4>1. live => page.data = "empty"
        BY <3>3, SettlesOn DEF SettleList, Unheard, FirstData
      <4>2. page' = Settled(page, page.data, page.user, page.call["list"])
        BY <2>2, <3>3 DEF SettleList
      <4> QED  BY <3>1, <4>1, <4>2, SettlesOn
    <3> QED  BY <3>2, <3>3
  <2> QED  BY <2>1, <2>2
<1>4. /\ page'.kind = page.kind /\ page'.data = data /\ page'.loading = FALSE
      /\ page'.error = notice /\ DOMAIN page'.call = {"list"}
  BY <1>1, <1>2, <1>3, SettlesOn, SettledIs DEF LoadOnceInv
<1>5. live => SaysWhatItHas'
  <2> SUFFICES ASSUME live PROVE SaysWhatItHas'  OBVIOUS
  <2>1. page'.data \in {"live", "empty"} /\ (page'.data = "live" \/ page'.error \in Errors)
        /\ page'.error \in {"none", "sign_in", "upgrade", "failed"}
    BY <1>3, <1>4 DEF Errors
  <2>0. ASSUME NEW shown, shown \cap {"demo", "preview"} = {}, "connected" \notin shown,
               page'.data = "live" \/ "error" \in shown
        PROVE  Says(page', shown)
    <3>1. CASE page'.data = "live"  BY <1>4, <2>0, <3>1, SaysAll
    <3>2. ASSUME "error" \in shown PROVE Says(page', shown)
      BY <2>0, <3>2, SaysNotice, Zenon
    <3> QED  BY <2>0, <3>1, <3>2, Zenon
  <2>2. CASE page.kind = "providers"
    <3>1. Shows' = IF page'.error # "none" THEN {"error"} ELSE {page'.data}
      BY <1>4, <2>2 DEF Shows, ShowsProviders, Instead
    <3> QED  BY <2>0, <2>1, <3>1 DEF Errors, SaysWhatItHas
  <2>3. CASE page.kind = "change"
    <3>1. Shows' = IF page'.error # "none" \/ page'.data = "empty" THEN {"error"}
                   ELSE {page'.data}
      BY <1>4, <2>3 DEF Shows, ShowsChange
    <3> QED  BY <2>0, <2>1, <3>1 DEF Errors, SaysWhatItHas
  <2>4. CASE page.kind = "runs"
    <3>1. Shows' = {page'.data} \cup (IF page'.error # "none" THEN {"error"} ELSE {"table"})
      BY <1>4, <2>4 DEF Shows, ShowsRuns, Instead
    <3> QED  BY <2>0, <2>1, <3>1 DEF Errors, SaysWhatItHas
  <2> QED  BY <1>1, <2>2, <2>3, <2>4
<1> QED  BY <1>1, <1>3, <1>5, SettlesOn, SettledKeepsInv

LEMMA SettleWorkspaceKeepsInv ==
  ASSUME LoadOnceInv, Settle, SettleWorkspace PROVE LoadOnceInv'
<1>1. page.kind \in {"overview", "repositories", "integrations"}
  BY DEF SettleWorkspace, WorkspaceDataPages
<1>2. DOMAIN page.call = {"list", "me"}
  BY <1>1, SettlesOn DEF Requests, WorkspaceDataPages, IdentityPages
<1>3. PICK data \in {"empty", "demo", "live"}, user \in {"none", "preview", "user"},
           notice \in Errors \cup {"none"} :
        /\ page' = Settled(page, data, user, notice)
        /\ live => \/ data = "live" /\ user = "user" /\ notice = "none"
                   \/ data \in {"live", "empty"} /\ user = "none" /\ notice \in Errors
  <2>1. CASE Failures = {}
    <3>1. page' = Settled(page, "live", User(page.call["me"]),
                          IF page.call["me"] = "value" THEN "none" ELSE "sign_in")
      BY <2>1 DEF SettleWorkspace
    <3> QED  BY <3>1 DEF User, Errors
  <2>2. CASE Failures # {}
    <3>1. PICK q \in Failures : page' = Settled(page, page.data, page.user, page.call[q])
      BY <2>2 DEF SettleWorkspace
    <3>2. page.call[q] \in Errors  BY DEF Failures
    <3>3. live => page.data = "empty" /\ page.user = "none"
      BY <1>1, SettlesOn DEF Unheard, FirstData, FirstUser
    <3> QED  BY <3>1, <3>2, <3>3, SettlesOn
  <2> QED  BY <2>1, <2>2
<1>4. /\ page'.kind = page.kind /\ page'.data = data /\ page'.user = user
      /\ page'.loading = FALSE /\ page'.error = notice
  BY <1>1, <1>2, <1>3, SettlesOn, SettledIs DEF LoadOnceInv
<1>5. ASSUME live PROVE SaysWhatItHas'
  <2>1. CASE data = "live" /\ user = "user" /\ notice = "none"
    <3>1. \/ Shows' = {"live", "user", "panels"} \/ Shows' = {"user"}
          \/ Shows' = {"user", "connected"}
      <4>1. CASE page.kind = "overview"
        <5>1. Shows' = {"live", "user"} \cup {} \cup {"panels"}
          BY <1>4, <2>1, <4>1, Zenon DEF Shows, ShowsOverview
        <5> QED  BY <5>1
      <4>2. CASE page.kind = "repositories"
        BY <1>4, <2>1, <4>2, Zenon DEF Shows, ShowsRepositories, Instead
      <4>3. CASE page.kind = "integrations"
        <5>1. Shows' = {"user"} \cup {"connected"}
          BY <1>4, <2>1, <4>3, Zenon DEF Shows, ShowsIntegrations, Instead
        <5> QED  BY <5>1
      <4> QED  BY <1>1, <4>1, <4>2, <4>3
    <3>2. (Shows \cap {"demo", "preview"} = {})'  BY <3>1
    <3> QED  BY <1>4, <2>1, <3>2, SaysAll DEF SaysWhatItHas
  <2>2. CASE data \in {"live", "empty"} /\ user = "none" /\ notice \in Errors
    <3>0. notice # "none"  BY <2>2 DEF Errors
    <3>1. \/ Shows' = {data, "none"} \cup {"error"} \cup {"panels"}
          \/ Shows' = {"error"}
          \/ Shows' = {"none"} \cup {"error"}
      <4>1. CASE page.kind = "overview"
        BY <1>4, <2>2, <3>0, <4>1, Zenon DEF Shows, ShowsOverview
      <4>2. CASE page.kind = "repositories"
        BY <1>4, <3>0, <4>2, Zenon DEF Shows, ShowsRepositories, Instead
      <4>3. CASE page.kind = "integrations"
        BY <1>4, <2>2, <3>0, <4>3, Zenon DEF Shows, ShowsIntegrations, Instead
      <4> QED  BY <1>1, <4>1, <4>2, <4>3, Zenon
    <3>2. data # "demo" /\ data # "preview" /\ data # "connected"  BY <2>2
    <3>3. (Shows \cap {"demo", "preview"} = {})' /\ "connected" \notin Shows'
      BY <3>1, <3>2, Zenon
    <3>4. "error" \in Shows'  BY <3>1, Zenon
    <3> QED  BY <3>3, <3>4, SaysNotice, Zenon DEF SaysWhatItHas
  <2> QED  BY <1>3, <1>5, <2>1, <2>2
<1> QED  BY <1>1, <1>3, <1>5, SettlesOn, SettledKeepsInv

LEMMA SettleIdentityKeepsInv ==
  ASSUME LoadOnceInv, Settle, SettleIdentity PROVE LoadOnceInv'
<1>1. page.kind \in {"settings", "onboarding"}  BY DEF SettleIdentity, IdentityPages
<1> DEFINE user == User(page.call["me"])
<1>2. page' = Settled(page, page.data, user, "none") /\ user \in {"none", "user"}
  BY DEF SettleIdentity, User
<1> HIDE DEF user
<1>3. /\ page'.kind = page.kind /\ page'.user = user /\ page'.loading = FALSE
  BY <1>1, <1>2, SettlesOn, SettledIs DEF LoadOnceInv
<1>4. SaysWhatItHas'
  <2>1. Shows' = IF user = "none" THEN {"sign in"} ELSE {user}
    BY <1>1, <1>3, Zenon DEF Shows, ShowsSettings, ShowsOnboarding
  <2>2. page'.kind \in IdentityPages  BY <1>1, <1>3 DEF IdentityPages
  <2>3. CASE user = "none"
    <3>1. Shows' = {"sign in"}  BY <2>1, <2>3
    <3>2. (Shows \cap {"demo", "preview"} = {})' /\ "connected" \notin Shows'
          /\ "sign in" \in Shows'
      BY <3>1, Zenon
    <3> QED  BY <3>2, SaysNotice, Zenon DEF SaysWhatItHas
  <2>4. CASE user = "user"
    <3>1. (Shows \cap {"demo", "preview"} = {})'  BY <2>1, <2>4
    <3> QED  BY <1>3, <2>2, <2>4, <3>1, SaysAll DEF SaysWhatItHas
  <2> QED  BY <1>2, <2>3, <2>4
<1> QED  BY <1>1, <1>2, <1>4, SettlesOn, SettledKeepsInv

\* The notices depend on the page's state and on nothing else.
LEMMA ShowsStay == ASSUME page' = page PROVE Shows' = Shows
<1>1. \A notice : Instead(notice)' = Instead(notice)  BY DEF Instead
<1> QED
  BY Zenon DEF Shows, ShowsProviders, ShowsChange, ShowsRuns, ShowsOverview, ShowsRepositories,
     ShowsIntegrations, ShowsSettings, ShowsOnboarding, Instead

LEMMA NextKeepsLoadOnceInv ==
  ASSUME LoadOnceInv, [Next]_vars PROVE LoadOnceInv'
<1>1. CASE \E q \in {"list", "me"} : ServePage(q)  BY <1>1, ServePageKeepsInv
<1>2. CASE Settle
  BY <1>2, SettleListKeepsInv, SettleWorkspaceKeepsInv, SettleIdentityKeepsInv DEF Settle
<1>3. CASE live' = live /\ page' = page
  <2>1. SaysWhatItHas => SaysWhatItHas'  BY <1>3, ShowsStay DEF SaysWhatItHas
  <2>2. LoadOnceTypes'
    BY <1>3 DEF LoadOnceInv, LoadOnceTypes, CallsOf, PageKinds, Requests
  <2>3. (Unheard => Unheard') /\ (Heard => Heard')
    BY <1>3, <2>1 DEF Unheard, FirstData, FirstUser, Heard
  <2>4. LoadsOnce'  BY <1>3, <2>3 DEF LoadOnceInv, LoadsOnce
  <2> QED  BY <2>2, <2>4 DEF LoadOnceInv
<1>4. \/ \E q \in {"list", "me"} : ServePage(q)
      \/ Settle
      \/ live' = live /\ page' = page
  <2>1. CASE WorkspaceNext
    BY <2>1, LiveStays DEF WorkspaceNext, RowCreated, ServeInbox, ArriveInbox, LoadMore,
       HeaderHearsUser, HeaderHearsApi
  <2>2. CASE UNCHANGED page  BY <2>2, LiveStays
  <2> QED  BY <2>1, <2>2 DEF Next, vars
<1> QED  BY <1>1, <1>2, <1>3, <1>4

LEMMA InitEstablishesLoadOnceInv ==
  ASSUME Init PROVE LoadOnceInv
<1>1. live \in BOOLEAN  BY DEF Init
<1>2. CASE page = ClosedPage
  <2>1. page.kind = "none" /\ page.call = <<>>  BY <1>2 DEF ClosedPage
  <2>2. page.call \in CallsOf(page.kind)  BY <2>1 DEF CallsOf
  <2>3. page \in LoadOnceStates
    <3> DEFINE C == UNION {CallsOf(kind) : kind \in PageKinds}
    <3>1. <<>> \in C  BY <2>1, <2>2 DEF PageKinds
    <3> HIDE DEF C
    <3> QED  BY <1>2, <3>1 DEF LoadOnceStates, PageKinds, ClosedPage, C
  <2> QED  BY <1>1, <2>1, <2>2, <2>3 DEF LoadOnceInv, LoadOnceTypes, LoadsOnce
<1>3. CASE route \in LoadOncePages /\ page = OpenPage(route)
  <2> DEFINE call == [q \in Requests(route) |-> IF live THEN "sent" ELSE "idle"]
             C == UNION {CallsOf(kind) : kind \in PageKinds}
  <2>1. page = [ kind |-> route, data |-> FirstData(route), user |-> FirstUser(route),
                 loading |-> live, error |-> "none", call |-> call ]
    BY <1>3 DEF OpenPage
  <2>2. call \in CallsOf(route) /\ route \in PageKinds
    BY <1>3 DEF CallsOf, PageKinds, LoadOncePages
  <2>3. call \in C  BY <2>2
  <2>4. FirstData(route) \in {"empty", "demo", "live"}
        /\ FirstUser(route) \in {"none", "preview", "user"}
    BY DEF FirstData, FirstUser
  <2>5. Requests(route) # {}  BY DEF Requests
  <2> HIDE DEF call, C
  <2>6. page \in LoadOnceStates
    BY <1>1, <2>1, <2>2, <2>3, <2>4 DEF LoadOnceStates, C
  <2>7. /\ page.kind = route /\ page.call = call /\ page.loading = live
        /\ page.data = FirstData(route) /\ page.user = FirstUser(route) /\ page.error = "none"
    BY <2>1
  <2>8. LoadOnceTypes  BY <1>1, <2>2, <2>6, <2>7 DEF LoadOnceTypes
  <2>9. LoadsOnce  BY <2>7 DEF LoadsOnce, Unheard
  <2> QED  BY <2>8, <2>9 DEF LoadOnceInv
<1> QED  BY <1>2, <1>3 DEF Init

\* A page of the live build that has heard everything shows live data of a
\* signed-in user or says that it has none: never demonstration data, never a
\* connection without an identity (useWorkspaceData, RunsPage, SettingsPage and
\* the other pages that load once).
THEOREM PagesSayWhatTheyHave == Spec => []LiveFailuresStayVisible
<1>1. LoadOnceInv => LiveFailuresStayVisible
  BY DEF LoadOnceInv, LoadsOnce, Heard, SaysWhatItHas, Says, LiveFailuresStayVisible
<1> QED
  BY <1>1, InitEstablishesLoadOnceInv, NextKeepsLoadOnceInv, PTL DEF Spec

-----------------------------------------------------------------------------
(* The inbox *)

LEMMA LeastOf ==
  ASSUME NEW T, T \subseteq Nat, T # {}
  PROVE  \E x \in T : \A y \in T : x <= y
<1> DEFINE Lower == OpToRel(<, Nat)
<1>1. IsWellFoundedOn(Lower, Nat)  BY NatLessThanWellFounded
<1>2. \A x, y \in T : <<y, x>> \in Lower <=> y < x  BY DEF OpToRel
<1> HIDE DEF Lower
<1>3. \E x \in T : \A y \in T : ~ (<<y, x>> \in Lower)  BY <1>1, WFMin
<1>4. \A x, y \in T : ~(y < x) => x <= y  OBVIOUS
<1> QED  BY <1>2, <1>3, <1>4

LEMMA LargestOf ==
  ASSUME NEW m \in Nat, NEW T, T \subseteq 0..m, T # {}
  PROVE  \E x \in T : \A y \in T : y <= x
<1> DEFINE Above == {n \in Nat : \A y \in T : y <= n}
<1>1. m \in Above  OBVIOUS
<1>2. PICK n \in Above : \A k \in Above : n <= k  BY <1>1, LeastOf
<1>3. n \in T
  <2> SUFFICES ASSUME n \notin T PROVE FALSE  OBVIOUS
  <2>1. PICK y \in T : TRUE  OBVIOUS
  <2>2. n - 1 \in Above
    <3>1. n \in Nat /\ \A z \in T : z <= n /\ z \in Nat /\ z # n  BY <1>2
    <3>2. n # 0  BY <2>1, <3>1
    <3> QED  BY <3>1, <3>2
  <2> QED  BY <1>2, <2>2
<1> QED  BY <1>2, <1>3

\* Induction on the natural numbers, over the set of those a formula holds for.
LEMMA EveryNat ==
  ASSUME NEW T, 0 \in T, \A n \in T \cap Nat : n + 1 \in T PROVE Nat \subseteq T
<1> SUFFICES ASSUME Nat \ T # {} PROVE FALSE  OBVIOUS
<1>1. PICK x \in Nat \ T : \A y \in Nat \ T : x <= y  BY LeastOf
<1>2. x # 0 /\ x - 1 \in Nat  BY <1>1
<1>3. x - 1 \in T  BY <1>1, <1>2
<1> QED  BY <1>1, <1>3

\* What a query with ORDER BY ... DESC LIMIT returns.
IsNewest(s, limit, found) ==
  /\ \A i, j \in DOMAIN s : i < j => s[i] > s[j]
  /\ \A r \in found : \/ \E i \in DOMAIN s : s[i] = r
                      \/ Len(s) = limit /\ \A i \in DOMAIN s : s[i] > r

LEMMA ThereIsANewest ==
  ASSUME NEW m \in Nat, NEW found, found \subseteq 0..m
  PROVE  \A limit \in Nat : \E k \in 0..limit : \E s \in [1..k -> found] :
           IsNewest(s, limit, found)
<1> DEFINE Fine == {n \in Nat : \E k \in 0..n : \E s \in [1..k -> found] :
                                   IsNewest(s, n, found)}
<1>1. 0 \in Fine
  <2>1. <<>> \in [1..0 -> found] /\ DOMAIN <<>> = {} /\ Len(<<>>) = 0  OBVIOUS
  <2>2. IsNewest(<<>>, 0, found)  BY <2>1 DEF IsNewest
  <2>3. \E s \in [1..0 -> found] : IsNewest(s, 0, found)  BY <2>1, <2>2
  <2>4. 0 \in Nat /\ 0 \in 0..0  OBVIOUS
  <2> QED  BY <2>3, <2>4, Zenon
<1>2. ASSUME NEW n \in Nat, n \in Fine PROVE n + 1 \in Fine
  <2>1. PICK k \in 0..n : \E s \in [1..k -> found] : IsNewest(s, n, found)  BY <1>2
  <2>2. PICK s \in [1..k -> found] : IsNewest(s, n, found)  BY <2>1
  <2>3. Len(s) = k /\ DOMAIN s = 1..k  OBVIOUS
  <2> DEFINE rest == {r \in found : \A i \in 1..k : s[i] # r}
  <2>4. CASE rest = {}
    <3>1. IsNewest(s, n + 1, found)  BY <2>2, <2>3, <2>4 DEF IsNewest
    <3>2. k \in 0..(n + 1) /\ n + 1 \in Nat  OBVIOUS
    <3>3. \E z \in [1..k -> found] : IsNewest(z, n + 1, found)  BY <3>1
    <3> HIDE DEF rest
    <3> QED  BY <3>2, <3>3
  <2>5. CASE rest # {}
    <3>1. k = n /\ \A r \in rest, i \in 1..k : s[i] > r
      BY <2>2, <2>3, <2>5 DEF IsNewest
    <3>2. PICK x \in rest : \A y \in rest : y <= x  BY <2>5, LargestOf
    <3> DEFINE t == [i \in 1..(n + 1) |-> IF i = n + 1 THEN x ELSE s[i]]
    <3>3. t \in [1..(n + 1) -> found] /\ Len(t) = n + 1 /\ DOMAIN t = 1..(n + 1)
      BY <3>1, <3>2
    <3>4. t[n + 1] = x /\ \A i \in 1..n : t[i] = s[i]  OBVIOUS
    <3> HIDE DEF t
    <3>5. \A i, j \in 1..(n + 1) : i < j => t[i] > t[j]
      <4> SUFFICES ASSUME NEW i \in 1..(n + 1), NEW j \in 1..(n + 1), i < j PROVE t[i] > t[j]
        OBVIOUS
      <4>1. i \in 1..n /\ t[i] = s[i]  BY <3>4
      <4>2. CASE j = n + 1  BY <3>1, <3>2, <3>4, <4>1, <4>2
      <4>3. CASE j \in 1..n  BY <2>2, <2>3, <3>1, <3>4, <4>1, <4>3 DEF IsNewest
      <4> QED  BY <4>2, <4>3
    <3>6. ASSUME NEW r \in found PROVE (\E i \in 1..(n + 1) : t[i] = r)
                                      \/ \A i \in 1..(n + 1) : t[i] > r
      <4>1. CASE r \notin rest
        <5>1. PICK i \in 1..n : s[i] = r  BY <3>1, <4>1
        <5> QED  BY <3>4, <5>1
      <4>2. CASE r \in rest /\ r # x
        <5>1. x > r  BY <3>2, <4>2
        <5>2. \A i \in 1..n : t[i] > r  BY <3>1, <3>4, <4>2
        <5> QED  BY <3>4, <5>1, <5>2
      <4>3. CASE r = x  BY <3>4, <4>3
      <4> QED  BY <4>1, <4>2, <4>3
    <3>7. IsNewest(t, n + 1, found)  BY <3>3, <3>5, <3>6 DEF IsNewest
    <3>8. n + 1 \in 0..(n + 1)  OBVIOUS
    <3> QED  BY <3>3, <3>7, <3>8
  <2> QED  BY <2>4, <2>5
<1> HIDE DEF Fine
<1>3. Nat \subseteq Fine  BY <1>1, <1>2, EveryNat
<1> QED  BY <1>3 DEF Fine

LEMMA NewestIs ==
  ASSUME NEW m \in Nat, NEW found, found \subseteq 0..m, NEW limit \in Nat
  PROVE  /\ Newest(limit, found) \in Seq(found) /\ Len(Newest(limit, found)) <= limit
         /\ IsNewest(Newest(limit, found), limit, found)
<1>1. \A s : s \in BoundedSeq(found, limit) <=> \E k \in 0..limit : s \in [1..k -> found]
  BY DEF BoundedSeq, SeqOf
<1>2. \E s \in BoundedSeq(found, limit) : IsNewest(s, limit, found)
  BY <1>1, ThereIsANewest
<1>3. Newest(limit, found) = CHOOSE s \in BoundedSeq(found, limit) : IsNewest(s, limit, found)
  BY DEF Newest, IsNewest
<1>4. /\ Newest(limit, found) \in BoundedSeq(found, limit)
      /\ IsNewest(Newest(limit, found), limit, found)
  BY <1>2, <1>3
<1>5. PICK k \in 0..limit : Newest(limit, found) \in [1..k -> found]  BY <1>1, <1>4
<1> QED  BY <1>4, <1>5

\* One page: its rows newest first, down to the cursor it ends with, or to the
\* end of the list.
IsPage(answer, found) ==
  /\ answer.items \in Seq(found)
  /\ \A i, j \in DOMAIN answer.items : i < j => answer.items[i] > answer.items[j]
  /\ answer.cursor # 0 => /\ \E i \in DOMAIN answer.items : answer.items[i] = answer.cursor
                          /\ \A i \in DOMAIN answer.items : answer.items[i] >= answer.cursor
  /\ \A r \in found : answer.cursor = 0 \/ r >= answer.cursor =>
                        \E i \in DOMAIN answer.items : answer.items[i] = r

LEMMA ListingIsAPage ==
  ASSUME rows \subseteq 1..MaxRows, NEW cursor
  PROVE  /\ Listing(cursor) = [ items |-> Listing(cursor).items,
                                cursor |-> Listing(cursor).cursor ]
         /\ IsPage(Listing(cursor), BelowCursor(cursor))
<1> DEFINE found   == BelowCursor(cursor)
           fetched == Newest(PageSize + 1, found)
           items   == SubSeq(fetched, 1, Min({PageSize, Len(fetched)}))
           next    == IF Len(fetched) > PageSize THEN items[PageSize] ELSE 0
<1>1. Listing(cursor) = [items |-> items, cursor |-> next]  BY DEF Listing
<1>2. found \subseteq 0..MaxRows /\ found \subseteq 1..MaxRows /\ MaxRows \in Nat
      /\ PageSize \in Nat \ {0} /\ PageSize + 1 \in Nat /\ found \subseteq Nat
  <2>1. found \subseteq rows  BY Zenon DEF BelowCursor
  <2> HIDE DEF found
  <2> QED  BY <2>1, PageSizeAssumption
<1> HIDE DEF found
<1>3. /\ fetched \in Seq(found) /\ Len(fetched) <= PageSize + 1
      /\ IsNewest(fetched, PageSize + 1, found)
  BY <1>2, NewestIs
<1> HIDE DEF fetched
<1>4. Min({PageSize, Len(fetched)}) = IF Len(fetched) > PageSize THEN PageSize ELSE Len(fetched)
  BY <1>2, <1>3 DEF Min
<1>5. CASE Len(fetched) > PageSize
  <2>0. items = SubSeq(fetched, 1, PageSize) /\ next = items[PageSize]  BY <1>4, <1>5
  <2> HIDE DEF items, next
  <2>1. /\ items \in Seq(found) /\ Len(items) = PageSize /\ next = items[PageSize]
        /\ \A i \in 1..PageSize : items[i] = fetched[i]
    BY <1>2, <1>3, <1>5, <2>0
  <2>2. Len(fetched) = PageSize + 1  BY <1>2, <1>3, <1>5
  <2>3. next \in found /\ next # 0  BY <1>2, <2>1
  <2>4. \A i, j \in 1..(PageSize + 1) : i < j => fetched[i] > fetched[j]
    BY <1>3, <2>2 DEF IsNewest
  <2>5. \A i \in 1..PageSize : items[i] >= next
    <3> SUFFICES ASSUME NEW i \in 1..PageSize PROVE items[i] >= next  OBVIOUS
    <3>1. items \in [1..PageSize -> found] /\ i \in 1..PageSize
      <4>1. items \in Seq(found) /\ Len(items) = PageSize /\ PageSize \in Nat  BY <1>2, <2>1
      <4> QED  BY <4>1
    <3>2. items[i] \in found  BY <3>1
    <3>3. items[i] \in Nat /\ next \in Nat  BY <1>2, <2>3, <3>2
    <3> QED  BY <1>2, <2>1, <2>4, <3>3
  <2>6. ASSUME NEW r \in found, r >= next PROVE \E i \in 1..PageSize : items[i] = r
    <3>1. CASE \E i \in 1..(PageSize + 1) : fetched[i] = r
      <4>1. PICK i \in 1..(PageSize + 1) : fetched[i] = r  BY <3>1
      <4>2. i # PageSize + 1
        <5>1. fetched[PageSize] > fetched[PageSize + 1]  BY <1>2, <2>4
        <5>2. r \in Nat /\ next \in Nat  BY <1>2, <2>3
        <5> QED  BY <1>2, <2>1, <2>6, <4>1, <5>1, <5>2
      <4> QED  BY <1>2, <2>1, <4>1, <4>2
    <3>2. CASE \A i \in 1..(PageSize + 1) : fetched[i] > r
      <4>1. fetched[PageSize] > r /\ fetched[PageSize] = next  BY <1>2, <2>1, <3>2
      <4> QED  BY <1>2, <2>3, <2>6, <4>1
    <3> QED  BY <1>3, <2>2, <3>1, <3>2 DEF IsNewest
  <2>7. DOMAIN items = 1..PageSize  BY <2>1
  <2>8. \A i, j \in DOMAIN items : i < j => items[i] > items[j]  BY <1>2, <2>1, <2>4, <2>7
  <2>9. \E i \in DOMAIN items : items[i] = next  BY <1>2, <2>1, <2>7
  <2> DEFINE a == [items |-> items, cursor |-> next]
  <2>10. a.items = items /\ a.cursor = next  OBVIOUS
  <2> HIDE DEF a
  <2>11. IsPage(a, found)
    BY <2>1, <2>3, <2>5, <2>6, <2>7, <2>8, <2>9, <2>10 DEF IsPage
  <2> QED  BY <1>1, <2>10, <2>11 DEF a, found
<1>6. CASE Len(fetched) <= PageSize
  <2>1. items = fetched /\ next = 0
    BY <1>2, <1>3, <1>4, <1>6
  <2>2. Len(fetched) # PageSize + 1  BY <1>2, <1>3, <1>6
  <2>3. \A r \in found : \E i \in DOMAIN fetched : fetched[i] = r
    BY <1>3, <2>2 DEF IsNewest
  <2> DEFINE a == [items |-> items, cursor |-> next]
  <2>4. a.items = fetched /\ a.cursor = 0  BY <2>1
  <2> HIDE DEF a, items, next
  <2>5. IsPage(a, found)  BY <1>3, <2>3, <2>4 DEF IsPage, IsNewest
  <2> QED  BY <1>1, <2>1, <2>4, <2>5 DEF a, found
<1> QED  BY <1>2, <1>3, <1>5, <1>6

\* The invariant of the inbox.  What is listed goes strictly downwards to the
\* cursor; a page on its way goes on strictly below it; and of the rows that
\* were there at first every one down to the cursor is listed.
Pages == [items : Seq(1..MaxRows), cursor : 0..MaxRows]
InboxStates ==
  [ listed : Seq(0..MaxRows), cursor : 0..MaxRows, loading : BOOLEAN,
    error : Errors \cup {"none"}, call : {"idle", "sent", "value"} \cup Errors,
    answer : Pages ]

InboxTypes ==
  /\ rows \subseteq 1..MaxRows /\ present \subseteq rows
  /\ inbox \in InboxStates

Downwards(s) == \A i, j \in DOMAIN s : i < j => s[i] > s[j]
In(s, r) == \E i \in DOMAIN s : s[i] = r

FirstPage ==
  inbox.loading => /\ inbox.listed = <<>> /\ inbox.cursor = 0 /\ inbox.call # "idle"
                   /\ inbox.call # "value" => present = {}

ListedInOrder ==
  /\ Downwards(inbox.listed)
  /\ inbox.cursor # 0 => \A i \in DOMAIN inbox.listed : inbox.listed[i] >= inbox.cursor
  /\ ~inbox.loading /\ inbox.call # "idle" => inbox.cursor # 0

ListedSoFar ==
  ~inbox.loading => \A r \in present : inbox.cursor = 0 \/ r >= inbox.cursor
                                         => In(inbox.listed, r)

NextPage ==
  inbox.call = "value" =>
    /\ Downwards(inbox.answer.items)
    /\ inbox.answer.cursor # 0 =>
         /\ In(inbox.answer.items, inbox.answer.cursor)
         /\ \A i \in DOMAIN inbox.answer.items :
              inbox.answer.items[i] >= inbox.answer.cursor
    /\ inbox.cursor # 0 => \A i \in DOMAIN inbox.answer.items :
                             inbox.answer.items[i] < inbox.cursor
    /\ \A r \in present : /\ inbox.cursor = 0 \/ r < inbox.cursor
                          /\ inbox.answer.cursor = 0 \/ r >= inbox.answer.cursor
                          => In(inbox.answer.items, r)

InboxInv == /\ InboxTypes
            /\ live => FirstPage /\ ListedInOrder /\ ListedSoFar /\ NextPage

LEMMA MembersOf ==
  ASSUME NEW S, NEW s \in Seq(S) PROVE \A i \in DOMAIN s : s[i] \in S
  OBVIOUS

LEMMA SeqOfMore ==
  ASSUME NEW S, NEW T, S \subseteq T, NEW s \in Seq(S) PROVE s \in Seq(T)
  OBVIOUS

LEMMA ServeInboxKeepsInv ==
  ASSUME InboxInv, ServeInbox PROVE InboxInv'
<1>1. PICK result \in {FetchMigrations(r) : r \in Responses} :
        inbox' = [inbox EXCEPT !.call = result,
                               !.answer = IF result = "value" THEN Listing(inbox.cursor)
                                          ELSE NoPage]
  BY DEF ServeInbox
<1> DEFINE answer == IF result = "value" THEN Listing(inbox.cursor) ELSE NoPage
           Lists == Seq(0..MaxRows)
           Cursors == 0..MaxRows
           Notices == Errors \cup {"none"}
           States == {"idle", "sent", "value"} \cup Errors
<1>2. result \in {"value"} \cup Errors
  BY <1>1 DEF FetchMigrations, ReadJson, Errors
<1>3. inbox \in InboxStates /\ rows \subseteq 1..MaxRows /\ present \subseteq rows
      /\ inbox.call = "sent"
  BY DEF InboxInv, InboxTypes, ServeInbox
<1>4. /\ Listing(inbox.cursor) = [ items |-> Listing(inbox.cursor).items,
                                   cursor |-> Listing(inbox.cursor).cursor ]
      /\ IsPage(Listing(inbox.cursor), BelowCursor(inbox.cursor))
  BY <1>3, ListingIsAPage
<1>5. answer \in Pages
  <2>1. BelowCursor(inbox.cursor) \subseteq 1..MaxRows  BY <1>3, Zenon DEF BelowCursor
  <2>2. Listing(inbox.cursor).items \in Seq(1..MaxRows)
    BY <1>4, <2>1, SeqOfMore DEF IsPage
  <2>3. Listing(inbox.cursor).cursor \in 0..MaxRows
    <3>1. CASE Listing(inbox.cursor).cursor = 0  BY <3>1, PageSizeAssumption
    <3>2. CASE Listing(inbox.cursor).cursor # 0
      <4>1. PICK i \in DOMAIN Listing(inbox.cursor).items :
              Listing(inbox.cursor).items[i] = Listing(inbox.cursor).cursor
        BY <1>4, <3>2 DEF IsPage
      <4>2. Listing(inbox.cursor).cursor \in 1..MaxRows
        BY <2>2, <4>1, MembersOf
      <4> QED  BY <4>2, PageSizeAssumption
    <3> QED  BY <3>1, <3>2
  <2>4. Listing(inbox.cursor) \in Pages  BY <1>4, <2>2, <2>3 DEF Pages
  <2>5. NoPage \in Pages  BY PageSizeAssumption DEF NoPage, Pages
  <2> QED  BY <2>4, <2>5
<1>6. inbox' = [inbox EXCEPT !.call = result, !.answer = answer]  BY <1>1
<1>7. inbox \in [ listed : Lists, cursor : Cursors, loading : BOOLEAN, error : Notices,
                  call : States, answer : Pages ] /\ result \in States
  BY <1>2, <1>3 DEF InboxStates
<1> HIDE DEF answer, Lists, Cursors, Notices, States
<1>8. /\ inbox' \in [ listed : Lists, cursor : Cursors, loading : BOOLEAN, error : Notices,
                      call : States, answer : Pages ]
  BY <1>5, <1>6, <1>7
<1>9. /\ inbox'.listed = inbox.listed /\ inbox'.cursor = inbox.cursor
      /\ inbox'.loading = inbox.loading /\ inbox'.call = result /\ inbox'.answer = answer
  BY <1>5, <1>6, <1>7
<1>10. rows' = rows /\ live' = live
       /\ present' = IF inbox.loading /\ result = "value" THEN rows ELSE present
  BY <1>9 DEF ServeInbox
<1>11. InboxTypes'
  BY <1>3, <1>8, <1>10 DEF InboxTypes, InboxStates, Lists, Cursors, Notices, States
<1>12. ASSUME live PROVE (FirstPage /\ ListedInOrder /\ ListedSoFar /\ NextPage)'
  <2>1. FirstPage /\ ListedInOrder /\ ListedSoFar /\ NextPage  BY <1>12 DEF InboxInv
  <2>2. FirstPage'
    BY <1>2, <1>3, <1>9, <1>10, <2>1 DEF FirstPage, Errors
  <2>3. ListedInOrder'
    <3>1. Downwards(inbox'.listed)  BY <1>9, <2>1 DEF ListedInOrder
    <3>2. ~inbox.loading => inbox.cursor # 0  BY <1>3, <2>1 DEF ListedInOrder
    <3> QED  BY <1>9, <2>1, <3>1, <3>2 DEF ListedInOrder, Downwards
  <2>4. ListedSoFar'
    <3>1. ~inbox.loading => present' = present  BY <1>10
    <3> QED  BY <1>9, <2>1, <3>1 DEF ListedSoFar, In
  <2>5. NextPage'
    <3> SUFFICES ASSUME result = "value" PROVE NextPage'
      BY <1>9 DEF NextPage
    <3>1. IsPage(answer, BelowCursor(inbox.cursor))  BY <1>4 DEF answer
    <3>2. /\ Downwards(answer.items)
          /\ answer.cursor # 0 => /\ In(answer.items, answer.cursor)
                                  /\ \A i \in DOMAIN answer.items :
                                       answer.items[i] >= answer.cursor
          /\ \A r \in BelowCursor(inbox.cursor) :
               answer.cursor = 0 \/ r >= answer.cursor => In(answer.items, r)
      BY <3>1 DEF IsPage, Downwards, In
    <3>3. \A r \in present' : inbox.cursor = 0 \/ r < inbox.cursor
                                => r \in BelowCursor(inbox.cursor)
      <4>1. present' \subseteq rows  BY <1>3, <1>10
      <4> QED  BY <4>1, Zenon DEF BelowCursor
    <3>4. inbox.cursor # 0 => \A i \in DOMAIN answer.items : answer.items[i] < inbox.cursor
      <4> SUFFICES ASSUME inbox.cursor # 0, NEW i \in DOMAIN answer.items
                   PROVE  answer.items[i] < inbox.cursor
        OBVIOUS
      <4>1. answer.items[i] \in BelowCursor(inbox.cursor)  BY <3>1 DEF IsPage
      <4> QED  BY <4>1, Zenon DEF BelowCursor
    <3> QED  BY <1>9, <3>2, <3>3, <3>4 DEF NextPage, Downwards, In
  <2> QED  BY <2>2, <2>3, <2>4, <2>5
<1> QED  BY <1>10, <1>11, <1>12 DEF InboxInv

\* A page laid after what is listed.
LEMMA ListsJoin ==
  ASSUME NEW m \in Nat, NEW s \in Seq(0..m), NEW t \in Seq(0..m)
  PROVE  /\ s \o t \in Seq(0..m)
         /\ \A i \in DOMAIN (s \o t) :
              \/ i \in DOMAIN s /\ (s \o t)[i] = s[i]
              \/ i \notin DOMAIN s /\ i - Len(s) \in DOMAIN t /\ (s \o t)[i] = t[i - Len(s)]
         /\ \A r : In(s, r) \/ In(t, r) => In(s \o t, r)
<1>1. s \o t \in Seq(0..m) /\ Len(s \o t) = Len(s) + Len(t)  OBVIOUS
<1>2. DOMAIN s = 1..Len(s) /\ DOMAIN t = 1..Len(t) /\ DOMAIN (s \o t) = 1..(Len(s) + Len(t))
      /\ Len(s) \in Nat /\ Len(t) \in Nat
  BY <1>1
<1>3. \A i \in 1..(Len(s) + Len(t)) :
        (s \o t)[i] = IF i <= Len(s) THEN s[i] ELSE t[i - Len(s)]
  OBVIOUS
<1>4. ASSUME NEW i \in DOMAIN (s \o t)
      PROVE  \/ i \in DOMAIN s /\ (s \o t)[i] = s[i]
             \/ i \notin DOMAIN s /\ i - Len(s) \in DOMAIN t /\ (s \o t)[i] = t[i - Len(s)]
  BY <1>2, <1>3
<1>5. ASSUME NEW r, In(s, r) PROVE In(s \o t, r)
  <2>1. PICK i \in 1..Len(s) : s[i] = r  BY <1>2, <1>5 DEF In
  <2>2. i \in 1..(Len(s) + Len(t)) /\ i <= Len(s)  BY <1>2
  <2>3. (s \o t)[i] = r  BY <1>3, <2>1, <2>2
  <2> QED  BY <1>2, <2>2, <2>3 DEF In
<1>6. ASSUME NEW r, In(t, r) PROVE In(s \o t, r)
  <2>1. PICK i \in 1..Len(t) : t[i] = r  BY <1>2, <1>6 DEF In
  <2>2. i + Len(s) \in 1..(Len(s) + Len(t)) /\ ~(i + Len(s) <= Len(s))
        /\ (i + Len(s)) - Len(s) = i
    BY <1>2
  <2>3. (s \o t)[i + Len(s)] = r  BY <1>3, <2>1, <2>2
  <2> QED  BY <1>2, <2>2, <2>3 DEF In
<1> QED  BY <1>1, <1>4, <1>5, <1>6

LEMMA ArriveInboxKeepsInv ==
  ASSUME InboxInv, ArriveInbox PROVE InboxInv'
<1>1. inbox \in InboxStates /\ rows' = rows /\ present' = present /\ live' = live
      /\ rows \subseteq 1..MaxRows /\ present \subseteq rows /\ MaxRows \in Nat
      /\ inbox.call \notin {"idle", "sent"}
  BY PageSizeAssumption DEF InboxInv, InboxTypes, ArriveInbox
<1> DEFINE Lists == Seq(0..MaxRows)
           Cursors == 0..MaxRows
           Notices == Errors \cup {"none"}
           States == {"idle", "sent", "value"} \cup Errors
           Inboxes == [ listed : Lists, cursor : Cursors, loading : BOOLEAN,
                        error : Notices, call : States, answer : Pages ]
<1>2. inbox \in Inboxes /\ InboxStates = Inboxes  BY <1>1 DEF InboxStates
<1>3. CASE inbox.call = "value"
  <2> DEFINE items  == inbox.answer.items
             joined == inbox.listed \o items
  <2>1. inbox' = [inbox EXCEPT !.listed = joined, !.cursor = inbox.answer.cursor,
                               !.loading = FALSE, !.call = "idle", !.answer = NoPage]
    BY <1>3 DEF ArriveInbox
  <2>2. /\ inbox.listed \in Seq(0..MaxRows) /\ inbox.answer.cursor \in 0..MaxRows
        /\ items \in Seq(1..MaxRows) /\ inbox.cursor \in 0..MaxRows
    BY <1>2 DEF Pages
  <2>3. items \in Seq(0..MaxRows)
    <3>1. 1..MaxRows \subseteq 0..MaxRows  BY <1>1
    <3> QED  BY <2>2, <3>1, SeqOfMore
  <2>4. joined \in Lists  BY <1>1, <2>2, <2>3, ListsJoin
  <2>5. NoPage \in Pages  BY <1>1 DEF NoPage, Pages
  <2>6. "idle" \in States  OBVIOUS
  <2> HIDE DEF Lists, Notices, States, joined
  <2>7. inbox' \in Inboxes
    BY <1>2, <2>1, <2>2, <2>4, <2>5, <2>6
  <2>8. /\ inbox'.listed = joined /\ inbox'.cursor = inbox.answer.cursor
        /\ inbox'.loading = FALSE /\ inbox'.call = "idle"
    BY <1>2, <2>1
  <2>9. InboxTypes'  BY <1>1, <1>2, <2>7 DEF InboxTypes, InboxStates, Lists, Notices, States
  <2>10. ASSUME live PROVE (FirstPage /\ ListedInOrder /\ ListedSoFar /\ NextPage)'
    <3>0. FirstPage /\ ListedInOrder /\ ListedSoFar /\ NextPage  BY <2>10 DEF InboxInv
    <3>1. /\ Downwards(items)
          /\ inbox.answer.cursor # 0 =>
               /\ In(items, inbox.answer.cursor)
               /\ \A i \in DOMAIN items : items[i] >= inbox.answer.cursor
          /\ inbox.cursor # 0 => \A i \in DOMAIN items : items[i] < inbox.cursor
          /\ \A r \in present : /\ inbox.cursor = 0 \/ r < inbox.cursor
                                /\ inbox.answer.cursor = 0 \/ r >= inbox.answer.cursor
                                => In(items, r)
      BY <1>3, <3>0 DEF NextPage
    <3>2. /\ Downwards(inbox.listed)
          /\ inbox.cursor # 0 => \A i \in DOMAIN inbox.listed :
                                   inbox.listed[i] >= inbox.cursor
          /\ inbox.cursor = 0 => inbox.listed = <<>> /\ inbox.loading
      BY <1>1, <3>0 DEF ListedInOrder, FirstPage
    <3>3. /\ \A i \in DOMAIN joined :
               \/ i \in DOMAIN inbox.listed /\ joined[i] = inbox.listed[i]
               \/ /\ i \notin DOMAIN inbox.listed
                  /\ i - Len(inbox.listed) \in DOMAIN items
                  /\ joined[i] = items[i - Len(inbox.listed)]
          /\ \A r : In(inbox.listed, r) \/ In(items, r) => In(joined, r)
      <4> DEFINE listed == inbox.listed
      <4>1. listed \in Seq(0..MaxRows) /\ items \in Seq(0..MaxRows) /\ MaxRows \in Nat
        BY <1>1, <2>2, <2>3
      <4>2. joined = listed \o items  BY DEF joined
      <4> HIDE DEF listed, items
      <4>3. \A i \in DOMAIN (listed \o items) :
              \/ i \in DOMAIN listed /\ (listed \o items)[i] = listed[i]
              \/ /\ i \notin DOMAIN listed /\ i - Len(listed) \in DOMAIN items
                 /\ (listed \o items)[i] = items[i - Len(listed)]
        BY <4>1, ListsJoin
      <4>4. \A r : In(listed, r) \/ In(items, r) => In(listed \o items, r)
        BY <4>1, ListsJoin
      <4>5. \A r : In(listed, r) \/ In(items, r) => In(joined, r)  BY <4>2, <4>4
      <4>6. \A i \in DOMAIN joined :
              \/ i \in DOMAIN listed /\ joined[i] = listed[i]
              \/ /\ i \notin DOMAIN listed /\ i - Len(listed) \in DOMAIN items
                 /\ joined[i] = items[i - Len(listed)]
        BY <4>2, <4>3
      <4> QED  BY <4>5, <4>6 DEF listed
    <3>4. DOMAIN inbox.listed = 1..Len(inbox.listed) /\ Len(inbox.listed) \in Nat
          /\ DOMAIN joined \subseteq Nat
      BY <2>2, <2>4 DEF Lists
    <3>5. /\ \A i \in DOMAIN inbox.listed : inbox.listed[i] \in Nat
          /\ \A i \in DOMAIN items : items[i] \in Nat
          /\ inbox.cursor \in Nat /\ inbox.answer.cursor \in Nat
      BY <1>1, <2>2, <2>3, MembersOf
    <3> HIDE DEF items
    <3>6. \A i \in DOMAIN inbox.listed, j \in DOMAIN items : inbox.listed[i] > items[j]
      <4> SUFFICES ASSUME NEW i \in DOMAIN inbox.listed, NEW j \in DOMAIN items
                   PROVE  inbox.listed[i] > items[j]
        OBVIOUS
      <4>1. inbox.cursor # 0  BY <3>2
      <4> QED  BY <3>1, <3>2, <3>5, <4>1
    <3>7. Downwards(joined)
      <4> SUFFICES ASSUME NEW i \in DOMAIN joined, NEW j \in DOMAIN joined, i < j
                   PROVE  joined[i] > joined[j]
        BY DEF Downwards
      <4>1. CASE i \in DOMAIN inbox.listed /\ j \in DOMAIN inbox.listed
        BY <3>2, <3>3, <4>1 DEF Downwards
      <4>2. CASE i \in DOMAIN inbox.listed /\ j \notin DOMAIN inbox.listed
        BY <3>3, <3>6, <4>2
      <4>3. CASE i \notin DOMAIN inbox.listed
        <5>1. j \notin DOMAIN inbox.listed  BY <3>4, <4>3
        <5>2. i - Len(inbox.listed) < j - Len(inbox.listed)  BY <3>4
        <5> QED  BY <3>1, <3>3, <4>3, <5>1, <5>2 DEF Downwards
      <4> QED  BY <4>1, <4>2, <4>3
    <3>8. inbox.answer.cursor # 0 => \A i \in DOMAIN joined : joined[i] >= inbox.answer.cursor
      <4> SUFFICES ASSUME inbox.answer.cursor # 0, NEW i \in DOMAIN joined
                   PROVE  joined[i] >= inbox.answer.cursor
        OBVIOUS
      <4>1. CASE i \in DOMAIN inbox.listed
        <5>1. PICK j \in DOMAIN items : items[j] = inbox.answer.cursor  BY <3>1 DEF In
        <5> QED  BY <3>3, <3>5, <3>6, <4>1, <5>1
      <4>2. CASE i \notin DOMAIN inbox.listed  BY <3>1, <3>3, <4>2
      <4> QED  BY <4>1, <4>2
    <3>9. ASSUME NEW r \in present, inbox.answer.cursor = 0 \/ r >= inbox.answer.cursor
          PROVE  In(joined, r)
      <4>1. CASE inbox.cursor = 0 \/ r < inbox.cursor  BY <3>1, <3>3, <3>9, <4>1
      <4>2. CASE inbox.cursor # 0 /\ r >= inbox.cursor
        <5>1. ~inbox.loading  BY <3>0, <4>2 DEF FirstPage
        <5> QED  BY <3>0, <3>3, <4>2, <5>1 DEF ListedSoFar
      <4>3. r \in Nat  BY <1>1
      <4> QED  BY <3>5, <4>1, <4>2, <4>3
    <3>10. FirstPage' /\ NextPage'  BY <2>8 DEF FirstPage, NextPage
    <3>11. ListedInOrder'  BY <2>8, <3>7, <3>8 DEF ListedInOrder, Downwards
    <3>12. ListedSoFar'  BY <1>1, <2>8, <3>9 DEF ListedSoFar, In
    <3> QED  BY <3>10, <3>11, <3>12
  <2> QED  BY <1>1, <2>9, <2>10 DEF InboxInv
<1>4. CASE inbox.call # "value"
  <2>1. inbox' = [inbox EXCEPT !.error = inbox.call, !.loading = FALSE, !.call = "idle"]
    BY <1>4 DEF ArriveInbox
  <2>2. inbox.call \in Notices /\ "idle" \in States  BY <1>1, <1>2, <1>4
  <2> HIDE DEF Lists, Cursors, Notices, States
  <2>3. inbox' \in Inboxes  BY <1>2, <2>1, <2>2
  <2>4. /\ inbox'.listed = inbox.listed /\ inbox'.cursor = inbox.cursor
        /\ inbox'.loading = FALSE /\ inbox'.call = "idle"
    BY <1>2, <2>1
  <2>5. InboxTypes'  BY <1>1, <1>2, <2>3 DEF InboxTypes, InboxStates, Lists, Cursors, Notices,
         States
  <2>6. ASSUME live PROVE (FirstPage /\ ListedInOrder /\ ListedSoFar /\ NextPage)'
    <3>0. FirstPage /\ ListedInOrder /\ ListedSoFar /\ NextPage  BY <2>6 DEF InboxInv
    <3>1. FirstPage' /\ NextPage'  BY <2>4 DEF FirstPage, NextPage
    <3>2. ListedInOrder'  BY <2>4, <3>0 DEF ListedInOrder, Downwards
    <3>3. inbox.loading => present = {}  BY <1>4, <3>0 DEF FirstPage
    <3>4. ListedSoFar'  BY <1>1, <2>4, <3>0, <3>3 DEF ListedSoFar, In
    <3> QED  BY <3>1, <3>2, <3>4
  <2> QED  BY <1>1, <2>5, <2>6 DEF InboxInv
<1> QED  BY <1>3, <1>4

LEMMA LoadMoreKeepsInv ==
  ASSUME InboxInv, LoadMore PROVE InboxInv'
<1> DEFINE Lists == Seq(0..MaxRows)
           Cursors == 0..MaxRows
           Notices == Errors \cup {"none"}
           States == {"idle", "sent", "value"} \cup Errors
           Inboxes == [ listed : Lists, cursor : Cursors, loading : BOOLEAN,
                        error : Notices, call : States, answer : Pages ]
<1>1. inbox \in Inboxes /\ InboxStates = Inboxes /\ inbox' = [inbox EXCEPT !.call = "sent"]
      /\ inbox.cursor # 0 /\ inbox.call = "idle"
  BY DEF InboxInv, InboxTypes, InboxStates, LoadMore
<1>2. rows' = rows /\ present' = present /\ live' = live  BY DEF LoadMore
<1>3. "sent" \in States  OBVIOUS
<1> HIDE DEF Lists, Cursors, Notices, States
<1>4. inbox' \in Inboxes  BY <1>1, <1>3
<1>5. /\ inbox'.listed = inbox.listed /\ inbox'.cursor = inbox.cursor
      /\ inbox'.loading = inbox.loading /\ inbox'.call = "sent"
  BY <1>1
<1>6. InboxTypes'
  BY <1>1, <1>2, <1>4 DEF InboxInv, InboxTypes, InboxStates, Lists, Cursors, Notices, States,
     Pages
<1>7. ASSUME live PROVE (FirstPage /\ ListedInOrder /\ ListedSoFar /\ NextPage)'
  <2>1. FirstPage /\ ListedInOrder /\ ListedSoFar /\ NextPage  BY <1>7 DEF InboxInv
  <2>2. ~inbox.loading  BY <1>1, <2>1 DEF FirstPage
  <2>3. FirstPage' /\ NextPage'  BY <1>5, <2>2 DEF FirstPage, NextPage
  <2>4. ListedInOrder'  BY <1>1, <1>5, <2>1 DEF ListedInOrder, Downwards
  <2>5. ListedSoFar'  BY <1>2, <1>5, <2>1 DEF ListedSoFar, In
  <2> QED  BY <2>3, <2>4, <2>5
<1> QED  BY <1>2, <1>6, <1>7 DEF InboxInv

LEMMA NextKeepsInboxInv ==
  ASSUME InboxInv, [Next]_vars PROVE InboxInv'
<1>1. CASE ServeInbox \/ ArriveInbox \/ LoadMore
  BY <1>1, ServeInboxKeepsInv, ArriveInboxKeepsInv, LoadMoreKeepsInv
<1>2. CASE rows \subseteq rows' /\ rows' \subseteq 1..MaxRows /\ live' = live
           /\ UNCHANGED <<present, inbox>>
  <2>1. InboxTypes'
    BY <1>2 DEF InboxInv, InboxTypes, InboxStates, Pages
  <2>2. (FirstPage => FirstPage') /\ (ListedInOrder => ListedInOrder')
        /\ (ListedSoFar => ListedSoFar') /\ (NextPage => NextPage')
    BY <1>2 DEF FirstPage, ListedInOrder, ListedSoFar, NextPage, Downwards, In
  <2> QED  BY <1>2, <2>1, <2>2 DEF InboxInv
<1>3. \/ ServeInbox \/ ArriveInbox \/ LoadMore
      \/ rows \subseteq rows' /\ rows' \subseteq 1..MaxRows /\ UNCHANGED <<present, inbox>>
  <2>0. rows \subseteq 1..MaxRows  BY DEF InboxInv, InboxTypes
  <2>1. CASE WorkspaceNext
    <3>1. ASSUME NEW r \in 1..MaxRows, RowCreated(r)
          PROVE  rows \subseteq rows' /\ rows' \subseteq 1..MaxRows
                 /\ UNCHANGED <<present, inbox>>
      BY <2>0, <3>1 DEF RowCreated
    <3> QED
      BY <2>0, <2>1, <3>1 DEF WorkspaceNext, ServePage, Settle, HeaderHearsUser, HeaderHearsApi
  <2>2. CASE UNCHANGED <<rows, present, inbox>>  BY <2>0, <2>2
  <2> QED  BY <2>1, <2>2 DEF Next, vars
<1> QED  BY <1>1, <1>2, <1>3, LiveStays

LEMMA InitEstablishesInboxInv ==
  ASSUME Init PROVE InboxInv
<1> DEFINE Lists == Seq(0..MaxRows)
           Cursors == 0..MaxRows
           Notices == Errors \cup {"none"}
           States == {"idle", "sent", "value"} \cup Errors
<1>1. /\ live \in BOOLEAN /\ present = {} /\ rows \subseteq 1..MaxRows
      /\ inbox = OpenInbox \/ inbox = ClosedInbox
  BY DEF Init
<1>2. MaxRows \in Nat /\ NoPage \in Pages /\ <<>> \in Lists /\ <<0>> \in Lists /\ 0 \in Cursors
      /\ "none" \in Notices /\ "idle" \in States /\ "sent" \in States
  BY PageSizeAssumption DEF NoPage, Pages
<1> HIDE DEF Lists, Cursors, Notices, States
<1> DEFINE Inboxes == [ listed : Lists, cursor : Cursors, loading : BOOLEAN,
                        error : Notices, call : States, answer : Pages ]
           fresh(box) == /\ box \in Inboxes /\ box.cursor = 0
                         /\ live => /\ box.listed = <<>>
                                    /\ box.call = (IF box.loading THEN "sent" ELSE "idle")
<1>3. fresh(ClosedInbox)  BY <1>2 DEF ClosedInbox
<1>4. fresh(OpenInbox)
  <2> DEFINE first == IF live THEN <<>> ELSE <<0>>
             call   == IF live THEN "sent" ELSE "idle"
  <2>1. first \in Lists /\ call \in States /\ live \in BOOLEAN  BY <1>1, <1>2
  <2>2. OpenInbox = [ClosedInbox EXCEPT !.loading = live, !.call = call, !.listed = first]
    BY DEF OpenInbox
  <2> HIDE DEF first, call
  <2>3. OpenInbox \in Inboxes  BY <1>3, <2>1, <2>2
  <2>4. OpenInbox.cursor = 0 /\ OpenInbox.listed = first /\ OpenInbox.loading = live
        /\ OpenInbox.call = call
    BY <1>3, <2>2
  <2> QED  BY <2>3, <2>4 DEF first, call
<1>5. fresh(inbox)  BY <1>1, <1>3, <1>4
<1>6. InboxTypes
  BY <1>1, <1>5 DEF InboxTypes, InboxStates, Lists, Cursors, Notices, States
<1>7. ASSUME live PROVE FirstPage /\ ListedInOrder /\ ListedSoFar /\ NextPage
  <2>1. /\ inbox.listed = <<>> /\ inbox.cursor = 0 /\ inbox.loading \in BOOLEAN
        /\ inbox.call = (IF inbox.loading THEN "sent" ELSE "idle")
    BY <1>5, <1>7
  <2>2. FirstPage  BY <1>1, <2>1 DEF FirstPage
  <2>3. ListedInOrder  BY <2>1 DEF ListedInOrder, Downwards
  <2>4. ListedSoFar /\ NextPage  BY <1>1, <2>1 DEF ListedSoFar, NextPage
  <2> QED  BY <2>2, <2>3, <2>4
<1> QED  BY <1>6, <1>7 DEF InboxInv

\* However long the list, however small its pages and however it grows between
\* them, the inbox lists no migration twice and in the end every one that was
\* there when it opened (list_records' cursor, and loadMore's appending).
THEOREM InboxListsEachOnce == Spec => []PagesListEachOnce
<1>1. ASSUME InboxInv PROVE PagesListEachOnce
  <2> SUFFICES ASSUME live
               PROVE  /\ \A i, j \in DOMAIN inbox.listed :
                           inbox.listed[i] = inbox.listed[j] => i = j
                      /\ ListShown /\ inbox.cursor = 0 /\ inbox.call = "idle"
                           => present \subseteq {inbox.listed[i] : i \in DOMAIN inbox.listed}
    BY DEF PagesListEachOnce
  <2>1. Downwards(inbox.listed) /\ ListedSoFar
    BY <1>1 DEF InboxInv, ListedInOrder
  <2>2. inbox.listed \in Seq(0..MaxRows) /\ MaxRows \in Nat
    BY <1>1, PageSizeAssumption DEF InboxInv, InboxTypes, InboxStates
  <2>3. ASSUME NEW i \in DOMAIN inbox.listed, NEW j \in DOMAIN inbox.listed,
               inbox.listed[i] = inbox.listed[j]
        PROVE  i = j
    <3>1. inbox.listed[i] \in Nat /\ inbox.listed[j] \in Nat /\ i \in Nat /\ j \in Nat
      BY <2>2, MembersOf
    <3>2. ~(inbox.listed[i] > inbox.listed[j]) /\ ~(inbox.listed[j] > inbox.listed[i])
      BY <2>3, <3>1
    <3> QED  BY <2>1, <3>1, <3>2 DEF Downwards
  <2>4. ListShown /\ inbox.cursor = 0
          => present \subseteq {inbox.listed[i] : i \in DOMAIN inbox.listed}
    BY <2>1 DEF ListShown, ListedSoFar, In
  <2> QED  BY <2>3, <2>4
<1> QED  BY <1>1, InitEstablishesInboxInv, NextKeepsInboxInv, PTL DEF Spec

-----------------------------------------------------------------------------
(* What every variable can hold *)

HeaderTypes ==
  header \in [ user : {"none", "user"}, me : {"idle", "sent"},
               api : {"none", "preview", "checking", "connected", "upgrade-required",
                      "unavailable"} ]

LEMMA HeaderKeepsTypes ==
  ASSUME HeaderTypes, [Next]_vars PROVE HeaderTypes'
<1>1. CASE HeaderHearsUser
  <2>1. PICK r \in Responses : header' = [header EXCEPT !.user = User(FetchMe(r)), !.me = "idle"]
    BY <1>1 DEF HeaderHearsUser
  <2>2. User(FetchMe(r)) \in {"none", "user"}  BY DEF User
  <2> QED  BY <2>1, <2>2 DEF HeaderTypes
<1>2. CASE HeaderHearsApi
  <2>1. PICK r \in Responses, capable \in BOOLEAN :
          header' = [header EXCEPT !.api = CheckApiConnection(r, capable)]
    BY <1>2 DEF HeaderHearsApi
  <2>2. CheckApiConnection(r, capable) \in {"connected", "upgrade-required", "unavailable"}
    BY DEF CheckApiConnection
  <2> QED  BY <2>1, <2>2 DEF HeaderTypes
<1>3. CASE UNCHANGED header  BY <1>3 DEF HeaderTypes
<1>4. WorkspaceNext => HeaderHearsUser \/ HeaderHearsApi \/ UNCHANGED header
  BY DEF WorkspaceNext, RowCreated, ServeInbox, ArriveInbox, LoadMore, ServePage, Settle
<1> QED  BY <1>1, <1>2, <1>3, <1>4 DEF Next, vars

LEMMA InitEstablishesHeaderTypes ==
  ASSUME Init PROVE HeaderTypes
  BY DEF Init, OpenHeader, ClosedHeader, HeaderTypes

LEMMA PageTypesAreTypes ==
  ASSUME PageTypes PROVE MigrationTypeOK
<1>1. \A c \in Calls : /\ c \in {NoCall, Sent, Failed} \/ c = Answered(c.row)
                       /\ c.row \in Rows \cup {NoRow}
                       /\ c.pc \in {"idle", "sent", "answered", "failed"}
  <2> SUFFICES ASSUME NEW c \in Calls
               PROVE  /\ c \in {NoCall, Sent, Failed} \/ c = Answered(c.row)
                      /\ c.row \in Rows \cup {NoRow}
                      /\ c.pc \in {"idle", "sent", "answered", "failed"}
    OBVIOUS
  <2>1. CASE c \in {NoCall, Sent, Failed}  BY <2>1 DEF NoCall, Sent, Failed
  <2>2. CASE \E r \in Rows : c = Answered(r)  BY <2>2, CallFacts
  <2> QED  BY <2>1, <2>2 DEF Calls
<1>2. /\ load \in Calls /\ poll \in [Polls -> Calls] /\ command \in Commands
      /\ live \in BOOLEAN /\ loading \in BOOLEAN /\ error \in BOOLEAN
      /\ server \in Rows /\ view \in Rows \cup {NoRow} /\ details \in {NoCall, Sent}
      /\ pending \in Forms \cup {"none"}
  BY DEF PageTypes
<1>3. /\ command.pc \in {"idle", "sent", "accepted", "refused"}
      /\ command.op \in Operations \cup {"none"}
      /\ {command.shown, command.reply} \subseteq Rows \cup {NoRow}
  BY <1>2 DEF Commands
<1>4. load \in {NoCall, Sent, Failed} \cup {Answered(row) : row \in {load.row}}
      /\ load.row \in Rows \cup {NoRow}
  BY <1>1, <1>2
<1>5. \A p \in Polls : /\ poll[p].pc \in {"idle", "sent", "answered", "failed"}
                       /\ poll[p].row \in Rows \cup {NoRow}
  BY <1>1, <1>2
<1> QED  BY <1>2, <1>3, <1>4, <1>5 DEF MigrationTypeOK

LEMMA WorkspaceTypesAreTypes ==
  ASSUME LoadOnceTypes, InboxTypes, HeaderTypes PROVE WorkspaceTypeOK
<1>1. /\ inbox.listed \in Seq(0..MaxRows) /\ inbox.cursor \in 0..MaxRows
      /\ inbox.error \in Errors \cup {"none"}
      /\ inbox.call \in {"idle", "sent", "value"} \cup Errors
  BY DEF InboxTypes, InboxStates
<1>2. /\ page.kind \in LoadOncePages \cup {"none"}
      /\ page.data \in {"empty", "demo", "live"} /\ page.user \in {"none", "preview", "user"}
      /\ page.error \in Errors \cup {"none"}
  BY DEF LoadOnceTypes, LoadOnceStates, PageKinds
<1>3. \A q \in DOMAIN page.call : page.call[q] \in {"idle", "sent"} \cup Results
  <2>1. page.call \in CallsOf(page.kind)  BY DEF LoadOnceTypes
  <2>2. CASE page.kind = "none"  BY <2>1, <2>2 DEF CallsOf
  <2>3. CASE page.kind # "none"  BY <2>1, <2>3 DEF CallsOf
  <2> QED  BY <2>2, <2>3
<1>4. /\ header.user \in {"none", "user"}
      /\ header.api \in {"none", "preview", "checking", "connected", "upgrade-required",
                         "unavailable"}
  BY DEF HeaderTypes
<1>5. live \in BOOLEAN /\ rows \subseteq 1..MaxRows /\ present \subseteq rows
  BY DEF LoadOnceTypes, InboxTypes
<1> QED  BY <1>1, <1>2, <1>3, <1>4, <1>5 DEF WorkspaceTypeOK

\* Every variable of every page holds what the page's code can put there.
THEOREM PagesAreTyped == Spec => []TypeOK
<1>1. RunInv /\ PageInv /\ LoadOnceInv /\ InboxInv /\ HeaderTypes => TypeOK
  <2>1. RunTypes /\ live \in BOOLEAN => RunTypeOK  BY DEF RunTypes, RunTypeOK, TabStates, FetchStates
  <2> QED
    BY <2>1, PageTypesAreTypes, WorkspaceTypesAreTypes
    DEF TypeOK, RunInv, PageInv, PageTypes, LoadOnceInv, InboxInv
<1>2. Spec => []RunInv
  BY InitEstablishesRunInv, NextKeepsRunInv, PTL DEF Spec
<1>3. Spec => []PageInv
  BY InitEstablishesPageInv, NextKeepsPageInv, PTL DEF Spec
<1>4. Spec => []LoadOnceInv
  BY InitEstablishesLoadOnceInv, NextKeepsLoadOnceInv, PTL DEF Spec
<1>5. Spec => []InboxInv
  BY InitEstablishesInboxInv, NextKeepsInboxInv, PTL DEF Spec
<1>6. Spec => []HeaderTypes
  BY InitEstablishesHeaderTypes, HeaderKeepsTypes, PTL DEF Spec
<1> QED  BY <1>1, <1>2, <1>3, <1>4, <1>5, <1>6, PTL

=============================================================================
