------------------------------ MODULE PageValue ------------------------------
(***************************************************************************)
(* Page Opportunities runs of one website: services/url_intelligence/      *)
(* page_value.py (scoring), the analysis stage of page_intelligence.py,    *)
(* the page_value jobs of monitoring/runner.py and the refresh and cancel  *)
(* requests of api/routes_page_opportunities.py.                           *)
(*                                                                         *)
(* A run scores every page of the latest completed crawl in chunks of its  *)
(* cursor, then analyses its most valuable pages; each chunk is a job, and *)
(* one that leaves work queues the next.  Each commit is an action.  Pages *)
(* are numbered by id; the order by score is abstracted to the same order. *)
(***************************************************************************)
EXTENDS Naturals, FiniteSets, Sequences, FiniteSetsExt

CONSTANTS
  Pages,         \* number of pages of the crawl
  Unfetched,     \* pages that were discovered but not crawled
  MaxRuns,       \* bound of the model: runs that are ever requested
  ChunkSize,     \* CHUNK_SIZE of scoring and of analysis
  AnalyzeLimit,  \* ANALYZE_LIMIT
  PVRequest,     \* concurrent requests: users, finished crawls and syncs
  PVFaults,      \* bound of the model: crashes and exceptions
  PVTimely       \* {"cancel"}: no commit between a look at a cancel and its use

ASSUME PageValueAssumption ==
  /\ {Pages, MaxRuns, ChunkSize, AnalyzeLimit} \subseteq Nat \ {0}
  /\ Unfetched \subseteq 1 .. Pages /\ PVFaults \in Nat
  /\ PVTimely \subseteq {"cancel"}

VARIABLES
  run,      \* page_value_runs: status, cursor, analysis status and cursor
  score,    \* page_value_scores: the pages each run has a row for
  handled,  \* history: the pages each run has analysed, reused or given up
  kept,     \* history: the run that completed last
  pvjob,    \* the newest page_value job of each run
  pvw,      \* the worker executing it
  ask,      \* the requests in progress
  pvfaults, \* how many faults have struck
  pvcut     \* history: the runs whose chain of jobs a fault has cut

pvVars == <<run, score, handled, kept, pvjob, pvw, ask, pvfaults, pvcut>>

----------------------------------------------------------------------------

Page == 1 .. Pages
Runs == 1 .. MaxRuns
PVActive == {"pending", "running"}
AnalysisActive == {"pending", "running"}
PVTerminal == {"completed", "failed", "cancelled"}

NoRun == [status |-> "none", cursor |-> 0, analysis |-> "none", rank |-> 0, total |-> 0]
PVIdle == [pc |-> "idle", batch |-> {}]

\* needs_work
NeedsWork(r) ==
  \/ run[r].status \in PVActive
  \/ run[r].status = "completed" /\ run[r].analysis \in AnalysisActive

\* The first n elements of a set of pages
First(S, n) == {p \in S : Cardinality({q \in S : q <= p}) <= n}

\* _ranked: the crawled pages with a score, best first
Ranked(r) == score[r] \ Unfetched
\* ... from offset `rank`, up to a chunk and up to the total
Slice(r) ==
  LET upto(n) == First(Ranked(r), n)
      take == Min({ChunkSize, run[r].total - run[r].rank}) IN
  upto(run[r].rank + take) \ upto(run[r].rank)
Take(r) == Min({ChunkSize, run[r].total - run[r].rank})

PVInit ==
  /\ run = [r \in Runs |-> NoRun]
  /\ score = [r \in Runs |-> {}]
  /\ handled = [r \in Runs |-> {}]
  /\ kept = 0
  /\ pvjob = [r \in Runs |-> "none"]
  /\ pvw = [r \in Runs |-> PVIdle]
  /\ ask = [q \in PVRequest |-> [pc |-> "idle", run |-> 0]]
  /\ pvfaults = 0 /\ pvcut = {}

----------------------------------------------------------------------------
(* Requests: request_run, cancel_run.                                      *)

\* No worker is between its look at a cancel and its commit, when that is
\* taken to be timely
Uncommitting(r) ==
  "cancel" \in PVTimely => pvw[r].pc \notin {"start", "commit", "prepare", "acommit"}

Existing == {r \in Runs : run[r].status \in PVActive}

\* An active run is returned, and a request ends there.
Find(q) ==
  /\ ask[q].pc = "idle" /\ Existing = {}
  /\ ask' = [ask EXCEPT ![q] = [pc |-> "create", run |-> 0]]
  /\ UNCHANGED <<run, score, handled, kept, pvjob, pvw, pvfaults, pvcut>>

\* Analyses in progress are superseded; the new run is committed.
CreateRun(q) ==
  /\ ask[q].pc = "create" /\ \A r \in Runs : Uncommitting(r)
  /\ \E r \in Runs :
       /\ run[r].status = "none" /\ \A s \in 1 .. r - 1 : run[s].status # "none"
       /\ run' = [s \in Runs |->
            IF s = r THEN [NoRun EXCEPT !.status = "pending"]
            ELSE IF run[s].analysis \in AnalysisActive
                 THEN [run[s] EXCEPT !.analysis = "cancelled"] ELSE run[s]]
       /\ ask' = [ask EXCEPT ![q] = [pc |-> "enqueue", run |-> r]]
  /\ UNCHANGED <<score, handled, kept, pvjob, pvw, pvfaults, pvcut>>

\* enqueue_page_value_chunk: at most one active job for a run
Enqueued(r) == [pvjob EXCEPT ![r] = IF @ \in {"queued", "running"} THEN @ ELSE "queued"]

EnqueueRun(q) ==
  /\ ask[q].pc = "enqueue"
  /\ pvjob' = Enqueued(ask[q].run)
  /\ ask' = [ask EXCEPT ![q] = [pc |-> "idle", run |-> 0]]
  /\ UNCHANGED <<run, score, handled, kept, pvw, pvfaults, pvcut>>

\* The cancel request loads the run and goes on if it needs work.
ReadCancel(q, r) ==
  /\ ask[q].pc = "idle"
  /\ NeedsWork(r)
  /\ Uncommitting(r)
  /\ ask' = [ask EXCEPT ![q] =
       [pc |-> IF run[r].status = "completed" THEN "cut" ELSE "cancel", run |-> r]]
  /\ UNCHANGED <<run, score, handled, kept, pvjob, pvw, pvfaults, pvcut>>

\* Scores of a completed run stay; those of an active one are deleted.
WriteCancel(q) ==
  LET r == ask[q].run IN
  /\ \/ /\ ask[q].pc = "cut"
        /\ run' = [run EXCEPT ![r].analysis = "cancelled"]
        /\ UNCHANGED score
     \/ /\ ask[q].pc = "cancel"
        /\ run' = [run EXCEPT ![r].status = "cancelled"]
        /\ score' = [score EXCEPT ![r] = {}]
  /\ ask' = [ask EXCEPT ![q] = [pc |-> "idle", run |-> 0]]
  /\ UNCHANGED <<handled, kept, pvjob, pvw, pvfaults, pvcut>>

----------------------------------------------------------------------------
(* Chunks: run_chunk, run_analysis_chunk.                                  *)

PVGo(r, pc, batch) == pvw' = [pvw EXCEPT ![r] = [pc |-> pc, batch |-> batch]]
PVAt(r, pc) == pvw[r].pc = pc
\* A worker's commit, when a cancel is taken to be timely
Settled(r) == "cancel" \in PVTimely => \A q \in PVRequest :
                ~ (ask[q].pc \in {"cut", "cancel"} /\ ask[q].run = r)

ClaimRun(r) ==
  /\ pvjob[r] = "queued" /\ PVAt(r, "idle")
  /\ pvjob' = [pvjob EXCEPT ![r] = "running"]
  /\ PVGo(r, "load", {})
  /\ UNCHANGED <<run, score, handled, kept, ask, pvfaults, pvcut>>

\* The rows after the cursor, as many as a chunk takes
NextRows(r) == First({p \in Page : p > run[r].cursor}, ChunkSize)

LoadRun(r) ==
  /\ PVAt(r, "load") /\ Settled(r)
  /\ \/ run[r].status = "pending" /\ PVGo(r, "checkstart", {})
     \/ run[r].status = "running" /\ PVGo(r, "check", NextRows(r))
     \/ /\ run[r].status = "completed" /\ run[r].analysis = "pending"
        /\ PVGo(r, "prepare", {})
     \/ /\ run[r].status = "completed" /\ run[r].analysis = "running"
        /\ PVGo(r, "analyze", Slice(r))
     \/ ~ NeedsWork(r) /\ PVGo(r, "complete", {})
  /\ UNCHANGED <<run, score, handled, kept, pvjob, ask, pvfaults, pvcut>>

\* The crawl is gone (it was deleted or is no longer completed).
CrawlGone(r) ==
  /\ PVAt(r, "checkstart") /\ Settled(r)
  /\ run[r].status = "pending"
  /\ run' = [run EXCEPT ![r].status = "failed"]
  /\ PVGo(r, "complete", {})
  /\ UNCHANGED <<score, handled, kept, pvjob, ask, pvfaults, pvcut>>

\* Wrong: the status is not looked at again before the commit.
CheckRunBlind(r) ==
  /\ \/ PVAt(r, "checkstart") /\ PVGo(r, "start", {})
     \/ PVAt(r, "check") /\ PVGo(r, "commit", pvw[r].batch)
  /\ UNCHANGED <<run, score, handled, kept, pvjob, ask, pvfaults, pvcut>>

\* _cancelled: the status is refreshed just before the commit.
CheckRun(r) ==
  /\ Settled(r)
  /\ \/ /\ pvw[r].pc \in {"checkstart", "check"} /\ run[r].status = "cancelled"
        /\ PVGo(r, "complete", {})
     \/ /\ PVAt(r, "checkstart") /\ run[r].status # "cancelled"
        /\ PVGo(r, "start", {})
     \/ /\ PVAt(r, "check") /\ run[r].status # "cancelled"
        /\ PVGo(r, "commit", pvw[r].batch)
  /\ UNCHANGED <<run, score, handled, kept, pvjob, ask, pvfaults, pvcut>>

StartRun(r) ==
  /\ PVAt(r, "start")
  /\ run' = [run EXCEPT ![r].status = "running", ![r].cursor = 0]
  /\ score' = [score EXCEPT ![r] = {}]
  /\ PVGo(r, "complete", {})
  /\ UNCHANGED <<handled, kept, pvjob, ask, pvfaults, pvcut>>

\* Wrong: a chunk that is just full is taken for the last one.
CommitRunEarly(r) ==
  /\ PVAt(r, "commit")
  /\ LET rows == pvw[r].batch
         after == [run[r] EXCEPT !.cursor = IF rows = {} THEN @ ELSE Max(rows)] IN
     /\ run' = [run EXCEPT ![r] = [after EXCEPT !.status = "completed", !.analysis = "pending"]]
     /\ score' = [score EXCEPT ![r] = @ \union rows]
     /\ kept' = r
  /\ PVGo(r, "complete", {})
  /\ UNCHANGED <<handled, pvjob, ask, pvfaults, pvcut>>

\* The rows, the cursor and, with the last chunk, the end of scoring: one
\* commit.  The scores of every other completed run are deleted with it.
CommitRun(r) ==
  LET rows == pvw[r].batch
      last == Cardinality(rows) < ChunkSize
      after == [run[r] EXCEPT !.cursor = IF rows = {} THEN @ ELSE Max(rows)]
      old == {s \in Runs \ {r} : run[s].status = "completed"} IN
  /\ PVAt(r, "commit")
  /\ run' = [run EXCEPT ![r] =
       IF last THEN [after EXCEPT !.status = "completed", !.analysis = "pending"] ELSE after]
  /\ score' = [s \in Runs |-> IF s = r THEN score[s] \union rows
                              ELSE IF last /\ s \in old THEN {} ELSE score[s]]
  /\ kept' = IF last THEN r ELSE kept
  /\ PVGo(r, "complete", {})
  /\ UNCHANGED <<handled, pvjob, ask, pvfaults, pvcut>>

\* The analysis begins; a cancel in the meantime is overwritten.
Prepare(r) ==
  /\ PVAt(r, "prepare")
  /\ run' = [run EXCEPT ![r].analysis = "running", ![r].rank = 0,
                        ![r].total = Min({AnalyzeLimit, Cardinality(Ranked(r))})]
  /\ PVGo(r, "complete", {})
  /\ UNCHANGED <<score, handled, kept, pvjob, ask, pvfaults, pvcut>>

\* analyze_rows: one commit for each page; one that fails is skipped.
AnalyzePage(r) ==
  /\ PVAt(r, "analyze") /\ pvw[r].batch # {}
  /\ LET p == Min(pvw[r].batch) IN
     /\ handled' = [handled EXCEPT ![r] = @ \union {p}]
     /\ PVGo(r, "analyze", pvw[r].batch \ {p})
  /\ UNCHANGED <<run, score, kept, pvjob, ask, pvfaults, pvcut>>

CheckAnalysis(r) ==
  /\ PVAt(r, "analyze") /\ pvw[r].batch = {} /\ Settled(r)
  /\ PVGo(r, IF run[r].analysis = "cancelled" THEN "complete" ELSE "acommit", {})
  /\ UNCHANGED <<run, score, handled, kept, pvjob, ask, pvfaults, pvcut>>

CommitAnalysis(r) ==
  LET reach == Min({run[r].rank + Take(r), Cardinality(Ranked(r))})
      short == reach - run[r].rank < Take(r) IN
  /\ PVAt(r, "acommit")
  /\ run' = [run EXCEPT ![r].rank = reach,
       ![r].analysis = IF reach >= run[r].total \/ short THEN "completed" ELSE @]
  /\ PVGo(r, "complete", {})
  /\ UNCHANGED <<score, handled, kept, pvjob, ask, pvfaults, pvcut>>

\* complete_job, then needs_work on the reloaded run and the next chunk
CompleteRun(r) ==
  /\ PVAt(r, "complete")
  /\ pvjob' = [pvjob EXCEPT ![r] = "done"]
  /\ PVGo(r, "continue", {})
  /\ UNCHANGED <<run, score, handled, kept, ask, pvfaults, pvcut>>

\* Wrong: the chain ends with the scoring, whatever is left to analyse.
ContinueScoring(r) ==
  /\ PVAt(r, "continue")
  /\ pvjob' = IF run[r].status \in PVActive THEN Enqueued(r) ELSE pvjob
  /\ PVGo(r, "idle", {})
  /\ UNCHANGED <<run, score, handled, kept, ask, pvfaults, pvcut>>

ContinueRun(r) ==
  /\ PVAt(r, "continue")
  /\ pvjob' = IF NeedsWork(r) THEN Enqueued(r) ELSE pvjob
  /\ PVGo(r, "idle", {})
  /\ UNCHANGED <<run, score, handled, kept, ask, pvfaults, pvcut>>

----------------------------------------------------------------------------
(* Faults.  A failed job is retried, and on its last attempt ends its run. *)

PVFault == pvfaults < PVFaults /\ pvfaults' = pvfaults + 1

\* The chunk raises or the worker dies; the job goes back to the queue, or ...
Retry(r) ==
  /\ pvjob[r] = "running" /\ PVFault
  /\ pvjob' = [pvjob EXCEPT ![r] = "queued"]
  /\ PVGo(r, "idle", {})
  /\ UNCHANGED <<run, score, handled, kept, ask, pvcut>>

\* ... it was the last attempt: fail_job commits, then the run is finalized.
LastFailure(r) ==
  /\ pvjob[r] = "running" /\ PVFault
  /\ pvjob' = [pvjob EXCEPT ![r] = "done"]
  /\ PVGo(r, "giveup", {})
  /\ UNCHANGED <<run, score, handled, kept, ask, pvcut>>

GiveUpRun(r) ==
  /\ PVAt(r, "giveup") /\ Settled(r)
  /\ run' = IF run[r].status = "completed" /\ run[r].analysis \in AnalysisActive
            THEN [run EXCEPT ![r].analysis = "failed"]
            ELSE IF run[r].status \in PVActive THEN [run EXCEPT ![r].status = "failed"] ELSE run
  /\ PVGo(r, "idle", {})
  /\ UNCHANGED <<score, handled, kept, pvjob, ask, pvfaults, pvcut>>

\* A worker dies after its job has ended and before the next is queued or the
\* run finalized; no job is left for the recovery to find.
DieBetween(r) ==
  /\ pvw[r].pc \in {"continue", "giveup"} /\ PVFault
  /\ PVGo(r, "idle", {})
  /\ pvcut' = pvcut \union {r}
  /\ UNCHANGED <<run, score, handled, kept, pvjob, ask>>

\* So does a request between its run and its job.
AskDies(q) ==
  /\ ask[q].pc = "enqueue" /\ PVFault
  /\ pvcut' = pvcut \union {ask[q].run}
  /\ ask' = [ask EXCEPT ![q] = [pc |-> "idle", run |-> 0]]
  /\ UNCHANGED <<run, score, handled, kept, pvjob, pvw>>

----------------------------------------------------------------------------

PVRequests == \E q \in PVRequest :
  Find(q) \/ CreateRun(q) \/ EnqueueRun(q) \/ WriteCancel(q) \/ \E r \in Runs : ReadCancel(q, r)
PVChunk(r) ==
  \/ ClaimRun(r) \/ LoadRun(r) \/ CrawlGone(r) \/ CheckRun(r) \/ StartRun(r) \/ CommitRun(r)
  \/ Prepare(r) \/ AnalyzePage(r) \/ CheckAnalysis(r) \/ CommitAnalysis(r)
  \/ CompleteRun(r) \/ ContinueRun(r) \/ GiveUpRun(r)

PVNext ==
  \/ PVRequests \/ \E q \in PVRequest : AskDies(q)
  \/ \E r \in Runs : PVChunk(r) \/ Retry(r) \/ LastFailure(r) \/ DieBetween(r)
PVSpec == PVInit /\ [][PVNext]_pvVars

----------------------------------------------------------------------------

PVTypeOK ==
  /\ run \in [Runs -> [status : PVActive \union PVTerminal \union {"none"}, cursor : 0 .. Pages,
                       analysis : AnalysisActive \union {"none", "completed", "failed", "cancelled"},
                       rank : 0 .. AnalyzeLimit, total : 0 .. AnalyzeLimit]]
  /\ score \in [Runs -> SUBSET Page] /\ handled \in [Runs -> SUBSET Page]
  /\ kept \in 0 .. MaxRuns
  /\ pvjob \in [Runs -> {"none", "queued", "running", "done"}]
  /\ pvfaults \in 0 .. PVFaults /\ pvcut \subseteq Runs

(***************************************************************************)
(* What the user is shown is whole: the run that completed last has a      *)
(* score for every page of its crawl, through every retry of a chunk and   *)
(* every other run; and when its analysis is completed, its best pages     *)
(* have all been analysed (page_value.py, run_chunk: "safe to re-run").    *)
(***************************************************************************)
RunIsWhole ==
  kept # 0 =>
    /\ score[kept] = Page
    /\ run[kept].analysis = "completed" =>
         First(Page \ Unfetched, AnalyzeLimit) \subseteq handled[kept]

(***************************************************************************)
(* A run with work left is carried on: a job of it is queued or running,   *)
(* or the commit that queues one or ends the run is under way, unless a    *)
(* worker or a request died exactly between the two.                       *)
(***************************************************************************)
RunCarriedOn ==
  \A r \in Runs : NeedsWork(r) =>
    \/ pvjob[r] \in {"queued", "running"} \/ pvw[r].pc \in {"continue", "giveup"}
    \/ \E q \in PVRequest : ask[q].pc = "enqueue" /\ ask[q].run = r
    \/ r \in pvcut

(***************************************************************************)
(* A run that was cancelled, failed or completed stays so: no chunk in     *)
(* progress, no retry and no last failure brings it back, and an analysis  *)
(* the user cut short is not taken up again.                               *)
(***************************************************************************)
RunStaysEnded ==
  [][\A r \in Runs :
       /\ run[r].status \in PVTerminal => run'[r].status = run[r].status
       /\ run[r].analysis = "cancelled" => run'[r].analysis = "cancelled"]_pvVars

(***************************************************************************)
(* A scoring run comes to its end, and its end is whole.                   *)
(***************************************************************************)
ScoringSound == RunIsWhole /\ RunCarriedOn
=============================================================================
