------------------------------- MODULE Crawl -------------------------------
(***************************************************************************)
(* One crawl of a site: services/url_intelligence/orchestrator.py and      *)
(* discovery.py, the url_crawl jobs of monitoring/runner.py that carry it, *)
(* and the create and cancel requests of api/routes_url_intelligence.py.   *)
(*                                                                         *)
(* A crawl is a crawl_jobs row and its crawl_urls rows.  It advances by    *)
(* chunks; every chunk is a job of the queue, and a chunk that leaves the  *)
(* crawl unfinished queues the next one.  A worker may die, time out or    *)
(* raise between any two commits: each commit is an action, and what the   *)
(* worker holds in memory is lost.  That a job has one executor and who    *)
(* may record its outcome is the business of JobQueue; here one worker     *)
(* executes, and the job of a dead worker is recovered.                    *)
(*                                                                         *)
(* What the site serves is arbitrary: the sitemaps robots.txt names, what  *)
(* a sitemap holds, which pages fail and what they link to.  Only a        *)
(* sitemap index is taken to be acyclic: it names smaller sitemaps.        *)
(***************************************************************************)
EXTENDS JobTable, FiniteSets

CONSTANTS
  Url,           \* the URLs of the site, by their dedup key
  Seed,          \* the URL the crawl starts from
  MaxSitemap,    \* sitemaps are numbered; the last is /sitemap.xml
  MaxUrls,       \* crawl.max_urls
  MaxDepth,      \* url_crawl_max_depth
  MaxFetches,    \* _MAX_SITEMAP_FETCHES_PER_CHUNK
  FetchBatch,    \* url_crawl_fetch_batch_size
  AnalyzeBatch,  \* url_crawl_analyze_batch_size
  MaxFaults,     \* bound of the model: crashes, time-outs and exceptions
  Timely         \* {"advance"}: no cancel lands while a phase change commits

ASSUME CrawlAssumption ==
  /\ Seed \in Url
  /\ {MaxSitemap, MaxUrls, MaxFetches, FetchBatch, AnalyzeBatch} \subseteq Nat \ {0}
  /\ MaxDepth \in Nat /\ MaxFaults \in Nat
  /\ Timely \subseteq {"advance"}

VARIABLES
  crawl,    \* the crawl_jobs row
  url,      \* the crawl_urls rows
  job,      \* the newest scheduled_jobs row of the crawl
  scored,   \* how often page scoring was requested for the crawl
  w,        \* the worker and its session
  request,  \* where the API request is: creating the crawl, cancelling it
  faults,   \* how many faults have struck
  cut       \* whether one struck where it cut the chain of jobs

vars == <<crawl, url, job, scored, w, request, faults, cut>>

----------------------------------------------------------------------------

Sitemap == 1 .. MaxSitemap
Terminal == {"completed", "failed", "cancelled"}
ActivePhase == {"pending", "discovering", "crawling", "analyzing", "preparing"}

\* The JSON cursor: sitemap_queue, robots_fetched, seeded_fallback
Cursor == [queue : SUBSET Sitemap, robots : {"no", "yes"}, seeded : {"no", "yes"}]
NoCursor == [queue |-> {}, robots |-> "no", seeded |-> "no"]

\* "analyzed" is a crawled page whose analyzed flag is set.
Page == [status : {"absent", "discovered", "eligible", "skipped", "failed", "crawled", "analyzed"},
         depth : Nat]
With(status) == {u \in Url : url[u].status = status}
Known == Url \ With("absent")
Full == crawl.discovered >= MaxUrls

\* The worker's session: the phase and cursor it read, the next phase, whether
\* a commit has expired the crawl since, and the loop it is in
Worker == [pc : {"idle", "chunk", "discover", "save", "add", "count", "check", "crawl", "analyze",
                 "advance", "commit", "complete", "continue", "finalize", "giveup"},
           phase : ActivePhase, next : ActivePhase \union {"completed"},
           cursor : Cursor, commits : {"none", "some"}, done : Nat,
           todo : SUBSET Url, batch : SUBSET Url, row : Url, depth : Nat]
Resting == [pc |-> "idle", phase |-> "pending", next |-> "pending",
            cursor |-> NoCursor, commits |-> "none", done |-> 0,
            todo |-> {}, batch |-> {}, row |-> Seed, depth |-> 0]
At(pc) == w.pc = pc
Idle == At("idle")
Advancing(next) == [w EXCEPT !.pc = "advance", !.next = next]
\* A chunk that leaves work in its phase only stamps updated_at.
Unfinished == [w EXCEPT !.pc = "complete"]

Init ==
  /\ crawl = [phase |-> "none", discovered |-> 0, eligible |-> 0, cursor |-> NoCursor]
  /\ url = [u \in Url |-> [status |-> "absent", depth |-> 0]]
  /\ job = NoJob
  /\ scored = 0
  /\ w = Resting
  /\ request = "idle"
  /\ faults = 0
  /\ cut = "no"

----------------------------------------------------------------------------
(* The API.  A request checks in one step and writes in another.           *)

Create ==
  /\ request = "idle" /\ crawl.phase = "none"
  /\ crawl' = [crawl EXCEPT !.phase = "pending"]
  /\ request' = "create"
  /\ UNCHANGED <<url, job, scored, w, faults, cut>>

Start ==
  /\ request = "create"
  /\ \E t \in Target : job' = NewJob(t)
  /\ request' = "idle"
  /\ UNCHANGED <<crawl, url, scored, w, faults, cut>>

AskCancel ==
  /\ request = "idle" /\ crawl.phase \in ActivePhase
  /\ request' = "cancel"
  /\ UNCHANGED <<crawl, url, job, scored, w, faults, cut>>

Cancel ==
  /\ request = "cancel"
  /\ "advance" \in Timely => ~ At("commit")
  /\ crawl' = [crawl EXCEPT !.phase = "cancelled"]
  /\ request' = "idle"
  /\ UNCHANGED <<url, job, scored, w, faults, cut>>

----------------------------------------------------------------------------
(* A chunk begins: _process_url_crawl_job, run_chunk.                      *)

Claim ==
  /\ Idle /\ Claimable(job)
  /\ job' = Claimed(job)
  /\ w' = [Resting EXCEPT !.pc = "chunk"]
  /\ UNCHANGED <<crawl, url, scored, request, faults, cut>>

\* The eligible pages nearest to the seed
NextBatch ==
  {S \in SUBSET With("eligible") :
     /\ Cardinality(S) <= FetchBatch
     /\ Cardinality(S) < FetchBatch => S = With("eligible")
     /\ \A u \in S, v \in With("eligible") \ S : url[u].depth <= url[v].depth}

Chunk ==
  LET read == [w EXCEPT !.phase = crawl.phase] IN
  /\ At("chunk")
  /\ \/ /\ crawl.phase \in Terminal
        /\ w' = Unfinished
     \/ /\ crawl.phase = "pending"
        /\ w' = Advancing("discovering")
     \/ /\ crawl.phase = "discovering"
        /\ w' = [read EXCEPT !.pc = "discover", !.cursor = crawl.cursor]
     \/ /\ crawl.phase = "crawling" /\ With("eligible") = {}
        /\ w' = Advancing("analyzing")
     \/ /\ crawl.phase = "crawling" /\ With("eligible") # {}
        /\ \E S \in NextBatch : w' = [read EXCEPT !.pc = "crawl", !.batch = S]
     \/ /\ crawl.phase = "analyzing"
        /\ w' = [read EXCEPT !.pc = "analyze"]
     \/ /\ crawl.phase = "preparing"   \* the findings are written here
        /\ w' = Advancing("completed")
  /\ UNCHANGED <<crawl, url, job, scored, request, faults, cut>>

----------------------------------------------------------------------------
(* Recording a URL: _try_add_url and _eligibility_check, three commits.    *)

Add ==
  /\ At("add") /\ ~ Full
  /\ \E u \in w.todo, status \in {"discovered", "skipped"} :
       /\ url' = [url EXCEPT ![u] = [status |-> status, depth |-> w.depth]]
       /\ w' = [w EXCEPT !.pc = "count", !.row = u, !.todo = @ \ {u}, !.commits = "some"]
  /\ UNCHANGED <<crawl, job, scored, request, faults, cut>>

\* Wrong: only a page that may be crawled counts.
CountCrawlable ==
  /\ At("count")
  /\ crawl' = IF url[w.row].status = "discovered" THEN [crawl EXCEPT !.discovered = @ + 1] ELSE crawl
  /\ w' = [w EXCEPT !.pc = IF url[w.row].status = "discovered" THEN "check" ELSE "add"]
  /\ UNCHANGED <<url, job, scored, request, faults, cut>>

Count ==
  /\ At("count")
  /\ crawl' = [crawl EXCEPT !.discovered = @ + 1]
  /\ w' = [w EXCEPT !.pc = IF url[w.row].status = "discovered" THEN "check" ELSE "add"]
  /\ UNCHANGED <<url, job, scored, request, faults, cut>>

\* Wrong: a page that robots.txt forbids is taken off a count it was never in.
CheckUncounts ==
  /\ At("check")
  /\ url' = [url EXCEPT ![w.row].status = "skipped"]
  /\ crawl' = [crawl EXCEPT !.eligible = @ - 1]
  /\ w' = [w EXCEPT !.pc = "add"]
  /\ UNCHANGED <<job, scored, request, faults, cut>>

\* robots.txt decides.
Check ==
  /\ At("check")
  /\ \/ /\ url' = [url EXCEPT ![w.row].status = "eligible"]
        /\ crawl' = [crawl EXCEPT !.eligible = @ + 1]
     \/ /\ url' = [url EXCEPT ![w.row].status = "skipped"]
        /\ UNCHANGED crawl
  /\ w' = [w EXCEPT !.pc = "add"]
  /\ UNCHANGED <<job, scored, request, faults, cut>>

Added ==
  /\ At("add") /\ (w.todo = {} \/ Full)
  /\ w' = [w EXCEPT !.pc = IF w.phase = "discovering" THEN "discover" ELSE "crawl", !.todo = {}]
  /\ UNCHANGED <<crawl, url, job, scored, request, faults, cut>>

----------------------------------------------------------------------------
(* Discovery: run_discovery_chunk.                                         *)

FetchRobots ==
  /\ At("discover") /\ w.cursor.robots = "no"
  /\ \E listed \in SUBSET Sitemap :
       w' = [w EXCEPT !.cursor.robots = "yes",
                      !.cursor.queue = IF listed = {} THEN {MaxSitemap} ELSE listed]
  /\ UNCHANGED <<crawl, url, job, scored, request, faults, cut>>

\* The loop goes on while sitemaps are queued, but for two limits.
MayFetch == w.cursor.queue # {} /\ w.done < MaxFetches /\ ~ Full

\* It has no body, or names sitemaps, or names pages.
FetchSitemap ==
  /\ At("discover") /\ w.cursor.robots = "yes" /\ MayFetch
  /\ \E s \in w.cursor.queue :
       \/ \E children \in SUBSET (1 .. (s - 1)) :
            w' = [w EXCEPT !.cursor.queue = (@ \ {s}) \union children, !.done = @ + 1]
       \/ \E locs \in SUBSET Url :
            w' = [w EXCEPT !.cursor.queue = @ \ {s}, !.done = @ + 1,
                           !.pc = "add", !.todo = locs \ Known, !.depth = 0]
  /\ UNCHANGED <<crawl, url, job, scored, request, faults, cut>>

\* No usable sitemap at all: start from the seed.
NeedsSeed == w.cursor.queue = {} /\ crawl.eligible = 0 /\ w.cursor.seeded = "no"

EndFetching ==
  /\ At("discover") /\ w.cursor.robots = "yes" /\ ~ MayFetch
  /\ w' = IF NeedsSeed
          THEN [w EXCEPT !.cursor.seeded = "yes", !.pc = "add", !.todo = {Seed} \ Known, !.depth = 0]
          ELSE [w EXCEPT !.pc = "save"]
  /\ UNCHANGED <<crawl, url, job, scored, request, faults, cut>>

(***************************************************************************)
(* The new cursor shares its sitemap list with the one that was loaded,    *)
(* and the list was changed in place.  Unless a commit has expired the     *)
(* loaded one or a flag differs, the ORM compares the two, finds them      *)
(* equal and writes nothing.                                               *)
(***************************************************************************)
CursorWritten ==
  \/ w.commits = "some"
  \/ w.cursor.robots # crawl.cursor.robots
  \/ w.cursor.seeded # crawl.cursor.seeded

Save ==
  /\ At("save")
  /\ crawl' = IF CursorWritten THEN [crawl EXCEPT !.cursor = w.cursor] ELSE crawl
  /\ w' = IF w.cursor.queue = {} THEN Advancing("crawling") ELSE Unfinished
  /\ UNCHANGED <<url, job, scored, request, faults, cut>>

----------------------------------------------------------------------------
(* Crawling: run_crawl_chunk.                                              *)

\* Wrong: a page that cannot be fetched stays eligible.
FetchPageAgain ==
  /\ At("crawl")
  /\ \E u \in w.batch :
       \/ /\ w' = [w EXCEPT !.batch = @ \ {u}]
          /\ UNCHANGED url
       \/ /\ url' = [url EXCEPT ![u].status = "crawled"]
          /\ w' = [w EXCEPT !.batch = @ \ {u}]
  /\ UNCHANGED <<crawl, job, scored, request, faults, cut>>

FetchPage ==
  /\ At("crawl")
  /\ \E u \in w.batch :
       \/ \E status \in {"skipped", "failed"} :
            /\ url' = [url EXCEPT ![u].status = status]
            /\ w' = [w EXCEPT !.batch = @ \ {u}]
       \/ \E links \in SUBSET Url :
            /\ url' = [url EXCEPT ![u].status = "crawled"]
            /\ w' = [w EXCEPT !.batch = @ \ {u}, !.pc = "add", !.depth = url[u].depth + 1,
                              !.todo = IF url[u].depth < MaxDepth THEN links \ Known ELSE {}]
  /\ UNCHANGED <<crawl, job, scored, request, faults, cut>>

\* Wrong: a batch that is done is taken for a phase that is done.
EndCrawlEarly ==
  /\ At("crawl") /\ w.batch = {}
  /\ w' = Advancing("analyzing")
  /\ UNCHANGED <<crawl, url, job, scored, request, faults, cut>>

EndCrawl ==
  /\ At("crawl") /\ w.batch = {}
  /\ w' = IF With("eligible") = {} THEN Advancing("analyzing") ELSE Unfinished
  /\ UNCHANGED <<crawl, url, job, scored, request, faults, cut>>

----------------------------------------------------------------------------
(* Analysis: _run_analyze_chunk.  A template is some set of crawled pages. *)

AnalyzeTemplate ==
  /\ At("analyze") /\ w.done < AnalyzeBatch
  /\ \E template \in SUBSET With("crawled") \ {{}} :
       url' = [u \in Url |-> IF u \in template THEN [url[u] EXCEPT !.status = "analyzed"] ELSE url[u]]
  /\ w' = [w EXCEPT !.done = @ + 1]
  /\ UNCHANGED <<crawl, job, scored, request, faults, cut>>

EndAnalyze ==
  /\ At("analyze") /\ (w.done = AnalyzeBatch \/ With("crawled") = {})
  /\ w' = IF With("crawled") = {} THEN Advancing("preparing") ELSE Unfinished
  /\ UNCHANGED <<crawl, url, job, scored, request, faults, cut>>

----------------------------------------------------------------------------
(* The chunk ends: _advance, complete_job and the continuation.            *)

\* Wrong: the phase is set without a look at the row.
AdvanceBlind ==
  /\ At("advance")
  /\ w' = [w EXCEPT !.pc = "commit"]
  /\ UNCHANGED <<crawl, url, job, scored, request, faults, cut>>

Advance ==
  /\ At("advance")
  /\ w' = [w EXCEPT !.pc = IF crawl.phase = "cancelled" THEN "complete" ELSE "commit"]
  /\ UNCHANGED <<crawl, url, job, scored, request, faults, cut>>

Commit ==
  /\ At("commit")
  /\ crawl' = [crawl EXCEPT !.phase = w.next]
  /\ w' = [w EXCEPT !.pc = "complete"]
  /\ UNCHANGED <<url, job, scored, request, faults, cut>>

\* Wrong: scoring is requested before the job is recorded as completed.
CompleteAfterScoring ==
  /\ At("complete")
  /\ \/ /\ crawl.phase = "completed" /\ w.done < 3
        /\ scored' = scored + 1
        /\ w' = [w EXCEPT !.done = 3]
        /\ UNCHANGED job
     \/ /\ crawl.phase # "completed" \/ w.done = 3
        /\ job' = Completed(job)
        /\ w' = IF w.done = 3 THEN Resting ELSE [w EXCEPT !.pc = "continue"]
        /\ UNCHANGED scored
  /\ UNCHANGED <<crawl, url, request, faults, cut>>

Complete ==
  /\ At("complete")
  /\ job' = Completed(job)
  /\ w' = [w EXCEPT !.pc = "continue"]
  /\ UNCHANGED <<crawl, url, scored, request, faults, cut>>

Continue ==
  /\ At("continue")
  /\ job' = IF crawl.phase \in ActivePhase THEN NewJob(job.target) ELSE job
  /\ scored' = IF crawl.phase = "completed" THEN scored + 1 ELSE scored
  /\ w' = Resting
  /\ UNCHANGED <<crawl, url, request, faults, cut>>

----------------------------------------------------------------------------
(* Faults.                                                                 *)

\* fail_job, and what is next when it was the last attempt
FailJob(last) ==
  LET failed == Failed(job, job.attempts) IN
  /\ job' = failed
  /\ w' = [Resting EXCEPT !.pc = IF failed.status = "failed" THEN last ELSE "idle"]

\* Between the commit that ends a job (or creates the crawl) and the commit that
\* queues the next one, or ends the crawl with its last job
WorkerBetween == w.pc \in {"continue", "finalize", "giveup"}
RequestBetween == request = "create"

Working == job.status = "running" /\ ~ Idle
Fault == faults < MaxFaults /\ faults' = faults + 1

\* The chunk raises: the runner fails the job.
Raise ==
  /\ Working /\ Fault
  /\ FailJob("finalize")
  /\ UNCHANGED <<crawl, url, scored, request, cut>>

\* The chunk is cancelled while it waits for the site: the worker loop does.
TimeOut ==
  /\ w.pc \in {"discover", "crawl"} /\ Fault
  /\ FailJob("giveup")
  /\ UNCHANGED <<crawl, url, scored, request, cut>>

\* The runner finalizes the crawl whatever its phase is ...
Finalize ==
  /\ At("finalize")
  /\ crawl' = [crawl EXCEPT !.phase = "failed"]
  /\ w' = Resting
  /\ UNCHANGED <<url, job, scored, request, faults, cut>>

\* Wrong: the last failure leaves the crawl as it is.
GiveUpJobOnly ==
  /\ At("giveup")
  /\ w' = Resting
  /\ UNCHANGED <<crawl, url, job, scored, request, faults, cut>>

\* ... and fail_and_finalize an unfinished one only.
GiveUp ==
  /\ At("giveup")
  /\ crawl' = [crawl EXCEPT !.phase = IF @ \in Terminal THEN @ ELSE "failed"]
  /\ w' = Resting
  /\ UNCHANGED <<url, job, scored, request, faults, cut>>

Crash ==
  /\ ~ Idle /\ Fault
  /\ w' = Resting
  /\ cut' = IF WorkerBetween THEN "yes" ELSE cut
  /\ UNCHANGED <<crawl, url, job, scored, request>>

RequestDies ==
  /\ request # "idle" /\ Fault
  /\ request' = "idle"
  /\ cut' = IF RequestBetween THEN "yes" ELSE cut
  /\ UNCHANGED <<crawl, url, job, scored, w>>

\* The job of a dead worker: recover_stalled_jobs
Recover ==
  /\ Idle /\ job.status = "running"
  /\ FailJob("giveup")
  /\ UNCHANGED <<crawl, url, scored, request, faults, cut>>

----------------------------------------------------------------------------

Discovery == FetchRobots \/ FetchSitemap \/ EndFetching \/ Save
Recording == Add \/ Count \/ Check \/ Added
Crawling == FetchPage \/ EndCrawl
Analysis == AnalyzeTemplate \/ EndAnalyze
Ending == Advance \/ Commit \/ Complete \/ Continue \/ Finalize \/ GiveUp

Work == Claim \/ Chunk \/ Discovery \/ Recording \/ Crawling \/ Analysis \/ Ending \/ Recover

Next ==
  \/ Work
  \/ Create \/ Start \/ AskCancel \/ Cancel
  \/ Raise \/ TimeOut \/ Crash \/ RequestDies

Spec == Init /\ [][Next]_vars

\* A worker is always there, and a request that has begun ends.  Nothing
\* forces a user to create or cancel, or a fault to strike.
FairSpec == Spec /\ WF_vars(Work) /\ WF_vars(Start) /\ WF_vars(Cancel)

----------------------------------------------------------------------------

TypeOK ==
  /\ crawl \in [phase : ActivePhase \union Terminal \union {"none"},
                discovered : Nat, eligible : Nat, cursor : Cursor]
  /\ url \in [Url -> Page]
  /\ job \in Row
  /\ scored \in Nat
  /\ w \in Worker
  /\ request \in {"idle", "create", "cancel"}
  /\ faults \in 0 .. MaxFaults
  /\ cut \in {"no", "yes"}

(***************************************************************************)
(* The URL budget survives every crash: discovered_count never passes      *)
(* max_urls, and it is short of the recorded URLs by at most one for every *)
(* fault (a fault between the two commits of _try_add_url).                *)
(***************************************************************************)
Budget ==
  /\ crawl.discovered <= MaxUrls
  /\ Cardinality(Known) <= crawl.discovered + faults + (IF At("count") THEN 1 ELSE 0)

(***************************************************************************)
(* No work is left behind a phase: from analysis on no page waits to be    *)
(* crawled, from preparation on none waits to be analysed, and of the URLs *)
(* that were recorded at most one per fault was never checked.             *)
(***************************************************************************)
NothingLeftBehind ==
  /\ crawl.phase \in {"analyzing", "preparing", "completed"} =>
       With("eligible") = {} /\ Cardinality(With("discovered")) <= faults
  /\ crawl.phase \in {"preparing", "completed"} => With("crawled") = {}

(***************************************************************************)
(* A crawl that has ended stays ended: not a chunk that read its phase     *)
(* before the user cancelled (orchestrator.py:65-68), not a retry, not a   *)
(* continuation brings it back.                                            *)
(***************************************************************************)
NeverResumed == [][crawl.phase \in Terminal => crawl'.phase \in Terminal]_vars

(***************************************************************************)
(* Retries never score a crawl twice (runner.py, _score_completed_crawl).  *)
(***************************************************************************)
ScoredOnce == scored <= 1 /\ (scored = 1 => crawl.phase \in Terminal)

(***************************************************************************)
(* An unfinished crawl is always carried on: a job of it is pending or     *)
(* running, or the commit that follows is under way, unless a fault struck *)
(* exactly between two commits that belong together.                       *)
(***************************************************************************)
CarriedOn ==
  crawl.phase \in ActivePhase =>
    job.status \in Active \/ WorkerBetween \/ RequestBetween \/ cut = "yes"

\* The chunk leaves sitemaps that no chunk will fetch, for the budget is used
\* up; or it does not write down which ones it fetched.
Stuck == At("save") /\ w.cursor.queue # {} /\ (Full \/ ~ CursorWritten)

(***************************************************************************)
(* Apart from these two, a crawl ends: it never runs on for ever.          *)
(***************************************************************************)
CrawlSettles == []<>(crawl.phase \in Terminal \union {"none"} \/ cut = "yes" \/ Stuck)

(***************************************************************************)
(* Every crawl ends ("so a scan/crawl/scoring run never stays running      *)
(* forever", scheduler.py:522-523).                                        *)
(***************************************************************************)
CrawlEnds == crawl.phase \in ActivePhase ~> crawl.phase \in Terminal
=============================================================================
