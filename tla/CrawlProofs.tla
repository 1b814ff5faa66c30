---------------------------- MODULE CrawlProofs ----------------------------
(***************************************************************************)
(* What holds of a URL crawl for any site, budget, chunk size and number   *)
(* of crashes: its budget, what its phases leave behind, that it is        *)
(* carried on and that it stays ended.                                     *)
(***************************************************************************)
EXTENDS Crawl, FiniteSetTheorems, TLAPS

(***************************************************************************)
(* The invariant, and every step of it                                     *)
(***************************************************************************)

\* A worker between its claim and the record of its outcome
Chunking == {"chunk", "discover", "save", "add", "count", "check", "crawl", "analyze",
             "advance", "commit", "complete"}

\* The job is with the worker that runs it, and a crawl that is not over is carried on.
JobInv ==
  /\ w.pc \in Chunking => job.status = "running"
  /\ w.pc = "continue" => job.status = "completed"
  /\ w.pc \in {"finalize", "giveup"} => job.status = "failed"
  /\ crawl.phase = "none" => job.status = "none" /\ request = "idle"
  /\ request = "create" => job.status = "none"
  /\ CarriedOn

\* Scoring is queued once, when nothing of the crawl is under way any more.
ScoreInv == scored # 0 => /\ scored = 1 /\ Idle /\ job.status = "completed" /\ crawl.phase \in Terminal

\* What a worker does is of the phase it has loaded, unless the user cancelled meanwhile.
LiveInv ==
  /\ w.pc \in {"discover", "save", "add", "count", "check", "crawl", "analyze"} => 
       crawl.phase \in {w.phase, "cancelled"}
  /\ w.pc \in {"discover", "save"} => w.phase = "discovering"
  /\ w.pc \in {"add", "count", "check"} => w.phase \in {"discovering", "crawling"}
  /\ w.pc = "crawl" => w.phase = "crawling"
  /\ w.pc = "analyze" => w.phase = "analyzing"
  /\ w.pc \in {"advance", "commit"} => crawl.phase \in ActivePhase \union {"cancelled"}
  /\ w.pc = "commit" /\ "advance" \in Timely => crawl.phase # "cancelled"

\* The pages a phase leaves behind
PageInv ==
  /\ w.batch \subseteq With("eligible")
  /\ w.todo \cap Known = {}
  /\ w.pc = "check" => url[w.row].status = "discovered"
  /\ w.pc = "analyze" => With("eligible") = {}
  /\ w.pc \in {"advance", "commit"} =>
       /\ w.next \in {"analyzing", "preparing", "completed"} => With("eligible") = {}
       /\ w.next \in {"preparing", "completed"} => With("crawled") = {}
  /\ crawl.phase \in {"analyzing", "preparing", "completed"} => With("eligible") = {}
  /\ crawl.phase \in {"preparing", "completed"} => With("crawled") = {}

InHand == w.pc \in {"count", "check"} /\ url[w.row].status = "discovered"

\* The counter of discovered URLs is behind the rows by the crashes between the two commits.
CountInv ==
  /\ crawl.discovered <= MaxUrls
  /\ w.pc = "count" => crawl.discovered < MaxUrls
  /\ IsFiniteSet(Known)
  /\ Cardinality(Known) <= crawl.discovered + faults + (IF At("count") THEN 1 ELSE 0)
  /\ Cardinality(With("discovered")) <= faults + (IF InHand THEN 1 ELSE 0)

(***************************************************************************)
(* The inductive invariant of a crawl (orchestrator.py, run_chunk;         *)
(* discovery.py; runner.py, _process_url_crawl_job): where the worker, the *)
(* job, the phase, the counter and the rows of the URLs are at every step  *)
(* of a chunk.                                                             *)
(***************************************************************************)
CrawlInv == TypeOK /\ JobInv /\ ScoreInv /\ LiveInv /\ PageInv /\ CountInv

\* A worker at rest is well typed.
LEMMA RestingTyped == Resting \in Worker /\ Resting.pc = "idle" /\ NoCursor \in Cursor
  BY CrawlAssumption DEF Resting, Worker, NoCursor, Cursor, ActivePhase, Sitemap

\* The invariant holds at the start.
LEMMA CrawlInit == Init => CrawlInv
<1> SUFFICES ASSUME Init PROVE CrawlInv
  OBVIOUS
<1>1. TypeOK
  BY RestingTyped, CrawlAssumption, JobAssumption DEF Init, TypeOK, Page, Row, NoJob, Status, Unclaimed
<1>2. JobInv /\ ScoreInv /\ LiveInv
  BY RestingTyped DEF Init, JobInv, ScoreInv, LiveInv, CarriedOn, NoJob, ActivePhase, Chunking
<1>3. (\A s : s # "absent" => With(s) = {}) /\ Known = {}
  BY DEF Init, With, Known
<1>4. PageInv
  BY <1>3, RestingTyped DEF Init, PageInv, Resting
<1>5. CountInv
  BY <1>3, RestingTyped, FS_EmptySet, CrawlAssumption DEF Init, CountInv, InHand, At
<1> QED  BY <1>1, <1>2, <1>4, <1>5 DEF CrawlInv

(* A row of the queue keeps its type, and its status is as the statement says. *)
LEMMA RowsTyped ==
  ASSUME NEW row \in Row
  PROVE  /\ Claimed(row) \in Row /\ Claimed(row).status = "running"
         /\ Completed(row) \in Row /\ Completed(row).status = "completed"
         /\ \A n \in Nat : Failed(row, n) \in Row /\ Failed(row, n).status \in {"pending", "failed"}
         /\ \A t \in Target \union {NoTarget} : NewJob(t) \in Row /\ NewJob(t).status = "pending"
<1>1. row.attempts + 1 \in Nat
  BY DEF Row
<1>2. Claimed(row) \in Row /\ Claimed(row).status = "running"
  BY <1>1 DEF Claimed, Row, Status
<1>3. Completed(row) \in Row /\ Completed(row).status = "completed"
  BY DEF Completed, Row, Status
<1>4. ASSUME NEW n \in Nat PROVE Failed(row, n) \in Row /\ Failed(row, n).status \in {"pending", "failed"}
  BY JobAssumption DEF Failed, Row, Status, Unclaimed
<1>5. ASSUME NEW t \in Target \union {NoTarget} PROVE NewJob(t) \in Row /\ NewJob(t).status = "pending"
  BY DEF NewJob, Row, Status, Unclaimed
<1> QED  BY <1>2, <1>3, <1>4, <1>5

\* A job that fails is queued again or ends its crawl.
LEMMA FailsJob ==
  ASSUME TypeOK, NEW last \in {"finalize", "giveup"}, FailJob(last)
  PROVE  /\ job' \in Row /\ w' \in Worker /\ w'.batch = {} /\ w'.todo = {}
         /\ \/ job'.status = "pending" /\ w'.pc = "idle"
            \/ job'.status = "failed" /\ w'.pc = last
<1>1. job \in Row /\ job.attempts \in Nat
  BY DEF TypeOK, Row
<1>2. job' \in Row /\ job'.status \in {"pending", "failed"}
  BY <1>1, RowsTyped DEF FailJob
<1>3. w' = [Resting EXCEPT !.pc = IF job'.status = "failed" THEN last ELSE "idle"]
  BY DEF FailJob
<1>4. PICK r : r = Resting /\ r \in Worker /\ r.batch = {} /\ r.todo = {}
  BY RestingTyped DEF Resting
<1> DEFINE pc == IF job'.status = "failed" THEN last ELSE "idle"
<1>5. pc \in {"finalize", "giveup", "idle"} /\ w' = [r EXCEPT !.pc = pc]
  BY <1>3, <1>4
<1> HIDE DEF pc
<1>6. w' \in Worker /\ w'.pc = pc /\ w'.batch = {} /\ w'.todo = {}
  BY <1>4, <1>5 DEF Worker
<1> QED  BY <1>2, <1>6 DEF pc

CrawlRow == [phase : ActivePhase \union Terminal \union {"none"},
             discovered : Nat, eligible : Nat, cursor : Cursor]

\* Every step keeps the types.
LEMMA TypesKept ==
  ASSUME TypeOK, Next
  PROVE  TypeOK'
<1>1. /\ w \in Worker /\ crawl \in CrawlRow /\ url \in [Url -> Page] /\ job \in Row /\ faults \in 0 .. MaxFaults
      /\ scored \in Nat /\ request \in {"idle", "create", "cancel"} /\ cut \in {"no", "yes"}
  BY DEF TypeOK, CrawlRow
<1>2. /\ w.row \in Url /\ w.todo \subseteq Url /\ w.batch \subseteq Url /\ w.cursor \in Cursor
      /\ w.done \in Nat /\ w.depth \in Nat
  BY <1>1 DEF Worker
<1>3. crawl.discovered \in Nat /\ crawl.eligible \in Nat /\ crawl.cursor \in Cursor
  BY <1>1 DEF CrawlRow
<1>4. \A u \in Url : url[u] \in Page /\ url[u].depth \in Nat
  BY <1>1 DEF Page
<1>5. MaxFaults \in Nat /\ Seed \in Url /\ MaxSitemap \in Nat \ {0}
  BY CrawlAssumption
<1>6. crawl' \in CrawlRow
  <2>1. CASE Create \/ Cancel \/ Count \/ Check \/ Save \/ Commit \/ Finalize \/ GiveUp
    <3>1. CASE Create \/ Cancel \/ Finalize
      BY <1>1, <3>1 DEF Create, Cancel, Finalize, CrawlRow, ActivePhase, Terminal
    <3>2. CASE Count \/ Check
      BY <1>1, <1>3, <3>2 DEF Count, Check, CrawlRow
    <3>3. CASE Save
      BY <1>1, <1>2, <3>3 DEF Save, CrawlRow
    <3>4. CASE Commit
      <4>1. w.next \in ActivePhase \union Terminal
        BY <1>1 DEF Worker, Terminal
      <4> QED  BY <1>1, <3>4, <4>1 DEF Commit, CrawlRow
    <3>5. CASE GiveUp
      BY <1>1, <3>5 DEF GiveUp, CrawlRow, Terminal
    <3> QED  BY <2>1, <3>1, <3>2, <3>3, <3>4, <3>5
  <2>2. CASE UNCHANGED crawl
    BY <1>1, <2>2
  <2> QED  BY <2>1, <2>2 DEF Next, Work, Discovery, Recording, Crawling, Analysis, Ending, Start, AskCancel, Claim,
       Chunk, FetchRobots, FetchSitemap, EndFetching, Add, Added, FetchPage, EndCrawl, AnalyzeTemplate,
       EndAnalyze, Advance, Complete, Continue, Raise, TimeOut, Crash, RequestDies, Recover
<1>7. url' \in [Url -> Page]
  <2>1. CASE Add
    BY <1>1, <1>2, <2>1 DEF Add, Page
  <2>2. CASE Check
    BY <1>1, <1>2, <1>4, <2>2 DEF Check, Page
  <2>3. CASE FetchPage
    <3>1. PICK u \in w.batch, status \in {"skipped", "failed", "crawled"} : url' = [url EXCEPT ![u].status = status]
      BY <2>3 DEF FetchPage
    <3>2. [url[u] EXCEPT !.status = status] \in Page
      BY <1>2, <1>4, <3>1 DEF Page
    <3> QED  BY <1>1, <3>1, <3>2
  <2>4. CASE AnalyzeTemplate
    BY <1>1, <1>4, <2>4 DEF AnalyzeTemplate, Page
  <2>5. CASE UNCHANGED url
    BY <1>1, <2>5
  <2> QED  BY <2>1, <2>2, <2>3, <2>4, <2>5 DEF Next, Work, Discovery, Recording, Crawling, Analysis, Ending, 
       Create, Cancel, Count, Save, Commit, Finalize, GiveUp, Start, AskCancel, Claim,
       Chunk, FetchRobots, FetchSitemap, EndFetching, Added, EndCrawl,
       EndAnalyze, Advance, Complete, Continue, Raise, TimeOut, Crash, RequestDies, Recover
<1>8. w' \in Worker
  <2>1. CASE Claim
    <3>1. PICK r : r = Resting /\ r \in Worker
      BY RestingTyped
    <3> QED  BY <2>1, <3>1 DEF Claim, Worker
  <2>2. CASE Chunk
    <3>1. crawl.phase \in ActivePhase \union Terminal \union {"none"}
      BY <1>1 DEF CrawlRow
    <3>2. CASE w' = Unfinished
      BY <1>1, <3>2 DEF Worker, Unfinished
    <3>3. CASE \E n \in ActivePhase \union {"completed"} : w' = Advancing(n)
      BY <1>1, <3>3 DEF Worker, Advancing
    <3>4. CASE crawl.phase = "discovering" /\ w' = [[w EXCEPT !.phase = crawl.phase] EXCEPT !.pc = "discover", !.cursor = crawl.cursor]
      BY <1>1, <1>3, <3>4 DEF Worker, ActivePhase
    <3>5. CASE crawl.phase = "crawling" /\ \E S \in NextBatch : w' = [[w EXCEPT !.phase = crawl.phase] EXCEPT !.pc = "crawl", !.batch = S]
      BY <1>1, <3>5 DEF Worker, ActivePhase, NextBatch, With
    <3>6. CASE crawl.phase = "analyzing" /\ w' = [[w EXCEPT !.phase = crawl.phase] EXCEPT !.pc = "analyze"]
      BY <1>1, <3>6 DEF Worker, ActivePhase
    <3> QED  BY <2>2, <3>2, <3>3, <3>4, <3>5, <3>6 DEF Chunk, ActivePhase
  <2>3. CASE FetchRobots
    <3>1. PICK listed \in SUBSET Sitemap :
            w' = [w EXCEPT !.cursor.robots = "yes", !.cursor.queue = IF listed = {} THEN {MaxSitemap} ELSE listed]
      BY <2>3 DEF FetchRobots
    <3> DEFINE queue == IF listed = {} THEN {MaxSitemap} ELSE listed
    <3>2. queue \in SUBSET Sitemap /\ w' = [w EXCEPT !.cursor.robots = "yes", !.cursor.queue = queue]
      BY <1>5, <3>1 DEF Sitemap
    <3> HIDE DEF queue
    <3> QED  BY <1>1, <1>2, <3>2 DEF Worker, Cursor
  <2>4. CASE FetchSitemap
    <3>1. PICK s \in w.cursor.queue :
            \/ \E children \in SUBSET (1 .. (s - 1)) :
                 w' = [w EXCEPT !.cursor.queue = (w.cursor.queue \ {s}) \union children, !.done = w.done + 1]
            \/ \E locs \in SUBSET Url :
                 w' = [w EXCEPT !.cursor.queue = w.cursor.queue \ {s}, !.done = w.done + 1,
                                !.pc = "add", !.todo = locs \ Known, !.depth = 0]
      BY <2>4 DEF FetchSitemap
    <3>2. s \in Sitemap /\ w.cursor.queue \subseteq Sitemap
      BY <1>2 DEF Cursor
    <3>3. CASE \E children \in SUBSET (1 .. (s - 1)) :
                 w' = [w EXCEPT !.cursor.queue = (w.cursor.queue \ {s}) \union children, !.done = w.done + 1]
      <4>0. PICK children \in SUBSET (1 .. (s - 1)) :
                 w' = [w EXCEPT !.cursor.queue = (w.cursor.queue \ {s}) \union children, !.done = w.done + 1]
        BY <3>3
      <4> DEFINE queue == (w.cursor.queue \ {s}) \union children  done == w.done + 1
      <4>1. queue \in SUBSET Sitemap /\ done \in Nat /\ w' = [w EXCEPT !.cursor.queue = queue, !.done = done]
        BY <1>2, <1>5, <3>2, <4>0 DEF Sitemap
      <4> HIDE DEF queue, done
      <4>2. [w.cursor EXCEPT !.queue = queue] \in Cursor
        BY <1>2, <4>1 DEF Cursor
      <4> QED  BY <1>1, <4>1, <4>2 DEF Worker
    <3>4. CASE \E locs \in SUBSET Url :
                 w' = [w EXCEPT !.cursor.queue = w.cursor.queue \ {s}, !.done = w.done + 1,
                                !.pc = "add", !.todo = locs \ Known, !.depth = 0]
      <4>0. PICK locs \in SUBSET Url :
                 w' = [w EXCEPT !.cursor.queue = w.cursor.queue \ {s}, !.done = w.done + 1,
                                !.pc = "add", !.todo = locs \ Known, !.depth = 0]
        BY <3>4
      <4> DEFINE queue == w.cursor.queue \ {s}  done == w.done + 1  todo == locs \ Known
      <4>1. /\ queue \in SUBSET Sitemap /\ done \in Nat /\ todo \in SUBSET Url
            /\ w' = [w EXCEPT !.cursor.queue = queue, !.done = done, !.pc = "add", !.todo = todo, !.depth = 0]
        BY <1>2, <3>2, <4>0
      <4> HIDE DEF queue, done, todo
      <4>2. [w.cursor EXCEPT !.queue = queue] \in Cursor
        BY <1>2, <4>1 DEF Cursor
      <4> QED  BY <1>1, <4>1, <4>2 DEF Worker
    <3> QED  BY <3>1, <3>3, <3>4
  <2>5. CASE EndFetching
    BY <1>1, <1>2, <1>5, <2>5 DEF EndFetching, Worker, Cursor
  <2>6. CASE Add
    <3>1. PICK u \in w.todo : w' = [w EXCEPT !.pc = "count", !.row = u, !.todo = w.todo \ {u}, !.commits = "some"]
      BY <2>6 DEF Add
    <3>2. u \in Url /\ w.todo \ {u} \in SUBSET Url
      BY <1>2
    <3> QED  BY <1>1, <3>1, <3>2 DEF Worker
  <2>7. CASE Count \/ Check \/ Added
    BY <1>1, <1>2, <2>7 DEF Count, Check, Added, Worker
  <2>8. CASE Save \/ EndCrawl \/ EndAnalyze \/ Commit \/ Complete \/ Advance
    <3>1. CASE w' = Unfinished
      BY <1>1, <3>1 DEF Worker, Unfinished
    <3>2. CASE \E n \in ActivePhase \union {"completed"} : w' = Advancing(n)
      BY <1>1, <3>2 DEF Worker, Advancing
    <3>3. CASE \E pc \in {"complete", "commit", "continue"} : w' = [w EXCEPT !.pc = pc]
      BY <1>1, <3>3 DEF Worker
    <3>4. CASE Save \/ EndCrawl \/ EndAnalyze
      BY <3>1, <3>2, <3>4 DEF Save, EndCrawl, EndAnalyze, ActivePhase
    <3>5. CASE Commit \/ Complete \/ Advance
      BY <3>3, <3>5 DEF Commit, Complete, Advance
    <3> QED  BY <2>8, <3>4, <3>5
  <2>9. CASE FetchPage
    <3>1. PICK u \in w.batch :
            \/ w' = [w EXCEPT !.batch = w.batch \ {u}]
            \/ \E links \in SUBSET Url :
                 w' = [w EXCEPT !.batch = w.batch \ {u}, !.pc = "add", !.depth = url[u].depth + 1,
                              !.todo = IF url[u].depth < MaxDepth THEN links \ Known ELSE {}]
      BY <2>9 DEF FetchPage
    <3>2. CASE w' = [w EXCEPT !.batch = w.batch \ {u}]
      BY <1>1, <1>2, <3>2 DEF Worker
    <3>3. CASE \E links \in SUBSET Url :
                 w' = [w EXCEPT !.batch = w.batch \ {u}, !.pc = "add", !.depth = url[u].depth + 1,
                              !.todo = IF url[u].depth < MaxDepth THEN links \ Known ELSE {}]
      <4>0. PICK links \in SUBSET Url :
                 w' = [w EXCEPT !.batch = w.batch \ {u}, !.pc = "add", !.depth = url[u].depth + 1,
                              !.todo = IF url[u].depth < MaxDepth THEN links \ Known ELSE {}]
        BY <3>3
      <4> DEFINE batch == w.batch \ {u}  depth == url[u].depth + 1
                 todo == IF url[u].depth < MaxDepth THEN links \ Known ELSE {}
      <4>1. /\ batch \in SUBSET Url /\ todo \in SUBSET Url /\ depth \in Nat
            /\ w' = [w EXCEPT !.batch = batch, !.pc = "add", !.depth = depth, !.todo = todo]
        <5>1. u \in Url /\ url[u].depth \in Nat
          BY <1>2, <1>4
        <5> QED  BY <1>2, <4>0, <5>1
      <4> HIDE DEF batch, depth, todo
      <4> QED  BY <1>1, <4>1 DEF Worker
    <3> QED  BY <3>1, <3>2, <3>3
  <2>10. CASE AnalyzeTemplate
    BY <1>1, <1>2, <2>10 DEF AnalyzeTemplate, Worker
  <2>11. CASE Continue \/ Finalize \/ GiveUp \/ Crash
    BY <2>11, RestingTyped DEF Continue, Finalize, GiveUp, Crash
  <2>12. CASE Raise \/ TimeOut \/ Recover
    BY <2>12, FailsJob DEF Raise, TimeOut, Recover
  <2>13. CASE UNCHANGED w
    BY <1>1, <2>13
  <2> QED  BY <2>1, <2>2, <2>3, <2>4, <2>5, <2>6, <2>7, <2>8, <2>9, <2>10, <2>11, <2>12, <2>13
          DEF Next, Work, Discovery, Recording, Crawling, Analysis, Ending, 
       Create, Cancel, Start, AskCancel, RequestDies
<1>9. job' \in Row
  <2>1. CASE Start \/ Claim \/ Complete \/ Continue
    BY <1>1, <2>1, RowsTyped DEF Start, Claim, Complete, Continue, Row
  <2>2. CASE Raise \/ TimeOut \/ Recover
    BY <2>2, FailsJob DEF Raise, TimeOut, Recover
  <2>3. CASE UNCHANGED job
    BY <1>1, <2>3
  <2> QED  BY <2>1, <2>2, <2>3 DEF Next, Work, Discovery, Recording, Crawling, Analysis, Ending, 
       Create, Cancel, Count, Check, Add, Save, Commit, Finalize, GiveUp, AskCancel,
       Chunk, FetchRobots, FetchSitemap, EndFetching, Added, FetchPage, EndCrawl, AnalyzeTemplate,
       EndAnalyze, Advance, Crash, RequestDies
<1>10. /\ scored' \in Nat /\ request' \in {"idle", "create", "cancel"}
       /\ cut' \in {"no", "yes"} /\ faults' \in 0 .. MaxFaults
  <2>1. CASE Work
    <3>1. scored' \in {scored, scored + 1} /\ UNCHANGED <<request, cut, faults>>
      BY <2>1 DEF Work, Discovery, Recording, Crawling, Analysis, Ending, 
           Count, Check, Add, Save, Commit, Finalize, GiveUp, Claim,
           Chunk, FetchRobots, FetchSitemap, EndFetching, Added, FetchPage, EndCrawl, AnalyzeTemplate,
           EndAnalyze, Advance, Complete, Continue, Recover
    <3> QED  BY <1>1, <3>1
  <2>2. CASE Create \/ Start \/ AskCancel \/ Cancel
    BY <1>1, <2>2 DEF Create, Start, AskCancel, Cancel
  <2>3. CASE Raise \/ TimeOut \/ Crash \/ RequestDies
    <3>1. /\ UNCHANGED scored /\ request' \in {request, "idle"} /\ cut' \in {cut, "yes"}
          /\ faults < MaxFaults /\ faults' = faults + 1
      BY <2>3 DEF Raise, TimeOut, Crash, RequestDies, Fault
    <3> QED  BY <1>1, <1>5, <3>1
  <2> QED  BY <2>1, <2>2, <2>3 DEF Next
<1> QED  BY <1>6, <1>7, <1>8, <1>9, <1>10 DEF TypeOK, CrawlRow

InChunk == Chunk \/ Discovery \/ Recording \/ Crawling \/ Analysis \/ Advance \/ Commit

\* Within a chunk the job runs on, and only the commit of an advance moves the phase.
LEMMA ChunkSteps ==
  ASSUME TypeOK, InChunk
  PROVE  /\ w.pc \in Chunking \ {"complete"} /\ w'.pc \in Chunking
         /\ UNCHANGED <<job, request, cut, scored, faults>>
         /\ \/ crawl'.phase = crawl.phase /\ w.pc # "commit"
            \/ w.pc = "commit" /\ w'.pc = "complete" /\ crawl'.phase = w.next /\ w.next \in ActivePhase \union {"completed"}
<1>1. w \in Worker /\ crawl \in CrawlRow
  BY DEF TypeOK, CrawlRow
<1>2. UNCHANGED <<job, request, cut, scored, faults>>
  BY DEF InChunk, Chunk, Discovery, Recording, Crawling, Analysis, FetchRobots, FetchSitemap, EndFetching, Save,
         Add, Count, Check, Added, FetchPage, EndCrawl, AnalyzeTemplate, EndAnalyze, Advance, Commit
<1>3. CASE Chunk
  BY <1>1, <1>2, <1>3 DEF Chunk, At, Chunking, Unfinished, Advancing, Worker
<1>4. CASE Discovery
  BY <1>1, <1>2, <1>4 DEF Discovery, FetchRobots, FetchSitemap, EndFetching, Save, At, Chunking, Unfinished, 
     Advancing, Worker, CrawlRow
<1>5. CASE Recording
  BY <1>1, <1>2, <1>5 DEF Recording, Add, Count, Check, Added, At, Chunking, Worker, CrawlRow
<1>6. CASE Crawling
  BY <1>1, <1>2, <1>6 DEF Crawling, FetchPage, EndCrawl, At, Chunking, Unfinished, Advancing, Worker
<1>7. CASE Analysis
  BY <1>1, <1>2, <1>7 DEF Analysis, AnalyzeTemplate, EndAnalyze, At, Chunking, Unfinished, Advancing, Worker
<1>8. CASE Advance \/ Commit
  BY <1>1, <1>2, <1>8 DEF Advance, Commit, At, Chunking, Worker, CrawlRow
<1> QED  BY <1>3, <1>4, <1>5, <1>6, <1>7, <1>8 DEF InChunk

\* Every step keeps the job with its worker.
LEMMA JobsKept ==
  ASSUME CrawlInv, Next
  PROVE  (JobInv /\ ScoreInv)'
<1>0. TypeOK /\ JobInv /\ ScoreInv /\ LiveInv
  BY DEF CrawlInv
<1>1. w \in Worker /\ crawl \in CrawlRow /\ job \in Row /\ scored \in Nat
  BY <1>0 DEF TypeOK, CrawlRow
<1>2. Resting.pc = "idle"
  BY RestingTyped
<1>3. CASE InChunk
  <2>1. /\ w.pc \in Chunking \ {"complete"} /\ w'.pc \in Chunking
        /\ UNCHANGED <<job, request, cut, scored, faults>>
        /\ \/ crawl'.phase = crawl.phase /\ w.pc # "commit"
           \/ w.pc = "commit" /\ crawl'.phase = w.next /\ w.next \in ActivePhase \union {"completed"}
    BY <1>0, <1>3, ChunkSteps
  <2>2. job.status = "running" /\ crawl.phase # "none" /\ crawl'.phase # "none"
    BY <1>0, <2>1 DEF JobInv, Chunking, ActivePhase
  <2> QED  BY <1>0, <2>1, <2>2 DEF JobInv, ScoreInv, CarriedOn, Chunking, Active
<1>4. CASE Create \/ Start \/ AskCancel \/ Cancel
  <2>1. crawl \in CrawlRow /\ UNCHANGED <<w, scored, cut>>
    BY <1>1, <1>4 DEF Create, Start, AskCancel, Cancel
  <2>2. \A t \in Target : NewJob(t).status = "pending"
    BY <1>1, RowsTyped
  <2>3. CASE Create
    BY <1>0, <1>1, <2>1, <2>3 DEF Create, JobInv, ScoreInv, CarriedOn, CrawlRow, RequestBetween, Active, Terminal, ActivePhase
  <2>4. CASE Start
    <3>1. w.pc = "idle"
      BY <1>0, <1>1, <2>4 DEF Start, JobInv, Worker, Chunking
    <3> QED  BY <1>0, <1>1, <2>1, <2>2, <2>4, <3>1 DEF Start, JobInv, ScoreInv, CarriedOn, Active, Chunking
  <2>5. CASE AskCancel
    BY <1>0, <2>1, <2>5 DEF AskCancel, Idle, At, JobInv, ScoreInv, CarriedOn, WorkerBetween, RequestBetween, ActivePhase
  <2>6. CASE Cancel
    BY <1>0, <1>1, <2>1, <2>6 DEF Cancel, Idle, At, JobInv, ScoreInv, CarriedOn, CrawlRow, ActivePhase, Terminal
  <2> QED  BY <1>4, <2>3, <2>4, <2>5, <2>6
<1>5. CASE Claim
  <2>1. /\ job.status = "pending" /\ w.pc = "idle" /\ UNCHANGED <<crawl, scored, request, cut>>
        /\ job'.status = "running" /\ w'.pc = "chunk"
    BY <1>1, <1>5, RestingTyped, RowsTyped DEF Claim, Claimable, Idle, At, Worker
  <2> QED  BY <1>0, <2>1 DEF JobInv, ScoreInv, CarriedOn, Active, Chunking
<1>6. CASE Complete
  <2>1. /\ w.pc = "complete" /\ UNCHANGED <<crawl, scored, request, cut>>
        /\ job'.status = "completed" /\ w'.pc = "continue"
    BY <1>1, <1>6, RowsTyped DEF Complete, At, Worker
  <2> QED  BY <1>0, <2>1 DEF JobInv, ScoreInv, CarriedOn, WorkerBetween, Chunking, Idle, At
<1>7. CASE Continue
  <2>1. /\ w.pc = "continue" /\ UNCHANGED <<crawl, request, cut>> /\ w'.pc = "idle"
        /\ job' = IF crawl.phase \in ActivePhase THEN NewJob(job.target) ELSE job
        /\ scored' = IF crawl.phase = "completed" THEN scored + 1 ELSE scored
    BY <1>2, <1>7 DEF Continue, At
  <2>2. NewJob(job.target).status = "pending"
    BY <1>1, RowsTyped DEF Row
  <2>3. scored = 0 /\ job.status = "completed"
    BY <1>0, <2>1 DEF ScoreInv, JobInv, Idle, At
  <2> QED  BY <1>0, <2>1, <2>2, <2>3 DEF JobInv, ScoreInv, CarriedOn, Active, Chunking, Idle, At, ActivePhase, Terminal
<1>8. CASE Finalize \/ GiveUp
  <2>1. /\ w.pc \in {"finalize", "giveup"} /\ UNCHANGED <<job, scored, request, cut>> /\ w'.pc = "idle"
        /\ crawl'.phase \in Terminal
    BY <1>1, <1>2, <1>8 DEF Finalize, GiveUp, At, CrawlRow, Terminal
  <2> QED  BY <1>0, <2>1 DEF JobInv, ScoreInv, CarriedOn, Chunking, Idle, At, ActivePhase, Terminal
<1>9. CASE Raise \/ TimeOut \/ Recover
  <2>1. /\ job.status = "running" /\ UNCHANGED <<crawl, scored, request, cut>>
        /\ \/ job'.status = "pending" /\ w'.pc = "idle"
           \/ job'.status = "failed" /\ w'.pc \in {"finalize", "giveup"}
    <3>1. job.status = "running" /\ UNCHANGED <<crawl, scored, request, cut>>
      BY <1>0, <1>9 DEF Raise, TimeOut, Recover, Working, JobInv, Chunking
    <3> QED  BY <1>0, <1>9, <3>1, FailsJob DEF Raise, TimeOut, Recover
  <2> QED  BY <1>0, <2>1 DEF JobInv, ScoreInv, CarriedOn, WorkerBetween, Active, Chunking, Idle, At
<1>10. CASE Crash
  <2>1. /\ w.pc # "idle" /\ UNCHANGED <<crawl, job, scored, request>> /\ w'.pc = "idle"
        /\ cut' = IF WorkerBetween THEN "yes" ELSE cut
    BY <1>2, <1>10 DEF Crash, Idle, At
  <2> QED  BY <1>0, <1>1, <2>1 DEF JobInv, ScoreInv, CarriedOn, WorkerBetween, RequestBetween, Chunking, Idle, At
<1>11. CASE RequestDies
  <2>1. /\ UNCHANGED <<crawl, job, scored, w>> /\ request' = "idle"
        /\ cut' = IF RequestBetween THEN "yes" ELSE cut
    BY <1>11 DEF RequestDies
  <2> QED  BY <1>0, <2>1 DEF JobInv, ScoreInv, CarriedOn, WorkerBetween, RequestBetween, Chunking, Idle, At
<1> QED  BY <1>3, <1>4, <1>5, <1>6, <1>7, <1>8, <1>9, <1>10, <1>11 DEF Next, Work, Ending, InChunk

\* Every step keeps the worker in its phase.
LEMMA LiveKept ==
  ASSUME CrawlInv, Next
  PROVE  LiveInv'
<1>0. TypeOK /\ JobInv /\ LiveInv
  BY DEF CrawlInv
<1>1. w \in Worker /\ crawl \in CrawlRow
  BY <1>0 DEF TypeOK, CrawlRow
<1>2. Resting.pc = "idle"
  BY RestingTyped
<1>3. CASE Chunk
  BY <1>0, <1>1, <1>3 DEF Chunk, LiveInv, Worker, Unfinished, Advancing, At, ActivePhase, Terminal
<1>4. CASE FetchRobots \/ FetchSitemap \/ EndFetching
  <2>1. w.pc = "discover" /\ UNCHANGED crawl /\ w'.phase = w.phase /\ w'.pc \in {"discover", "add", "save"}
    <3>1. CASE FetchRobots
      BY <1>1, <3>1 DEF FetchRobots, At, Worker
    <3>2. CASE FetchSitemap
      BY <1>1, <3>2 DEF FetchSitemap, At, Worker
    <3>3. CASE EndFetching
      BY <1>1, <3>3 DEF EndFetching, At, Worker
    <3> QED  BY <1>4, <3>1, <3>2, <3>3
  <2> QED  BY <1>0, <2>1 DEF LiveInv
<1>5. CASE Recording
  <2>1. /\ w.pc \in {"add", "count", "check"} /\ crawl'.phase = crawl.phase /\ w'.phase = w.phase
        /\ \/ w'.pc \in {"add", "count", "check"}
           \/ w'.pc = IF w.phase = "discovering" THEN "discover" ELSE "crawl"
    <3>1. CASE Add
      BY <1>1, <3>1 DEF Add, At, Worker
    <3>2. CASE Count
      BY <1>1, <3>2 DEF Count, At, Worker, CrawlRow
    <3>3. CASE Check
      BY <1>1, <3>3 DEF Check, At, Worker, CrawlRow
    <3>4. CASE Added
      BY <1>1, <3>4 DEF Added, At, Worker
    <3> QED  BY <1>5, <3>1, <3>2, <3>3, <3>4 DEF Recording
  <2> QED  BY <1>0, <2>1 DEF LiveInv
<1>6. CASE FetchPage
  <2>1. w.pc = "crawl" /\ UNCHANGED crawl /\ w'.phase = w.phase /\ w'.pc \in {"crawl", "add"}
    BY <1>1, <1>6 DEF FetchPage, At, Worker
  <2> QED  BY <1>0, <2>1 DEF LiveInv
<1>7. CASE AnalyzeTemplate
  <2>1. w.pc = "analyze" /\ UNCHANGED crawl /\ w'.phase = w.phase /\ w'.pc = "analyze"
    BY <1>1, <1>7 DEF AnalyzeTemplate, At, Worker
  <2> QED  BY <1>0, <2>1 DEF LiveInv
<1>8. CASE Save \/ EndCrawl \/ EndAnalyze \/ Advance
  <2>1. /\ crawl'.phase = crawl.phase
        /\ \/ w.pc \in {"save", "crawl", "analyze"} /\ w'.pc \in {"advance", "complete"}
           \/ w.pc = "advance" /\ w'.pc = IF crawl.phase = "cancelled" THEN "complete" ELSE "commit"
    <3>1. CASE Save
      BY <1>1, <3>1 DEF Save, At, Worker, CrawlRow, Unfinished, Advancing
    <3>2. CASE EndCrawl
      BY <1>1, <3>2 DEF EndCrawl, At, Worker, Unfinished, Advancing
    <3>3. CASE EndAnalyze
      BY <1>1, <3>3 DEF EndAnalyze, At, Worker, Unfinished, Advancing
    <3>4. CASE Advance
      BY <1>1, <3>4 DEF Advance, At, Worker
    <3> QED  BY <1>8, <3>1, <3>2, <3>3, <3>4
  <2> QED  BY <1>0, <2>1 DEF LiveInv, ActivePhase
<1>9. CASE Claim \/ Commit \/ Complete \/ Continue \/ Finalize \/ GiveUp \/ Raise \/ TimeOut \/ Crash \/ Recover
  <2>1. w'.pc \in {"idle", "chunk", "complete", "continue", "finalize", "giveup"}
    <3>1. CASE Claim
      BY <3>1, RestingTyped DEF Claim, Worker
    <3>2. CASE Commit \/ Complete
      BY <1>1, <3>2 DEF Commit, Complete, Worker
    <3>3. CASE Continue \/ Finalize \/ GiveUp \/ Crash
      BY <1>2, <3>3 DEF Continue, Finalize, GiveUp, Crash
    <3>4. CASE Raise \/ TimeOut \/ Recover
      BY <1>0, <3>4, FailsJob DEF Raise, TimeOut, Recover
    <3> QED  BY <1>9, <3>1, <3>2, <3>3, <3>4
  <2> QED  BY <2>1 DEF LiveInv
<1>10. CASE Create \/ Start
  <2>1. w.pc = "idle" /\ UNCHANGED w
    BY <1>0, <1>1, <1>10 DEF Create, Start, JobInv, Worker, Chunking
  <2> QED  BY <2>1 DEF LiveInv
<1>11. CASE AskCancel \/ RequestDies
  BY <1>0, <1>11 DEF AskCancel, RequestDies, LiveInv
<1>12. CASE Cancel
  <2>1. crawl'.phase = "cancelled" /\ UNCHANGED w /\ ("advance" \in Timely => w.pc # "commit")
    BY <1>1, <1>12 DEF Cancel, At, CrawlRow
  <2> QED  BY <1>0, <2>1 DEF LiveInv
<1> QED  BY <1>3, <1>4, <1>5, <1>6, <1>7, <1>8, <1>9, <1>10, <1>11, <1>12
        DEF Next, Work, Discovery, Crawling, Analysis, Ending

\* Every step keeps what a phase has left behind.
LEMMA PagesKept ==
  ASSUME CrawlInv, Next
  PROVE  PageInv'
<1>0. TypeOK /\ JobInv /\ LiveInv /\ PageInv
  BY DEF CrawlInv
<1>1. w \in Worker /\ crawl \in CrawlRow /\ url \in [Url -> Page]
  BY <1>0 DEF TypeOK, CrawlRow
<1>2. Resting.pc = "idle" /\ Resting.batch = {} /\ Resting.todo = {}
  BY DEF Resting
<1>3. UNCHANGED url => (\A s : With(s)' = With(s)) /\ Known' = Known
  BY DEF With, Known
<1>4. CASE Chunk
  <2>1. UNCHANGED <<url, crawl>> /\ w'.todo = w.todo /\ w'.batch \subseteq With("eligible") /\ w'.pc # "check"
    BY <1>0, <1>1, <1>4 DEF Chunk, Worker, Unfinished, Advancing, NextBatch, PageInv
  <2>2. w'.pc = "analyze" => crawl.phase = "analyzing"
    BY <1>1, <1>4 DEF Chunk, Worker, Unfinished, Advancing
  <2>3. w'.pc \in {"advance", "commit"} =>
          \/ w'.next = "discovering"
          \/ w'.next = "analyzing" /\ With("eligible") = {}
          \/ w'.next = "completed" /\ crawl.phase = "preparing"
    BY <1>1, <1>4 DEF Chunk, Worker, Unfinished, Advancing
  <2> QED  BY <1>0, <1>3, <2>1, <2>2, <2>3 DEF PageInv
<1>5. CASE FetchRobots \/ FetchSitemap \/ EndFetching
  <2>1. /\ UNCHANGED <<url, crawl>> /\ w'.batch = w.batch /\ w'.pc \in {"discover", "add", "save"}
        /\ w'.todo \subseteq w.todo \/ w'.todo \cap Known = {}
    <3>1. CASE FetchRobots
      BY <1>1, <3>1 DEF FetchRobots, At, Worker
    <3>2. CASE FetchSitemap
      BY <1>1, <3>2 DEF FetchSitemap, At, Worker
    <3>3. CASE EndFetching
      BY <1>1, <3>3 DEF EndFetching, At, Worker
    <3> QED  BY <1>5, <3>1, <3>2, <3>3
  <2> QED  BY <1>0, <1>3, <2>1 DEF PageInv
<1>6. CASE Count \/ Added
  <2>1. /\ UNCHANGED url /\ crawl'.phase = crawl.phase /\ w'.batch = w.batch /\ w'.todo \subseteq w.todo
        /\ w'.row = w.row /\ w'.pc \in {"discover", "crawl", "add", "check"}
        /\ w'.pc = "check" => url[w.row].status = "discovered"
    <3>1. CASE Count
      BY <1>1, <3>1 DEF Count, At, Worker, CrawlRow
    <3>2. CASE Added
      BY <1>1, <3>2 DEF Added, At, Worker
    <3> QED  BY <1>6, <3>1, <3>2
  <2> QED  BY <1>0, <1>3, <2>1 DEF PageInv
<1>7. CASE Add
  <2>1. PICK u \in w.todo, p \in Page :
          /\ p.status \in {"discovered", "skipped"} /\ url' = [url EXCEPT ![u] = p]
          /\ w'.pc = "count" /\ w'.todo = w.todo \ {u} /\ w'.batch = w.batch
    BY <1>1, <1>7 DEF Add, Worker, Page
  <2>2. u \in Url /\ url[u].status = "absent" /\ UNCHANGED crawl
    BY <1>0, <1>1, <1>7, <2>1 DEF Add, PageInv, Known, With, Worker
  <2>3. url'[u] = p /\ \A v \in Url \ {u} : url'[v] = url[v]
    BY <1>1, <2>1, <2>2
  <2>4. With("eligible")' = With("eligible") /\ With("crawled")' = With("crawled")
    BY <2>1, <2>2, <2>3 DEF With
  <2>5. w'.todo \cap Known' = {}
    BY <1>0, <2>1, <2>2, <2>3 DEF With, Known, PageInv
  <2> QED  BY <1>0, <2>1, <2>2, <2>4, <2>5 DEF PageInv
<1>8. CASE Check
  <2>1. PICK s \in {"eligible", "skipped"} : url' = [url EXCEPT ![w.row].status = s]
    BY <1>8 DEF Check
  <2>2. /\ w.pc = "check" /\ w'.pc = "add" /\ w'.batch = w.batch /\ w'.todo = w.todo
        /\ crawl'.phase = crawl.phase /\ w.row \in Url
    BY <1>1, <1>8 DEF Check, At, Worker, CrawlRow
  <2>3. url[w.row].status = "discovered" /\ crawl.phase \in {"discovering", "crawling", "cancelled"}
    BY <1>0, <2>2 DEF PageInv, LiveInv
  <2>4. url'[w.row].status = s /\ \A v \in Url \ {w.row} : url'[v] = url[v]
    BY <1>1, <2>1, <2>2 DEF Page
  <2>5. With("eligible") \subseteq With("eligible")' /\ Known' = Known
    BY <2>2, <2>3, <2>4 DEF With, Known
  <2> QED  BY <1>0, <2>2, <2>3, <2>5 DEF PageInv
<1>9. CASE FetchPage
  <2>1. PICK u \in w.batch, s \in {"skipped", "failed", "crawled"} :
          /\ url' = [url EXCEPT ![u].status = s]
          /\ w'.batch = w.batch \ {u}
          /\ w'.todo \subseteq w.todo \/ w'.todo \cap Known = {}
          /\ w'.pc \in {"crawl", "add"}
    <3>1. PICK u \in w.batch :
             \/ \E s \in {"skipped", "failed"} : url' = [url EXCEPT ![u].status = s] /\ w' = [w EXCEPT !.batch = @ \ {u}]
             \/ \E links \in SUBSET Url :
                  /\ url' = [url EXCEPT ![u].status = "crawled"]
                  /\ w' = [w EXCEPT !.batch = @ \ {u}, !.pc = "add", !.depth = url[u].depth + 1,
                              !.todo = IF url[u].depth < MaxDepth THEN links \ Known ELSE {}]
      BY <1>9 DEF FetchPage
    <3>2. w.pc = "crawl"
      BY <1>9 DEF FetchPage, At
    <3> QED  BY <1>1, <3>1, <3>2 DEF Worker
  <2>2. w.pc = "crawl" /\ u \in Url /\ url[u].status = "eligible" /\ UNCHANGED crawl
    BY <1>0, <1>9, <2>1 DEF FetchPage, At, PageInv, With
  <2>3. crawl.phase \in {"crawling", "cancelled"}
    BY <1>0, <2>2 DEF LiveInv
  <2>4. url'[u].status = s /\ \A v \in Url \ {u} : url'[v] = url[v]
    BY <1>1, <2>1, <2>2 DEF Page
  <2>5. With("eligible")' = With("eligible") \ {u} /\ Known' = Known
    BY <2>1, <2>2, <2>4 DEF With, Known
  <2> QED  BY <1>0, <2>1, <2>2, <2>3, <2>5 DEF PageInv
<1>10. CASE AnalyzeTemplate
  <2>1. PICK template \in SUBSET With("crawled") :
          url' = [u \in Url |-> IF u \in template THEN [url[u] EXCEPT !.status = "analyzed"] ELSE url[u]]
    BY <1>10 DEF AnalyzeTemplate
  <2>2. /\ w.pc = "analyze" /\ w'.pc = "analyze" /\ w'.batch = w.batch /\ w'.todo = w.todo
        /\ UNCHANGED crawl
    BY <1>1, <1>10 DEF AnalyzeTemplate, At, Worker
  <2>3. \A u \in Url : \/ url'[u] = url[u]
                       \/ url[u].status = "crawled" /\ url'[u].status = "analyzed"
    BY <1>1, <2>1 DEF With, Page
  <2>4. With("eligible")' = With("eligible") /\ With("crawled")' \subseteq With("crawled") /\ Known' = Known
    BY <2>3 DEF With, Known
  <2> QED  BY <1>0, <2>2, <2>4 DEF PageInv
<1>11. CASE Save \/ EndCrawl \/ EndAnalyze \/ Advance
  <2>1. /\ UNCHANGED url /\ crawl'.phase = crawl.phase /\ w'.batch = w.batch /\ w'.todo = w.todo
        /\ w'.pc \in {"advance", "commit", "complete"}
        /\ w'.pc \in {"advance", "commit"} =>
             \/ w'.next = "crawling"
             \/ w'.next = "analyzing" /\ With("eligible") = {}
             \/ w'.next = "preparing" /\ With("crawled") = {} /\ w.pc = "analyze"
             \/ w.pc = "advance" /\ w'.next = w.next
    <3>1. CASE Save
      BY <1>1, <3>1 DEF Save, At, Worker, CrawlRow, Unfinished, Advancing
    <3>2. CASE EndCrawl
      BY <1>1, <3>2 DEF EndCrawl, At, Worker, Unfinished, Advancing
    <3>3. CASE EndAnalyze
      BY <1>1, <3>3 DEF EndAnalyze, At, Worker, Unfinished, Advancing
    <3>4. CASE Advance
      BY <1>1, <3>4 DEF Advance, At, Worker
    <3> QED  BY <1>11, <3>1, <3>2, <3>3, <3>4
  <2> QED  BY <1>0, <1>3, <2>1 DEF PageInv
<1>12. CASE Commit \/ Complete
  <2>1. /\ UNCHANGED url /\ w'.batch = w.batch /\ w'.todo = w.todo
        /\ w'.pc \in {"complete", "continue"}
        /\ crawl'.phase = crawl.phase \/ (w.pc = "commit" /\ crawl'.phase = w.next)
    <3>1. CASE Commit
      BY <1>1, <3>1 DEF Commit, At, Worker, CrawlRow
    <3>2. CASE Complete
      BY <1>1, <3>2 DEF Complete, At, Worker
    <3> QED  BY <1>12, <3>1, <3>2
  <2> QED  BY <1>0, <1>3, <2>1 DEF PageInv
<1>13. CASE Claim \/ Continue \/ Finalize \/ GiveUp \/ Raise \/ TimeOut \/ Crash \/ Recover
  <2>1. w'.pc \in {"idle", "chunk", "finalize", "giveup"} /\ w'.batch = {} /\ w'.todo = {}
    <3>1. CASE Claim
      BY <1>2, <3>1, RestingTyped DEF Claim, Worker
    <3>2. CASE Continue \/ Finalize \/ GiveUp \/ Crash
      BY <1>2, <3>2 DEF Continue, Finalize, GiveUp, Crash
    <3>3. CASE Raise \/ TimeOut \/ Recover
      BY <1>0, <3>3, FailsJob DEF Raise, TimeOut, Recover
    <3> QED  BY <1>13, <3>1, <3>2, <3>3
  <2>2. UNCHANGED url /\ crawl'.phase \in {crawl.phase, "failed"}
    <3>1. CASE Claim \/ Continue \/ Raise \/ TimeOut \/ Crash \/ Recover
      BY <3>1 DEF Claim, Continue, Raise, TimeOut, Crash, Recover
    <3>2. CASE Finalize \/ GiveUp
      BY <1>1, <3>2 DEF Finalize, GiveUp, CrawlRow
    <3> QED  BY <1>13, <3>1, <3>2
  <2> QED  BY <1>0, <1>3, <2>1, <2>2 DEF PageInv
<1>14. CASE Create \/ Start \/ AskCancel \/ Cancel \/ RequestDies
  <2>1. UNCHANGED <<url, w>> /\ crawl'.phase \in {crawl.phase, "pending", "cancelled"}
    <3>1. CASE Create \/ Cancel
      BY <1>1, <3>1 DEF Create, Cancel, CrawlRow
    <3>2. CASE Start \/ AskCancel \/ RequestDies
      BY <3>2 DEF Start, AskCancel, RequestDies
    <3> QED  BY <1>14, <3>1, <3>2
  <2> QED  BY <1>0, <1>3, <2>1 DEF PageInv
<1> QED  BY <1>4, <1>5, <1>6, <1>7, <1>8, <1>9, <1>10, <1>11, <1>12, <1>13, <1>14
        DEF Next, Work, Discovery, Recording, Crawling, Analysis, Ending

\* Every step keeps the counter.
LEMMA CountsKept ==
  ASSUME CrawlInv, Next
  PROVE  CountInv'
<1>0. TypeOK /\ JobInv /\ LiveInv /\ PageInv /\ CountInv
  BY DEF CrawlInv
<1>1. w \in Worker /\ crawl \in CrawlRow /\ url \in [Url -> Page] /\ faults \in Nat
  BY <1>0 DEF TypeOK, CrawlRow
<1>2. crawl.discovered \in Nat /\ MaxUrls \in Nat
  BY <1>1, CrawlAssumption DEF CrawlRow
<1>3. IsFiniteSet(With("discovered"))
  <2>1. With("discovered") \subseteq Known
    BY DEF With, Known
  <2> QED  BY <1>0, <2>1, FS_Subset DEF CountInv
<1>4. Cardinality(Known) \in Nat /\ Cardinality(With("discovered")) \in Nat
  BY <1>0, <1>3, FS_CardinalityType DEF CountInv
<1>5. UNCHANGED url => With("discovered")' = With("discovered") /\ Known' = Known
  BY DEF With, Known
<1>6. CASE Add
  <2>1. PICK u \in w.todo, p \in Page :
          /\ p.status \in {"discovered", "skipped"} /\ url' = [url EXCEPT ![u] = p]
          /\ w'.pc = "count" /\ w'.row = u
    BY <1>1, <1>6 DEF Add, Worker, Page
  <2>2. u \in Url /\ url[u].status = "absent" /\ UNCHANGED <<crawl, faults>> /\ w.pc = "add"
    BY <1>0, <1>1, <1>6, <2>1 DEF Add, PageInv, Known, With, Worker, At
  <2>3. url'[u] = p /\ \A v \in Url \ {u} : url'[v] = url[v]
    BY <1>1, <2>1, <2>2
  <2>4. Known' = Known \cup {u} /\ u \notin Known
    BY <2>1, <2>2, <2>3 DEF With, Known
  <2>5. IsFiniteSet(Known') /\ Cardinality(Known') = Cardinality(Known) + 1
    BY <1>0, <2>4, FS_AddElement DEF CountInv
  <2>6. u \notin With("discovered") /\ With("discovered")' = IF p.status = "discovered" THEN With("discovered") \cup {u} ELSE With("discovered")
    BY <2>1, <2>2, <2>3 DEF With
  <2>7. Cardinality(With("discovered")') = Cardinality(With("discovered")) + (IF p.status = "discovered" THEN 1 ELSE 0)
    BY <1>3, <1>4, <2>6, FS_AddElement
  <2>8. crawl.discovered < MaxUrls
    BY <1>2, <1>6 DEF Add, Full
  <2>9. ~ InHand /\ ~ At("count") /\ At("count")' /\ (InHand' <=> p.status = "discovered")
    BY <2>1, <2>2, <2>3 DEF InHand, At
  <2> QED  BY <1>0, <1>1, <1>2, <1>4, <2>1, <2>2, <2>5, <2>7, <2>8, <2>9 DEF CountInv
<1>7. CASE Count
  <2>1. /\ w.pc = "count" /\ UNCHANGED <<url, faults>> /\ crawl'.discovered = crawl.discovered + 1
        /\ w'.row = w.row /\ w'.pc = IF url[w.row].status = "discovered" THEN "check" ELSE "add"
    BY <1>1, <1>7 DEF Count, At, Worker, CrawlRow
  <2>2. (InHand' <=> InHand) /\ At("count") /\ ~ At("count")'
    BY <2>1 DEF InHand, At
  <2> QED  BY <1>0, <1>1, <1>2, <1>4, <1>5, <2>1, <2>2 DEF CountInv
<1>8. CASE Check
  <2>1. PICK s \in {"eligible", "skipped"} : url' = [url EXCEPT ![w.row].status = s]
    BY <1>8 DEF Check
  <2>2. /\ w.pc = "check" /\ w'.pc = "add" /\ UNCHANGED faults
        /\ crawl'.discovered = crawl.discovered /\ w.row \in Url
    BY <1>1, <1>8 DEF Check, At, Worker, CrawlRow
  <2>3. url[w.row].status = "discovered"
    BY <1>0, <2>2 DEF PageInv
  <2>4. url'[w.row].status = s /\ \A v \in Url \ {w.row} : url'[v] = url[v]
    BY <1>1, <2>1, <2>2 DEF Page
  <2>5. Known' = Known /\ With("discovered")' = With("discovered") \ {w.row} /\ w.row \in With("discovered")
    BY <2>1, <2>2, <2>3, <2>4 DEF With, Known
  <2>6. Cardinality(With("discovered")') = Cardinality(With("discovered")) - 1
    BY <1>3, <2>5, FS_RemoveElement
  <2>7. InHand /\ ~ InHand' /\ ~ At("count") /\ ~ At("count")'
    BY <2>2, <2>3 DEF InHand, At
  <2> QED  BY <1>0, <1>1, <1>2, <1>4, <2>2, <2>5, <2>6, <2>7 DEF CountInv
<1>9. CASE FetchPage
  <2>1. PICK u \in w.batch, s \in {"skipped", "failed", "crawled"} : url' = [url EXCEPT ![u].status = s]
    BY <1>9 DEF FetchPage
  <2>2. u \in Url /\ url[u].status = "eligible"
    BY <1>0, <2>1 DEF PageInv, With
  <2>3. /\ w.pc = "crawl" /\ w'.pc \in {"crawl", "add"} /\ UNCHANGED <<crawl, faults>>
    BY <1>1, <1>9 DEF FetchPage, At, Worker
  <2>4. url'[u].status = s /\ \A v \in Url \ {u} : url'[v] = url[v]
    BY <1>1, <2>1, <2>2 DEF Page
  <2>5. Known' = Known /\ With("discovered")' = With("discovered")
    BY <2>1, <2>2, <2>4 DEF With, Known
  <2>6. ~ InHand /\ ~ InHand' /\ ~ At("count") /\ ~ At("count")'
    BY <2>3 DEF InHand, At
  <2> QED  BY <1>0, <1>1, <1>2, <1>4, <2>3, <2>5, <2>6 DEF CountInv
<1>10. CASE AnalyzeTemplate
  <2>1. PICK template \in SUBSET With("crawled") :
          url' = [u \in Url |-> IF u \in template THEN [url[u] EXCEPT !.status = "analyzed"] ELSE url[u]]
    BY <1>10 DEF AnalyzeTemplate
  <2>2. w.pc = "analyze" /\ w'.pc = "analyze" /\ UNCHANGED <<crawl, faults>>
    BY <1>1, <1>10 DEF AnalyzeTemplate, At, Worker
  <2>3. \A u \in Url : \/ url'[u] = url[u]
                       \/ url[u].status = "crawled" /\ url'[u].status = "analyzed"
    BY <1>1, <2>1 DEF With, Page
  <2>4. Known' = Known /\ With("discovered")' = With("discovered")
    BY <2>3 DEF With, Known
  <2>5. ~ InHand /\ ~ InHand' /\ ~ At("count") /\ ~ At("count")'
    BY <2>2 DEF InHand, At
  <2> QED  BY <1>0, <1>1, <1>2, <1>4, <2>2, <2>4, <2>5 DEF CountInv
\* What only starts, resets or reads: a fault pays for the page it drops.
<1>11. ASSUME UNCHANGED url, crawl'.discovered = crawl.discovered, w'.pc \notin {"count", "check"},
              \/ faults' = faults /\ w.pc \notin {"count", "check"}
              \/ faults' = faults + 1
       PROVE  CountInv'
  <2>1. ~ InHand' /\ ~ At("count")'
    BY <1>11 DEF InHand, At
  <2>2. w.pc \notin {"count", "check"} => ~ InHand /\ ~ At("count")
    BY DEF InHand, At
  <2> QED  BY <1>0, <1>1, <1>2, <1>4, <1>5, <1>11, <2>1, <2>2 DEF CountInv
<1>12. CASE Raise \/ TimeOut \/ Crash
  <2>1. UNCHANGED <<url, crawl>> /\ faults' = faults + 1
    BY <1>12 DEF Raise, TimeOut, Crash, Fault
  <2>2. w'.pc \notin {"count", "check"}
    <3>1. CASE Crash
      BY <3>1, RestingTyped DEF Crash
    <3>2. CASE Raise \/ TimeOut
      BY <1>0, <3>2, FailsJob DEF Raise, TimeOut
    <3> QED  BY <1>12, <3>1, <3>2
  <2> QED  BY <1>11, <2>1, <2>2
<1>13. CASE Claim \/ Chunk \/ Discovery \/ Added \/ EndCrawl \/ EndAnalyze \/ Ending \/ Recover
  <2>1. UNCHANGED <<url, faults>> /\ crawl'.discovered = crawl.discovered
    BY <1>1, <1>13 DEF Claim, Chunk, Discovery, FetchRobots, FetchSitemap, EndFetching, Save, Added, EndCrawl, EndAnalyze,
         Ending, Advance, Commit, Complete, Continue, Finalize, GiveUp, Recover, CrawlRow
  <2>2. w.pc \notin {"count", "check"}
    BY <1>13 DEF Claim, Chunk, Discovery, FetchRobots, FetchSitemap, EndFetching, Save, Added, EndCrawl, EndAnalyze,
         Ending, Advance, Commit, Complete, Continue, Finalize, GiveUp, Recover, At, Idle
  <2>3. w'.pc \notin {"count", "check"}
    <3>1. CASE Claim \/ Ending
      BY <1>1, <3>1, RestingTyped DEF Claim, Ending, Advance, Commit, Complete, Continue, Finalize, GiveUp, Worker
    <3>2. CASE Chunk \/ EndCrawl \/ EndAnalyze
      BY <1>1, <3>2 DEF Chunk, EndCrawl, EndAnalyze, Worker, Unfinished, Advancing
    <3>3. CASE Discovery
      BY <1>1, <3>3 DEF Discovery, FetchRobots, FetchSitemap, EndFetching, Save, At, Worker, Unfinished, Advancing
    <3>4. CASE Added
      BY <1>1, <3>4 DEF Added, Worker
    <3>5. CASE Recover
      BY <1>0, <3>5, FailsJob DEF Recover
    <3> QED  BY <1>13, <3>1, <3>2, <3>3, <3>4, <3>5
  <2> QED  BY <1>11, <2>1, <2>2, <2>3
<1>14. CASE Create \/ Start \/ AskCancel \/ Cancel \/ RequestDies
  <2>1. UNCHANGED <<url, w>> /\ crawl'.discovered = crawl.discovered /\ faults' \in {faults, faults + 1}
    <3>1. CASE Create \/ Cancel
      BY <1>1, <3>1 DEF Create, Cancel, CrawlRow
    <3>2. CASE Start \/ AskCancel \/ RequestDies
      BY <3>2 DEF Start, AskCancel, RequestDies, Fault
    <3> QED  BY <1>14, <3>1, <3>2
  <2>2. (InHand' <=> InHand) /\ (At("count")' <=> At("count"))
    BY <2>1 DEF InHand, At
  <2> QED  BY <1>0, <1>1, <1>2, <1>4, <1>5, <2>1, <2>2 DEF CountInv
<1> QED  BY <1>6, <1>7, <1>8, <1>9, <1>10, <1>12, <1>13, <1>14
        DEF Next, Work, Recording, Crawling, Analysis

\* Every step preserves the invariant.
LEMMA CrawlNext == CrawlInv /\ [Next]_vars => CrawlInv'
<1> SUFFICES ASSUME CrawlInv, [Next]_vars PROVE CrawlInv'
  OBVIOUS
<1>1. CASE Next
  BY <1>1, TypesKept, JobsKept, LiveKept, PagesKept, CountsKept DEF CrawlInv
<1>2. CASE UNCHANGED vars
  BY <1>2 DEF vars, CrawlInv, TypeOK, JobInv, ScoreInv, LiveInv, PageInv, CountInv, CarriedOn, WorkerBetween,
     RequestBetween, Idle, At, With, Known, InHand
<1> QED  BY <1>1, <1>2

\* The invariant holds always.
LEMMA CrawlAlways == Spec => []CrawlInv
<1> QED  BY CrawlInit, CrawlNext, PTL DEF Spec

(***************************************************************************)
(* The budget of URLs holds for any site, chunk size and number of         *)
(* crashes: no more is counted as discovered than is allowed, and no more  *)
(* rows exist than were counted, but for one per crash between the insert  *)
(* and the count (discovery.py:128).                                       *)
(***************************************************************************)
THEOREM CrawlBudget == Spec => []Budget
<1>1. CrawlInv => Budget
  BY DEF CrawlInv, CountInv, Budget
<1> QED  BY <1>1, CrawlAlways, PTL

(***************************************************************************)
(* From analysis on no page of a crawl waits to be crawled, from           *)
(* preparation on none waits to be analysed, and of the recorded URLs at   *)
(* most one per crash was never checked, for any site and any crashes      *)
(* (discovery.py:128, orchestrator.py, _advance).                          *)
(***************************************************************************)
THEOREM CrawlLeavesNothing == Spec => []NothingLeftBehind
<1>1. CrawlInv => NothingLeftBehind
  <2> SUFFICES ASSUME CrawlInv PROVE NothingLeftBehind
    OBVIOUS
  <2>1. InHand => crawl.phase \notin {"analyzing", "preparing", "completed"}
    BY DEF InHand, CrawlInv, LiveInv
  <2> QED  BY <2>1 DEF CrawlInv, PageInv, CountInv, NothingLeftBehind, TypeOK
<1> QED  BY <1>1, CrawlAlways, PTL

(***************************************************************************)
(* A crawl that is not over has a job, a worker that ends it or queues the *)
(* next job, a request that is about to, or was left by a crash exactly    *)
(* between the two commits (runner.py:323).                                *)
(***************************************************************************)
THEOREM CrawlCarriedOn == Spec => []CarriedOn
<1>1. CrawlInv => CarriedOn
  BY DEF CrawlInv, JobInv
<1> QED  BY <1>1, CrawlAlways, PTL

(***************************************************************************)
(* The scoring of the pages is queued at most once for a crawl, when       *)
(* nothing of it is under way (orchestrator.py, the last phase).           *)
(***************************************************************************)
THEOREM CrawlScoredOnce == Spec => []ScoredOnce
<1>1. CrawlInv => ScoredOnce
  BY DEF CrawlInv, ScoreInv, ScoredOnce, TypeOK
<1> QED  BY <1>1, CrawlAlways, PTL

(***************************************************************************)
(* While no cancel is committed between the worker's last look at the      *)
(* phase and its own commit, a crawl that has ended stays ended, whatever  *)
(* chunk was in hand (orchestrator.py:74).                                 *)
(***************************************************************************)
THEOREM CrawlStaysEnded ==
  ASSUME "advance" \in Timely
  PROVE  Spec => NeverResumed
<1>1. CrawlInv /\ [Next]_vars => [crawl.phase \in Terminal => crawl'.phase \in Terminal]_vars
  <2> SUFFICES ASSUME CrawlInv, Next, crawl.phase \in Terminal PROVE crawl'.phase \in Terminal
    OBVIOUS
  <2>0. crawl \in CrawlRow /\ TypeOK
    BY DEF CrawlInv, TypeOK, CrawlRow
  <2>1. CASE InChunk
    <3>1. w.pc = "commit" => crawl.phase \in ActivePhase
      BY DEF CrawlInv, LiveInv, Terminal, ActivePhase
    <3> QED  BY <2>0, <2>1, <3>1, ChunkSteps DEF Terminal, ActivePhase
  <2>2. CASE Create \/ Cancel \/ Finalize \/ GiveUp
    BY <2>0, <2>2 DEF Create, Cancel, Finalize, GiveUp, CrawlRow, Terminal
  <2>3. CASE UNCHANGED crawl
    BY <2>3
  <2> QED  BY <2>1, <2>2, <2>3 DEF Next, Work, Ending, InChunk, Claim, Recover, Complete, Continue,
          Start, AskCancel, Raise, TimeOut, Crash, RequestDies
<1> QED  BY <1>1, CrawlAlways, PTL DEF Spec, NeverResumed
=============================================================================
