------------------------------ MODULE JobQueue ------------------------------
(***************************************************************************)
(* The job queue: monitoring/scheduler.py, driven by monitoring/worker.py  *)
(* (_run_job, tick) and by the "Run now" request of                        *)
(* api/routes_monitors.py.                                                 *)
(*                                                                         *)
(* Executors share the scheduled_jobs table.  A worker recovers stalled    *)
(* jobs, claims a job (SELECT, then a guarded UPDATE), runs its body under *)
(* a heartbeat thread and records the outcome.  A request runs a job       *)
(* inline, without claiming it.                                            *)
(*                                                                         *)
(* complete_job and fail_job take the token of the claim from the          *)
(* attributes of the ORM object.  The session expires those attributes at  *)
(* every commit and rollback (sessionmaker's default), so that an executor *)
(* whose body has committed reads them from the row again when it records  *)
(* the outcome: view is what the session holds, Expired when it must       *)
(* reload.  The reload and the UPDATE are two statements.                  *)
(*                                                                         *)
(* Leadership does not appear: a worker that lost it finishes the job in   *)
(* hand, so two workers may be at work at any time.                        *)
(***************************************************************************)
EXTENDS JobTable

CONSTANTS
  Worker,      \* background workers
  Request,     \* API requests that run a job inline
  Sync,        \* targets whose job body never awaits (page_value)
  MaxJobs,     \* bound of the model: how many jobs are ever created
  MaxCrashes,  \* bound of the model: how often an executor dies
  Prompt       \* what is in time: the "heartbeat" threads (and the event loop
               \* they cancel a job on), the "queries" of claim and recovery

ASSUME QueueAssumption ==
  /\ Worker \cap Request = {}
  /\ Sync \subseteq Target
  /\ MaxJobs \in Nat /\ MaxCrashes \in Nat
  /\ Prompt \subseteq {"heartbeat", "queries"}

Executor == Worker \union Request
JobId == 1 .. MaxJobs
Nothing == 0     \* no job
Expired == -1    \* the session must reload the job

\* Wrong: a silent worker gives up after recovery may already have run.
GiveUpLate == JobLease + 2

\* JobHeartbeat.give_up_after, in intervals
GiveUpAfter == IF JobLease > 3 THEN JobLease - 2 ELSE 1

VARIABLES
  job,      \* the scheduled_jobs table
  exec,     \* exec[e]: what executor e is doing
  beat,     \* beat[e]: its JobHeartbeat thread
  crashes   \* how many executors have died

vars == <<job, exec, beat, crashes>>

----------------------------------------------------------------------------

Exec ==
  [pc : {"idle", "select", "body", "outcome", "update"},
   job : JobId \union {Nothing},
   view : Nat \union {Expired},   \* the session's started_at
   seen : Nat,                    \* the session's attempts
   outcome : {"complete", "fail", "recover"},
   todo : SUBSET JobId]           \* stalled jobs still to be recovered

Session(pc, j, view, seen) ==
  [pc |-> pc, job |-> j, view |-> view, seen |-> seen, outcome |-> "fail", todo |-> {}]
Idle == Session("idle", Nothing, Expired, 0)

\* A recovery pass about to fail job j, with more to come
Recovering(j, view, seen, todo) ==
  [pc |-> "outcome", job |-> j, view |-> view, seen |-> seen, outcome |-> "recover", todo |-> todo]

\* A session that has just read row j
Loaded(pc, j) == Session(pc, j, job[j].started, job[j].attempts)

\* "lost": the thread has ended after on_lost, which cancels the body
Beat == [claim : Nat, state : {"off", "due", "sent", "lost"}, silent : Nat]
NoBeat == [claim |-> Unclaimed, state |-> "off", silent |-> 0]
Lost(w) == beat[w].state = "lost"

\* claim_job takes the due job that was scheduled first.
NextJob == {j \in JobId : Claimable(job[j]) /\ \A i \in 1 .. (j - 1) : ~ Claimable(job[i])}

\* Wrong: the partial index covers pending jobs alone.
ActiveJobsPending(t) == {j \in JobId : job[j].status = "pending" /\ job[j].target = t}
ActiveJobs(t) == {j \in JobId : job[j].status \in Active /\ job[j].target = t}
FreeIds == {j \in JobId : job[j].status = "none" /\ \A i \in 1 .. (j - 1) : job[i].status # "none"}

Awaits(e) == job[exec[e].job].target \notin Sync

----------------------------------------------------------------------------

Init ==
  /\ job = [j \in JobId |-> NoJob]
  /\ exec = [e \in Executor |-> Idle]
  /\ beat = [e \in Executor |-> NoBeat]
  /\ crashes = 0

----------------------------------------------------------------------------
(* Creating jobs.  The partial unique index makes check and insert one     *)
(* step: of two racing inserts the second is rejected and its caller gets  *)
(* the active job.                                                         *)

Enqueue(t) ==
  /\ ActiveJobs(t) = {}
  /\ \E j \in FreeIds : job' = [job EXCEPT ![j] = NewJob(t)]
  /\ UNCHANGED <<exec, beat, crashes>>

\* run_monitor: enqueue_manual returns the new job or the active one, and
\* process_job runs it, whichever it is.
RunNow(r, t) ==
  /\ exec[r].pc = "idle"
  /\ \/ /\ ActiveJobs(t) = {}
        /\ \E j \in FreeIds :
             /\ job' = [job EXCEPT ![j] = NewJob(t)]
             /\ exec' = [exec EXCEPT ![r] = Session("body", j, Unclaimed, 0)]
     \/ /\ \E j \in ActiveJobs(t) : exec' = [exec EXCEPT ![r] = Loaded("body", j)]
        /\ UNCHANGED job
  /\ UNCHANGED <<beat, crashes>>

----------------------------------------------------------------------------
(* Claiming a job.                                                         *)

SelectJob(w) ==
  /\ exec[w].pc = "idle"
  /\ \E j \in NextJob : exec' = [exec EXCEPT ![w] = Loaded("select", j)]
  /\ UNCHANGED <<job, beat, crashes>>

\* Wrong: the UPDATE does not ask for a pending row.
ClaimJobBlind(w) ==
  LET j == exec[w].job IN
  /\ exec[w].pc = "select"
  /\ job' = [job EXCEPT ![j] = Claimed(@)]
  /\ exec' = [exec EXCEPT ![w] =
                Session("body", j, Claimed(job[j]).started, Claimed(job[j]).attempts)]
  /\ beat' = [beat EXCEPT ![w] = [NoBeat EXCEPT !.claim = Claimed(job[j]).started, !.state = "due"]]
  /\ UNCHANGED crashes

ClaimJob(w) ==
  LET j == exec[w].job IN
  /\ exec[w].pc = "select" /\ job[j].status = "pending"
  /\ job' = [job EXCEPT ![j] = Claimed(@)]
  /\ exec' = [exec EXCEPT ![w] =
                Session("body", j, Claimed(job[j]).started, Claimed(job[j]).attempts)]
  /\ beat' = [beat EXCEPT ![w] = [NoBeat EXCEPT !.claim = Claimed(job[j]).started, !.state = "due"]]
  /\ UNCHANGED crashes

\* Another worker claimed it first.
MissJob(w) ==
  /\ exec[w].pc = "select" /\ job[exec[w].job].status # "pending"
  /\ exec' = [exec EXCEPT ![w] = Idle]
  /\ UNCHANGED <<job, beat, crashes>>

----------------------------------------------------------------------------
(* The heartbeat thread.                                                   *)

BeatOk(w) ==
  LET j == exec[w].job IN
  /\ beat[w].state = "due" /\ OwnClaim(job[j], beat[w].claim)
  /\ job' = [job EXCEPT ![j] = Refreshed(@)]
  /\ beat' = [beat EXCEPT ![w].state = "sent", ![w].silent = 0]
  /\ UNCHANGED <<exec, crashes>>

\* The row runs under another claim: the job must stop.
BeatTaken(w) ==
  LET j == exec[w].job IN
  /\ beat[w].state = "due" /\ job[j].status = "running" /\ job[j].started # beat[w].claim
  /\ beat' = [beat EXCEPT ![w].state = "lost"]
  /\ UNCHANGED <<job, exec, crashes>>

\* The row does not run any more: the thread ends, the job goes on.
BeatDone(w) ==
  /\ beat[w].state = "due" /\ job[exec[w].job].status # "running"
  /\ beat' = [beat EXCEPT ![w].state = "off"]
  /\ UNCHANGED <<job, exec, crashes>>

\* A database error; after too long a silence the job must stop.
BeatFails(w) ==
  /\ beat[w].state = "due"
  /\ \/ /\ beat[w].silent > GiveUpAfter
        /\ beat' = [beat EXCEPT ![w].state = "lost"]
     \/ /\ beat[w].silent <= GiveUpAfter
        /\ beat' = [beat EXCEPT ![w].state = "sent"]
  /\ UNCHANGED <<job, exec, crashes>>

----------------------------------------------------------------------------
(* The body of a job and its outcome.                                      *)

\* process_job has done its work, or raised; whether the session was
\* expired on the way depends on the body.
EndBody(e) ==
  /\ exec[e].pc = "body"
  /\ \E outcome \in {"complete", "fail"}, view \in {exec[e].view, Expired} :
       exec' = [exec EXCEPT ![e].pc = "outcome", ![e].outcome = outcome, ![e].view = view]
  /\ UNCHANGED <<job, beat, crashes>>

\* asyncio.wait_for: the body is cancelled at an await and the job failed.
TimeOut(w) ==
  /\ exec[w].pc = "body" /\ Awaits(w) /\ ~ Lost(w)
  /\ exec' = [exec EXCEPT ![w].pc = "outcome", ![w].outcome = "fail", ![w].view = Expired]
  /\ UNCHANGED <<job, beat, crashes>>

\* on_lost: the body is cancelled at an await and nothing is recorded.
Cancel(w) ==
  /\ exec[w].pc = "body" /\ Awaits(w) /\ Lost(w)
  /\ exec' = [exec EXCEPT ![w] = Idle]
  /\ beat' = [beat EXCEPT ![w] = NoBeat]
  /\ UNCHANGED <<job, crashes>>

\* The filter of complete_job or fail_job needs the token: it is read from
\* the row when the session has expired it.
Reload(e) ==
  LET j == exec[e].job IN
  /\ exec[e].pc = "outcome"
  /\ exec' = [exec EXCEPT ![e].pc = "update",
                ![e].view = IF @ = Expired THEN job[j].started ELSE @,
                ![e].seen = IF exec[e].view = Expired THEN job[j].attempts ELSE @]
  /\ UNCHANGED <<job, beat, crashes>>

\* After a recovery the session is expired and the next stalled job is due.
Continue(e) ==
  IF exec[e].todo = {} THEN exec' = [exec EXCEPT ![e] = Idle]
  ELSE \E j \in exec[e].todo :
         exec' = [exec EXCEPT ![e] = Recovering(j, Expired, 0, exec[e].todo \ {j})]

Written(row, x) == IF x.outcome = "complete" THEN Completed(row) ELSE Failed(row, x.seen)

Update(e) ==
  LET j == exec[e].job
      matches == StillOurs(job[j], exec[e].view)
  IN
  /\ exec[e].pc = "update"
  /\ job' = IF matches THEN [job EXCEPT ![j] = Written(@, exec[e])] ELSE job
  /\ Continue(e)
  /\ beat' = [beat EXCEPT ![e] = NoBeat]
  /\ UNCHANGED crashes

----------------------------------------------------------------------------
(* Recovery: recover_stalled_jobs reads all stalled jobs and then fails    *)
(* them one by one.  The first is failed with what the SELECT saw.         *)

Recover(w) ==
  LET stalled == {j \in JobId : Stalled(job[j])} IN
  /\ exec[w].pc = "idle"
  /\ \E j \in stalled :
       exec' = [exec EXCEPT ![w] =
                  Recovering(j, job[j].started, job[j].attempts, stalled \ {j})]
  /\ UNCHANGED <<job, beat, crashes>>

----------------------------------------------------------------------------
(* The environment.                                                        *)

\* The process dies, or the client goes away, and a new one takes its place.
Crash(e) ==
  /\ exec[e].pc # "idle" /\ crashes < MaxCrashes
  /\ exec' = [exec EXCEPT ![e] = Idle]
  /\ beat' = [beat EXCEPT ![e] = NoBeat]
  /\ crashes' = crashes + 1
  /\ UNCHANGED job

\* Every heartbeat thread has run once in this interval, and a job that lost
\* its claim has been cancelled, if it can be.
HeartbeatInTime(w) ==
  /\ beat[w].state # "due"
  /\ Lost(w) => exec[w].pc = "body" /\ ~ Awaits(w)

\* A claim and a recovery pass end in the interval they began in.
QueriesInTime(w) == exec[w].pc # "select" /\ exec[w].outcome # "recover"

Tick ==
  /\ "heartbeat" \in Prompt => \A w \in Worker : HeartbeatInTime(w)
  /\ "queries" \in Prompt => \A w \in Worker : QueriesInTime(w)
  /\ job' = [j \in JobId |-> Aged(job[j])]
  /\ beat' = [e \in Executor |->
       IF beat[e].state \in {"off", "lost"} THEN beat[e]
       ELSE [beat[e] EXCEPT !.state = "due",
               !.silent = IF @ <= GiveUpAfter THEN @ + 1 ELSE @]]
  /\ UNCHANGED <<exec, crashes>>

----------------------------------------------------------------------------

Step(w) ==
  \/ SelectJob(w) \/ ClaimJob(w) \/ MissJob(w) \/ Recover(w)
  \/ EndBody(w) \/ TimeOut(w) \/ Cancel(w) \/ Reload(w) \/ Update(w)

Heartbeat(w) == BeatOk(w) \/ BeatTaken(w) \/ BeatDone(w) \/ BeatFails(w)

Inline(r) == (\E t \in Target : RunNow(r, t)) \/ EndBody(r) \/ Reload(r) \/ Update(r)

Next ==
  \/ \E t \in Target : Enqueue(t)
  \/ \E w \in Worker : Step(w) \/ Heartbeat(w)
  \/ \E r \in Request : Inline(r)
  \/ \E e \in Executor : Crash(e)
  \/ Tick

(***************************************************************************)
(* Time passes; a worker goes on with what it does, and a loop that is     *)
(* idle recovers and claims (tick runs every scheduler_interval_seconds);  *)
(* a body ends (it finishes, raises or times out).  Nothing makes a        *)
(* heartbeat succeed.                                                      *)
(***************************************************************************)
Fairness ==
  /\ WF_vars(Tick)
  /\ \A w \in Worker : WF_vars(Step(w)) /\ WF_vars(Heartbeat(w))
  /\ \A w \in Worker : SF_vars(Recover(w)) /\ SF_vars(SelectJob(w))
  /\ \A r \in Request : WF_vars(EndBody(r) \/ Reload(r) \/ Update(r))

Spec == Init /\ [][Next]_vars
FairSpec == Spec /\ Fairness

----------------------------------------------------------------------------

TypeOK ==
  /\ job \in [JobId -> Row]
  /\ exec \in [Executor -> Exec]
  /\ beat \in [Executor -> Beat]
  /\ crashes \in 0 .. MaxCrashes

Executing(e, j) == exec[e].pc = "body" /\ exec[e].job = j

(***************************************************************************)
(* The body of a job never runs in two executors at once: a job never runs *)
(* alongside its own retry (worker.py:91-94), and what the queue hands out *)
(* runs in one place (leader.py:22-24).                                    *)
(***************************************************************************)
NoDoubleRun ==
  \A j \in JobId : \A d, e \in Executor : Executing(d, j) /\ Executing(e, j) => d = e

(***************************************************************************)
(* Nor do two jobs of one target run at once: the partial unique index     *)
(* allows one active row, but the body of a completed or recovered row may *)
(* outlive it (models.py:353-354, "two ticks can never process the same    *)
(* CrawlJob concurrently").                                                *)
(***************************************************************************)
TargetExclusive ==
  \A d, e \in Executor :
    exec[d].pc = "body" /\ exec[e].pc = "body"
      /\ job[exec[d].job].target = job[exec[e].job].target => d = e

(***************************************************************************)
(* A worker records an outcome only in a row that still carries its own    *)
(* claim, or none: once a stalled job is recovered and claimed again, the  *)
(* worker that comes back late can no longer complete or fail it           *)
(* (scheduler.py:219-223).                                                 *)
(***************************************************************************)
FencedOutcome ==
  [][\A w \in Worker :
       Update(w) /\ exec[w].outcome # "recover" /\ job' # job =>
         job[exec[w].job].started \in {beat[w].claim, Unclaimed}]_vars

(***************************************************************************)
(* A job whose heartbeats keep coming is never recovered                   *)
(* (scheduler.py:278): recovery fails a row only when its worker is gone   *)
(* or has stopped the body.                                                *)
(***************************************************************************)
LiveNeverRecovered ==
  [][\A w, v \in Worker :
       Update(w) /\ exec[w].outcome = "recover" /\ job' # job /\ v # w /\ exec[v].pc = "body" =>
         exec[v].job # exec[w].job \/ beat[v].state \in {"off", "lost"}]_vars

(***************************************************************************)
(* The retry budget is exact: no interleaving of claims, failures and      *)
(* recoveries hands a job out more than max_attempts times, and a job is   *)
(* given up only when all its attempts are used.                           *)
(***************************************************************************)
RetryBudget ==
  \A j \in JobId :
    /\ job[j].attempts <= MaxAttempts
    /\ job[j].status = "pending" => job[j].attempts < MaxAttempts
    /\ job[j].status = "failed" => job[j].attempts = MaxAttempts

(***************************************************************************)
(* At most one pending or running job per target.                          *)
(***************************************************************************)
OneActivePerTarget ==
  \A t \in Target : \A i, j \in ActiveJobs(t) : i = j

(***************************************************************************)
(* Every job that is queued is eventually completed or failed, whichever   *)
(* executors die on the way.                                               *)
(***************************************************************************)
EveryJobEnds ==
  \A j \in JobId : job[j].status \in Active ~> job[j].status \in {"completed", "failed"}
=============================================================================
