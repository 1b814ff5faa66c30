--------------------------- MODULE JobQueueProofs ---------------------------
(***************************************************************************)
(* What holds of the job queue however late threads, statements and        *)
(* requests are: type correctness, the retry budget and the uniqueness of  *)
(* the active job.  Then, under an assumption of its own, what holds when  *)
(* they are in time.                                                       *)
(***************************************************************************)
EXTENDS JobQueue, TLAPS

\* The retry budget of one row
Budgeted(row) ==
  /\ row.attempts <= MaxAttempts
  /\ row.status = "pending" => row.attempts < MaxAttempts
  /\ row.status = "failed" => row.attempts = MaxAttempts

\* The token in a row is that of its last claim, as long as it runs, and it
\* is gone while the row is pending.
Consistent(row) ==
  /\ row.started \in {Unclaimed, row.attempts}
  /\ row.status = "running" => row.started # Unclaimed
  /\ row.status \in {"none", "pending"} => row.started = Unclaimed
  /\ row.status = "none" => row.attempts = 0
  /\ row.status = "none" \/ row.target # NoTarget

RowInv == \A j \in JobId : Consistent(job[j]) /\ Budgeted(job[j])

\* What an executor holds about its job is of one moment: attempts and
\* token belong together, and they are not ahead of the row.
Coherent(x, row) ==
  /\ x.view # Expired =>
       /\ x.seen <= row.attempts
       /\ x.view # Unclaimed => x.seen = x.view
  /\ x.pc = "update" => x.view # Expired

SessionInv ==
  \A e \in Executor : exec[e].pc # "idle" =>
    /\ exec[e].job \in JobId
    /\ Coherent(exec[e], job[exec[e].job])

(***************************************************************************)
(* The inductive invariant of the queue: the token of a row is that of its *)
(* last claim while it runs and is gone while it is pending, the attempts  *)
(* are within the budget, what a session holds of a row is of one moment,  *)
(* and a target has one active job (scheduler.py, claim_job, fail_job and  *)
(* _still_ours together).                                                  *)
(***************************************************************************)
QInv == TypeOK /\ RowInv /\ SessionInv /\ OneActivePerTarget

----------------------------------------------------------------------------
(* The statements on a row.                                                *)

GoodRow(row) == row \in Row /\ Consistent(row) /\ Budgeted(row)

\* What every statement on an existing row does.
Grows(old, new) ==
  /\ GoodRow(new)
  /\ new.target = old.target
  /\ new.attempts >= old.attempts
  /\ new.status \in Active => old.status \in Active

\* A new job is a good row.
LEMMA NewJobGood ==
  ASSUME NEW t \in Target
  PROVE  GoodRow(NewJob(t)) /\ NewJob(t).target = t
<1>1. NewJob(t) \in Row
  BY DEF NewJob, Row, Status, Unclaimed
<1>2. Consistent(NewJob(t)) /\ Budgeted(NewJob(t)) /\ NewJob(t).target = t
  BY JobAssumption DEF NewJob, Consistent, Budgeted, Unclaimed
<1> QED BY <1>1, <1>2 DEF GoodRow

\* A claim keeps a pending row good and spends one attempt.
LEMMA ClaimedGood ==
  ASSUME NEW row, GoodRow(row), row.status = "pending"
  PROVE  Grows(row, Claimed(row)) /\ Claimed(row).attempts = row.attempts + 1
<1>0. row \in Row /\ row.attempts + 1 \in Nat
  BY DEF GoodRow, Row
<1>1. Claimed(row) \in Row
  BY <1>0 DEF Claimed, Row, Status
<1>2. /\ Claimed(row).status = "running" /\ Claimed(row).started = row.attempts + 1
      /\ Claimed(row).attempts = row.attempts + 1 /\ Claimed(row).target = row.target
      /\ row.attempts \in Nat /\ row.attempts < MaxAttempts /\ row.target # NoTarget
  BY DEF GoodRow, Claimed, Row, Budgeted, Consistent
<1>3. Consistent(Claimed(row)) /\ Budgeted(Claimed(row))
  BY <1>2, JobAssumption DEF Consistent, Budgeted, Unclaimed
<1> QED BY <1>1, <1>2, <1>3 DEF GoodRow, Grows, Active

\* Completing keeps an active row good.
LEMMA CompletedGood ==
  ASSUME NEW row, GoodRow(row), row.status \in Active
  PROVE  Grows(row, Completed(row))
<1>1. GoodRow(Completed(row))
  BY JobAssumption DEF GoodRow, Completed, Row, Status, Active, Consistent, Budgeted, Unclaimed
<1>2. /\ Completed(row).target = row.target /\ Completed(row).attempts = row.attempts
      /\ row.attempts \in Nat
  BY DEF GoodRow, Completed, Row
<1> QED BY <1>1, <1>2 DEF Grows

\* Failing keeps an active row good, when the attempts the caller sees are
\* those of the claim it fails.
LEMMA FailedGood ==
  ASSUME NEW row, NEW seen \in Nat, GoodRow(row), row.status \in Active,
         seen <= row.attempts, row.status = "running" => seen = row.attempts
  PROVE  Grows(row, Failed(row, seen))
<1>1. GoodRow(Failed(row, seen))
  <2>1. CASE seen < MaxAttempts
    BY <2>1, JobAssumption
    DEF GoodRow, Failed, Row, Status, Active, Consistent, Budgeted, Unclaimed
  <2>2. CASE ~ (seen < MaxAttempts)
    BY <2>2, JobAssumption
    DEF GoodRow, Failed, Row, Status, Active, Consistent, Budgeted, Unclaimed
  <2> QED BY <2>1, <2>2
<1>2. /\ Failed(row, seen).target = row.target /\ Failed(row, seen).attempts = row.attempts
      /\ row.attempts \in Nat
  BY DEF GoodRow, Failed, Row
<1> QED BY <1>1, <1>2 DEF Grows

\* A heartbeat keeps a row good.
LEMMA RefreshedGood ==
  ASSUME NEW row, GoodRow(row)
  PROVE  Grows(row, Refreshed(row))
<1>1. GoodRow(Refreshed(row))
  BY DEF GoodRow, Refreshed, Row, Status, Consistent, Budgeted, Unclaimed
<1>2. /\ Refreshed(row).target = row.target /\ Refreshed(row).attempts = row.attempts
      /\ Refreshed(row).status = row.status /\ row.attempts \in Nat
  BY DEF GoodRow, Refreshed, Row
<1> QED BY <1>1, <1>2 DEF Grows

\* So does time.
LEMMA AgedGood ==
  ASSUME NEW row, GoodRow(row)
  PROVE  Grows(row, Aged(row))
<1>1. row \in Row BY DEF GoodRow
<1>2. /\ Aged(row).target = row.target /\ Aged(row).status = row.status
      /\ Aged(row).attempts = row.attempts /\ Aged(row).started = row.started
      /\ Aged(row).age \in Nat /\ Aged(row).backoff \in Nat /\ row.attempts \in Nat
  BY <1>1, JobAssumption DEF Aged, Row
<1>3. Aged(row) \in Row
  BY <1>1, <1>2 DEF Aged, Row
<1> QED BY <1>2, <1>3 DEF GoodRow, Consistent, Budgeted, Grows

----------------------------------------------------------------------------
(* What an executor holds.                                                 *)

\* The types of an idle executor and of a silent heartbeat.
LEMMA IdleType == Idle \in Exec /\ NoBeat \in Beat
BY DEF Idle, Session, Exec, NoBeat, Beat, Unclaimed

\* A session that has just read a good row is coherent with it.
LEMMA LoadedGood ==
  ASSUME TypeOK, RowInv, NEW j \in JobId, NEW at \in {"select", "body", "outcome"}
  PROVE  /\ Loaded(at, j) \in Exec
         /\ Loaded(at, j).pc = at /\ Loaded(at, j).job = j
         /\ Coherent(Loaded(at, j), job[j])
<1>1. /\ job[j].started \in Nat /\ job[j].attempts \in Nat
      /\ job[j].started \in {Unclaimed, job[j].attempts}
  BY DEF TypeOK, Row, RowInv, Consistent
<1>2. Loaded(at, j) = [pc |-> at, job |-> j, view |-> job[j].started, seen |-> job[j].attempts,
                       outcome |-> "fail", todo |-> {}]
  BY DEF Loaded, Session
<1>3. Loaded(at, j) \in Exec
  BY <1>1, <1>2 DEF Exec
<1> QED BY <1>1, <1>2, <1>3 DEF Coherent, Unclaimed

\* A session nobody touches stays coherent with a row that grows.
LEMMA StaysCoherent ==
  ASSUME NEW x \in Exec, NEW old \in Row, NEW new \in Row, new.attempts >= old.attempts,
         Coherent(x, old)
  PROVE  Coherent(x, new)
BY DEF Coherent, Exec, Row

----------------------------------------------------------------------------
(* Every step but the creation of a job has this shape: rows grow, and an  *)
(* executor that does something holds what is coherent with the new table. *)

Sound(x) == x.pc # "idle" => x.job \in JobId /\ Coherent(x, job[x.job])

\* Such a step preserves the invariant.
LEMMA StepGood ==
  ASSUME QInv, TypeOK',
         \A j \in JobId : Grows(job[j], job'[j]),
         \A e \in Executor : exec'[e] = exec[e] \/ Sound(exec[e])'
  PROVE  QInv'
<1>1. RowInv'
  BY DEF Grows, GoodRow, RowInv
<1>2. SessionInv'
  <2> SUFFICES ASSUME NEW e \in Executor, exec'[e].pc # "idle"
               PROVE  exec'[e].job \in JobId /\ Coherent(exec[e], job[exec[e].job])'
    BY DEF SessionInv
  <2>1. CASE Sound(exec[e])'
    BY <2>1 DEF Sound
  <2>2. CASE exec'[e] = exec[e]
    <3>1. exec[e].job \in JobId /\ Coherent(exec[e], job[exec[e].job]) /\ exec[e] \in Exec
      BY <2>2 DEF QInv, SessionInv, TypeOK
    <3>2. /\ job[exec[e].job] \in Row /\ job'[exec[e].job] \in Row
          /\ job'[exec[e].job].attempts >= job[exec[e].job].attempts
      BY <3>1 DEF QInv, TypeOK, Grows, GoodRow
    <3>3. Coherent(exec[e], job'[exec[e].job])
      BY <3>1, <3>2, StaysCoherent
    <3> QED BY <2>2, <3>1, <3>3 DEF Coherent
  <2> QED BY <2>1, <2>2
<1>3. OneActivePerTarget'
  BY DEF QInv, OneActivePerTarget, ActiveJobs, Grows
<1> QED BY <1>1, <1>2, <1>3 DEF QInv

\* A row nothing is written to grows in that sense, too.
LEMMA SameRow ==
  ASSUME QInv, NEW j \in JobId
  PROVE  GoodRow(job[j]) /\ Grows(job[j], job[j])
BY DEF QInv, TypeOK, RowInv, GoodRow, Grows, Row

\* The creation of a job.
LEMMA Created ==
  ASSUME QInv, TypeOK', NEW t \in Target, ActiveJobs(t) = {}, NEW j \in FreeIds,
         job' = [job EXCEPT ![j] = NewJob(t)],
         \A e \in Executor : exec'[e] = exec[e] \/ Sound(exec[e])'
  PROVE  QInv'
<1>1. /\ j \in JobId /\ job[j].status = "none" /\ job[j] \in Row
      /\ job[j].attempts = 0 /\ job \in [JobId -> Row]
  BY DEF FreeIds, QInv, RowInv, Consistent, TypeOK
<1>2. job'[j] = NewJob(t) /\ \A i \in JobId \ {j} : job'[i] = job[i]
  BY <1>1
<1>3. GoodRow(NewJob(t)) /\ NewJob(t).target = t
  BY NewJobGood
<1>4. RowInv'
  BY <1>1, <1>2, <1>3 DEF QInv, RowInv, GoodRow
<1>5. SessionInv'
  <2> SUFFICES ASSUME NEW e \in Executor, exec'[e].pc # "idle"
               PROVE  exec'[e].job \in JobId /\ Coherent(exec[e], job[exec[e].job])'
    BY DEF SessionInv
  <2>1. CASE Sound(exec[e])'
    BY <2>1 DEF Sound
  <2>2. CASE exec'[e] = exec[e]
    <3>1. exec[e].job \in JobId /\ Coherent(exec[e], job[exec[e].job]) /\ exec[e] \in Exec
      BY <2>2 DEF QInv, SessionInv, TypeOK
    <3>2. /\ job[exec[e].job] \in Row /\ job'[exec[e].job] \in Row
          /\ job'[exec[e].job].attempts >= job[exec[e].job].attempts
      BY <1>1, <1>2, <1>3, <3>1 DEF QInv, TypeOK, GoodRow, Row
    <3>3. Coherent(exec[e], job'[exec[e].job])
      BY <3>1, <3>2, StaysCoherent
    <3> QED BY <2>2, <3>1, <3>3 DEF Coherent
  <2> QED BY <2>1, <2>2
<1>6. OneActivePerTarget'
  <2> SUFFICES ASSUME NEW u \in Target, NEW k \in JobId, NEW l \in JobId,
                      job'[k].status \in Active, job'[l].status \in Active,
                      job'[k].target = u, job'[l].target = u
               PROVE  k = l
    BY DEF OneActivePerTarget, ActiveJobs
  <2>1. CASE k = j \/ l = j
    BY <2>1, <1>2, <1>3 DEF ActiveJobs
  <2>2. CASE k # j /\ l # j
    BY <2>2, <1>2 DEF QInv, OneActivePerTarget, ActiveJobs
  <2> QED BY <2>1, <2>2
<1> QED BY <1>4, <1>5, <1>6 DEF QInv

----------------------------------------------------------------------------
(* The steps, in the groups of JobQueue.                                   *)

\* Creating a job: Enqueue.
LEMMA EnqueueStep ==
  ASSUME QInv, NEW t \in Target, Enqueue(t)
  PROVE  QInv'
<1>1. PICK j \in FreeIds : job' = [job EXCEPT ![j] = NewJob(t)]
  BY DEF Enqueue
<1>2. /\ ActiveJobs(t) = {} /\ j \in JobId /\ NewJob(t) \in Row
      /\ exec' = exec /\ beat' = beat /\ crashes' = crashes
  BY NewJobGood DEF Enqueue, FreeIds, GoodRow
<1>3. TypeOK'
  BY <1>1, <1>2 DEF QInv, TypeOK
<1> QED BY <1>1, <1>2, <1>3, Created

\* Creating a job and running it inline, or running the active one.
LEMMA RunNowStep ==
  ASSUME QInv, NEW r \in Request, NEW t \in Target, RunNow(r, t)
  PROVE  QInv'
<1>0. /\ r \in Executor /\ beat' = beat /\ crashes' = crashes
      /\ exec \in [Executor -> Exec] /\ job \in [JobId -> Row]
  BY DEF RunNow, Executor, QInv, TypeOK
<1>1. CASE ActiveJobs(t) = {} /\ \E j \in FreeIds :
             /\ job' = [job EXCEPT ![j] = NewJob(t)]
             /\ exec' = [exec EXCEPT ![r] = Session("body", j, Unclaimed, 0)]
  <2>1. PICK j \in FreeIds :
             /\ job' = [job EXCEPT ![j] = NewJob(t)]
             /\ exec' = [exec EXCEPT ![r] = Session("body", j, Unclaimed, 0)]
    BY <1>1
  <2>2. /\ j \in JobId /\ NewJob(t) \in Row
        /\ Session("body", j, Unclaimed, 0) \in Exec
    BY NewJobGood DEF FreeIds, GoodRow, Session, Exec, Unclaimed
  <2>3. TypeOK'
    BY <1>0, <2>1, <2>2 DEF QInv, TypeOK
  <2>4. Coherent(Session("body", j, Unclaimed, 0), NewJob(t))
    BY DEF Coherent, Session, NewJob, Unclaimed
  <2>5. /\ exec'[r] = Session("body", j, Unclaimed, 0) /\ job'[j] = NewJob(t)
        /\ exec'[r].job = j
    BY <1>0, <2>1, <2>2 DEF Session
  <2>6. Sound(exec[r])'
    BY <2>2, <2>4, <2>5 DEF Sound, Coherent
  <2>7. \A e \in Executor : exec'[e] = exec[e] \/ Sound(exec[e])'
    BY <1>0, <2>1, <2>6
  <2> QED BY <1>1, <2>1, <2>3, <2>7, Created
<1>2. CASE job' = job /\ \E j \in ActiveJobs(t) : exec' = [exec EXCEPT ![r] = Loaded("body", j)]
  <2>1. PICK j \in ActiveJobs(t) : exec' = [exec EXCEPT ![r] = Loaded("body", j)]
    BY <1>2
  <2>2. /\ j \in JobId /\ Loaded("body", j) \in Exec /\ Loaded("body", j).job = j
        /\ Coherent(Loaded("body", j), job[j])
    BY LoadedGood DEF ActiveJobs, QInv
  <2>3. TypeOK'
    BY <1>0, <1>2, <2>1, <2>2 DEF QInv, TypeOK
  <2>4. Sound(exec[r])'
    BY <1>0, <1>2, <2>1, <2>2 DEF Sound, Coherent
  <2>5. \A e \in Executor : exec'[e] = exec[e] \/ Sound(exec[e])'
    BY <1>0, <2>1, <2>4
  <2> QED BY <1>2, <2>3, <2>5, SameRow, StepGood
<1> QED BY <1>1, <1>2 DEF RunNow

\* Looking for a job to claim, or for jobs to recover: the executor loads a
\* row, the table stays as it is.
LEMMA LoadStep ==
  ASSUME QInv, NEW w \in Worker, SelectJob(w) \/ Recover(w)
  PROVE  QInv'
<1>0. /\ w \in Executor /\ job' = job /\ beat' = beat /\ crashes' = crashes
      /\ exec \in [Executor -> Exec] /\ job \in [JobId -> Row]
  BY DEF SelectJob, Recover, Executor, QInv, TypeOK
<1>1. PICK x \in Exec, j \in JobId :
        exec' = [exec EXCEPT ![w] = x] /\ x.job = j /\ Coherent(x, job[j])
  <2>1. CASE SelectJob(w)
    <3>1. PICK j \in NextJob : exec' = [exec EXCEPT ![w] = Loaded("select", j)]
      BY <2>1 DEF SelectJob
    <3>2. /\ j \in JobId /\ Loaded("select", j) \in Exec /\ Loaded("select", j).job = j
          /\ Coherent(Loaded("select", j), job[j])
      BY LoadedGood DEF NextJob, QInv
    <3> QED BY <3>1, <3>2
  <2>2. CASE Recover(w)
    <3> DEFINE stalled == {j \in JobId : Stalled(job[j])}
               x(j) == Recovering(j, job[j].started, job[j].attempts, stalled \ {j})
    <3>1. PICK j \in stalled : exec' = [exec EXCEPT ![w] = x(j)]
      BY <2>2 DEF Recover
    <3>2. /\ job[j].started \in Nat /\ job[j].attempts \in Nat
          /\ job[j].started \in {Unclaimed, job[j].attempts}
      BY DEF QInv, TypeOK, Row, RowInv, Consistent
    <3>3. x(j) \in Exec
      BY <3>2 DEF Recovering, Exec
    <3>4. x(j).job = j /\ Coherent(x(j), job[j])
      BY <3>2 DEF Recovering, Coherent, Unclaimed
    <3> QED BY <3>1, <3>3, <3>4
  <2> QED BY <2>1, <2>2
<1>2. TypeOK'
  BY <1>0, <1>1 DEF QInv, TypeOK
<1>3. Sound(exec[w])'
  BY <1>0, <1>1 DEF Sound, Coherent
<1>4. \A e \in Executor : exec'[e] = exec[e] \/ Sound(exec[e])'
  BY <1>0, <1>1, <1>3
<1> QED BY <1>0, <1>2, <1>4, SameRow, StepGood

\* Claiming a job.
LEMMA ClaimStep ==
  ASSUME QInv, NEW w \in Worker, ClaimJob(w)
  PROVE  QInv'
<1> DEFINE j == exec[w].job
           row == Claimed(job[j])
           x == Session("body", j, row.started, row.attempts)
           b == [NoBeat EXCEPT !.claim = row.started, !.state = "due"]
<1>1. /\ w \in Executor /\ crashes' = crashes /\ exec[w].pc # "idle"
      /\ job[j].status = "pending"
      /\ job' = [job EXCEPT ![j] = row] /\ exec' = [exec EXCEPT ![w] = x]
      /\ beat' = [beat EXCEPT ![w] = b]
      /\ exec \in [Executor -> Exec] /\ job \in [JobId -> Row] /\ beat \in [Executor -> Beat]
  BY DEF ClaimJob, Executor, QInv, TypeOK
<1>2. j \in JobId
  BY <1>1 DEF QInv, SessionInv
<1>3. Grows(job[j], row)
  BY <1>1, <1>2, SameRow, ClaimedGood
<1>4. row \in Row /\ row.started = row.attempts
  <2>1. job[j] \in Row
    BY <1>1, <1>2
  <2> QED BY <1>3, <2>1 DEF Claimed, Row, Grows, GoodRow
<1>5. x \in Exec
  BY <1>2, <1>4 DEF Session, Exec, Row
<1>6. b \in Beat
  BY <1>4, IdleType DEF Beat, Row
<1>7. TypeOK'
  BY <1>1, <1>2, <1>4, <1>5, <1>6 DEF QInv, TypeOK
<1>8. x.job = j /\ Coherent(x, row)
  BY <1>4 DEF Session, Coherent, Row
<1>9. Sound(exec[w])'
  BY <1>1, <1>2, <1>8 DEF Sound, Coherent
<1>10. \A e \in Executor : exec'[e] = exec[e] \/ Sound(exec[e])'
  BY <1>1, <1>9
<1>11. \A i \in JobId : Grows(job[i], job'[i])
  BY <1>1, <1>2, <1>3, SameRow
<1> QED BY <1>7, <1>10, <1>11, StepGood

\* An executor becomes idle and the table stays as it is.
LEMMA GiveUpStep ==
  ASSUME QInv, NEW e \in Executor, MissJob(e) \/ Cancel(e) \/ Crash(e)
  PROVE  QInv'
<1>0. /\ exec \in [Executor -> Exec] /\ beat \in [Executor -> Beat]
      /\ crashes \in 0 .. MaxCrashes
  BY DEF QInv, TypeOK
<1>1. /\ job' = job /\ exec' = [exec EXCEPT ![e] = Idle]
      /\ beat' = beat \/ beat' = [beat EXCEPT ![e] = NoBeat]
      /\ crashes' = crashes \/ (crashes < MaxCrashes /\ crashes' = crashes + 1)
  BY DEF MissJob, Cancel, Crash
<1>2. crashes' \in 0 .. MaxCrashes
  BY <1>0, <1>1, QueueAssumption
<1>3. TypeOK'
  BY <1>0, <1>1, <1>2, IdleType DEF QInv, TypeOK
<1>4. Idle.pc = "idle"
  BY DEF Idle, Session
<1>5. \A f \in Executor : exec'[f] = exec[f] \/ Sound(exec[f])'
  BY <1>0, <1>1, <1>4 DEF Sound
<1> QED BY <1>1, <1>3, <1>5, SameRow, StepGood

\* The heartbeat thread.
LEMMA HeartbeatStep ==
  ASSUME QInv, NEW w \in Worker, Heartbeat(w)
  PROVE  QInv'
<1>1. /\ exec' = exec /\ crashes' = crashes /\ w \in Executor
      /\ job \in [JobId -> Row] /\ beat \in [Executor -> Beat]
      /\ (exec[w].job \in JobId \/ job' = job)
  BY DEF Heartbeat, BeatOk, BeatTaken, BeatDone, BeatFails, QInv, TypeOK, Executor, Exec, OwnClaim
<1>2. \A e \in Executor : exec'[e] = exec[e] \/ Sound(exec[e])'
  BY <1>1
<1>3. CASE BeatOk(w)
  <2> DEFINE j == exec[w].job
  <2>0. beat' = [beat EXCEPT ![w] = [beat[w] EXCEPT !.state = "sent", !.silent = 0]]
    BY <1>1, <1>3 DEF BeatOk
  <2>1. beat' \in [Executor -> Beat]
    <3>1. [beat[w] EXCEPT !.state = "sent", !.silent = 0] \in Beat
      BY <1>1 DEF Beat
    <3> QED BY <1>1, <2>0, <3>1
  <2>2. CASE j \in JobId
    <3>1. job' = [job EXCEPT ![j] = Refreshed(job[j])]
      BY <1>3 DEF BeatOk
    <3>2. Grows(job[j], Refreshed(job[j])) /\ Refreshed(job[j]) \in Row
      BY <2>2, SameRow, RefreshedGood DEF Grows, GoodRow
    <3>3. TypeOK'
      BY <1>1, <2>1, <2>2, <3>1, <3>2 DEF QInv, TypeOK
    <3>4. \A i \in JobId : Grows(job[i], job'[i])
      BY <1>1, <2>2, <3>1, <3>2, SameRow
    <3> QED BY <1>2, <3>3, <3>4, StepGood
  <2>3. CASE job' = job
    <3>1. TypeOK'
      BY <1>1, <2>1, <2>3 DEF QInv, TypeOK
    <3> QED BY <1>2, <2>3, <3>1, SameRow, StepGood
  <2> QED BY <1>1, <2>2, <2>3
<1>4. CASE BeatTaken(w) \/ BeatDone(w) \/ BeatFails(w)
  <2>0. PICK s \in {"off", "sent", "lost"} : beat' = [beat EXCEPT ![w].state = s]
    BY <1>4 DEF BeatTaken, BeatDone, BeatFails
  <2>1. job' = job /\ beat' \in [Executor -> Beat]
    BY <1>1, <1>4, <2>0 DEF BeatTaken, BeatDone, BeatFails, Beat
  <2>2. TypeOK'
    BY <1>1, <2>1 DEF QInv, TypeOK
  <2> QED BY <1>2, <2>1, <2>2, SameRow, StepGood
<1> QED BY <1>3, <1>4 DEF Heartbeat

\* The body of a job ends, times out, or the session reloads the job.
LEMMA BodyStep ==
  ASSUME QInv, NEW e \in Executor, EndBody(e) \/ TimeOut(e) \/ Reload(e)
  PROVE  QInv'
<1> DEFINE j == exec[e].job
<1>1. /\ job' = job /\ beat' = beat /\ crashes' = crashes
      /\ exec[e].pc # "idle" /\ exec \in [Executor -> Exec] /\ exec[e] \in Exec
  BY DEF EndBody, TimeOut, Reload, QInv, TypeOK
<1>2. /\ j \in JobId /\ Coherent(exec[e], job[j])
      /\ job[j].started \in Nat /\ job[j].attempts \in Nat
      /\ job[j].started \in {Unclaimed, job[j].attempts}
  BY <1>1 DEF QInv, SessionInv, TypeOK, RowInv, Consistent, Row
<1>3. PICK x \in Exec : exec' = [exec EXCEPT ![e] = x] /\ x.job = j /\ Coherent(x, job[j])
  <2>1. CASE EndBody(e)
    <3>1. PICK outcome \in {"complete", "fail"}, view \in {exec[e].view, Expired} :
            exec' = [exec EXCEPT ![e].pc = "outcome", ![e].outcome = outcome, ![e].view = view]
      BY <2>1 DEF EndBody
    <3> DEFINE x == [exec[e] EXCEPT !.pc = "outcome", !.outcome = outcome, !.view = view]
    <3>2. exec' = [exec EXCEPT ![e] = x]
      BY <3>1, <1>1
    <3>3. x \in Exec /\ x.job = j /\ x.pc = "outcome" /\ x.view = view /\ x.seen = exec[e].seen
      BY <1>1 DEF Exec
    <3>4. Coherent(x, job[j])
      BY <1>2, <3>3 DEF Coherent
    <3> QED BY <3>2, <3>3, <3>4
  <2>2. CASE TimeOut(e)
    <3> DEFINE x == [exec[e] EXCEPT !.pc = "outcome", !.outcome = "fail", !.view = Expired]
    <3>1. exec' = [exec EXCEPT ![e] = x]
      BY <2>2, <1>1 DEF TimeOut
    <3>2. x \in Exec /\ x.job = j /\ x.pc = "outcome" /\ x.view = Expired
      BY <1>1 DEF Exec
    <3>3. Coherent(x, job[j])
      BY <3>2 DEF Coherent
    <3> QED BY <3>1, <3>2, <3>3
  <2>3. CASE Reload(e)
    <3> DEFINE x == [exec[e] EXCEPT !.pc = "update",
                       !.view = IF exec[e].view = Expired THEN job[j].started ELSE exec[e].view,
                       !.seen = IF exec[e].view = Expired THEN job[j].attempts ELSE exec[e].seen]
    <3>1. exec' = [exec EXCEPT ![e] = x]
      BY <2>3, <1>1 DEF Reload
    <3>2. x \in Exec /\ x.job = j /\ x.pc = "update"
      BY <1>1, <1>2 DEF Exec
    <3>3. /\ x.view = IF exec[e].view = Expired THEN job[j].started ELSE exec[e].view
          /\ x.seen = IF exec[e].view = Expired THEN job[j].attempts ELSE exec[e].seen
      BY <1>1 DEF Exec
    <3>4. Coherent(x, job[j])
      BY <1>2, <3>3 DEF Coherent, Expired
    <3> QED BY <3>1, <3>2, <3>4
  <2> QED BY <2>1, <2>2, <2>3
<1>4. TypeOK'
  BY <1>1, <1>3 DEF QInv, TypeOK
<1>5. Sound(exec[e])'
  BY <1>1, <1>2, <1>3 DEF Sound, Coherent
<1>6. \A f \in Executor : exec'[f] = exec[f] \/ Sound(exec[f])'
  BY <1>1, <1>3, <1>5
<1> QED BY <1>1, <1>4, <1>6, SameRow, StepGood

\* What is written to a row that still carries the token makes it grow.
LEMMA WrittenGood ==
  ASSUME QInv, NEW e \in Executor, exec[e].pc = "update",
         StillOurs(job[exec[e].job], exec[e].view)
  PROVE  Grows(job[exec[e].job], Written(job[exec[e].job], exec[e]))
<1> DEFINE row == job[exec[e].job]
           x == exec[e]
<1>1. x \in Exec /\ x.job \in JobId /\ Coherent(x, row) /\ x.view # Expired
  BY DEF QInv, SessionInv, TypeOK, Coherent
<1>2. GoodRow(row) /\ row.status \in Active /\ row.started \in {x.view, Unclaimed}
  BY <1>1, SameRow DEF StillOurs
<1>3. x.seen \in Nat /\ x.seen <= row.attempts
  BY <1>1 DEF Coherent, Exec
<1>4. row.status = "running" => x.seen = row.attempts
  BY <1>1, <1>2 DEF Coherent, GoodRow, Consistent
<1>5. Grows(row, Completed(row)) /\ Grows(row, Failed(row, x.seen))
  BY <1>2, <1>3, <1>4, CompletedGood, FailedGood
<1> QED BY <1>5 DEF Written

\* The next executor state of a recovery pass is well formed.
LEMMA ContinueGood ==
  ASSUME QInv, NEW e \in Executor, Continue(e)
  PROVE  \E x \in Exec :
           /\ exec' = [exec EXCEPT ![e] = x]
           /\ x.pc # "idle" => x.job \in JobId /\ x.view = Expired /\ x.pc = "outcome"
<1>1. exec[e].todo \subseteq JobId
  BY DEF QInv, TypeOK, Exec
<1>2. CASE exec[e].todo = {}
  BY <1>2, IdleType DEF Continue, Idle, Session
<1>3. CASE exec[e].todo # {}
  <2>1. PICK j \in exec[e].todo :
          exec' = [exec EXCEPT ![e] = Recovering(j, Expired, 0, exec[e].todo \ {j})]
    BY <1>3 DEF Continue
  <2>2. Recovering(j, Expired, 0, exec[e].todo \ {j}) \in Exec
    BY <1>1 DEF Recovering, Exec
  <2> QED BY <1>1, <2>1, <2>2 DEF Recovering
<1> QED BY <1>2, <1>3

\* The outcome is recorded.
LEMMA UpdateStep ==
  ASSUME QInv, NEW e \in Executor, Update(e)
  PROVE  QInv'
<1> DEFINE j == exec[e].job
           new == Written(job[j], exec[e])
<1>1. /\ exec[e].pc = "update" /\ Continue(e) /\ crashes' = crashes
      /\ beat' = [beat EXCEPT ![e] = NoBeat]
      /\ job' = IF StillOurs(job[j], exec[e].view) THEN [job EXCEPT ![j] = new] ELSE job
      /\ exec \in [Executor -> Exec] /\ beat \in [Executor -> Beat] /\ job \in [JobId -> Row]
  BY DEF Update, QInv, TypeOK
<1>2. j \in JobId
  BY <1>1 DEF QInv, SessionInv
<1>3. PICK x \in Exec :
        /\ exec' = [exec EXCEPT ![e] = x]
        /\ x.pc # "idle" => x.job \in JobId /\ x.view = Expired /\ x.pc = "outcome"
  BY <1>1, ContinueGood
<1>4. StillOurs(job[j], exec[e].view) => Grows(job[j], new) /\ new \in Row
  BY <1>1, WrittenGood DEF Grows, GoodRow
<1>5. TypeOK'
  BY <1>1, <1>2, <1>3, <1>4, IdleType DEF QInv, TypeOK
<1>6. \A i \in JobId : Grows(job[i], job'[i])
  BY <1>1, <1>2, <1>4, SameRow
<1>7. Sound(exec[e])'
  BY <1>1, <1>3 DEF Sound, Coherent
<1>8. \A f \in Executor : exec'[f] = exec[f] \/ Sound(exec[f])'
  BY <1>1, <1>3, <1>7
<1> QED BY <1>5, <1>6, <1>8, StepGood

\* Time passes.
LEMMA TickStep ==
  ASSUME QInv, Tick
  PROVE  QInv'
<1>1. /\ job' = [j \in JobId |-> Aged(job[j])] /\ exec' = exec /\ crashes' = crashes
      /\ beat' = [e \in Executor |->
           IF beat[e].state \in {"off", "lost"} THEN beat[e]
           ELSE [beat[e] EXCEPT !.state = "due",
                   !.silent = IF beat[e].silent <= GiveUpAfter THEN beat[e].silent + 1 ELSE beat[e].silent]]
  BY DEF Tick
<1>2. \A i \in JobId : Grows(job[i], job'[i])
  BY <1>1, SameRow, AgedGood
<1>3. job' \in [JobId -> Row]
  BY <1>1, <1>2 DEF Grows, GoodRow
<1>4. beat' \in [Executor -> Beat]
  <2>1. \A e \in Executor : beat[e] \in Beat
    BY DEF QInv, TypeOK
  <2>2. \A e \in Executor : beat'[e] \in Beat
    <3> TAKE e \in Executor
    <3> DEFINE silent == IF beat[e].silent <= GiveUpAfter THEN beat[e].silent + 1 ELSE beat[e].silent
    <3>1. beat[e] \in Beat /\ silent \in Nat
      BY <2>1 DEF Beat
    <3>2. [beat[e] EXCEPT !.state = "due", !.silent = silent] \in Beat
      <4> HIDE DEF silent
      <4> QED BY <3>1 DEF Beat
    <3> QED BY <1>1, <3>1, <3>2
  <2> QED BY <1>1, <2>1, <2>2
<1>5. TypeOK'
  BY <1>1, <1>3, <1>4 DEF QInv, TypeOK
<1> QED BY <1>1, <1>2, <1>5, StepGood

----------------------------------------------------------------------------
(* The theorems.                                                           *)

\* The invariant holds initially.
LEMMA QInvInit ==
  ASSUME Init
  PROVE  QInv
<1>1. NoJob \in Row /\ Consistent(NoJob) /\ Budgeted(NoJob)
  BY JobAssumption DEF NoJob, Row, Status, Consistent, Budgeted, Unclaimed
<1>2. TypeOK
  BY <1>1, IdleType, QueueAssumption DEF Init, TypeOK
<1>3. RowInv
  BY <1>1 DEF Init, RowInv
<1>4. SessionInv
  BY DEF Init, SessionInv, Idle, Session
<1>5. OneActivePerTarget
  BY DEF Init, OneActivePerTarget, ActiveJobs, NoJob, Active
<1> QED BY <1>2, <1>3, <1>4, <1>5 DEF QInv

\* Every step preserves it.
LEMMA QInvNext ==
  ASSUME QInv, [Next]_vars
  PROVE  QInv'
<1>1. ASSUME NEW t \in Target, Enqueue(t) PROVE QInv'
  BY <1>1, EnqueueStep
<1>2. ASSUME NEW w \in Worker, Step(w) PROVE QInv'
  BY <1>2, LoadStep, ClaimStep, GiveUpStep, BodyStep, UpdateStep DEF Step, Executor
<1>3. ASSUME NEW w \in Worker, Heartbeat(w) PROVE QInv'
  BY <1>3, HeartbeatStep
<1>4. ASSUME NEW r \in Request, Inline(r) PROVE QInv'
  BY <1>4, RunNowStep, BodyStep, UpdateStep DEF Inline, Executor
<1>5. ASSUME NEW e \in Executor, Crash(e) PROVE QInv'
  BY <1>5, GiveUpStep
<1>6. CASE Tick
  BY <1>6, TickStep
<1>7. CASE UNCHANGED vars
  BY <1>7 DEF vars, QInv, TypeOK, RowInv, SessionInv, Coherent, OneActivePerTarget, ActiveJobs
<1> QED BY <1>1, <1>2, <1>3, <1>4, <1>5, <1>6, <1>7 DEF Next

\* Whatever is late, rows and sessions are coherent.
THEOREM QueueInvariance == Spec => []QInv
<1>1. Init => QInv
  BY QInvInit
<1>2. QInv /\ [Next]_vars => QInv'
  BY QInvNext
<1> QED BY <1>1, <1>2, PTL DEF Spec

\* Every variable keeps its type.
THEOREM QueueTypeCorrect == Spec => []TypeOK
<1>1. QInv => TypeOK
  BY DEF QInv
<1> QED BY <1>1, QueueInvariance, PTL

\* No interleaving of claims, late outcomes, inline runs, failures and
\* recoveries spends more attempts than a job has, or gives it up early.
THEOREM BudgetKept == Spec => []RetryBudget
<1>1. QInv => RetryBudget
  BY DEF QInv, RowInv, Budgeted, RetryBudget
<1> QED BY <1>1, QueueInvariance, PTL

\* No target ever has two active jobs.
THEOREM ActiveUnique == Spec => []OneActivePerTarget
<1>1. QInv => OneActivePerTarget
  BY DEF QInv
<1> QED BY <1>1, QueueInvariance, PTL

----------------------------------------------------------------------------

(***************************************************************************)
(* What the heartbeats buy: with background workers only, bodies that can  *)
(* be cancelled, and threads and queries that are in time, no job runs     *)
(* twice at once, and neither recovery nor a late outcome touches a job    *)
(* another worker runs.                                                    *)
(***************************************************************************)

ASSUME PromptAssumption ==
  /\ Prompt = {"heartbeat", "queries"}
  /\ Request = {} /\ Sync = {}
  /\ JobLease >= 2 /\ Backoff >= 1

\* w holds a claim: it runs the body of a job or records its outcome.
Working(w) == exec[w].pc \in {"body", "outcome", "update"} /\ exec[w].outcome # "recover"

\* The claim is its own and cannot have been recovered yet.
Alive(row, b) ==
  /\ row.status = "running" /\ row.started = b.claim
  /\ \/ /\ b.state = "due" /\ row.age = b.silent /\ b.silent <= GiveUpAfter + 1
     \/ /\ b.state = "sent" /\ row.age = b.silent /\ b.silent <= GiveUpAfter
     \/ /\ b.state = "lost" /\ row.age <= JobLease

\* A recovery pass is at its outcomes; only who works has a heartbeat.
ControlInv ==
  \A w \in Worker :
    /\ exec[w].outcome = "recover" => exec[w].pc \in {"outcome", "update"}
    /\ exec[w].outcome = "recover" \/ exec[w].todo = {}
    /\ ~ Working(w) => beat[w].state = "off"

\* Whoever works still has the claim.
WorkInv == \A w \in Worker : Working(w) => Alive(job[exec[w].job], beat[w])

\* No job is in two hands.
HandsInv ==
  \A v, w \in Worker : Working(v) /\ Working(w) /\ exec[v].job = exec[w].job => v = w

\* The stalled jobs a recovery pass still has to fail, the one in hand
\* included
Doomed(w) ==
  IF exec[w].outcome = "recover" THEN exec[w].todo \union {exec[w].job} ELSE {}

\* Nobody runs them, and nobody can claim them again in this interval.
Dead(row) ==
  \/ Stalled(row)
  \/ row.status = "pending" /\ row.backoff > 0
  \/ row.status \in {"completed", "failed"}

RecoveryInv == \A w \in Worker : \A j \in Doomed(w) : Dead(job[j])

\* A job somebody has selected is not about to be recovered.
SelectInv ==
  \A w \in Worker : exec[w].pc = "select" =>
    /\ ~ Stalled(job[exec[w].job])
    /\ \A v \in Worker : exec[w].job \notin Doomed(v)

(***************************************************************************)
(* The inductive invariant of a queue whose threads are in time: whoever   *)
(* works on a job still owns its row, the row is no older than its last    *)
(* heartbeat, and no recovery pass holds a job that somebody runs or may   *)
(* claim (JobHeartbeat, stalled_jobs, recover_stalled_jobs together).      *)
(***************************************************************************)
PInv == QInv /\ ControlInv /\ WorkInv /\ HandsInv /\ RecoveryInv /\ SelectInv

----------------------------------------------------------------------------

\* The heartbeat gives up at least one interval before recovery begins.
LEMMA GiveUpFact == GiveUpAfter \in Nat /\ GiveUpAfter + 1 <= JobLease
BY JobAssumption, PromptAssumption DEF GiveUpAfter

\* There are no inline requests.
LEMMA OnlyWorkers == Executor = Worker
BY PromptAssumption DEF Executor

\* A living claim is neither stalled nor dead.
LEMMA AliveNotDead ==
  ASSUME NEW row \in Row, NEW b \in Beat, Alive(row, b)
  PROVE  ~ Stalled(row) /\ ~ Dead(row)
BY GiveUpFact, JobAssumption DEF Alive, Stalled, Dead, Row, Beat

\* A recorded outcome leaves the row dead: the backoff outlasts the interval.
LEMMA WrittenDead ==
  ASSUME NEW row \in Row, NEW x
  PROVE  Dead(Written(row, x)) /\ ~ Stalled(Written(row, x))
<1>1. Dead(Completed(row)) /\ ~ Stalled(Completed(row))
  BY DEF Completed, Dead, Stalled, Row
<1>2. Dead(Failed(row, x.seen)) /\ ~ Stalled(Failed(row, x.seen))
  <2>1. CASE x.seen < MaxAttempts
    BY <2>1, PromptAssumption, JobAssumption DEF Failed, Dead, Stalled, Row
  <2>2. CASE ~ (x.seen < MaxAttempts)
    BY <2>2 DEF Failed, Dead, Stalled, Row
  <2> QED BY <2>1, <2>2
<1> QED BY <1>1, <1>2 DEF Written

(***************************************************************************)
(* A step of one worker w on one row j preserves the invariant, when       *)
(* nobody else works on that row, what is doomed stays dead, and w itself  *)
(* ends up in a good state.                                                *)
(***************************************************************************)
LEMMA PromptFrame ==
  ASSUME PInv, QInv', NEW w \in Worker, NEW j,
         \A i \in JobId : i = j \/ job'[i] = job[i],
         \A v \in Worker : v = w \/ (exec'[v] = exec[v] /\ beat'[v] = beat[v]),
         job'[j] = job[j] \/ \A v \in Worker : v = w \/ ~ Working(v) \/ exec[v].job # j,
         Working(w)' => \A v \in Worker : v = w \/ ~ Working(v) \/ exec[v].job # exec'[w].job,
         job'[j] = job[j] \/ \A v \in Worker : j \in Doomed(v) => Dead(job'[j]),
         job'[j] = job[j] \/ ~ Stalled(job'[j]),
         \A i \in Doomed(w)' : Dead(job'[i]) /\ (i \in Doomed(w) \/ Stalled(job[i])),
         exec'[w].pc = "select" =>
           ~ Stalled(job'[exec'[w].job]) /\ \A v \in Worker : exec'[w].job \notin Doomed(v)',
         exec'[w].outcome = "recover" => exec'[w].pc \in {"outcome", "update"},
         exec'[w].outcome = "recover" \/ exec'[w].todo = {},
         Working(w)' => Alive(job'[exec'[w].job], beat'[w]),
         ~ Working(w)' => beat'[w].state = "off"
  PROVE  PInv'
<1>0. /\ \A v \in Worker : exec[v] \in Exec /\ exec'[v] \in Exec
      /\ \A v \in Worker : exec[v].pc # "idle" => exec[v].job \in JobId
      /\ \A v \in Worker : exec'[v].pc # "idle" => exec'[v].job \in JobId
  BY OnlyWorkers DEF PInv, QInv, TypeOK, SessionInv
<1>1. \A v \in Worker : v # w =>
        (Working(v)' <=> Working(v)) /\ Doomed(v)' = Doomed(v) /\ exec'[v] = exec[v]
  BY DEF Working, Doomed
<1>2. ControlInv'
  BY <1>1 DEF PInv, ControlInv
<1>3. WorkInv'
  <2> SUFFICES ASSUME NEW v \in Worker, v # w, Working(v)'
               PROVE  Alive(job'[exec'[v].job], beat'[v])
    BY DEF WorkInv
  <2>1. Working(v) /\ exec'[v] = exec[v] /\ beat'[v] = beat[v] /\ exec[v].job \in JobId
    BY <1>0, <1>1 DEF Working
  <2>2. job'[exec[v].job] = job[exec[v].job]
    BY <2>1
  <2> QED BY <2>1, <2>2 DEF PInv, WorkInv
<1>4. HandsInv'
  <2> SUFFICES ASSUME NEW u \in Worker, NEW v \in Worker, Working(u)', Working(v)',
                      exec'[u].job = exec'[v].job
               PROVE  u = v
    BY DEF HandsInv
  <2>1. CASE u # w /\ v # w
    BY <1>1, <2>1 DEF PInv, HandsInv
  <2>2. CASE u = w /\ v # w
    BY <1>1, <2>2
  <2>3. CASE v = w /\ u # w
    BY <1>1, <2>3
  <2> QED BY <2>1, <2>2, <2>3
<1>5. RecoveryInv'
  <2> SUFFICES ASSUME NEW v \in Worker, v # w, NEW i \in Doomed(v)
               PROVE  Dead(job'[i])
    BY <1>1 DEF RecoveryInv
  <2>1. i \in JobId /\ Dead(job[i])
    BY <1>0 DEF PInv, RecoveryInv, ControlInv, Doomed, Exec
  <2> QED BY <2>1
<1>6. SelectInv'
  <2> SUFFICES ASSUME NEW v \in Worker, v # w, exec[v].pc = "select"
               PROVE  /\ ~ Stalled(job'[exec[v].job])
                      /\ \A u \in Worker : exec[v].job \notin Doomed(u)'
    BY DEF SelectInv
  <2>1. /\ ~ Stalled(job[exec[v].job]) /\ exec[v].job \in JobId
        /\ \A u \in Worker : exec[v].job \notin Doomed(u)
    BY <1>0 DEF PInv, SelectInv
  <2>2. ~ Stalled(job'[exec[v].job])
    BY <2>1
  <2>3. \A u \in Worker : exec[v].job \notin Doomed(u)'
    BY <1>1, <2>1
  <2> QED BY <2>2, <2>3
<1> QED BY <1>2, <1>3, <1>4, <1>5, <1>6 DEF PInv

\* The same for a step that leaves the table as it is.
LEMMA PromptStay ==
  ASSUME PInv, QInv', NEW w \in Worker, job' = job,
         \A v \in Worker : v = w \/ (exec'[v] = exec[v] /\ beat'[v] = beat[v]),
         Working(w)' => Working(w) /\ exec'[w].job = exec[w].job,
         \A i \in Doomed(w)' : Dead(job[i]) /\ (i \in Doomed(w) \/ Stalled(job[i])),
         exec'[w].pc = "select" =>
           ~ Stalled(job[exec'[w].job]) /\ \A v \in Worker : exec'[w].job \notin Doomed(v)',
         exec'[w].outcome = "recover" => exec'[w].pc \in {"outcome", "update"},
         exec'[w].outcome = "recover" \/ exec'[w].todo = {},
         Working(w)' => Alive(job[exec'[w].job], beat'[w]),
         ~ Working(w)' => beat'[w].state = "off"
  PROVE  PInv'
<1>1. Working(w)' => \A v \in Worker : v = w \/ ~ Working(v) \/ exec[v].job # exec'[w].job
  BY DEF PInv, HandsInv
<1>2. \A i \in Doomed(w)' : Dead(job'[i]) /\ (i \in Doomed(w) \/ Stalled(job[i]))
  OBVIOUS
<1>3. exec'[w].pc = "select" =>
         ~ Stalled(job'[exec'[w].job]) /\ \A v \in Worker : exec'[w].job \notin Doomed(v)'
  OBVIOUS
<1>4. Working(w)' => Alive(job'[exec'[w].job], beat'[w])
  OBVIOUS
<1> DEFINE j == exec[w].job
<1>5. job'[j] = job[j] /\ \A i \in JobId : i = j \/ job'[i] = job[i]
  OBVIOUS
<1> QED BY <1>1, <1>2, <1>3, <1>4, <1>5, PromptFrame

----------------------------------------------------------------------------
(* The steps.                                                              *)

\* The records of the invariant, for the steps below
LEMMA PromptTypes ==
  ASSUME PInv
  PROVE  /\ exec \in [Worker -> Exec] /\ beat \in [Worker -> Beat] /\ job \in [JobId -> Row]
         /\ \A w \in Worker : exec[w].pc # "idle" => exec[w].job \in JobId
         /\ \A w \in Worker : beat[w].state # "off" => Working(w)
         /\ \A w \in Worker : exec[w].outcome = "recover" <=> Doomed(w) # {}
         /\ \A w \in Worker : Doomed(w) \subseteq JobId
BY OnlyWorkers DEF PInv, QInv, TypeOK, SessionInv, ControlInv, Doomed, Exec

\* A new job is in nobody's hands.
LEMMA PromptEnqueue ==
  ASSUME PInv, QInv', NEW t \in Target, Enqueue(t)
  PROVE  PInv'
<1>1. PICK j \in FreeIds : job' = [job EXCEPT ![j] = NewJob(t)]
  BY DEF Enqueue
<1>2. exec' = exec /\ beat' = beat /\ j \in JobId /\ job[j].status = "none"
  BY DEF Enqueue, FreeIds
<1>3. job'[j] = NewJob(t) /\ \A i \in JobId : i = j \/ job'[i] = job[i]
  BY <1>1, <1>2, PromptTypes
<1>4. \A w \in Worker : (Working(w)' <=> Working(w)) /\ Doomed(w)' = Doomed(w)
  BY <1>2 DEF Working, Doomed
<1>5. WorkInv'
  BY <1>2, <1>3, <1>4, PromptTypes DEF PInv, WorkInv, Working, Alive
<1>6. RecoveryInv'
  BY <1>2, <1>3, <1>4, PromptTypes DEF PInv, RecoveryInv, Dead, Stalled
<1>7. SelectInv'
  <2>1. ~ Stalled(NewJob(t))
    BY DEF Stalled, NewJob
  <2> QED BY <1>2, <1>3, <1>4, <2>1, PromptTypes DEF PInv, SelectInv
<1>8. ControlInv' /\ HandsInv'
  BY <1>2, <1>4 DEF PInv, ControlInv, HandsInv
<1> QED BY <1>5, <1>6, <1>7, <1>8 DEF PInv

\* What is selected is claimable: it is neither stalled nor doomed.
LEMMA PromptSelect ==
  ASSUME PInv, QInv', NEW w \in Worker, SelectJob(w)
  PROVE  PInv'
<1>1. PICK j \in NextJob : exec' = [exec EXCEPT ![w] = Loaded("select", j)]
  BY DEF SelectJob
<1>2. /\ job' = job /\ beat' = beat /\ exec[w].pc = "idle"
      /\ j \in JobId /\ job[j].status = "pending" /\ job[j].backoff = 0
  BY DEF SelectJob, NextJob, Claimable
<1>3. /\ exec'[w].pc = "select" /\ exec'[w].job = j /\ exec'[w].outcome = "fail"
      /\ exec'[w].todo = {}
      /\ \A v \in Worker : v = w \/ exec'[v] = exec[v]
  BY <1>1, PromptTypes DEF Loaded, Session
<1>4. ~ Working(w) /\ ~ Working(w)' /\ Doomed(w)' = {}
  BY <1>2, <1>3 DEF Working, Doomed
<1>5. ~ Stalled(job[j]) /\ ~ Dead(job[j])
  BY <1>2 DEF Stalled, Dead
<1>6. \A v \in Worker : j \notin Doomed(v)'
  BY <1>3, <1>4, <1>5 DEF PInv, RecoveryInv, Doomed
<1>7. beat'[w].state = "off"
  BY <1>2, <1>4, PromptTypes
<1> QED BY <1>2, <1>3, <1>4, <1>5, <1>6, <1>7, PromptStay

\* What is stalled is in nobody's hands and nobody has selected it.
LEMMA PromptRecover ==
  ASSUME PInv, QInv', NEW w \in Worker, Recover(w)
  PROVE  PInv'
<1> DEFINE stalled == {j \in JobId : Stalled(job[j])}
<1>1. PICK j \in stalled :
        exec' = [exec EXCEPT ![w] =
                   Recovering(j, job[j].started, job[j].attempts, stalled \ {j})]
  BY DEF Recover
<1>2. /\ job' = job /\ beat' = beat /\ exec[w].pc = "idle"
      /\ exec'[w].pc = "outcome" /\ exec'[w].outcome = "recover"
      /\ exec'[w].todo = stalled \ {j} /\ exec'[w].job = j
      /\ \A v \in Worker : v = w \/ exec'[v] = exec[v]
  BY <1>1, PromptTypes DEF Recover, Recovering
<1>3. ~ Working(w) /\ ~ Working(w)' /\ Doomed(w)' = stalled
  BY <1>2 DEF Working, Doomed
<1>4. beat'[w].state = "off"
  BY <1>2, <1>3, PromptTypes
<1>5. \A i \in Doomed(w)' : Dead(job[i]) /\ Stalled(job[i])
  BY <1>3 DEF Dead
<1> QED BY <1>2, <1>3, <1>4, <1>5, PromptStay

\* An executor that becomes idle lets go of everything.
LEMMA PromptGiveUp ==
  ASSUME PInv, QInv', NEW w \in Worker, MissJob(w) \/ Cancel(w) \/ Crash(w)
  PROVE  PInv'
<1>1. /\ job' = job /\ exec' = [exec EXCEPT ![w] = Idle]
      /\ (beat' = beat /\ exec[w].pc = "select") \/ beat' = [beat EXCEPT ![w] = NoBeat]
  BY DEF MissJob, Cancel, Crash
<1>2. /\ exec'[w].pc = "idle" /\ exec'[w].outcome = "fail" /\ exec'[w].todo = {}
      /\ \A v \in Worker : v = w \/ (exec'[v] = exec[v] /\ beat'[v] = beat[v])
  BY <1>1, PromptTypes DEF Idle, Session
<1>3. ~ Working(w)' /\ Doomed(w)' = {}
  BY <1>2 DEF Working, Doomed
<1>4. beat'[w].state = "off"
  BY <1>1, PromptTypes DEF Working, NoBeat
<1> QED BY <1>1, <1>2, <1>3, <1>4, PromptStay

\* Ending the body, timing out or reloading keeps the claim, or the list.
LEMMA PromptBody ==
  ASSUME PInv, QInv', NEW w \in Worker, EndBody(w) \/ TimeOut(w) \/ Reload(w)
  PROVE  PInv'
<1>1. /\ job' = job /\ beat' = beat /\ exec[w].pc \in {"body", "outcome"}
      /\ \A v \in Worker : v = w \/ exec'[v] = exec[v]
      /\ exec'[w].job = exec[w].job /\ exec'[w].todo = exec[w].todo
      /\ exec'[w].pc \in {"outcome", "update"}
      /\ exec'[w].outcome = exec[w].outcome
           \/ (exec[w].pc = "body" /\ exec'[w].outcome \in {"complete", "fail"})
  BY PromptTypes DEF EndBody, TimeOut, Reload, Exec
<1>2. (Working(w)' <=> Working(w)) /\ Doomed(w)' = Doomed(w)
  BY <1>1 DEF PInv, ControlInv, Working, Doomed
<1>3. \A i \in Doomed(w)' : Dead(job[i])
  BY <1>2 DEF PInv, RecoveryInv
<1>4. Working(w)' => Alive(job[exec'[w].job], beat'[w])
  BY <1>1, <1>2 DEF PInv, WorkInv
<1>5. /\ exec'[w].outcome = "recover" \/ exec'[w].todo = {}
      /\ ~ Working(w)' => beat'[w].state = "off"
  BY <1>1, <1>2 DEF PInv, ControlInv
<1> QED BY <1>1, <1>2, <1>3, <1>4, <1>5, PromptStay

\* A claimed job was pending, so nobody worked on it, and nobody was about
\* to recover it.
LEMMA PromptClaim ==
  ASSUME PInv, QInv', NEW w \in Worker, ClaimJob(w)
  PROVE  PInv'
<1> DEFINE j == exec[w].job
           row == Claimed(job[j])
<1>1. /\ exec[w].pc = "select" /\ job[j].status = "pending"
      /\ job' = [job EXCEPT ![j] = row]
      /\ exec' = [exec EXCEPT ![w] = Session("body", j, row.started, row.attempts)]
      /\ beat' = [beat EXCEPT ![w] = [NoBeat EXCEPT !.claim = row.started, !.state = "due"]]
  BY DEF ClaimJob
<1>2. j \in JobId /\ job[j] \in Row
  BY <1>1, PromptTypes
<1>3. /\ exec'[w].pc = "body" /\ exec'[w].job = j /\ exec'[w].outcome = "fail"
      /\ exec'[w].todo = {}
      /\ beat'[w].claim = row.started /\ beat'[w].state = "due" /\ beat'[w].silent = 0
      /\ \A v \in Worker : v = w \/ (exec'[v] = exec[v] /\ beat'[v] = beat[v])
  BY <1>1, PromptTypes DEF Session, NoBeat
<1>4. job'[j] = row /\ \A i \in JobId : i = j \/ job'[i] = job[i]
  BY <1>1, <1>2, PromptTypes
<1>5. row.status = "running" /\ row.age = 0 /\ ~ Stalled(row)
  BY <1>2, JobAssumption DEF Claimed, Row, Stalled
<1>6. \A v \in Worker : ~ Working(v) \/ exec[v].job # j
  BY <1>1 DEF PInv, WorkInv, Alive
<1>7. \A v \in Worker : j \notin Doomed(v)
  BY <1>1 DEF PInv, SelectInv
<1>8. Working(w)' /\ Doomed(w)' = {}
  BY <1>3 DEF Working, Doomed
<1>9. Alive(job'[exec'[w].job], beat'[w])
  BY <1>3, <1>4, <1>5, GiveUpFact DEF Alive
<1> QED BY <1>3, <1>4, <1>5, <1>6, <1>7, <1>8, <1>9, PromptFrame

\* A heartbeat that beats keeps its own claim alive; one that fails for too
\* long ends before the claim is stalled.
LEMMA PromptHeartbeat ==
  ASSUME PInv, QInv', NEW w \in Worker, Heartbeat(w)
  PROVE  PInv'
<1> DEFINE j == exec[w].job
<1>1. /\ beat[w].state = "due" /\ exec' = exec
      /\ \A v \in Worker : v = w \/ beat'[v] = beat[v]
  BY PromptTypes DEF Heartbeat, BeatOk, BeatTaken, BeatDone, BeatFails
<1>2. /\ Working(w) /\ Alive(job[j], beat[w]) /\ exec[w].pc # "idle"
      /\ exec[w].outcome # "recover" /\ exec[w].pc # "select" /\ exec[w].todo = {}
  BY <1>1, PromptTypes DEF PInv, WorkInv, Working, ControlInv
<1>3. /\ Working(w)' /\ Doomed(w)' = Doomed(w) /\ Doomed(w) = {}
      /\ \A v \in Worker : Doomed(v)' = Doomed(v)
  BY <1>1, <1>2 DEF Working, Doomed
<1>4. j \in JobId /\ job[j] \in Row /\ beat[w] \in Beat
  BY <1>2, PromptTypes
<1>5. CASE BeatOk(w)
  <2>1. /\ job' = [job EXCEPT ![j] = Refreshed(job[j])]
        /\ beat' = [beat EXCEPT ![w].state = "sent", ![w].silent = 0]
    BY <1>5 DEF BeatOk
  <2>2. /\ job'[j] = Refreshed(job[j]) /\ \A i \in JobId : i = j \/ job'[i] = job[i]
        /\ beat'[w].state = "sent" /\ beat'[w].silent = 0 /\ beat'[w].claim = beat[w].claim
    BY <2>1, <1>4, PromptTypes DEF Beat
  <2>3. /\ Refreshed(job[j]).status = job[j].status /\ Refreshed(job[j]).age = 0
        /\ Refreshed(job[j]).started = job[j].started
    BY <1>4 DEF Refreshed, Row
  <2>4. Alive(job'[j], beat'[w]) /\ ~ Stalled(job'[j])
    BY <1>2, <2>2, <2>3, GiveUpFact, JobAssumption DEF Alive, Stalled
  <2>5. \A v \in Worker : v = w \/ ~ Working(v) \/ exec[v].job # j
    BY <1>2 DEF PInv, HandsInv
  <2>6. \A v \in Worker : j \notin Doomed(v)
    BY <1>2, <1>4, AliveNotDead DEF PInv, RecoveryInv
  <2> QED BY <1>1, <1>2, <1>3, <2>2, <2>4, <2>5, <2>6, PromptFrame
<1>6. CASE BeatFails(w)
  <2>1. /\ job' = job
        /\ \/ beat' = [beat EXCEPT ![w].state = "lost"] /\ beat[w].silent > GiveUpAfter
           \/ beat' = [beat EXCEPT ![w].state = "sent"] /\ beat[w].silent <= GiveUpAfter
    BY <1>6 DEF BeatFails
  <2>2. /\ beat'[w].claim = beat[w].claim /\ beat'[w].silent = beat[w].silent
        /\ \/ beat'[w].state = "lost"
           \/ beat'[w].state = "sent" /\ beat[w].silent <= GiveUpAfter
    BY <1>4, <2>1, PromptTypes DEF Beat
  <2>3. Alive(job[exec'[w].job], beat'[w])
    BY <1>1, <1>2, <1>4, <2>2, GiveUpFact, JobAssumption DEF Alive, Row, Beat
  <2> QED BY <1>1, <1>2, <1>3, <2>1, <2>3, PromptStay
<1>7. ~ BeatTaken(w) /\ ~ BeatDone(w)
  BY <1>2 DEF BeatTaken, BeatDone, Alive
<1> QED BY <1>5, <1>6, <1>7 DEF Heartbeat

\* Recording an outcome ends the claim of w, or fails a job that is dead.
LEMMA PromptUpdate ==
  ASSUME PInv, QInv', NEW w \in Worker, Update(w)
  PROVE  PInv'
<1> DEFINE j == exec[w].job
           new == Written(job[j], exec[w])
<1>1. /\ exec[w].pc = "update" /\ Continue(w)
      /\ beat' = [beat EXCEPT ![w] = NoBeat]
      /\ job' = job \/ job' = [job EXCEPT ![j] = new]
  BY DEF Update
<1>2. j \in JobId /\ job[j] \in Row
  BY <1>1, PromptTypes
<1>3. /\ \A i \in JobId : i = j \/ job'[i] = job[i]
      /\ job'[j] = job[j] \/ job'[j] = new
  BY <1>1, <1>2, PromptTypes
<1>4. Dead(new) /\ ~ Stalled(new)
  BY <1>2, WrittenDead
<1>5. /\ beat'[w].state = "off"
      /\ \A v \in Worker : v = w \/ (exec'[v] = exec[v] /\ beat'[v] = beat[v])
  BY <1>1, PromptTypes DEF Continue, NoBeat
<1>6. /\ ~ Working(w)' /\ exec'[w].pc # "select"
      /\ exec'[w].outcome = "recover" => exec'[w].pc \in {"outcome", "update"}
      /\ exec'[w].outcome = "recover" \/ exec'[w].todo = {}
      /\ Doomed(w)' \subseteq Doomed(w)
  <2>1. CASE exec[w].todo = {}
    <3>1. exec'[w] = Idle
      BY <1>1, <2>1, PromptTypes DEF Continue
    <3> QED BY <3>1 DEF Idle, Session, Working, Doomed
  <2>2. CASE exec[w].todo # {}
    <3>1. PICK k \in exec[w].todo : exec'[w] = Recovering(k, Expired, 0, exec[w].todo \ {k})
      BY <1>1, <2>2, PromptTypes DEF Continue
    <3>2. Doomed(w)' = exec[w].todo /\ Doomed(w) = exec[w].todo \union {j}
      BY <2>2, <3>1 DEF Recovering, Doomed, PInv, ControlInv
    <3> QED BY <3>1, <3>2 DEF Recovering, Working
  <2> QED BY <2>1, <2>2
<1>7. \A i \in Doomed(w)' : Dead(job'[i]) /\ i \in Doomed(w)
  BY <1>3, <1>4, <1>6, PromptTypes DEF PInv, RecoveryInv
<1>8. \A v \in Worker : v = w \/ ~ Working(v) \/ exec[v].job # j
  <2>1. CASE Working(w)
    BY <2>1 DEF PInv, HandsInv
  <2>2. CASE ~ Working(w)
    <3>1. j \in Doomed(w)
      BY <1>1, <2>2 DEF Working, Doomed
    <3>2. Dead(job[j])
      BY <3>1 DEF PInv, RecoveryInv
    <3>3. \A v \in Worker : Working(v) /\ exec[v].job = j => Alive(job[j], beat[v]) /\ beat[v] \in Beat
      BY PromptTypes DEF PInv, WorkInv
    <3> QED BY <1>2, <3>2, <3>3, AliveNotDead
  <2> QED BY <2>1, <2>2
<1> QED BY <1>3, <1>4, <1>5, <1>6, <1>7, <1>8, PromptFrame

\* Time passes only when no query is under way, no claim is lost and every
\* heartbeat thread has run; so every claim survives the interval.
LEMMA PromptTick ==
  ASSUME PInv, QInv', Tick
  PROVE  PInv'
<1>1. /\ job' = [j \in JobId |-> Aged(job[j])] /\ exec' = exec
      /\ beat' = [e \in Executor |->
           IF beat[e].state \in {"off", "lost"} THEN beat[e]
           ELSE [beat[e] EXCEPT !.state = "due",
                   !.silent = IF beat[e].silent <= GiveUpAfter THEN beat[e].silent + 1 ELSE beat[e].silent]]
      /\ \A w \in Worker : HeartbeatInTime(w) /\ QueriesInTime(w)
  BY PromptAssumption DEF Tick
<1>2. \A w \in Worker : /\ exec[w].pc # "select" /\ exec[w].outcome # "recover"
                        /\ beat[w].state # "due" /\ beat[w].state # "lost"
  BY <1>1, PromptAssumption DEF HeartbeatInTime, QueriesInTime, Lost, Awaits
<1>3. \A w \in Worker : (Working(w)' <=> Working(w)) /\ Doomed(w)' = Doomed(w) /\ Doomed(w) = {}
  BY <1>1, <1>2 DEF Working, Doomed
<1>4. ASSUME NEW w \in Worker, Working(w)
      PROVE  Alive(job'[exec[w].job], beat'[w])
  <2> DEFINE j == exec[w].job
  <2>1. j \in JobId /\ job[j] \in Row /\ beat[w] \in Beat /\ Alive(job[j], beat[w])
    BY <1>4, PromptTypes DEF PInv, WorkInv, Working
  <2>2. /\ beat[w].state = "sent" /\ job[j].status = "running"
        /\ job[j].age = beat[w].silent /\ beat[w].silent <= GiveUpAfter /\ beat[w].silent \in Nat
    BY <1>2, <2>1 DEF Alive, Beat
  <2>3. beat'[w] = [beat[w] EXCEPT !.state = "due", !.silent = beat[w].silent + 1]
    BY <1>1, <2>2, OnlyWorkers
  <2>4. beat'[w].state = "due" /\ beat'[w].silent = beat[w].silent + 1 /\ beat'[w].claim = beat[w].claim
    BY <2>1, <2>3 DEF Beat
  <2>5. job'[j] = Aged(job[j])
    BY <1>1, <2>1
  <2>6. /\ Aged(job[j]).status = "running" /\ Aged(job[j]).started = job[j].started
        /\ Aged(job[j]).age = IF job[j].status = "running" /\ job[j].age <= JobLease
                             THEN job[j].age + 1 ELSE job[j].age
    BY <2>1, <2>2 DEF Aged, Row
  <2>7. job[j].age <= JobLease
    BY <2>2, GiveUpFact, JobAssumption
  <2> QED BY <2>1, <2>2, <2>4, <2>5, <2>6, <2>7, GiveUpFact DEF Alive
<1>5. WorkInv'
  BY <1>1, <1>3, <1>4 DEF WorkInv
<1>6. ControlInv'
  <2>1. \A w \in Worker : beat[w].state = "off" => beat'[w] = beat[w]
    BY <1>1, OnlyWorkers
  <2> QED BY <1>1, <1>3, <2>1 DEF PInv, ControlInv
<1>7. HandsInv' /\ RecoveryInv' /\ SelectInv'
  BY <1>1, <1>2, <1>3 DEF PInv, HandsInv, RecoveryInv, SelectInv
<1> QED BY <1>5, <1>6, <1>7 DEF PInv

----------------------------------------------------------------------------
(* The theorems.                                                           *)

\* The invariant holds initially.
LEMMA PInvInit ==
  ASSUME Init
  PROVE  PInv
<1>1. QInv
  BY QInvInit
<1>2. \A w \in Worker : exec[w] = Idle /\ beat[w] = NoBeat
  BY OnlyWorkers DEF Init
<1>3. \A w \in Worker : ~ Working(w) /\ Doomed(w) = {}
  BY <1>2 DEF Working, Doomed, Idle, Session
<1>4. ControlInv
  BY <1>2 DEF ControlInv, Idle, Session, NoBeat
<1>5. WorkInv /\ HandsInv /\ RecoveryInv /\ SelectInv
  BY <1>2, <1>3 DEF WorkInv, HandsInv, RecoveryInv, SelectInv, Idle, Session
<1> QED BY <1>1, <1>4, <1>5 DEF PInv

\* Every step preserves it.
LEMMA PInvNext ==
  ASSUME PInv, [Next]_vars
  PROVE  PInv'
<1>0. QInv'
  BY QInvNext DEF PInv
<1>1. ASSUME NEW t \in Target, Enqueue(t) PROVE PInv'
  BY <1>0, <1>1, PromptEnqueue
<1>2. ASSUME NEW w \in Worker, Step(w) PROVE PInv'
  BY <1>0, <1>2, PromptSelect, PromptClaim, PromptRecover, PromptGiveUp, PromptBody, PromptUpdate
  DEF Step
<1>3. ASSUME NEW w \in Worker, Heartbeat(w) PROVE PInv'
  BY <1>0, <1>3, PromptHeartbeat
<1>4. ASSUME NEW r \in Request, Inline(r) PROVE PInv'
  BY <1>4, PromptAssumption
<1>5. ASSUME NEW e \in Executor, Crash(e) PROVE PInv'
  BY <1>0, <1>5, OnlyWorkers, PromptGiveUp
<1>6. CASE Tick
  BY <1>0, <1>6, PromptTick
<1>7. CASE UNCHANGED vars
  BY <1>0, <1>7 DEF vars, PInv, ControlInv, WorkInv, HandsInv, RecoveryInv, SelectInv, Working, Doomed
<1> QED BY <1>1, <1>2, <1>3, <1>4, <1>5, <1>6, <1>7 DEF Next

\* The strengthening of the safety properties below is invariant.
THEOREM PromptInvariance == Spec => []PInv
<1>1. Init => PInv
  BY PInvInit
<1>2. PInv /\ [Next]_vars => PInv'
  BY PInvNext
<1> QED BY <1>1, <1>2, PTL DEF Spec

\* Under heartbeats in time no job ever runs in two workers at once.
THEOREM SingleRun == Spec => []NoDoubleRun
<1>1. ASSUME PInv PROVE NoDoubleRun
  <2> SUFFICES ASSUME NEW v \in Worker, NEW w \in Worker, NEW j \in JobId,
                      Executing(v, j), Executing(w, j)
               PROVE  v = w
    BY OnlyWorkers DEF NoDoubleRun
  <2>1. Working(v) /\ Working(w) /\ exec[v].job = exec[w].job
    BY <1>1 DEF Executing, Working, PInv, ControlInv
  <2> QED BY <1>1, <2>1 DEF PInv, HandsInv
<1> QED BY <1>1, PromptInvariance, PTL

\* Nor do two jobs of one target.
THEOREM SingleRunPerTarget == Spec => []TargetExclusive
<1>1. ASSUME PInv PROVE TargetExclusive
  <2> SUFFICES ASSUME NEW v \in Worker, NEW w \in Worker, exec[v].pc = "body", exec[w].pc = "body",
                      job[exec[v].job].target = job[exec[w].job].target
               PROVE  v = w
    BY OnlyWorkers DEF TargetExclusive
  <2>1. Working(v) /\ Working(w) /\ exec[v].job \in JobId /\ exec[w].job \in JobId
    BY <1>1, PromptTypes DEF Working, PInv, ControlInv
  <2>2. job[exec[v].job].status = "running" /\ job[exec[w].job].status = "running"
    BY <1>1, <2>1 DEF PInv, WorkInv, Alive
  <2>3. job[exec[v].job].target \in Target
    BY <1>1, <2>1, <2>2 DEF PInv, QInv, TypeOK, RowInv, Consistent, Row
  <2>4. exec[v].job = exec[w].job
    BY <1>1, <2>1, <2>2, <2>3 DEF PInv, QInv, OneActivePerTarget, ActiveJobs, Active
  <2> QED BY <1>1, <2>1, <2>4 DEF PInv, HandsInv
<1> QED BY <1>1, PromptInvariance, PTL

\* A worker only ever records the outcome of its own claim.
THEOREM Fencing == Spec => FencedOutcome
<1>1. ASSUME PInv, NEW w \in Worker, Update(w), exec[w].outcome # "recover"
      PROVE  job[exec[w].job].started \in {beat[w].claim, Unclaimed}
  BY <1>1 DEF PInv, WorkInv, Working, Alive, Update
<1>2. PInv /\ [Next]_vars =>
        [\A w \in Worker :
           Update(w) /\ exec[w].outcome # "recover" /\ job' # job =>
             job[exec[w].job].started \in {beat[w].claim, Unclaimed}]_vars
  BY <1>1
<1> QED BY <1>2, PromptInvariance, PTL DEF Spec, FencedOutcome

\* Recovery never fails a job whose worker is still at it.
THEOREM LiveKept == Spec => LiveNeverRecovered
<1>1. ASSUME PInv, NEW w \in Worker, NEW v \in Worker,
             Update(w), exec[w].outcome = "recover", exec[v].pc = "body"
      PROVE  exec[v].job # exec[w].job
  <2>1. Working(v) /\ exec[w].job \in Doomed(w)
    BY <1>1 DEF PInv, ControlInv, Working, Doomed
  <2>2. Dead(job[exec[w].job]) /\ Alive(job[exec[v].job], beat[v])
    BY <1>1, <2>1 DEF PInv, RecoveryInv, WorkInv
  <2>3. job[exec[v].job] \in Row /\ beat[v] \in Beat
    BY <1>1, PromptTypes
  <2> QED BY <2>2, <2>3, AliveNotDead
<1>2. PInv /\ [Next]_vars =>
        [\A w, v \in Worker :
           Update(w) /\ exec[w].outcome = "recover" /\ job' # job /\ v # w /\ exec[v].pc = "body" =>
             exec[v].job # exec[w].job \/ beat[v].state \in {"off", "lost"}]_vars
  BY <1>1
<1> QED BY <1>2, PromptInvariance, PTL DEF Spec, LiveNeverRecovered

=============================================================================
