------------------------------ MODULE JobTable ------------------------------
(***************************************************************************)
(* One row of scheduled_jobs (db/models.py, ScheduledJob) and the          *)
(* statements of monitoring/scheduler.py on it.  Each operator is one      *)
(* conditional UPDATE: the filter as a predicate, the SET clause as a      *)
(* function from row to row.                                               *)
(*                                                                         *)
(* started_at is the token of a claim.  Every claim increments attempts    *)
(* and stamps a new started_at, so the number of the attempt stands for    *)
(* the time stamp; Unclaimed stands for NULL.  heartbeat_at and run_after  *)
(* are kept as the time that has passed since, or remains until, them.     *)
(***************************************************************************)
EXTENDS Integers

CONSTANTS
  Target,       \* what jobs are about: a monitor, a connection, a crawl ...
  NoTarget,     \* the target of a row that is not created yet
  MaxAttempts,  \* monitor_job_max_attempts
  JobLease,     \* job_lease_seconds, in heartbeat intervals
  Backoff       \* monitor_job_retry_backoff_seconds, in heartbeat intervals

ASSUME JobAssumption ==
  /\ NoTarget \notin Target
  /\ MaxAttempts \in Nat \ {0}
  /\ JobLease \in Nat \ {0}
  /\ Backoff \in Nat

Unclaimed == 0

Status == {"none", "pending", "running", "completed", "failed"}
Active == {"pending", "running"}

Row == [target : Target \union {NoTarget}, status : Status,
        attempts : Nat, started : Nat, age : Nat, backoff : Nat]

NoJob == [target |-> NoTarget, status |-> "none", attempts |-> 0,
          started |-> Unclaimed, age |-> 0, backoff |-> 0]

\* _new_job and its siblings
NewJob(t) == [target |-> t, status |-> "pending", attempts |-> 0,
              started |-> Unclaimed, age |-> 0, backoff |-> 0]

\* claim_job: what the SELECT looks for, and what the UPDATE sets
Claimable(row) == row.status = "pending" /\ row.backoff = 0
Claimed(row) ==
  [row EXCEPT !.status = "running", !.started = row.attempts + 1,
              !.attempts = row.attempts + 1, !.age = 0]

\* Wrong: the outcome of a job that has ended is recorded again.
StillOursEnded(row, view) == row.started \in {view, Unclaimed}

\* _still_ours, for a caller that sees the token `view`
StillOurs(row, view) == row.status \in Active /\ row.started \in {view, Unclaimed}

\* complete_job
Completed(row) == [row EXCEPT !.status = "completed"]

\* Wrong: one attempt too many.
FailedOnceMore(row, seen) ==
  IF seen <= MaxAttempts
  THEN [row EXCEPT !.status = "pending", !.started = Unclaimed, !.age = 0, !.backoff = Backoff]
  ELSE [row EXCEPT !.status = "failed"]

\* Wrong: the token of the claim survives the retry.
FailedKeepsToken(row, seen) ==
  IF seen < MaxAttempts
  THEN [row EXCEPT !.status = "pending", !.age = 0, !.backoff = Backoff]
  ELSE [row EXCEPT !.status = "failed"]

\* fail_job, for a caller that sees `seen` attempts
Failed(row, seen) ==
  IF seen < MaxAttempts
  THEN [row EXCEPT !.status = "pending", !.started = Unclaimed, !.age = 0, !.backoff = Backoff]
  ELSE [row EXCEPT !.status = "failed"]

\* heartbeat
OwnClaim(row, claim) == row.status = "running" /\ row.started = claim

\* Wrong: the heartbeat leaves heartbeat_at alone.
RefreshedNever(row) == row

Refreshed(row) == [row EXCEPT !.age = 0]

\* Wrong: half a lease of silence is enough.
StalledEarly(row) == row.status = "running" /\ 2 * row.age > JobLease

\* Wrong: only a job that can still be retried is recovered.
StalledRetryable(row) ==
  row.status = "running" /\ row.age > JobLease /\ row.attempts < MaxAttempts

\* stalled_jobs: no heartbeat for longer than the lease
Stalled(row) == row.status = "running" /\ row.age > JobLease

\* A heartbeat interval passes.  Ages beyond the lease are all the same.
Aged(row) ==
  [row EXCEPT !.age = IF row.status = "running" /\ row.age <= JobLease THEN @ + 1 ELSE @,
              !.backoff = IF @ > 0 THEN @ - 1 ELSE 0]
=============================================================================
