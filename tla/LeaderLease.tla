---------------------------- MODULE LeaderLease ----------------------------
(***************************************************************************)
(* Leader election of the background coordinator: monitoring/leader.py     *)
(* (LeaderLease, LeaseKeeper) driven by monitoring/worker.py               *)
(* (run_worker_loop).                                                      *)
(*                                                                         *)
(* Every process runs two threads that share one LeaderLease object: the   *)
(* coordinator (takes the lease, ticks, releases it on shutdown) and the   *)
(* keeper (renews the lease, releases it when the coordinator is stuck).   *)
(* Leadership is one row of scheduler_leases, changed only by conditional  *)
(* statements.  A database operation is not atomic for its caller: the     *)
(* clock is read when it begins, the statement executes later, and the     *)
(* local validity is set when the answer is back.  Those are three steps   *)
(* here, and the steps of all threads of all processes interleave.         *)
(*                                                                         *)
(* A process name stands for one holder id; a restarted process draws a    *)
(* new id (new_holder_id), so it is another member of Proc.                *)
(***************************************************************************)
EXTENDS Integers

CONSTANTS
  Proc,         \* holder ids
  NoProc,       \* the holder of a row that does not exist yet
  Lease,        \* scheduler_leader_lease_seconds
  Renew,        \* scheduler_leader_renew_seconds
  Interval,     \* scheduler_interval_seconds, the pause between two rounds
  StuckAfter,   \* LeaseKeeper.stuck_after
  JoinTimeout,  \* LeaseKeeper.stop waits this long for the keeper thread
  MaxSkew,      \* how far two wall clocks may be apart
  MaxDelay,     \* how long one database operation may take
  Horizon       \* bound of the model: time stops here

\* config.py refuses a renew interval that is not well inside the lease.
ASSUME LeaseAssumption ==
  /\ NoProc \notin Proc
  /\ Lease \in Nat /\ Renew \in Nat /\ 0 < 2 * Renew /\ 2 * Renew < Lease
  /\ Interval \in Nat /\ StuckAfter \in Nat /\ JoinTimeout \in Nat
  /\ MaxSkew \in Nat /\ MaxDelay \in Nat /\ Horizon \in Nat

(***************************************************************************)
(* The timing under which the lease is safe.  It is no assumption of this  *)
(* module: LeaderLeaseProofs assumes it.  Without it, a database operation *)
(* that outlives a renew interval gives two leaders.                       *)
(***************************************************************************)
Timely ==
  /\ MaxDelay + MaxSkew <= Renew
  /\ MaxDelay < Interval
  /\ MaxDelay < JoinTimeout

VARIABLES
  now,         \* true time; every monotonic clock runs with it
  skew,        \* skew[p]: what p's wall clock is ahead of true time
  row,         \* the scheduler_leases row
  validUntil,  \* validUntil[p]: LeaderLease._valid_until
  op,          \* op[<<p, r>>]: the database operation of a thread in flight
  pc,          \* where p's coordinator is
  mark         \* mark[p]: end of the pause, last progress of the tick, or
               \* start of the keeper's join, depending on pc[p]

vars == <<now, skew, row, validUntil, op, pc, mark>>

----------------------------------------------------------------------------

Role == {"coordinator", "keeper"}
Looping == {"wait", "acquire", "tick"}
Control == Looping \union {"down", "join", "release", "stopped", "unreleased", "crashed"}
Kind == {"none", "acquire", "renew", "release"}
Outcome == {"granted", "denied", "failed"}

Op == [kind : Kind, stage : {"sent", "insert"} \union Outcome, started : Nat]
NoOp == [kind |-> "none", stage |-> "sent", started |-> 0]
Sent(kind) == [kind |-> kind, stage |-> "sent", started |-> now]

InFlight(p, r) == op[<<p, r>>].kind # "none"
Done(p, r) == InFlight(p, r) /\ op[<<p, r>>].stage \in Outcome
Answer(p, r, stage) == op' = [op EXCEPT ![<<p, r>>].stage = stage]

\* datetime.utcnow() of process p when its clock was read at time t
Wall(p, t) == t + skew[p]

Held(p) == now < validUntil[p]

\* should_continue of the loop: the lease is held and no stop was requested
Leader(p) == pc[p] \in Looping /\ Held(p)

\* Wrong: the whole lease, counted from the answer.
GrantedFromAnswer(started) == now + Lease

\* LeaderLease._granted: validity counts from before the write
Granted(started) == started + Lease - Renew

NoRow == row.holder = NoProc
OwnRow(p) == row.holder = p

\* Wrong: the new expiry is counted from the old one.
RowForFromOld(p, t) ==
  [holder |-> p, expires |-> Lease + (IF row.expires > Wall(p, t) THEN row.expires ELSE Wall(p, t))]

\* The row of a lease that p has taken, with its clock read at time t
RowFor(p, t) == [holder |-> p, expires |-> Wall(p, t) + Lease]

\* Wrong: the row may be taken when its holder is due to renew it.
TakeableEarly(p, t) == OwnRow(p) \/ row.expires < Wall(p, t) + Renew

\* try_acquire's WHERE: the row is ours already, or its lease has expired
Takeable(p, t) == OwnRow(p) \/ row.expires < Wall(p, t)

----------------------------------------------------------------------------

Init ==
  /\ now = 0
  /\ skew \in [Proc -> 0 .. MaxSkew]
  /\ \E p \in Proc : skew[p] = 0   \* the slowest clock is the reference
  /\ row = [holder |-> NoProc, expires |-> 0]
  /\ validUntil = [p \in Proc |-> 0]
  /\ op = [x \in Proc \X Role |-> NoOp]
  /\ pc = [p \in Proc |-> "down"]
  /\ mark = [p \in Proc |-> 0]

----------------------------------------------------------------------------
(* The database executes the statement of an operation in flight.          *)

ExecAcquire(p) ==
  LET o == op[<<p, "coordinator">>] IN
  /\ o.kind = "acquire" /\ o.stage = "sent"
  /\ \/ /\ NoRow
        /\ Answer(p, "coordinator", "insert")
        /\ UNCHANGED row
     \/ /\ ~ NoRow /\ Takeable(p, o.started)
        /\ row' = RowFor(p, o.started)
        /\ Answer(p, "coordinator", "granted")
     \/ /\ ~ NoRow /\ ~ Takeable(p, o.started)
        /\ Answer(p, "coordinator", "denied")
        /\ UNCHANGED row
  /\ UNCHANGED <<now, skew, validUntil, pc, mark>>

\* Wrong: the INSERT overwrites a row that a faster candidate made.
ExecInsertBlind(p) ==
  LET o == op[<<p, "coordinator">>] IN
  /\ o.kind = "acquire" /\ o.stage = "insert"
  /\ row' = RowFor(p, o.started)
  /\ Answer(p, "coordinator", "granted")
  /\ UNCHANGED <<now, skew, validUntil, pc, mark>>

\* The UPDATE matched nothing and no row was there: INSERT, which the
\* primary key rejects when another candidate was faster.
ExecInsert(p) ==
  LET o == op[<<p, "coordinator">>] IN
  /\ o.kind = "acquire" /\ o.stage = "insert"
  /\ \/ /\ NoRow
        /\ row' = RowFor(p, o.started)
        /\ Answer(p, "coordinator", "granted")
     \/ /\ ~ NoRow
        /\ Answer(p, "coordinator", "denied")
        /\ UNCHANGED row
  /\ UNCHANGED <<now, skew, validUntil, pc, mark>>

ExecRenew(p) ==
  LET o == op[<<p, "keeper">>] IN
  /\ o.kind = "renew" /\ o.stage = "sent"
  /\ \/ /\ OwnRow(p)
        /\ row' = RowFor(p, o.started)
        /\ Answer(p, "keeper", "granted")
     \/ /\ ~ OwnRow(p)
        /\ Answer(p, "keeper", "denied")
        /\ UNCHANGED row
  /\ UNCHANGED <<now, skew, validUntil, pc, mark>>

ExecRelease(p, r) ==
  LET o == op[<<p, r>>] IN
  /\ o.kind = "release" /\ o.stage = "sent"
  /\ row' = IF OwnRow(p) THEN [holder |-> p, expires |-> Wall(p, o.started) - 1] ELSE row
  /\ Answer(p, r, "granted")   \* release does not look at the row count
  /\ UNCHANGED <<now, skew, validUntil, pc, mark>>

\* A database error: the statement never ran, or it ran and the answer was
\* lost.  The caller cannot tell.
DbError(p, r) ==
  /\ InFlight(p, r) /\ op[<<p, r>>].stage # "failed"
  /\ Answer(p, r, "failed")
  /\ UNCHANGED <<now, skew, row, validUntil, pc, mark>>

----------------------------------------------------------------------------
(* The coordinator: run_worker_loop.                                       *)

Start(p) ==
  /\ pc[p] = "down"
  /\ pc' = [pc EXCEPT ![p] = "wait"]
  /\ mark' = [mark EXCEPT ![p] = now]
  /\ UNCHANGED <<now, skew, row, validUntil, op>>

BeginAcquire(p) ==
  /\ pc[p] = "wait" /\ mark[p] <= now
  /\ ~ Held(p)
  /\ pc' = [pc EXCEPT ![p] = "acquire"]
  /\ op' = [op EXCEPT ![<<p, "coordinator">>] = Sent("acquire")]
  /\ UNCHANGED <<now, skew, row, validUntil, mark>>

\* After try_acquire the loop looks at lease.held again: a renewal of the
\* keeper that came back meanwhile counts too.
Continue(p, valid) ==
  \/ /\ now < valid
     /\ pc' = [pc EXCEPT ![p] = "tick"]
     /\ mark' = [mark EXCEPT ![p] = now]
  \/ /\ now >= valid
     /\ pc' = [pc EXCEPT ![p] = "wait"]
     /\ mark' = [mark EXCEPT ![p] = now + Interval]

EndAcquire(p) ==
  LET o == op[<<p, "coordinator">>]
      valid == IF o.stage = "granted" THEN Granted(o.started) ELSE validUntil[p]
  IN
  /\ pc[p] = "acquire" /\ Done(p, "coordinator")
  /\ validUntil' = [validUntil EXCEPT ![p] = valid]
  /\ Continue(p, valid)
  /\ op' = [op EXCEPT ![<<p, "coordinator">>] = NoOp]
  /\ UNCHANGED <<now, skew, row>>

BeginTick(p) ==
  /\ pc[p] = "wait" /\ mark[p] <= now
  /\ Held(p)
  /\ pc' = [pc EXCEPT ![p] = "tick"]
  /\ mark' = [mark EXCEPT ![p] = now]
  /\ UNCHANGED <<now, skew, row, validUntil, op>>

\* keeper.progress, called around every job and by every phase loop
Progress(p) ==
  /\ pc[p] = "tick" /\ mark[p] # now
  /\ mark' = [mark EXCEPT ![p] = now]
  /\ UNCHANGED <<now, skew, row, validUntil, op, pc>>

EndTick(p) ==
  /\ pc[p] = "tick"
  /\ pc' = [pc EXCEPT ![p] = "wait"]
  /\ mark' = [mark EXCEPT ![p] = now + Interval]
  /\ UNCHANGED <<now, skew, row, validUntil, op>>

\* stop_worker: the loop leaves at its pause, or is cancelled out of a tick
\* that outlasts the shutdown grace; keeper.stop waits for the keeper.
BeginStop(p) ==
  /\ pc[p] \in {"wait", "tick"}
  /\ pc' = [pc EXCEPT ![p] = "join"]
  /\ mark' = [mark EXCEPT ![p] = now]
  /\ UNCHANGED <<now, skew, row, validUntil, op>>

\* Wrong: the release does not wait for the keeper.
BeginFinalReleaseAtOnce(p) ==
  /\ pc[p] = "join"
  /\ pc' = [pc EXCEPT ![p] = "release"]
  /\ validUntil' = [validUntil EXCEPT ![p] = 0]
  /\ op' = [op EXCEPT ![<<p, "coordinator">>] = Sent("release")]
  /\ UNCHANGED <<now, skew, row, mark>>

BeginFinalRelease(p) ==
  /\ pc[p] = "join"
  /\ ~ InFlight(p, "keeper") \/ now >= mark[p] + JoinTimeout
  /\ pc' = [pc EXCEPT ![p] = "release"]
  /\ validUntil' = [validUntil EXCEPT ![p] = 0]
  /\ op' = [op EXCEPT ![<<p, "coordinator">>] = Sent("release")]
  /\ UNCHANGED <<now, skew, row, mark>>

EndStop(p) ==
  /\ pc[p] = "release" /\ Done(p, "coordinator")
  /\ pc' = [pc EXCEPT ![p] = IF op[<<p, "coordinator">>].stage = "failed"
                             THEN "unreleased" ELSE "stopped"]
  /\ op' = [op EXCEPT ![<<p, "coordinator">>] = NoOp]
  /\ UNCHANGED <<now, skew, row, validUntil, mark>>

----------------------------------------------------------------------------
(* The keeper: LeaseKeeper._run.  It acts only while the lease is held and *)
(* until it is told to stop; an operation it began runs to its end.        *)

BeginRenew(p) ==
  /\ pc[p] \in Looping /\ Held(p)
  /\ ~ InFlight(p, "keeper")
  /\ op' = [op EXCEPT ![<<p, "keeper">>] = Sent("renew")]
  /\ UNCHANGED <<now, skew, row, validUntil, pc, mark>>

EndRenew(p) ==
  LET o == op[<<p, "keeper">>] IN
  /\ o.kind = "renew" /\ Done(p, "keeper") /\ pc[p] # "crashed"
  /\ validUntil' =
       [validUntil EXCEPT ![p] = CASE o.stage = "granted" -> Granted(o.started)
                                   [] o.stage = "denied"  -> 0
                                   [] o.stage = "failed"  -> @]
  /\ op' = [op EXCEPT ![<<p, "keeper">>] = NoOp]
  /\ UNCHANGED <<now, skew, row, pc, mark>>

\* Wrong: the row is given up first, the belief in the lease only with the answer.
BeginWatchdogReleaseRowFirst(p) ==
  /\ pc[p] = "tick" /\ Held(p)
  /\ now - mark[p] > StuckAfter
  /\ ~ InFlight(p, "keeper")
  /\ op' = [op EXCEPT ![<<p, "keeper">>] = Sent("release")]
  /\ UNCHANGED <<now, skew, row, validUntil, pc, mark>>

\* The watchdog: a tick without progress for longer than stuck_after
BeginWatchdogRelease(p) ==
  /\ pc[p] = "tick" /\ Held(p)
  /\ now - mark[p] > StuckAfter
  /\ ~ InFlight(p, "keeper")
  /\ validUntil' = [validUntil EXCEPT ![p] = 0]
  /\ op' = [op EXCEPT ![<<p, "keeper">>] = Sent("release")]
  /\ UNCHANGED <<now, skew, row, pc, mark>>

EndWatchdogRelease(p) ==
  /\ op[<<p, "keeper">>].kind = "release" /\ Done(p, "keeper") /\ pc[p] # "crashed"
  /\ op' = [op EXCEPT ![<<p, "keeper">>] = NoOp]
  /\ UNCHANGED <<now, skew, row, validUntil, pc, mark>>

----------------------------------------------------------------------------
(* The environment.                                                        *)

\* The process dies.  A statement it has sent may still be executed.
Crash(p) ==
  /\ pc[p] \in Looping \union {"join", "release"}
  /\ pc' = [pc EXCEPT ![p] = "crashed"]
  /\ validUntil' = [validUntil EXCEPT ![p] = 0]
  /\ UNCHANGED <<now, skew, row, op, mark>>

OrphanEnds(p, r) ==
  /\ pc[p] = "crashed" /\ Done(p, r)
  /\ op' = [op EXCEPT ![<<p, r>>] = NoOp]
  /\ UNCHANGED <<now, skew, row, validUntil, pc, mark>>

Tick ==
  /\ now < Horizon
  /\ \A p \in Proc, r \in Role : InFlight(p, r) => now < op[<<p, r>>].started + MaxDelay
  /\ now' = now + 1
  /\ UNCHANGED <<skew, row, validUntil, op, pc, mark>>

----------------------------------------------------------------------------

Database(p) ==
  \/ ExecAcquire(p) \/ ExecInsert(p) \/ ExecRenew(p)
  \/ \E r \in Role : ExecRelease(p, r) \/ DbError(p, r)

Coordinator(p) ==
  \/ Start(p) \/ BeginAcquire(p) \/ EndAcquire(p)
  \/ BeginTick(p) \/ Progress(p) \/ EndTick(p)
  \/ BeginStop(p) \/ BeginFinalRelease(p) \/ EndStop(p)

Keeper(p) ==
  \/ BeginRenew(p) \/ EndRenew(p)
  \/ BeginWatchdogRelease(p) \/ EndWatchdogRelease(p)

Environment(p) == Crash(p) \/ \E r \in Role : OrphanEnds(p, r)

Next ==
  \/ \E p \in Proc : Database(p) \/ Coordinator(p) \/ Keeper(p) \/ Environment(p)
  \/ Tick

Spec == Init /\ [][Next]_vars

----------------------------------------------------------------------------

TypeOK ==
  /\ now \in Nat
  /\ skew \in [Proc -> 0 .. MaxSkew]
  /\ row \in [holder : Proc \union {NoProc}, expires : Int]
  /\ validUntil \in [Proc -> Int]
  /\ op \in [Proc \X Role -> Op]
  /\ pc \in [Proc -> Control]
  /\ mark \in [Proc -> Nat]

(***************************************************************************)
(* Two processes never both believe that they lead (leader.py:1, "exactly  *)
(* one background coordinator per deployment").                            *)
(***************************************************************************)
AtMostOneLeader ==
  \A p, q \in Proc : Leader(p) /\ Leader(q) => p = q

(***************************************************************************)
(* A leader steps down before any other candidate can see its lease as     *)
(* expired (leader.py:16-19): while it believes it leads, the row is its   *)
(* own and no process, reading its own wall clock, finds it expired.       *)
(***************************************************************************)
StepsDownFirst ==
  \A p \in Proc : Leader(p) =>
    /\ OwnRow(p)
    /\ \A q \in Proc : Wall(q, now) <= row.expires

(***************************************************************************)
(* A process that shut down and released its lease leaves nothing a        *)
(* standby must wait for (worker.py:207-209): no late renewal of its       *)
(* keeper extends the row again.                                           *)
(***************************************************************************)
CleanHandover ==
  \A p \in Proc : pc[p] = "stopped" /\ OwnRow(p) => row.expires < Wall(p, now)

(***************************************************************************)
(* A lease that nobody renews blocks a standby for at most one lease (plus *)
(* the clock skew) after the last statement of its holder was begun: a     *)
(* crash can never lock every process out for longer.                      *)
(***************************************************************************)
BoundedLockout ==
  \A p \in Proc : OwnRow(p) => row.expires <= Wall(p, now) + Lease

(***************************************************************************)
(* The row changes hands only when the process that loses it is no leader  *)
(* any more: leadership is never pulled away under a running tick.         *)
(***************************************************************************)
NoTakeoverFromLeader ==
  [][\A p \in Proc : OwnRow(p) /\ row'.holder # p => ~ Leader(p)]_vars

----------------------------------------------------------------------------

\* The processes that believe they lead
Leading == {p \in Proc : Leader(p)}

Election == INSTANCE Lease WITH Contender <- Proc, holders <- Leading

(***************************************************************************)
(* The election implements the abstract lease: no step, however the threads*)
(* and the database interleave, makes a process a leader while another one *)
(* is, or hands leadership over without a moment in which nobody leads.    *)
(***************************************************************************)
ElectsOne == Election!LeaseSpec
============================================================================
