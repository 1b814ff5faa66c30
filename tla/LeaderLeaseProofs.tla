------------------------- MODULE LeaderLeaseProofs -------------------------
(***************************************************************************)
(* Proofs about LeaderLease, for any number of processes and any timing    *)
(* that TimelyAssumption admits.                                           *)
(*                                                                         *)
(* The inductive invariant says what backs the leadership of a process: up *)
(* to the end of every validity it was granted (or is about to set), the   *)
(* row is its own and outlives that validity by a renew interval less the  *)
(* age a statement may have when it executes.                              *)
(***************************************************************************)
EXTENDS LeaderLease, TLAPS

\* The timing that the safety of the lease rests on: a database operation and the
\* clock skew together fit into one renew interval, and an operation is shorter
\* than the coordinator's pause and the keeper's join.
ASSUME TimelyAssumption == Timely

\* A belief in the lease until `valid` is backed by the row.
Backed(p, valid) ==
  now < valid => OwnRow(p) /\ row.expires + MaxDelay >= valid + Renew + skew[p]

\* An answer on its way that will be believed
Promise(p, r) == op[<<p, r>>].kind \in {"acquire", "renew"} /\ op[<<p, r>>].stage = "granted"

\* What the two threads of a process may be doing together
Threads(p) ==
  /\ op[<<p, "coordinator">>].kind = "acquire" => pc[p] \in {"acquire", "crashed"}
  /\ op[<<p, "coordinator">>].kind = "release" => pc[p] \in {"release", "crashed"}
  /\ op[<<p, "coordinator">>].kind # "renew"
  /\ pc[p] = "release" => op[<<p, "coordinator">>].kind = "release"
  /\ op[<<p, "keeper">>].kind # "acquire"
  /\ pc[p] = "down" => validUntil[p] = 0 /\ ~ InFlight(p, "keeper")
  /\ pc[p] \in Looping /\ op[<<p, "keeper">>].kind = "release" =>
       /\ validUntil[p] = 0
       /\ \/ pc[p] = "tick"
          \/ pc[p] = "wait" /\ op[<<p, "keeper">>].started + Interval <= mark[p]
  /\ pc[p] = "join" /\ InFlight(p, "keeper") => op[<<p, "keeper">>].started <= mark[p]
  /\ pc[p] \in {"release", "stopped", "unreleased"} => ~ InFlight(p, "keeper")

ThreadInv == \A p \in Proc : Threads(p)

\* No operation is older than MaxDelay.
Recent ==
  \A p \in Proc, r \in Role :
    InFlight(p, r) => op[<<p, r>>].started <= now /\ now <= op[<<p, r>>].started + MaxDelay

\* Every belief of p, present or to come, is backed.
BackedProc(p) ==
  /\ validUntil[p] <= now + Lease - Renew
  /\ pc[p] \in Looping => Backed(p, validUntil[p])
  /\ pc[p] \in Looping =>
       \A r \in Role : Promise(p, r) => Backed(p, Granted(op[<<p, r>>].started))

BackedInv == \A p \in Proc : BackedProc(p)

\* What p has released is expired.
ReleasedProc(p) ==
  pc[p] = "stopped" \/ (pc[p] = "release" /\ op[<<p, "coordinator">>].stage \in {"granted", "denied"}) =>
    (OwnRow(p) => row.expires < Wall(p, now))

ReleasedInv == \A p \in Proc : ReleasedProc(p)

(***************************************************************************)
(* The inductive invariant: as long as a process believes it leads, or an  *)
(* answer that lets it believe so is on its way, the row is its own and    *)
(* outlives the belief (LeaderLease._granted, leader.py:16-19); its two    *)
(* threads are where run_worker_loop and LeaseKeeper can be together; a    *)
(* released row is expired.                                                *)
(***************************************************************************)
IInv == TypeOK /\ ThreadInv /\ Recent /\ BackedInv /\ ReleasedInv /\ BoundedLockout

----------------------------------------------------------------------------
\* The renew interval is positive and shorter than the lease.
LEMMA LeaseArithmetic == Renew \in Nat /\ Lease \in Nat /\ 0 < Renew /\ Renew < Lease
BY LeaseAssumption

\* The initial values have their types.
LEMMA InitType == Init => TypeOK
BY DEF Init, TypeOK, NoOp, Op, Kind, Outcome, Control, Looping, Role

\* The answer to an operation changes the stage of that operation only.
LEMMA AnswerEffect ==
  ASSUME op \in [Proc \X Role -> Op], NEW p \in Proc, NEW r \in Role,
         NEW stage \in Outcome \union {"insert"}, Answer(p, r, stage)
  PROVE  /\ op' \in [Proc \X Role -> Op]
         /\ op'[<<p, r>>].stage = stage
         /\ op'[<<p, r>>].kind = op[<<p, r>>].kind
         /\ op'[<<p, r>>].started = op[<<p, r>>].started
         /\ \A q \in Proc, s \in Role : <<q, s>> # <<p, r>> => op'[<<q, s>>] = op[<<q, s>>]
<1>1. <<p, r>> \in Proc \X Role  OBVIOUS
<1>2. op[<<p, r>>] \in Op  BY <1>1
<1>3. [op[<<p, r>>] EXCEPT !.stage = stage] \in Op  BY <1>2 DEF Op
<1>4. op' = [op EXCEPT ![<<p, r>>] = [op[<<p, r>>] EXCEPT !.stage = stage]]
  BY DEF Answer
<1>5. op'[<<p, r>>] = [op[<<p, r>>] EXCEPT !.stage = stage]  BY <1>1, <1>4
<1>6. op' \in [Proc \X Role -> Op]  BY <1>3, <1>4
<1>7. \A q \in Proc, s \in Role : <<q, s>> # <<p, r>> => op'[<<q, s>>] = op[<<q, s>>]
  BY <1>4
<1> QED BY <1>2, <1>5, <1>6, <1>7 DEF Op

\* Beginning or ending an operation replaces that operation only.
LEMMA ReplaceEffect ==
  ASSUME op \in [Proc \X Role -> Op], NEW p \in Proc, NEW r \in Role,
         NEW o \in Op, op' = [op EXCEPT ![<<p, r>>] = o]
  PROVE  /\ op' \in [Proc \X Role -> Op]
         /\ op'[<<p, r>>] = o
         /\ \A q \in Proc, s \in Role : <<q, s>> # <<p, r>> => op'[<<q, s>>] = op[<<q, s>>]
OBVIOUS

\* Every record written into op is an operation.
LEMMA OpRecords ==
  /\ NoOp \in Op
  /\ now \in Nat => \A kind \in Kind : Sent(kind) \in Op
BY DEF NoOp, Sent, Op, Kind

\* A statement the database executes keeps every type.
LEMMA DatabaseType ==
  ASSUME TypeOK, NEW p \in Proc, Database(p)
  PROVE  TypeOK'
<1> DEFINE c == <<p, "coordinator">>  k == <<p, "keeper">>
<1>1. /\ op \in [Proc \X Role -> Op] /\ skew[p] \in Nat
      /\ "coordinator" \in Role /\ "keeper" \in Role
  BY DEF TypeOK, Role
<1>2. \A r \in Role : op[<<p, r>>].started \in Nat
  BY <1>1 DEF Op
<1>3. \A r \in Role : RowFor(p, op[<<p, r>>].started) \in [holder : Proc \union {NoProc}, expires : Int]
  BY <1>1, <1>2, LeaseArithmetic DEF RowFor, Wall
<1>4. CASE ExecAcquire(p)
  <2>1. op' \in [Proc \X Role -> Op]
    BY <1>1, <1>4, AnswerEffect DEF ExecAcquire, Outcome
  <2>2. row' \in [holder : Proc \union {NoProc}, expires : Int]
    BY <1>1, <1>3, <1>4 DEF ExecAcquire, TypeOK
  <2> QED BY <2>1, <2>2, <1>4 DEF ExecAcquire, TypeOK
<1>5. CASE ExecInsert(p)
  <2>1. op' \in [Proc \X Role -> Op]
    BY <1>1, <1>5, AnswerEffect DEF ExecInsert, Outcome
  <2>2. row' \in [holder : Proc \union {NoProc}, expires : Int]
    BY <1>1, <1>3, <1>5 DEF ExecInsert, TypeOK
  <2> QED BY <2>1, <2>2, <1>5 DEF ExecInsert, TypeOK
<1>6. CASE ExecRenew(p)
  <2>1. op' \in [Proc \X Role -> Op]
    BY <1>1, <1>6, AnswerEffect DEF ExecRenew, Outcome
  <2>2. row' \in [holder : Proc \union {NoProc}, expires : Int]
    BY <1>1, <1>3, <1>6 DEF ExecRenew, TypeOK
  <2> QED BY <2>1, <2>2, <1>6 DEF ExecRenew, TypeOK
<1>7. ASSUME NEW r \in Role, ExecRelease(p, r) PROVE TypeOK'
  <2>1. op' \in [Proc \X Role -> Op]
    BY <1>1, <1>7, AnswerEffect DEF ExecRelease, Outcome
  <2>2. Wall(p, op[<<p, r>>].started) - 1 \in Int
    BY <1>1, <1>2 DEF Wall
  <2>3. row' \in [holder : Proc \union {NoProc}, expires : Int]
    BY <2>2, <1>7 DEF ExecRelease, TypeOK
  <2> QED BY <2>1, <2>3, <1>7 DEF ExecRelease, TypeOK
<1>8. ASSUME NEW r \in Role, DbError(p, r) PROVE TypeOK'
  <2>1. op' \in [Proc \X Role -> Op]
    BY <1>1, <1>8, AnswerEffect DEF DbError, Outcome
  <2> QED BY <2>1, <1>8 DEF DbError, TypeOK
<1> QED BY <1>4, <1>5, <1>6, <1>7, <1>8 DEF Database

\* So does a step of a coordinator ...
LEMMA CoordinatorType ==
  ASSUME TypeOK, NEW p \in Proc, Coordinator(p)
  PROVE  TypeOK'
<1>1. /\ op \in [Proc \X Role -> Op] /\ "coordinator" \in Role
      /\ pc \in [Proc -> Control] /\ validUntil \in [Proc -> Int]
      /\ mark \in [Proc -> Nat] /\ now \in Nat
      /\ Interval \in Nat /\ now + Interval \in Nat
      /\ op[<<p, "coordinator">>].started \in Nat
  BY LeaseAssumption DEF TypeOK, Role, Op
<1>2. \A kind \in Kind : Sent(kind) \in Op  BY <1>1, OpRecords
<1>3. NoOp \in Op  BY OpRecords
<1>4. CASE Start(p)  BY <1>1, <1>4 DEF Start, TypeOK, Control, Looping
<1>5. CASE BeginAcquire(p)
  <2>1. op' \in [Proc \X Role -> Op]
    BY <1>1, <1>2, <1>5, ReplaceEffect DEF BeginAcquire, Kind
  <2> QED BY <2>1, <1>5 DEF BeginAcquire, TypeOK, Control, Looping
<1>6. CASE EndAcquire(p)
  <2>1. op' \in [Proc \X Role -> Op]
    BY <1>1, <1>3, <1>6, ReplaceEffect DEF EndAcquire
  <2>2. validUntil' \in [Proc -> Int]
    BY <1>1, <1>6, LeaseArithmetic DEF EndAcquire, Granted
  <2>3. pc' \in [Proc -> Control] /\ mark' \in [Proc -> Nat]
    BY <1>1, <1>6 DEF EndAcquire, Continue, Control, Looping
  <2> QED BY <2>1, <2>2, <2>3, <1>6 DEF EndAcquire, TypeOK
<1>7. CASE BeginTick(p)  BY <1>1, <1>7 DEF BeginTick, TypeOK, Control, Looping
<1>8. CASE Progress(p)  BY <1>1, <1>8 DEF Progress, TypeOK
<1>9. CASE EndTick(p)  BY <1>1, <1>9 DEF EndTick, TypeOK, Control, Looping
<1>10. CASE BeginStop(p)  BY <1>1, <1>10 DEF BeginStop, TypeOK, Control
<1>11. CASE BeginFinalRelease(p)
  <2>1. op' \in [Proc \X Role -> Op]
    BY <1>1, <1>2, <1>11, ReplaceEffect DEF BeginFinalRelease, Kind
  <2> QED BY <2>1, <1>1, <1>11 DEF BeginFinalRelease, TypeOK, Control
<1>12. CASE EndStop(p)
  <2>1. op' \in [Proc \X Role -> Op]
    BY <1>1, <1>3, <1>12, ReplaceEffect DEF EndStop
  <2> QED BY <2>1, <1>1, <1>12 DEF EndStop, TypeOK, Control
<1> QED
  BY <1>4, <1>5, <1>6, <1>7, <1>8, <1>9, <1>10, <1>11, <1>12 DEF Coordinator

\* ... and of a keeper.
LEMMA KeeperType ==
  ASSUME TypeOK, NEW p \in Proc, Keeper(p)
  PROVE  TypeOK'
<1>1. /\ op \in [Proc \X Role -> Op] /\ "keeper" \in Role
      /\ validUntil \in [Proc -> Int] /\ now \in Nat
      /\ op[<<p, "keeper">>].started \in Nat
  BY DEF TypeOK, Role, Op
<1>2. \A kind \in Kind : Sent(kind) \in Op  BY <1>1, OpRecords
<1>3. NoOp \in Op  BY OpRecords
<1>4. CASE BeginRenew(p)
  <2>1. op' \in [Proc \X Role -> Op]
    BY <1>1, <1>2, <1>4, ReplaceEffect DEF BeginRenew, Kind
  <2> QED BY <2>1, <1>4 DEF BeginRenew, TypeOK
<1>5. CASE EndRenew(p)
  <2>1. op' \in [Proc \X Role -> Op]
    BY <1>1, <1>3, <1>5, ReplaceEffect DEF EndRenew
  <2>2. Granted(op[<<p, "keeper">>].started) \in Int
    BY <1>1, LeaseArithmetic DEF Granted
  <2>3. validUntil' \in [Proc -> Int]
    BY <1>1, <1>5, <2>2 DEF EndRenew, Done, Outcome
  <2> QED BY <2>1, <2>3, <1>5 DEF EndRenew, TypeOK
<1>6. CASE BeginWatchdogRelease(p)
  <2>1. op' \in [Proc \X Role -> Op]
    BY <1>1, <1>2, <1>6, ReplaceEffect DEF BeginWatchdogRelease, Kind
  <2> QED BY <2>1, <1>1, <1>6 DEF BeginWatchdogRelease, TypeOK
<1>7. CASE EndWatchdogRelease(p)
  <2>1. op' \in [Proc \X Role -> Op]
    BY <1>1, <1>3, <1>7, ReplaceEffect DEF EndWatchdogRelease
  <2> QED BY <2>1, <1>7 DEF EndWatchdogRelease, TypeOK
<1> QED BY <1>4, <1>5, <1>6, <1>7 DEF Keeper

\* No step leaves the types.
LEMMA NextType == TypeOK /\ [Next]_vars => TypeOK'
<1> SUFFICES ASSUME TypeOK, [Next]_vars PROVE TypeOK'  OBVIOUS
<1>1. ASSUME NEW p \in Proc, Environment(p) PROVE TypeOK'
  <2>1. CASE Crash(p)  BY <2>1 DEF Crash, TypeOK, Control
  <2>2. ASSUME NEW r \in Role, OrphanEnds(p, r) PROVE TypeOK'
    <3>1. op' \in [Proc \X Role -> Op]
      BY <2>2, OpRecords, ReplaceEffect DEF OrphanEnds, TypeOK
    <3> QED BY <3>1, <2>2 DEF OrphanEnds, TypeOK
  <2> QED BY <1>1, <2>1, <2>2 DEF Environment
<1>2. CASE Tick  BY <1>2 DEF Tick, TypeOK
<1>3. CASE UNCHANGED vars  BY <1>3 DEF vars, TypeOK
<1> QED
  BY <1>1, <1>2, <1>3, DatabaseType, CoordinatorType, KeeperType DEF Next

----------------------------------------------------------------------------
(* The threads of a process.                                               *)

Step(p) == Database(p) \/ Coordinator(p) \/ Keeper(p) \/ Environment(p)

\* A step of p leaves every other process alone.
LEMMA Frame ==
  ASSUME TypeOK, NEW p \in Proc, Step(p), NEW q \in Proc, q # p
  PROVE  /\ pc'[q] = pc[q] /\ validUntil'[q] = validUntil[q] /\ mark'[q] = mark[q]
         /\ \A r \in Role : op'[<<q, r>>] = op[<<q, r>>]
<1> USE DEF TypeOK
<1>1. ASSUME NEW r \in Role, NEW stage \in Outcome \union {"insert"}, Answer(p, r, stage)
      PROVE  \A s \in Role : op'[<<q, s>>] = op[<<q, s>>]
  <2>1. \A s \in Role : <<q, s>> # <<p, r>>  OBVIOUS
  <2>2. op \in [Proc \X Role -> Op]  OBVIOUS
  <2>3. \A x \in Proc, s \in Role : <<x, s>> # <<p, r>> => op'[<<x, s>>] = op[<<x, s>>]
    BY <1>1, <2>2, AnswerEffect
  <2> QED BY <2>1, <2>3
<1>2. CASE Database(p)
  <2>1. \E r \in Role, stage \in Outcome \union {"insert"} : Answer(p, r, stage)
    BY <1>2 DEF Database, ExecAcquire, ExecInsert, ExecRenew, ExecRelease, DbError, Outcome, Role
  <2>2. UNCHANGED <<validUntil, pc, mark>>
    BY <1>2 DEF Database, ExecAcquire, ExecInsert, ExecRenew, ExecRelease, DbError
  <2> QED BY <1>1, <2>1, <2>2
<1>3. CASE Coordinator(p)
  BY <1>3 DEF Coordinator, Start, BeginAcquire, EndAcquire, Continue, BeginTick, Progress, EndTick,
              BeginStop, BeginFinalRelease, EndStop
<1>4. CASE Keeper(p)
  BY <1>4 DEF Keeper, BeginRenew, EndRenew, BeginWatchdogRelease, EndWatchdogRelease
<1>5. CASE Environment(p)
  BY <1>5 DEF Environment, Crash, OrphanEnds
<1> QED BY <1>2, <1>3, <1>4, <1>5 DEF Step

\* No step moves time or a clock, but Tick.
LEMMA FrameClock ==
  ASSUME NEW p \in Proc, Step(p)
  PROVE  now' = now /\ skew' = skew
<1>1. CASE Database(p)
  BY <1>1 DEF Database, ExecAcquire, ExecInsert, ExecRenew, ExecRelease, DbError
<1>2. CASE Coordinator(p)
  BY <1>2 DEF Coordinator, Start, BeginAcquire, EndAcquire, BeginTick, Progress, EndTick,
              BeginStop, BeginFinalRelease, EndStop
<1>3. CASE Keeper(p)
  BY <1>3 DEF Keeper, BeginRenew, EndRenew, BeginWatchdogRelease, EndWatchdogRelease
<1>4. CASE Environment(p)
  BY <1>4 DEF Environment, Crash, OrphanEnds
<1> QED BY <1>1, <1>2, <1>3, <1>4 DEF Step

\* A database step advances one operation and touches no thread's memory.
LEMMA DatabaseEffect ==
  ASSUME TypeOK, NEW p \in Proc, Database(p)
  PROVE  /\ UNCHANGED <<now, skew, validUntil, pc, mark>>
         /\ \A r \in Role : /\ op'[<<p, r>>].kind = op[<<p, r>>].kind
                            /\ op'[<<p, r>>].started = op[<<p, r>>].started
<1> USE DEF TypeOK
<1>1. ASSUME NEW r \in Role, NEW stage \in Outcome \union {"insert"}, Answer(p, r, stage)
      PROVE  \A s \in Role : /\ op'[<<p, s>>].kind = op[<<p, s>>].kind
                             /\ op'[<<p, s>>].started = op[<<p, s>>].started
  BY <1>1, AnswerEffect
<1> QED
  BY <1>1 DEF Database, ExecAcquire, ExecInsert, ExecRenew, ExecRelease, DbError, Outcome, Role

\* A step of p itself keeps its two threads in order.
LEMMA ThreadsStep ==
  ASSUME TypeOK, ThreadInv, Recent, NEW p \in Proc, Step(p)
  PROVE  Threads(p)'
<1> DEFINE c == op[<<p, "coordinator">>]
           k == op[<<p, "keeper">>]
<1>1. /\ "coordinator" \in Role /\ "keeper" \in Role /\ "coordinator" # "keeper"
      /\ op \in [Proc \X Role -> Op]
      /\ pc \in [Proc -> Control] /\ validUntil \in [Proc -> Int]
      /\ mark \in [Proc -> Nat] /\ now \in Nat /\ mark[p] \in Nat
      /\ Interval \in Nat /\ JoinTimeout \in Nat /\ MaxDelay \in Nat
      /\ c \in Op /\ k \in Op /\ c.started \in Nat /\ k.started \in Nat
  BY LeaseAssumption DEF TypeOK, Role, Op
<1>2. Threads(p)  BY DEF ThreadInv
<1>3. InFlight(p, "keeper") => k.started <= now /\ now <= k.started + MaxDelay
  BY <1>1 DEF Recent
<1>4. NoOp \in Op /\ Sent("acquire") \in Op /\ Sent("renew") \in Op /\ Sent("release") \in Op
  BY <1>1, OpRecords DEF Kind
<1>5. /\ NoOp.kind = "none"
      /\ Sent("acquire").kind = "acquire" /\ Sent("renew").kind = "renew"
      /\ Sent("release").kind = "release"
      /\ Sent("release").started = now /\ Sent("renew").started = now
  BY DEF NoOp, Sent
<1> USE <1>1, <1>2 DEF Threads, InFlight, Looping
<1>6. CASE Database(p)  BY <1>6, DatabaseEffect
<1>7. CASE Coordinator(p)
  <2>1. CASE Start(p)  BY <2>1 DEF Start
  <2>2. CASE BeginAcquire(p)
    <3>1. op'[<<p, "coordinator">>] = Sent("acquire") /\ op'[<<p, "keeper">>] = k
      BY <2>2 DEF BeginAcquire
    \* A release of the watchdog would still be in flight: it is over before the pause is.
    <3>2. k.kind # "release"
      BY <2>2, <1>3, TimelyAssumption DEF BeginAcquire, Timely
    <3> QED BY <2>2, <3>1, <3>2, <1>5 DEF BeginAcquire
  <2>3. CASE EndAcquire(p)
    <3>1. op'[<<p, "coordinator">>] = NoOp /\ op'[<<p, "keeper">>] = k
      BY <2>3 DEF EndAcquire
    <3>2. k.kind # "release"  BY <2>3 DEF EndAcquire
    <3> QED BY <2>3, <3>1, <3>2, <1>5 DEF EndAcquire, Continue
  <2>4. CASE BeginTick(p)  BY <2>4 DEF BeginTick
  <2>5. CASE Progress(p)  BY <2>5 DEF Progress
  <2>6. CASE EndTick(p)  BY <2>6, <1>3 DEF EndTick
  <2>7. CASE BeginStop(p)  BY <2>7, <1>3 DEF BeginStop
  <2>8. CASE BeginFinalRelease(p)
    <3>1. op'[<<p, "coordinator">>] = Sent("release") /\ op'[<<p, "keeper">>] = k
      BY <2>8 DEF BeginFinalRelease
    \* The keeper's operation began before the join and is shorter than it.
    <3>2. k.kind = "none"
      BY <2>8, <1>3, TimelyAssumption DEF BeginFinalRelease, Timely
    <3> QED BY <2>8, <3>1, <3>2, <1>5 DEF BeginFinalRelease
  <2>9. CASE EndStop(p)
    <3>1. op'[<<p, "coordinator">>] = NoOp /\ op'[<<p, "keeper">>] = k
      BY <2>9 DEF EndStop
    <3> QED BY <2>9, <3>1, <1>5 DEF EndStop
  <2> QED
    BY <1>7, <2>1, <2>2, <2>3, <2>4, <2>5, <2>6, <2>7, <2>8, <2>9 DEF Coordinator
<1>8. CASE Keeper(p)
  <2>1. CASE BeginRenew(p)
    <3>1. op'[<<p, "keeper">>] = Sent("renew") /\ op'[<<p, "coordinator">>] = c
      BY <2>1 DEF BeginRenew
    <3> QED BY <2>1, <3>1, <1>5 DEF BeginRenew
  <2>2. CASE EndRenew(p)
    <3>1. op'[<<p, "keeper">>] = NoOp /\ op'[<<p, "coordinator">>] = c
      BY <2>2 DEF EndRenew
    <3> QED BY <2>2, <3>1, <1>5 DEF EndRenew, Done
  <2>3. CASE BeginWatchdogRelease(p)
    <3>1. op'[<<p, "keeper">>] = Sent("release") /\ op'[<<p, "coordinator">>] = c
      BY <2>3 DEF BeginWatchdogRelease
    <3> QED BY <2>3, <3>1, <1>5 DEF BeginWatchdogRelease
  <2>4. CASE EndWatchdogRelease(p)
    <3>1. op'[<<p, "keeper">>] = NoOp /\ op'[<<p, "coordinator">>] = c
      BY <2>4 DEF EndWatchdogRelease
    <3> QED BY <2>4, <3>1, <1>5 DEF EndWatchdogRelease
  <2> QED BY <1>8, <2>1, <2>2, <2>3, <2>4 DEF Keeper
<1>9. CASE Environment(p)
  <2>1. CASE Crash(p)  BY <2>1 DEF Crash
  <2>2. ASSUME NEW r \in Role, OrphanEnds(p, r) PROVE Threads(p)'
    <3>1. op'[<<p, r>>] = NoOp /\ \A s \in Role : s # r => op'[<<p, s>>] = op[<<p, s>>]
      BY <2>2 DEF OrphanEnds
    <3> QED BY <2>2, <3>1, <1>5 DEF OrphanEnds, Role
  <2> QED BY <1>9, <2>1, <2>2 DEF Environment
<1> QED BY <1>6, <1>7, <1>8, <1>9 DEF Step

\* Every step keeps the threads of every process in order.
LEMMA ThreadInvNext == TypeOK /\ ThreadInv /\ Recent /\ [Next]_vars => ThreadInv'
<1> SUFFICES ASSUME TypeOK, ThreadInv, Recent, [Next]_vars, NEW q \in Proc
             PROVE  Threads(q)'
  BY DEF ThreadInv
<1>1. ASSUME NEW p \in Proc, Step(p) PROVE Threads(q)'
  <2>1. CASE p = q  BY <1>1, <2>1, ThreadsStep
  <2>2. CASE p # q
    BY <1>1, <2>2, Frame DEF ThreadInv, Threads, InFlight, Role
  <2> QED BY <2>1, <2>2
<1>2. CASE Tick \/ UNCHANGED vars
  BY <1>2 DEF Tick, vars, ThreadInv, Threads, InFlight
<1> QED BY <1>1, <1>2 DEF Next, Step

----------------------------------------------------------------------------
(* Every operation in flight is recent.                                    *)

\* No operation outlives MaxDelay: time waits for it.
LEMMA RecentNext == TypeOK /\ Recent /\ [Next]_vars => Recent'
<1> SUFFICES ASSUME TypeOK, Recent, [Next]_vars, NEW q \in Proc, NEW s \in Role, InFlight(q, s)'
             PROVE  (op[<<q, s>>].started <= now /\ now <= op[<<q, s>>].started + MaxDelay)'
  BY DEF Recent
<1>1. /\ op \in [Proc \X Role -> Op] /\ now \in Nat /\ MaxDelay \in Nat
      /\ op[<<q, s>>].started \in Nat
  BY LeaseAssumption DEF TypeOK, Op
<1>2. ASSUME op'[<<q, s>>].kind = op[<<q, s>>].kind, op'[<<q, s>>].started = op[<<q, s>>].started,
             now' = now
      PROVE  (op[<<q, s>>].started <= now /\ now <= op[<<q, s>>].started + MaxDelay)'
  BY <1>2 DEF Recent, InFlight
<1>3. ASSUME NEW p \in Proc, Database(p)
      PROVE  (op[<<q, s>>].started <= now /\ now <= op[<<q, s>>].started + MaxDelay)'
  BY <1>2, <1>3, DatabaseEffect, Frame DEF Step
<1>4. ASSUME now' = now, NEW p \in Proc, NEW r \in Role, NEW o \in {NoOp} \union {Sent(kind) : kind \in Kind},
             op' = [op EXCEPT ![<<p, r>>] = o]
      PROVE  (op[<<q, s>>].started <= now /\ now <= op[<<q, s>>].started + MaxDelay)'
  <2>1. CASE <<p, r>> = <<q, s>>
    <3>1. op'[<<q, s>>] = o  BY <1>1, <1>4, <2>1
    <3>2. o # NoOp  BY <3>1 DEF InFlight, NoOp
    <3>3. o.started = now  BY <1>4, <3>2 DEF Sent
    <3> QED BY <1>1, <1>4, <3>1, <3>3
  <2>2. CASE <<p, r>> # <<q, s>>
    <3>1. op'[<<q, s>>] = op[<<q, s>>]  BY <1>1, <1>4, <2>2
    <3> QED BY <1>2, <1>4, <3>1
  <2> QED BY <2>1, <2>2
<1>5. ASSUME NEW p \in Proc, Coordinator(p) \/ Keeper(p) \/ Environment(p)
      PROVE  (op[<<q, s>>].started <= now /\ now <= op[<<q, s>>].started + MaxDelay)'
  <2>1. now' = now  BY <1>5, FrameClock DEF Step
  <2>2. \/ UNCHANGED op
        \/ \E r \in Role, o \in {NoOp} \union {Sent(kind) : kind \in Kind} :
             op' = [op EXCEPT ![<<p, r>>] = o]
    BY <1>5 DEF Coordinator, Start, BeginAcquire, EndAcquire, BeginTick, Progress, EndTick,
                BeginStop, BeginFinalRelease, EndStop, Keeper, BeginRenew, EndRenew,
                BeginWatchdogRelease, EndWatchdogRelease, Environment, Crash, OrphanEnds, Role, Kind
  <2> QED BY <1>2, <1>4, <2>1, <2>2
<1>6. CASE Tick
  BY <1>1, <1>6 DEF Tick, Recent, InFlight
<1>7. CASE UNCHANGED vars
  BY <1>2, <1>7 DEF vars
<1> QED BY <1>3, <1>5, <1>6, <1>7 DEF Next

----------------------------------------------------------------------------
(* What backs a leader.                                                    *)

\* No other process takes a row away that backs a validity still running,
\* and none but its owner touches it.
LEMMA RowKept ==
  ASSUME TypeOK, Recent, NEW p \in Proc, Step(p), NEW q \in Proc, p # q,
         NEW valid \in Int, Backed(q, valid), now < valid
  PROVE  row' = row
<1>1. /\ now \in Nat /\ row.expires \in Int /\ row.holder = q /\ q # NoProc
      /\ skew[p] \in 0 .. MaxSkew /\ skew[q] \in Nat
      /\ MaxSkew \in Nat /\ MaxDelay \in Nat /\ Renew \in Nat
      /\ \A r \in Role : op[<<p, r>>].started \in Nat
  BY LeaseAssumption DEF TypeOK, Op, Backed, OwnRow
<1>2. row.expires + MaxDelay >= valid + Renew + skew[q]
  BY DEF Backed
<1>3. \A r \in Role : InFlight(p, r) => ~ Takeable(p, op[<<p, r>>].started)
  <2> SUFFICES ASSUME NEW r \in Role, InFlight(p, r)
               PROVE  ~ Takeable(p, op[<<p, r>>].started)
    OBVIOUS
  <2>1. op[<<p, r>>].started <= now  BY DEF Recent
  <2>2. MaxDelay + MaxSkew <= Renew  BY TimelyAssumption DEF Timely
  <2> QED BY <1>1, <1>2, <2>1, <2>2 DEF Takeable, OwnRow, Wall
<1>4. ~ NoRow /\ ~ OwnRow(p)  BY <1>1 DEF NoRow, OwnRow
<1>5. CASE Database(p)
  BY <1>3, <1>4, <1>5 DEF Database, ExecAcquire, ExecInsert, ExecRenew, ExecRelease, DbError,
                          InFlight, Role
<1>6. CASE Coordinator(p)
  BY <1>6 DEF Coordinator, Start, BeginAcquire, EndAcquire, BeginTick, Progress, EndTick,
              BeginStop, BeginFinalRelease, EndStop
<1>7. CASE Keeper(p)
  BY <1>7 DEF Keeper, BeginRenew, EndRenew, BeginWatchdogRelease, EndWatchdogRelease
<1>8. CASE Environment(p)
  BY <1>8 DEF Environment, Crash, OrphanEnds
<1> QED BY <1>5, <1>6, <1>7, <1>8 DEF Step

\* A write of p's own lease backs everything p was granted before it.
LEMMA RowWritten ==
  ASSUME TypeOK, Recent, NEW p \in Proc, NEW r \in Role, InFlight(p, r),
         row' = RowFor(p, op[<<p, r>>].started), now' = now, skew' = skew,
         NEW valid \in Int, valid <= now + Lease - Renew
  PROVE  Backed(p, valid)'
<1>1. /\ now \in Nat /\ skew[p] \in Nat /\ op[<<p, r>>].started \in Nat
      /\ Lease \in Nat /\ Renew \in Nat /\ MaxDelay \in Nat
  BY LeaseAssumption DEF TypeOK, Op
<1>2. now <= op[<<p, r>>].started + MaxDelay  BY DEF Recent
<1>3. row'.holder = p /\ row'.expires = op[<<p, r>>].started + skew[p] + Lease
  BY DEF RowFor, Wall
<1> QED BY <1>1, <1>2, <1>3 DEF Backed, OwnRow

\* A statement of any process leaves the leadership of every process backed.
LEMMA BackedDatabase ==
  ASSUME TypeOK, ThreadInv, Recent, BackedInv, NEW p \in Proc, Database(p)
  PROVE  BackedProc(p)'
<1>1. /\ now' = now /\ skew' = skew /\ validUntil' = validUntil /\ pc' = pc
      /\ \A r \in Role : /\ op'[<<p, r>>].kind = op[<<p, r>>].kind
                         /\ op'[<<p, r>>].started = op[<<p, r>>].started
  BY DatabaseEffect
<1>2. BackedProc(p)  BY DEF BackedInv
<1>3. validUntil'[p] <= now' + Lease - Renew  BY <1>1, <1>2 DEF BackedProc
<1>4. /\ op \in [Proc \X Role -> Op] /\ validUntil[p] \in Int /\ now \in Nat
      /\ "coordinator" \in Role /\ "keeper" \in Role
      /\ \A r \in Role : op[<<p, r>>].started \in Nat /\ Granted(op[<<p, r>>].started) \in Int
      /\ \A r \in Role : InFlight(p, r) => Granted(op[<<p, r>>].started) <= now + Lease - Renew
  BY LeaseArithmetic DEF TypeOK, Op, Role, Recent, Granted
\* Either the row is written for p, or no promise is added and the row stays.
<1>5. ASSUME NEW r \in Role, InFlight(p, r), row' = RowFor(p, op[<<p, r>>].started)
      PROVE  BackedProc(p)'
  <2>1. \A valid \in Int : valid <= now + Lease - Renew => Backed(p, valid)'
    BY <1>1, <1>5, RowWritten
  <2>2. \A s \in Role : Promise(p, s)' => InFlight(p, s)
    BY <1>1 DEF Promise, InFlight
  <2>3. Backed(p, validUntil[p])'  BY <1>1, <1>3, <1>4, <2>1
  <2>4. \A s \in Role : Promise(p, s)' => Backed(p, Granted(op[<<p, s>>].started))'
    BY <1>1, <1>4, <2>1, <2>2 DEF Granted, Backed
  <2> QED BY <1>3, <2>3, <2>4 DEF BackedProc
<1>6. ASSUME row' = row, \A s \in Role : Promise(p, s)' => Promise(p, s)
      PROVE  BackedProc(p)'
  BY <1>1, <1>2, <1>6 DEF BackedProc, Backed, Granted, OwnRow
<1>7. ASSUME NEW r \in Role, NEW stage \in {"insert", "denied", "failed"}, Answer(p, r, stage)
      PROVE  \A s \in Role : Promise(p, s)' => Promise(p, s)
  <2>1. op'[<<p, r>>].stage # "granted"
    BY <1>4, <1>7, AnswerEffect DEF Outcome
  <2>2. \A s \in Role : s # r => op'[<<p, s>>] = op[<<p, s>>]
    BY <1>4, <1>7, AnswerEffect DEF Outcome
  <2> QED BY <2>1, <2>2 DEF Promise
<1>8. CASE ExecAcquire(p)
  BY <1>4, <1>5, <1>6, <1>7, <1>8 DEF ExecAcquire, InFlight
<1>9. CASE ExecInsert(p)
  BY <1>4, <1>5, <1>6, <1>7, <1>9 DEF ExecInsert, InFlight
<1>10. CASE ExecRenew(p)
  BY <1>4, <1>5, <1>6, <1>7, <1>10 DEF ExecRenew, InFlight
<1>11. ASSUME NEW r \in Role, DbError(p, r) PROVE BackedProc(p)'
  BY <1>6, <1>7, <1>11 DEF DbError
\* A process that still loops and has a release in flight is promised nothing.
<1>12. ASSUME NEW r \in Role, ExecRelease(p, r) PROVE BackedProc(p)'
  <2>1. Threads(p) /\ op[<<p, r>>].kind = "release"
    BY <1>12 DEF ThreadInv, ExecRelease
  <2>2. pc[p] \in Looping =>
          /\ r = "keeper" /\ validUntil[p] = 0 /\ pc[p] # "acquire"
          /\ op[<<p, "coordinator">>].kind \notin {"acquire", "renew"}
    BY <2>1 DEF Threads, Looping, Role
  <2>3. pc[p] \in Looping => \A s \in Role : ~ Promise(p, s)'
    BY <1>1, <2>1, <2>2 DEF Promise, Role
  <2>4. pc[p] \in Looping => Backed(p, validUntil[p])'
    BY <1>1, <1>4, <2>2 DEF Backed
  <2> QED BY <1>1, <1>3, <2>3, <2>4 DEF BackedProc
<1> QED BY <1>8, <1>9, <1>10, <1>11, <1>12 DEF Database

\* The threads of p only set a validity that the row backs already.
LEMMA BackedThreads ==
  ASSUME TypeOK, ThreadInv, Recent, BackedInv, NEW p \in Proc,
         Coordinator(p) \/ Keeper(p) \/ Environment(p)
  PROVE  BackedProc(p)'
<1> DEFINE c == op[<<p, "coordinator">>]
           k == op[<<p, "keeper">>]
<1>1. /\ op \in [Proc \X Role -> Op] /\ validUntil \in [Proc -> Int] /\ pc \in [Proc -> Control]
      /\ now \in Nat /\ "coordinator" \in Role /\ "keeper" \in Role
      /\ c \in Op /\ k \in Op /\ c.started \in Nat /\ k.started \in Nat
      /\ 0 <= now + Lease - Renew /\ now + Lease - Renew \in Int
      /\ ~ (now < 0)
  BY LeaseArithmetic DEF TypeOK, Role, Op
<1>2. BackedProc(p) /\ Threads(p)  BY DEF BackedInv, ThreadInv
<1>3. now' = now /\ skew' = skew  BY FrameClock DEF Step
<1>4. row' = row
  BY DEF Coordinator, Start, BeginAcquire, EndAcquire, BeginTick, Progress, EndTick, BeginStop,
         BeginFinalRelease, EndStop, Keeper, BeginRenew, EndRenew, BeginWatchdogRelease,
         EndWatchdogRelease, Environment, Crash, OrphanEnds
<1>5. \A valid : Backed(p, valid) => Backed(p, valid)'
  BY <1>3, <1>4 DEF Backed, OwnRow
\* An operation begun or ended promises nothing; the others promise what they did.
<1>6. \A s \in Role : Promise(p, s)' => Promise(p, s) /\ op'[<<p, s>>] = op[<<p, s>>]
  <2>1. ASSUME NEW r \in Role, NEW o \in {NoOp} \union {Sent(kind) : kind \in Kind},
               op' = [op EXCEPT ![<<p, r>>] = o]
        PROVE  \A s \in Role : Promise(p, s)' => Promise(p, s) /\ op'[<<p, s>>] = op[<<p, s>>]
    <3>1. op'[<<p, r>>] = o /\ o.stage = "sent"
      BY <1>1, <2>1 DEF NoOp, Sent
    <3>2. \A s \in Role : s # r => op'[<<p, s>>] = op[<<p, s>>]
      BY <1>1, <2>1
    <3> QED BY <3>1, <3>2 DEF Promise
  <2>2. \/ UNCHANGED op
        \/ \E r \in Role, o \in {NoOp} \union {Sent(kind) : kind \in Kind} :
             op' = [op EXCEPT ![<<p, r>>] = o]
    BY DEF Coordinator, Start, BeginAcquire, EndAcquire, BeginTick, Progress, EndTick,
           BeginStop, BeginFinalRelease, EndStop, Keeper, BeginRenew, EndRenew,
           BeginWatchdogRelease, EndWatchdogRelease, Environment, Crash, OrphanEnds, Role, Kind
  <2> QED BY <2>1, <2>2 DEF Promise
<1>7. ASSUME /\ validUntil'[p] <= now + Lease - Renew
             /\ pc'[p] \in Looping => pc[p] \in Looping /\ Backed(p, validUntil'[p])
      PROVE  BackedProc(p)'
  <2>1. pc'[p] \in Looping =>
          \A r \in Role : Promise(p, r)' => Backed(p, Granted(op[<<p, r>>].started))'
    BY <1>2, <1>3, <1>4, <1>6, <1>7 DEF BackedProc, Backed, Granted, OwnRow
  <2>2. pc'[p] \in Looping => Backed(p, validUntil[p])'
    BY <1>3, <1>4, <1>7 DEF Backed, OwnRow
  <2> QED BY <1>3, <1>7, <2>1, <2>2 DEF BackedProc
<1>8. CASE validUntil'[p] = validUntil[p] /\ (pc'[p] \in Looping => pc[p] \in Looping)
  BY <1>2, <1>7, <1>8 DEF BackedProc
<1>9. CASE validUntil'[p] = 0 /\ (pc'[p] \in Looping => pc[p] \in Looping)
  BY <1>1, <1>7, <1>9 DEF Backed
<1>10. CASE Coordinator(p)
  <2>1. CASE Start(p)
    <3>1. validUntil'[p] = 0 /\ validUntil[p] = 0 /\ \A r \in Role : ~ Promise(p, r)
      BY <1>1, <1>2, <2>1 DEF Start, Threads, Promise, InFlight, Role
    <3>2. \A r \in Role : ~ Promise(p, r)'  BY <1>6, <3>1
    <3> QED BY <1>1, <1>3, <3>1, <3>2 DEF BackedProc, Backed
  <2>2. CASE EndAcquire(p)
    <3>1. pc[p] \in Looping  BY <2>2 DEF EndAcquire, Looping
    <3>2. CASE c.stage = "granted"
      <4>1. validUntil'[p] = Granted(c.started)  BY <1>1, <2>2, <3>2 DEF EndAcquire
      <4>2. Promise(p, "coordinator") /\ InFlight(p, "coordinator")
        BY <1>1, <1>2, <2>2, <3>2 DEF EndAcquire, Done, Promise, InFlight, Threads, Op, Kind
      <4>3. Backed(p, Granted(c.started))  BY <1>1, <1>2, <3>1, <4>2 DEF BackedProc
      <4>4. Granted(c.started) <= now + Lease - Renew
        BY <1>1, <4>2, LeaseArithmetic DEF Recent, Granted
      <4> QED BY <1>7, <3>1, <4>1, <4>3, <4>4
    <3>3. CASE c.stage # "granted"
      BY <1>1, <1>8, <2>2, <3>1, <3>3 DEF EndAcquire
    <3> QED BY <3>2, <3>3
  <2>3. CASE BeginFinalRelease(p)
    BY <1>1, <1>9, <2>3 DEF BeginFinalRelease, Looping
  <2>4. CASE BeginAcquire(p) \/ BeginTick(p) \/ Progress(p) \/ EndTick(p) \/ BeginStop(p) \/ EndStop(p)
    BY <1>1, <1>8, <2>4
    DEF BeginAcquire, BeginTick, Progress, EndTick, BeginStop, EndStop, Looping
  <2> QED BY <1>10, <2>1, <2>2, <2>3, <2>4 DEF Coordinator
<1>11. CASE Keeper(p)
  <2>1. CASE EndRenew(p)
    <3>1. pc'[p] = pc[p]  BY <2>1 DEF EndRenew
    <3>2. CASE k.stage = "granted"
      <4>1. validUntil'[p] = Granted(k.started)  BY <1>1, <2>1, <3>2 DEF EndRenew
      <4>2. Promise(p, "keeper") /\ InFlight(p, "keeper")
        BY <2>1, <3>2 DEF EndRenew, Done, Promise
      <4>3. pc[p] \in Looping => Backed(p, Granted(k.started))
        BY <1>1, <1>2, <4>2 DEF BackedProc
      <4>4. Granted(k.started) <= now + Lease - Renew
        BY <1>1, <4>2, LeaseArithmetic DEF Recent, Granted
      <4> QED BY <1>7, <3>1, <4>1, <4>3, <4>4
    <3>3. CASE k.stage = "denied"
      BY <1>1, <1>9, <2>1, <3>1, <3>3 DEF EndRenew
    <3>4. CASE k.stage = "failed"
      BY <1>1, <1>8, <2>1, <3>1, <3>4 DEF EndRenew
    <3> QED BY <2>1, <3>2, <3>3, <3>4 DEF EndRenew, Done, Outcome
  <2>2. CASE BeginWatchdogRelease(p)
    BY <1>1, <1>9, <2>2 DEF BeginWatchdogRelease
  <2>3. CASE BeginRenew(p) \/ EndWatchdogRelease(p)
    BY <1>1, <1>8, <2>3 DEF BeginRenew, EndWatchdogRelease
  <2> QED BY <1>11, <2>1, <2>2, <2>3 DEF Keeper
<1>12. CASE Environment(p)
  BY <1>1, <1>8, <1>9, <1>12 DEF Environment, Crash, OrphanEnds, Looping
<1> QED BY <1>10, <1>11, <1>12

\* Leadership stays backed by the row in every step.
LEMMA BackedInvNext ==
  TypeOK /\ ThreadInv /\ Recent /\ BackedInv /\ [Next]_vars => BackedInv'
<1> SUFFICES ASSUME TypeOK, ThreadInv, Recent, BackedInv, [Next]_vars, NEW q \in Proc
             PROVE  BackedProc(q)'
  BY DEF BackedInv
<1>1. /\ BackedProc(q) /\ validUntil[q] \in Int /\ now \in Nat
      /\ \A r \in Role : Granted(op[<<q, r>>].started) \in Int
  BY LeaseArithmetic DEF BackedInv, TypeOK, Op, Granted
<1>2. ASSUME NEW p \in Proc, Step(p) PROVE BackedProc(q)'
  <2>1. CASE p = q
    BY <1>2, <2>1, BackedDatabase, BackedThreads DEF Step
  <2>2. CASE p # q
    <3>1. /\ pc'[q] = pc[q] /\ validUntil'[q] = validUntil[q]
          /\ \A r \in Role : op'[<<q, r>>] = op[<<q, r>>]
          /\ now' = now /\ skew' = skew
      BY <1>2, <2>2, Frame, FrameClock
    <3>2. \A valid \in Int : Backed(q, valid) => Backed(q, valid)'
      BY <1>2, <2>2, <3>1, RowKept DEF Backed, OwnRow
    <3>3. pc'[q] \in Looping => Backed(q, validUntil[q])'
      BY <1>1, <3>1, <3>2 DEF BackedProc, Backed, OwnRow
    <3>4. pc'[q] \in Looping =>
            \A r \in Role : Promise(q, r)' => Backed(q, Granted(op[<<q, r>>].started))'
      BY <1>1, <3>1, <3>2 DEF BackedProc, Promise, Granted, Backed, OwnRow
    <3> QED BY <1>1, <3>1, <3>3, <3>4 DEF BackedProc
  <2> QED BY <2>1, <2>2
<1>3. CASE Tick
  BY <1>1, <1>3, LeaseArithmetic DEF Tick, BackedProc, Backed, Promise, Granted, OwnRow
<1>4. CASE UNCHANGED vars
  BY <1>1, <1>4 DEF vars, BackedProc, Backed, Promise, Granted, OwnRow
<1> QED BY <1>2, <1>3, <1>4 DEF Next, Step

----------------------------------------------------------------------------
(* A released lease stays released; no lease outruns the clock by more     *)
(* than its length.                                                        *)

\* What p itself writes into the row
LEMMA RowOfOwner ==
  ASSUME TypeOK, NEW p \in Proc, Step(p), row' # row
  PROVE  \E r \in Role :
           /\ InFlight(p, r) /\ pc' = pc
           /\ \/ op[<<p, r>>].kind # "release" /\ row' = RowFor(p, op[<<p, r>>].started)
              \/ op[<<p, r>>].kind = "release" /\ row'.holder = p
                   /\ row'.expires = Wall(p, op[<<p, r>>].started) - 1
<1>1. CASE Database(p)
  BY <1>1 DEF Database, ExecAcquire, ExecInsert, ExecRenew, ExecRelease, DbError, InFlight, Role
<1>2. CASE Coordinator(p)
  BY <1>2 DEF Coordinator, Start, BeginAcquire, EndAcquire, BeginTick, Progress, EndTick,
              BeginStop, BeginFinalRelease, EndStop
<1>3. CASE Keeper(p)
  BY <1>3 DEF Keeper, BeginRenew, EndRenew, BeginWatchdogRelease, EndWatchdogRelease
<1>4. CASE Environment(p)
  BY <1>4 DEF Environment, Crash, OrphanEnds
<1> QED BY <1>1, <1>2, <1>3, <1>4 DEF Step

\* A step of another process does not make the row q's.
LEMMA RowForOthers ==
  ASSUME TypeOK, NEW p \in Proc, Step(p), NEW q \in Proc, p # q, OwnRow(q)'
  PROVE  row' = row
<1> SUFFICES ASSUME row' # row PROVE FALSE  OBVIOUS
<1>1. \E r \in Role : row' = RowFor(p, op[<<p, r>>].started) \/ row'.holder = p
  BY RowOfOwner
<1>2. row'.holder = p  BY <1>1 DEF RowFor
<1> QED BY <1>2 DEF OwnRow

\* No step pushes the expiry further than one lease ahead.
LEMMA LockoutNext == TypeOK /\ Recent /\ BoundedLockout /\ [Next]_vars => BoundedLockout'
<1> SUFFICES ASSUME TypeOK, Recent, BoundedLockout, [Next]_vars, NEW q \in Proc, OwnRow(q)'
             PROVE  (row.expires <= Wall(q, now) + Lease)'
  BY DEF BoundedLockout
<1>1. /\ now \in Nat /\ skew[q] \in Nat /\ Lease \in Nat /\ row.expires \in Int
      /\ \A r \in Role : op[<<q, r>>].started \in Nat
      /\ \A r \in Role : InFlight(q, r) => op[<<q, r>>].started <= now
  BY LeaseAssumption DEF TypeOK, Op, Recent
<1>2. ASSUME now' \in Nat, now <= now', skew' = skew, row' = row
      PROVE  (row.expires <= Wall(q, now) + Lease)'
  BY <1>1, <1>2 DEF BoundedLockout, OwnRow, Wall
<1>3. ASSUME NEW p \in Proc, Step(p)
      PROVE  (row.expires <= Wall(q, now) + Lease)'
  <2>1. now' = now /\ skew' = skew  BY <1>3, FrameClock
  <2>2. CASE row' = row  BY <1>1, <1>2, <2>1, <2>2
  <2>3. CASE row' # row
    <3>1. p = q  BY <1>3, <2>3, RowForOthers
    <3>2. PICK r \in Role :
            /\ InFlight(q, r)
            /\ \/ row' = RowFor(q, op[<<q, r>>].started)
               \/ row'.expires = Wall(q, op[<<q, r>>].started) - 1
      BY <1>3, <2>3, <3>1, RowOfOwner
    <3>3. row'.expires <= op[<<q, r>>].started + skew[q] + Lease
      BY <1>1, <3>2 DEF RowFor, Wall
    <3>4. row'.expires \in Int  BY NextType DEF TypeOK
    <3> QED BY <1>1, <2>1, <3>2, <3>3, <3>4 DEF Wall
  <2> QED BY <2>2, <2>3
<1>4. CASE Tick  BY <1>1, <1>2, <1>4 DEF Tick
<1>5. CASE UNCHANGED vars  BY <1>1, <1>2, <1>5 DEF vars
<1> QED BY <1>3, <1>4, <1>5 DEF Next, Step

\* A released row stays expired until another process takes it.
LEMMA ReleasedNext ==
  TypeOK /\ ThreadInv /\ Recent /\ ReleasedInv /\ [Next]_vars => ReleasedInv'
<1> SUFFICES ASSUME TypeOK, ThreadInv, Recent, ReleasedInv, [Next]_vars, NEW q \in Proc,
                    (pc[q] = "stopped" \/ (pc[q] = "release" /\ op[<<q, "coordinator">>].stage \in {"granted", "denied"}))',
                    OwnRow(q)'
             PROVE  (row.expires < Wall(q, now))'
  BY DEF ReleasedInv, ReleasedProc
<1> DEFINE c == op[<<q, "coordinator">>]
<1>1. /\ now \in Nat /\ skew[q] \in Nat /\ row.expires \in Int
      /\ op \in [Proc \X Role -> Op] /\ pc \in [Proc -> Control]
      /\ "coordinator" \in Role /\ c \in Op
      /\ \A r \in Role : op[<<q, r>>].started \in Nat
      /\ \A r \in Role : InFlight(q, r) => op[<<q, r>>].started <= now
  BY DEF TypeOK, Op, Recent, Role
<1>2. Threads(q)  BY DEF ThreadInv
<1>3. ASSUME now' \in Nat, now <= now', skew' = skew, row' = row,
             pc[q] = "stopped" \/ (pc[q] = "release" /\ c.stage \in {"granted", "denied"})
      PROVE  (row.expires < Wall(q, now))'
  BY <1>1, <1>3 DEF ReleasedInv, ReleasedProc, OwnRow, Wall
<1>4. ASSUME NEW p \in Proc, Step(p), p # q
      PROVE  (row.expires < Wall(q, now))'
  <2>1. /\ now' = now /\ skew' = skew /\ row' = row /\ pc'[q] = pc[q]
        /\ op'[<<q, "coordinator">>] = c
    BY <1>1, <1>4, FrameClock, RowForOthers, Frame
  <2> QED BY <1>1, <1>3, <2>1
<1>5. ASSUME Step(q), row' # row
      PROVE  (row.expires < Wall(q, now))'
  <2>1. PICK r \in Role :
          /\ InFlight(q, r) /\ pc' = pc
          /\ \/ op[<<q, r>>].kind # "release" /\ row' = RowFor(q, op[<<q, r>>].started)
             \/ op[<<q, r>>].kind = "release" /\ row'.holder = q
                  /\ row'.expires = Wall(q, op[<<q, r>>].started) - 1
    BY <1>5, RowOfOwner
  <2>2. op[<<q, r>>].kind = "release"
    BY <1>1, <1>2, <2>1 DEF Threads, Role, InFlight, Op, Kind
  <2> QED BY <1>1, <1>5, <2>1, <2>2, FrameClock DEF Wall
<1>6. ASSUME Step(q), row' = row
      PROVE  (row.expires < Wall(q, now))'
  <2>1. now' = now /\ skew' = skew  BY <1>6, FrameClock
  <2>2. CASE Database(q)
    <3>1. CASE pc[q] = "stopped" \/ c.stage \in {"granted", "denied"}
      BY <1>1, <1>3, <1>6, <2>1, <2>2, <3>1, DatabaseEffect
    <3>2. CASE pc[q] = "release" /\ c.stage \notin {"granted", "denied"}
      <4>1. ExecRelease(q, "coordinator")
        BY <1>1, <1>2, <2>2, <3>2, AnswerEffect
        DEF Database, ExecAcquire, ExecInsert, ExecRenew, ExecRelease, DbError, Threads, Outcome, Role
      <4> QED BY <1>1, <1>2, <1>6, <2>1, <3>2, <4>1 DEF ExecRelease, OwnRow, Wall, Threads, InFlight
    <3> QED BY <2>2, <3>1, <3>2, DatabaseEffect
  <2>3. CASE Coordinator(q)
    <3>1. CASE EndStop(q)
      <4>1. pc[q] = "release" /\ c.stage \in {"granted", "denied"}
        BY <1>1, <3>1 DEF EndStop, Done, Outcome
      <4> QED BY <1>1, <1>3, <1>6, <2>1, <4>1
    <3>2. CASE BeginFinalRelease(q)
      BY <1>1, <3>2 DEF BeginFinalRelease, Sent
    <3> QED
      BY <1>1, <2>3, <3>1, <3>2
      DEF Coordinator, Start, BeginAcquire, EndAcquire, Continue, BeginTick, Progress, EndTick, BeginStop
  <2>4. CASE Keeper(q)
    <3>1. pc' = pc /\ op'[<<q, "coordinator">>] = c
      BY <1>1, <2>4 DEF Keeper, BeginRenew, EndRenew, BeginWatchdogRelease, EndWatchdogRelease
    <3> QED BY <1>1, <1>3, <1>6, <2>1, <3>1
  <2>5. CASE Environment(q)
    BY <1>1, <2>5 DEF Environment, Crash, OrphanEnds
  <2> QED BY <1>6, <2>2, <2>3, <2>4, <2>5 DEF Step
<1>7. CASE Tick  BY <1>1, <1>3, <1>7 DEF Tick
<1>8. CASE UNCHANGED vars  BY <1>1, <1>3, <1>8 DEF vars
<1> QED BY <1>4, <1>5, <1>6, <1>7, <1>8 DEF Next, Step

----------------------------------------------------------------------------
(* The theorems.                                                           *)

\* The inductive invariant holds at first ...
LEMMA InitInv == Init => IInv
<1> SUFFICES ASSUME Init PROVE IInv  OBVIOUS
<1>1. TypeOK  BY InitType
<1>2. \A p \in Proc, r \in Role : op[<<p, r>>] = NoOp
  BY DEF Init
<1>3. \A p \in Proc : pc[p] = "down" /\ validUntil[p] = 0  BY DEF Init
<1>4. ThreadInv
  <2> SUFFICES ASSUME NEW p \in Proc PROVE Threads(p)  BY DEF ThreadInv
  <2>1. op[<<p, "coordinator">>].kind = "none" /\ op[<<p, "keeper">>].kind = "none"
    BY <1>2 DEF NoOp, Role
  <2>2. pc[p] = "down" /\ validUntil[p] = 0  BY <1>3
  <2> QED BY <2>1, <2>2 DEF Threads, InFlight, Looping
<1>5. Recent  BY <1>2 DEF Recent, InFlight, NoOp
<1>6. BackedInv
  <2>1. now = 0  BY DEF Init
  <2>2. 0 <= 0 + Lease - Renew  BY LeaseArithmetic
  <2>3. \A p \in Proc : pc[p] \notin Looping  BY <1>3 DEF Looping
  <2> QED BY <1>3, <2>1, <2>2, <2>3 DEF BackedInv, BackedProc
<1>7. ReleasedInv  BY <1>3 DEF ReleasedInv, ReleasedProc
<1>8. BoundedLockout
  BY LeaseAssumption DEF Init, BoundedLockout, OwnRow
<1> QED BY <1>1, <1>4, <1>5, <1>6, <1>7, <1>8 DEF IInv

\* ... and after every step.
LEMMA NextInv == IInv /\ [Next]_vars => IInv'
BY NextType, ThreadInvNext, RecentNext, BackedInvNext, ReleasedNext, LockoutNext DEF IInv

(***************************************************************************)
(* The type invariant of the election.                                     *)
(***************************************************************************)
THEOREM TypeCorrect == Spec => []TypeOK
<1>1. Init => TypeOK  BY InitType
<1>2. TypeOK /\ [Next]_vars => TypeOK'  BY NextType
<1> QED BY <1>1, <1>2, PTL DEF Spec

(***************************************************************************)
(* The inductive invariant holds in every reachable state.                 *)
(***************************************************************************)
THEOREM Invariance == Spec => []IInv
<1> QED BY InitInv, NextInv, PTL DEF Spec

\* A leader's row outlives its validity on every wall clock.
LEMMA BackedLeader == IInv => StepsDownFirst
<1> SUFFICES ASSUME IInv, NEW p \in Proc, Leader(p)
             PROVE  OwnRow(p) /\ \A q \in Proc : Wall(q, now) <= row.expires
  BY DEF StepsDownFirst
<1>1. /\ now \in Nat /\ validUntil[p] \in Int /\ row.expires \in Int
      /\ MaxSkew \in Nat /\ MaxDelay \in Nat /\ Renew \in Nat
      /\ \A q \in Proc : skew[q] \in 0 .. MaxSkew
  BY LeaseAssumption DEF IInv, TypeOK
<1>2. now < validUntil[p] /\ Backed(p, validUntil[p])
  BY DEF IInv, BackedInv, BackedProc, Leader, Held
<1>3. OwnRow(p) /\ row.expires + MaxDelay >= validUntil[p] + Renew + skew[p]
  BY <1>2 DEF Backed
<1>4. MaxDelay + MaxSkew <= Renew  BY TimelyAssumption DEF Timely
<1>5. \A q \in Proc : Wall(q, now) <= row.expires
  <2> SUFFICES ASSUME NEW q \in Proc PROVE now + skew[q] <= row.expires  BY DEF Wall
  <2>1. skew[p] \in Nat /\ skew[q] \in Nat /\ skew[q] <= MaxSkew  BY <1>1
  <2> QED BY <1>1, <1>2, <1>3, <1>4, <2>1
<1> QED BY <1>3, <1>5

(***************************************************************************)
(* A leader steps down before any candidate sees its lease as expired.     *)
(***************************************************************************)
THEOREM StepDown == Spec => []StepsDownFirst
<1> QED BY Invariance, BackedLeader, PTL

(***************************************************************************)
(* There is never more than one leader.                                    *)
(***************************************************************************)
THEOREM MutualExclusion == Spec => []AtMostOneLeader
<1>1. StepsDownFirst => AtMostOneLeader
  BY DEF StepsDownFirst, AtMostOneLeader, OwnRow
<1> QED BY <1>1, StepDown, PTL

(***************************************************************************)
(* A process that has shut down cleanly leaves nothing to wait for.        *)
(***************************************************************************)
THEOREM Handover == Spec => []CleanHandover
<1>1. IInv => CleanHandover
  BY DEF IInv, ReleasedInv, ReleasedProc, CleanHandover
<1> QED BY <1>1, Invariance, PTL

(***************************************************************************)
(* Whoever crashed or hangs, the row locks nobody out for longer than a    *)
(* lease.                                                                  *)
(***************************************************************************)
THEOREM Lockout == Spec => []BoundedLockout
<1>1. IInv => BoundedLockout
  BY DEF IInv
<1> QED BY <1>1, Invariance, PTL

(***************************************************************************)
(* Leadership is never pulled away from a process that believes it leads.  *)
(***************************************************************************)
THEOREM NoTakeover == Spec => NoTakeoverFromLeader
<1> DEFINE Safe == \A p \in Proc : OwnRow(p) /\ row'.holder # p => ~ Leader(p)
<1>1. IInv /\ [Next]_vars => [Safe]_vars
  <2> SUFFICES ASSUME IInv, Next, NEW q \in Proc, OwnRow(q), row'.holder # q, Leader(q)
               PROVE  FALSE
    BY DEF Leader
  <2>1. row' # row  BY DEF OwnRow
  <2>2. PICK p \in Proc : Step(p)
    BY <2>1 DEF Next, Step, Tick
  <2>3. p # q
    <3> SUFFICES ASSUME Step(q) PROVE FALSE  BY <2>2
    <3>1. \E r \in Role : row' = RowFor(q, op[<<q, r>>].started) \/ row'.holder = q
      BY <2>1, RowOfOwner DEF IInv
    <3> QED BY <3>1 DEF RowFor
  <2>4. validUntil[q] \in Int /\ now < validUntil[q] /\ Backed(q, validUntil[q])
    BY DEF IInv, TypeOK, BackedInv, BackedProc, Leader, Held
  <2> QED BY <2>1, <2>2, <2>3, <2>4, RowKept DEF IInv
<1> QED BY <1>1, Invariance, PTL DEF Spec, NoTakeoverFromLeader

----------------------------------------------------------------------------

(***************************************************************************)
(* The election implements the abstract lease.  A leader owns the row, so  *)
(* one that follows another in a single step would have taken the row from *)
(* a leader.                                                               *)
(***************************************************************************)
THEOREM Refinement == Spec => ElectsOne
<1>1. Init => Election!LeaseInit
  BY DEF Init, Leading, Leader, Looping, Election!LeaseInit
<1> DEFINE Safe == \A p \in Proc : OwnRow(p) /\ row'.holder # p => ~ Leader(p)
<1>2. StepsDownFirst /\ StepsDownFirst' /\ AtMostOneLeader /\ AtMostOneLeader' /\ [Safe]_vars
        => [Election!LeaseNext]_Leading
  <2>1. SUFFICES ASSUME StepsDownFirst, StepsDownFirst', AtMostOneLeader, AtMostOneLeader',
                        [Safe]_vars, Leading' # Leading
                 PROVE  Election!LeaseNext
    OBVIOUS
  <2>2. /\ \A p \in Proc : p \in Leading <=> Leader(p)
        /\ \A p \in Proc : p \in Leading' <=> Leader(p)'
        /\ Leading \subseteq Proc /\ Leading' \subseteq Proc
    BY DEF Leading
  <2>3. \A p, q \in Proc : ~ (Leader(p) /\ Leader(q)' /\ p # q)
    <3> SUFFICES ASSUME NEW p \in Proc, NEW q \in Proc, Leader(p), Leader(q)', p # q PROVE FALSE
      OBVIOUS
    <3>1. row.holder = p /\ row'.holder = q  BY <2>1 DEF StepsDownFirst, OwnRow
    <3>2. Safe  BY <2>1 DEF vars, Leading, Leader, Held
    <3> QED BY <3>1, <3>2 DEF OwnRow
  <2>4. \A p, q \in Proc : (p \in Leading /\ q \in Leading => p = q)
                           /\ (p \in Leading' /\ q \in Leading' => p = q)
                           /\ (p \in Leading /\ q \in Leading' => p = q)
    BY <2>1, <2>2, <2>3 DEF AtMostOneLeader
  <2>5. CASE Leading = {}
    <3>1. PICK q \in Proc : q \in Leading'  BY <2>1, <2>2, <2>5
    <3>2. Leading' = {q}  BY <3>1, <2>2, <2>4
    <3> QED BY <2>5, <3>2 DEF Election!LeaseNext, Election!Acquire
  <2>6. CASE Leading # {}
    <3>1. PICK p \in Proc : p \in Leading  BY <2>2, <2>6
    <3>2. Leading = {p}  BY <3>1, <2>2, <2>4
    <3>3. Leading' \subseteq {p}  BY <3>1, <2>2, <2>4
    <3>4. Leading' = {}  BY <2>1, <3>2, <3>3
    <3> QED BY <3>2, <3>4 DEF Election!LeaseNext, Election!Lapse
  <2> QED BY <2>5, <2>6
<1> QED
  BY <1>1, <1>2, StepDown, MutualExclusion, NoTakeover, PTL
     DEF ElectsOne, Election!LeaseSpec, Spec, NoTakeoverFromLeader
============================================================================
