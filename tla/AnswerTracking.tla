--------------------------- MODULE AnswerTracking ---------------------------
(***************************************************************************)
(* Runs of one prompt set and their analysis: services/answer_tracking/    *)
(* (service.create_run and is_due, scheduling.run_scheduled,               *)
(* runner.execute_run, extraction.extract_for_run and                      *)
(* run_pending_extractions, gap_analysis.run_gap_analysis_for_run) with    *)
(* the requests of api/routes_answer_tracking.py that start them, and the  *)
(* runs of the answer simulator, which are kept in the same table          *)
(* (answer_simulator/batch.run_simulation_batch).                          *)
(*                                                                         *)
(* The scheduled runner and the extractor are the two phases of the        *)
(* scheduler, at most one process in each.  Each commit is an action; the  *)
(* calls to the providers lie between two of them.  Time is counted in     *)
(* days of one month.                                                      *)
(***************************************************************************)
EXTENDS Naturals, FiniteSets, FiniteSetsExt

CONSTANTS
  ATUser,        \* people who start runs and analyses by hand
  ATRuns,        \* bound of the model: runs that are ever created
  ATSimulated,   \* bound of the model: those of them that are simulated
  Frequency,     \* answer_tracking_frequency_days
  MinInterval,   \* answer_tracking_min_run_interval_hours
  MonthlyLimit,  \* answer_tracking_monthly_run_limit
  ATHorizon,     \* bound of the model: days of the month
  ATFaults,      \* bound of the model: crashes and exceptions
  ATTimely       \* {"reanalyse"}: a run is analysed again only when its answers
                 \* are stored and no other analysis of it is under way

ASSUME AnswerTrackingAssumption ==
  /\ {ATRuns, Frequency, MinInterval, MonthlyLimit} \subseteq Nat \ {0}
  /\ {ATHorizon, ATFaults, ATSimulated} \subseteq Nat /\ ATTimely \subseteq {"reanalyse"}
  /\ IsFiniteSet(ATUser) /\ ATUser \intersect {"runner", "extractor"} = {}

VARIABLES
  arun,      \* prompt_runs: mode, status, days of start and end, extraction status
  rows,      \* stored analyses of each answer of a run
  gaps,      \* stored gap analyses of each prompt of a run without a mention
  aw,        \* what each actor does
  day,
  atfaults

atVars == <<arun, rows, gaps, aw, day, atfaults>>

ARun == 1 .. ATRuns
Actor == ATUser \union {"runner", "extractor"}
Consuming == {"completed", "partial"}
RunTerminal == Consuming \union {"failed"}

NewRun == [mode |-> "provider_tracking", status |-> "none", auto |-> "no", started |-> 0, done |-> 0, ext |-> "pending"]
ATIdle == [pc |-> "idle", run |-> 0]

ATInit ==
  /\ arun = [r \in ARun |-> NewRun]
  /\ rows = [r \in ARun |-> 0] /\ gaps = [r \in ARun |-> 0]
  /\ aw = [a \in Actor |-> ATIdle]
  /\ day = 0 /\ atfaults = 0

AAt(a, pc) == aw[a].pc = pc
AGo(a, pc, r) == aw' = [aw EXCEPT ![a] = [pc |-> pc, run |-> r]]

----------------------------------------------------------------------------
(* The guards of a run: create_run, is_due.                                *)

Exists(r) == arun[r].status # "none"
\* runs_this_month and last_consuming_run do not ask for the mode of a run.
RunsThisMonth == Cardinality({r \in ARun : Exists(r)})
\* Runs that failed or have not ended do not consume.
LastConsuming == Max({r \in ARun : arun[r].status \in Consuming} \union {0})

Recently == LastConsuming # 0 /\ day < arun[LastConsuming].done + MinInterval
IsDue == LastConsuming # 0 /\ day >= arun[LastConsuming].started + Frequency

\* Wrong: an override lifts the monthly limit, too.
RefusedUnlessOverridden(override) ==
  ~ override /\ (Recently \/ RunsThisMonth >= MonthlyLimit)

\* RunRefused: only the interval can be overridden.
Refused(override) == (Recently /\ ~ override) \/ RunsThisMonth >= MonthlyLimit

AskRun(u) ==
  /\ u \in ATUser /\ AAt(u, "idle")
  /\ \E override \in BOOLEAN : ~ Refused(override)
  /\ AGo(u, "create", 0)
  /\ UNCHANGED <<arun, rows, gaps, day, atfaults>>

\* due_prompt_sets is read once, at the start of the pass.
ListDue ==
  /\ AAt("runner", "idle") /\ IsDue
  /\ AGo("runner", "guard", 0)
  /\ UNCHANGED <<arun, rows, gaps, day, atfaults>>

GuardScheduled ==
  /\ AAt("runner", "guard")
  /\ IF Refused(FALSE) THEN AGo("runner", "idle", 0) ELSE AGo("runner", "create", 0)
  /\ UNCHANGED <<arun, rows, gaps, day, atfaults>>

NextRow(r) == ~ Exists(r) /\ \A s \in 1 .. r - 1 : Exists(s)

CreateARun(a) ==
  /\ AAt(a, "create")
  /\ \E r \in ARun :
       /\ NextRow(r)
       /\ arun' = [arun EXCEPT ![r] = [NewRun EXCEPT !.status = "pending",
                                         !.auto = IF a = "runner" THEN "yes" ELSE "no"]]
       /\ AGo(a, "begin", r)
  /\ UNCHANGED <<rows, gaps, day, atfaults>>

----------------------------------------------------------------------------
(* execute_run                                                             *)

BeginARun(a) ==
  LET r == aw[a].run IN
  /\ AAt(a, "begin")
  /\ arun' = [arun EXCEPT ![r] = [@ EXCEPT !.status = "running", !.started = day]]
  /\ AGo(a, "calls", r)
  /\ UNCHANGED <<rows, gaps, day, atfaults>>

\* Every answer and the end of the run: one commit.  All calls succeeded,
\* some, or none.
EndARun(a) ==
  LET r == aw[a].run IN
  /\ AAt(a, "calls")
  /\ \E s \in RunTerminal : arun' = [arun EXCEPT ![r] = [@ EXCEPT !.status = s, !.done = day]]
  /\ AGo(a, "idle", 0)
  /\ UNCHANGED <<rows, gaps, day, atfaults>>

----------------------------------------------------------------------------
(* simulator_run: the run is committed, then simulated, with its results   *)
(* and their analyses in one commit at the end; no guard is asked.         *)

IsSimulated(r) == arun[r].mode = "simulator"

\* create_simulation_run
Simulate(u) ==
  /\ u \in ATUser /\ AAt(u, "idle") /\ Cardinality({r \in ARun : IsSimulated(r)}) < ATSimulated
  /\ \E r \in ARun :
       /\ NextRow(r)
       /\ arun' = [arun EXCEPT ![r] = [NewRun EXCEPT !.mode = "simulator", !.status = "pending"]]
       /\ AGo(u, "simulate", r)
  /\ UNCHANGED <<rows, gaps, day, atfaults>>

\* Wrong: the analyses are left to the extractor.
EndSimulationUnanalysed(u) ==
  LET r == aw[u].run IN
  /\ AAt(u, "simulate")
  /\ arun' = [arun EXCEPT ![r] = [@ EXCEPT !.status = "completed", !.started = day, !.done = day,
                                     !.ext = "complete"]]
  /\ AGo(u, "idle", 0)
  /\ UNCHANGED <<rows, gaps, day, atfaults>>

\* run_simulation_batch: every question has an answer, and every answer its analysis.
EndSimulation(u) ==
  LET r == aw[u].run IN
  /\ AAt(u, "simulate")
  /\ arun' = [arun EXCEPT ![r] = [@ EXCEPT !.status = "completed", !.started = day, !.done = day,
                                     !.ext = "complete"]]
  /\ rows' = [rows EXCEPT ![r] = @ + 1]
  /\ AGo(u, "idle", 0)
  /\ UNCHANGED <<gaps, day, atfaults>>

----------------------------------------------------------------------------
(* extract_for_run and run_gap_analysis_for_run                            *)

Analysing(r) == \E a \in Actor : aw[a].run = r /\ aw[a].pc \in {"extract", "clear", "llm", "gapclear", "gap"}
Undisturbed(r) ==
  "reanalyse" \in ATTimely => arun[r].status \in RunTerminal /\ ~ Analysing(r)

\* reanalyse_run
AskAnalysis(u, r) ==
  /\ u \in ATUser /\ AAt(u, "idle") /\ Exists(r) /\ Undisturbed(r)
  /\ arun' = [arun EXCEPT ![r].ext = "pending"]
  /\ AGo(u, "extract", r)
  /\ UNCHANGED <<rows, gaps, day, atfaults>>

\* Wrong: runs whose answers are not there yet are taken, too.
ListPendingAny(r) ==
  /\ AAt("extractor", "idle") /\ ~ Analysing(r) /\ Exists(r)
  /\ arun[r].ext = "pending"
  /\ AGo("extractor", "extract", r)
  /\ UNCHANGED <<arun, rows, gaps, day, atfaults>>

\* run_pending_extractions: a run that has ended and was not analysed
ListPending(r) ==
  /\ AAt("extractor", "idle") /\ Undisturbed(r)
  /\ arun[r].status \in RunTerminal /\ arun[r].ext = "pending"
  /\ AGo("extractor", "extract", r)
  /\ UNCHANGED <<arun, rows, gaps, day, atfaults>>

BeginAnalysis(a) ==
  /\ AAt(a, "extract")
  /\ arun' = [arun EXCEPT ![aw[a].run].ext = "running"]
  /\ AGo(a, "clear", aw[a].run)
  /\ UNCHANGED <<rows, gaps, day, atfaults>>

\* The analyses there are deleted; without a provider it ends there.
ClearRows(a) ==
  LET r == aw[a].run IN
  /\ AAt(a, "clear")
  /\ rows' = [rows EXCEPT ![r] = 0]
  /\ AGo(a, "llm", r)
  /\ UNCHANGED <<arun, gaps, day, atfaults>>

\* The answers with a body: there are some if a call succeeded.
Answered(r) == arun[r].status \in Consuming

NoProvider(a) ==
  /\ AAt(a, "llm")
  /\ arun' = [arun EXCEPT ![aw[a].run].ext = "failed"]
  /\ AGo(a, "gapclear", aw[a].run)
  /\ UNCHANGED <<rows, gaps, day, atfaults>>

StoreRows(a) ==
  LET r == aw[a].run IN
  /\ AAt(a, "llm")
  /\ rows' = [rows EXCEPT ![r] = IF Answered(r) THEN @ + 1 ELSE @]
  /\ arun' = [arun EXCEPT ![r].ext = "complete"]
  /\ AGo(a, "gapclear", r)
  /\ UNCHANGED <<gaps, day, atfaults>>

ClearGaps(a) ==
  LET r == aw[a].run IN
  /\ AAt(a, "gapclear")
  /\ gaps' = [gaps EXCEPT ![r] = 0]
  /\ AGo(a, "gap", r)
  /\ UNCHANGED <<arun, rows, day, atfaults>>

\* For every prompt that was never mentioned; or it is switched off.
StoreGaps(a) ==
  LET r == aw[a].run IN
  /\ AAt(a, "gap")
  /\ \E n \in {0, IF rows[r] > 0 THEN 1 ELSE 0} : gaps' = [gaps EXCEPT ![r] = @ + n]
  /\ AGo(a, "idle", 0)
  /\ UNCHANGED <<arun, rows, day, atfaults>>

----------------------------------------------------------------------------
(* Faults.                                                                 *)

ATFault == atfaults < ATFaults /\ atfaults' = atfaults + 1

\* An exception: the two phases record it, a request does not.
Raises(a) ==
  LET r == aw[a].run IN
  /\ r # 0 /\ ATFault
  /\ arun' = [arun EXCEPT ![r] =
       IF a = "runner" THEN [@ EXCEPT !.status = "failed", !.done = day]
       ELSE IF a = "extractor" THEN [@ EXCEPT !.ext = "failed"] ELSE @]
  /\ AGo(a, "idle", 0)
  /\ UNCHANGED <<rows, gaps, day>>

\* The process dies; nothing takes the run up again.
ATDies(a) ==
  /\ ~ AAt(a, "idle") /\ ATFault
  /\ AGo(a, "idle", 0)
  /\ UNCHANGED <<arun, rows, gaps, day>>

NextDay ==
  /\ day < ATHorizon /\ day' = day + 1
  /\ UNCHANGED <<arun, rows, gaps, aw, atfaults>>

ATWork(a) ==
  \/ CreateARun(a) \/ BeginARun(a) \/ EndARun(a)
  \/ BeginAnalysis(a) \/ ClearRows(a) \/ NoProvider(a) \/ StoreRows(a) \/ ClearGaps(a) \/ StoreGaps(a)
ATPhases == ListDue \/ GuardScheduled \/ \E r \in ARun : ListPending(r)

ATNext ==
  \/ ATPhases \/ NextDay
  \/ \E a \in Actor : ATWork(a) \/ Raises(a) \/ ATDies(a)
  \/ \E u \in ATUser : AskRun(u) \/ Simulate(u) \/ EndSimulation(u) \/ \E r \in ARun : AskAnalysis(u, r)
ATSpec == ATInit /\ [][ATNext]_atVars

----------------------------------------------------------------------------

ATTypeOK ==
  /\ arun \in [ARun -> [mode : {"provider_tracking", "simulator"}, status : {"none", "pending", "running"} \union RunTerminal, auto : {"yes", "no"},
                        started : 0 .. ATHorizon, done : 0 .. ATHorizon,
                        ext : {"pending", "running", "complete", "failed"}]]
  /\ rows \in [ARun -> Nat] /\ gaps \in [ARun -> Nat]
  /\ day \in 0 .. ATHorizon /\ atfaults \in 0 .. ATFaults

(***************************************************************************)
(* Every answer is analysed once: it never counts twice in the share of    *)
(* voice, however often its run is analysed, and a run that says its       *)
(* analysis is complete has one for each of its answers                    *)
(* (extraction.py:234-288).                                                *)
(***************************************************************************)
AnalysedOnce ==
  \A r \in ARun :
    /\ rows[r] <= 1 /\ gaps[r] <= 1
    /\ arun[r].ext = "complete" /\ arun[r].status \in RunTerminal => (rows[r] = 1 <=> Answered(r))

(***************************************************************************)
(* What a month can cost is bounded: the limit is exceeded by no more than *)
(* the runs that were checked against it at the same time, whoever         *)
(* overrides the interval (service.py:174-205).                            *)
(***************************************************************************)
RunsLimited ==
  Cardinality({r \in ARun : Exists(r) /\ ~ IsSimulated(r)}) <= MonthlyLimit + Cardinality(ATUser)

(***************************************************************************)
(* Scheduled runs are the configured number of days apart (service.py:213, *)
(* "at least ANSWER_TRACKING_FREQUENCY_DAYS have elapsed since that run    *)
(* started").                                                              *)
(***************************************************************************)
ScheduledApart ==
  \A r, s \in ARun :
    r < s /\ arun[r].auto = "yes" /\ arun[s].auto = "yes" /\ {arun[r].status, arun[s].status} \subseteq RunTerminal
      => arun[s].started >= arun[r].started + Frequency

(***************************************************************************)
(* "The very first run is manual, so a set with no prior run is never      *)
(* auto-scheduled" (service.py:216): no scheduled run before one that a    *)
(* person had the providers asked for.  A simulated run makes a set due.   *)
(***************************************************************************)
FirstRunManual ==
  \A r \in ARun : arun[r].auto = "yes" =>
    \E s \in 1 .. r - 1 : Exists(s) /\ ~ IsSimulated(s) /\ arun[s].auto = "no"

(***************************************************************************)
(* A simulated run "does not need the 72h dedup interval or 8-per-month    *)
(* cap" (answer_simulator/service.py:3-8); it does not use them up either. *)
(***************************************************************************)
SimulationIsFree ==
  RunsThisMonth >= MonthlyLimit => Cardinality({r \in ARun : Exists(r) /\ ~ IsSimulated(r)}) >= MonthlyLimit

(***************************************************************************)
(* The runs of a month stay within what was agreed, and their answers are  *)
(* analysed exactly once.                                                  *)
(***************************************************************************)
AnswerRunsSound == RunsLimited /\ AnalysedOnce
=============================================================================
