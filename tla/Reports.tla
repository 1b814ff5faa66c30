------------------------------ MODULE Reports ------------------------------
(***************************************************************************)
(* The stored reports of an organization's scans, their narratives and      *)
(* their public links: reports/service.py, shares.py, ai_writer.py and the  *)
(* routes of api/routes_reports.py and routes_public.py, with what          *)
(* billing/entitlements.py grants.                                          *)
(*                                                                         *)
(* A caller views a report, alone or with its narrative; every commit is an *)
(* action, and the call of the language model lies between two of them.  A  *)
(* scan that has not ended is reported from scratch and changes nothing.    *)
(***************************************************************************)
EXTENDS Naturals, Sequences, FiniteSets

CONSTANTS
  RScan,        \* scans of the organization
  RPCaller,     \* concurrent requests
  RPOps,        \* bound of the model: requests and outside events
  MonthlyFree,  \* ai_free_monthly_narratives
  DailyAll,     \* ai_global_daily_calls
  FreeShares,   \* free_share_limit
  RPTimely      \* "view": a report is generated by one caller at a time;
                \* "delete": a scan is deleted while nobody works on it

ASSUME ReportsAssumption ==
  /\ {MonthlyFree, DailyAll, FreeShares} \subseteq Nat \ {0}
  /\ RPOps \in Nat /\ RPTimely \subseteq {"view", "delete"} /\ IsFiniteSet(RPCaller)

VARIABLES
  rscan,    \* scans: status
  reports,  \* reports of each scan, the latest last: engine version and tier of the narrative
  engine,   \* REPORT_VERSION of the code that is deployed
  plan,     \* what the organization has paid for
  used,     \* usage_events: narratives of the month and of the day
  shares,   \* report_shares: those that resolve, and whether a free plan created them
  rp,       \* what each caller is doing
  rpops,
  told      \* history: narratives stored, by scan for this version, and free ones by month

rpVars == <<rscan, reports, engine, plan, used, shares, rp, rpops, told>>

RPIdle == [pc |-> "idle", scan |-> "none", row |-> 0, ai |-> "none",
           tier |-> "free", narrate |-> FALSE, forced |-> FALSE]

RPInit ==
  /\ rscan = [s \in RScan |-> "running"] /\ reports = [s \in RScan |-> <<>>] /\ engine = 1
  /\ plan = [pro |-> FALSE, bought |-> {}] /\ used = [month |-> 0, today |-> 0]
  /\ shares = <<>> /\ rp = [c \in RPCaller |-> RPIdle] /\ rpops = 0
  /\ told = [plain |-> [s \in RScan |-> 0], forced |-> [s \in RScan |-> 0], free |-> 0]

Step(c, pc, to) == rp[c].pc = pc /\ rp' = [rp EXCEPT ![c] = to]
Spent == rpops < RPOps /\ rpops' = rpops + 1

\* export_unlocked: Pro, or the report of this very scan was bought
Unlocked(s) == plan.pro \/ s \in plan.bought

----------------------------------------------------------------------------
(* get_or_build_report and generate_report                                 *)

\* The newest row is taken as it is if this version of the engine wrote it.
View(c, s) ==
  LET n == Len(reports[s])
      hit == n > 0 /\ reports[s][n].version = engine IN
  /\ rscan[s] = "completed" /\ Spent
  /\ "view" \in RPTimely => \A d \in RPCaller : rp[d].pc = "idle" \/ rp[d].scan # s
  /\ \E narrate \in BOOLEAN :
       Step(c, "idle", [RPIdle EXCEPT !.scan = s, !.row = n, !.narrate = narrate,
                          !.ai = IF hit THEN reports[s][n].ai ELSE "none",
                          !.pc = IF ~hit THEN "build" ELSE IF narrate THEN "gate" ELSE "idle"])
  /\ UNCHANGED <<rscan, reports, engine, plan, used, shares, told>>

\* _persist_report: the row that was found is overwritten.
Persisted(s, row, ai) ==
  LET r == [version |-> engine, ai |-> ai] IN
  IF row = 0 THEN [reports EXCEPT ![s] = Append(@, r)]
  ELSE IF row \in DOMAIN reports[s] THEN [reports EXCEPT ![s][row] = r] ELSE reports

BuildReport(c) ==
  LET s == rp[c].scan IN
  /\ Step(c, "build", [rp[c] EXCEPT !.pc = IF rp[c].narrate THEN "gate" ELSE "idle",
                                    !.row = IF @ = 0 THEN Len(reports[s]) + 1 ELSE @])
  /\ reports' = Persisted(s, rp[c].row, "none")
  /\ UNCHANGED <<rscan, engine, plan, used, shares, rpops, told>>

\* _ai_narrative: the free tier needs a verified address and has a monthly limit.
Affordable(tier, verified) ==
  used.today < DailyAll /\ (tier = "free" => verified /\ used.month < MonthlyFree)

\* Wrong: who has paid gets a new narrative at every view.
GateEachTime(c) ==
  LET tier == IF Unlocked(rp[c].scan) THEN "paid" ELSE "free" IN
  /\ \E forced, verified \in BOOLEAN :
       Step(c, "gate",
         IF (forced \/ rp[c].ai = "none" \/ tier = "paid") /\ Affordable(tier, verified)
           THEN [rp[c] EXCEPT !.pc = "call", !.tier = tier, !.forced = forced] ELSE RPIdle)
  /\ UNCHANGED <<rscan, reports, engine, plan, used, shares, rpops, told>>

\* A narrative that is stored is kept, unless a new one is forced (by an
\* administrator, or outside production), or it is a free one and was paid for.
Gate(c) ==
  LET tier == IF Unlocked(rp[c].scan) THEN "paid" ELSE "free"
      upgrade == tier = "paid" /\ rp[c].ai = "free" IN
  /\ \E forced, verified \in BOOLEAN :
       Step(c, "gate",
         IF (forced \/ rp[c].ai = "none" \/ upgrade) /\ Affordable(tier, verified)
           THEN [rp[c] EXCEPT !.pc = "call", !.tier = tier, !.forced = forced] ELSE RPIdle)
  /\ UNCHANGED <<rscan, reports, engine, plan, used, shares, rpops, told>>

\* The model answers and its answer is valid: a usage event.
Narrate(c) ==
  /\ Step(c, "call", [rp[c] EXCEPT !.pc = "store"])
  /\ used' = [month |-> used.month + 1, today |-> used.today + 1]
  /\ told' = IF rp[c].tier = "free" THEN [told EXCEPT !.free = @ + 1] ELSE told
  /\ UNCHANGED <<rscan, reports, engine, plan, shares, rpops>>

\* The scan is read again, after the commit of the usage event.
StoreNarrative(c) ==
  LET s == rp[c].scan IN
  /\ Step(c, "store", RPIdle)
  /\ rscan[s] # "gone"
  /\ reports' = Persisted(s, rp[c].row, rp[c].tier)
  /\ told' = IF rp[c].forced THEN [told EXCEPT !.forced[s] = @ + 1] ELSE [told EXCEPT !.plain[s] = @ + 1]
  /\ UNCHANGED <<rscan, engine, plan, used, shares, rpops>>

\* A call that fails or whose answer is not valid, an exception, a crash
GiveUp(c) ==
  /\ rp[c].pc # "idle" /\ rp' = [rp EXCEPT ![c] = RPIdle]
  /\ UNCHANGED <<rscan, reports, engine, plan, used, shares, rpops, told>>

----------------------------------------------------------------------------
(* Public links.                                                           *)

ActiveShares == {i \in DOMAIN shares : shares[i].live}

AskShare(c, s) ==
  /\ Step(c, "idle", [RPIdle EXCEPT !.pc = "share", !.scan = s,
                                    !.tier = IF plan.pro THEN "paid" ELSE "free"])
  /\ rscan[s] # "gone" /\ Spent
  /\ plan.pro \/ Cardinality(ActiveShares) < FreeShares
  /\ UNCHANGED <<rscan, reports, engine, plan, used, shares, told>>

CreateShare(c) ==
  /\ Step(c, "share", RPIdle)
  /\ shares' = Append(shares, [scan |-> rp[c].scan, live |-> TRUE, tier |-> rp[c].tier])
  /\ UNCHANGED <<rscan, reports, engine, plan, used, rpops, told>>

\* revoke_share, or the link expires
EndShare(i) ==
  /\ i \in ActiveShares /\ shares' = [shares EXCEPT ![i].live = FALSE]
  /\ UNCHANGED <<rscan, reports, engine, plan, used, rp, rpops, told>>

\* public_report: the persisted report of a link that resolves, never a new one
Public(i) ==
  LET rows == reports[shares[i].scan] IN
  IF i \in ActiveShares /\ rows # <<>> THEN rows[Len(rows)].ai ELSE "not found"

----------------------------------------------------------------------------
(* What happens around them.                                               *)

CompleteRScan(s) ==
  /\ rscan[s] = "running" /\ rscan' = [rscan EXCEPT ![s] = "completed"]
  /\ UNCHANGED <<reports, engine, plan, used, shares, rp, rpops, told>>

\* admin_delete_scan
DeleteScan(s) ==
  /\ rscan[s] # "gone" /\ Spent
  /\ "delete" \in RPTimely => \A c \in RPCaller : rp[c].pc = "idle" \/ rp[c].scan # s
  /\ rscan' = [rscan EXCEPT ![s] = "gone"] /\ reports' = [reports EXCEPT ![s] = <<>>]
  /\ shares' = [i \in DOMAIN shares |-> [shares[i] EXCEPT !.live = @ /\ shares[i].scan # s]]
  /\ UNCHANGED <<engine, plan, used, rp, told>>

Subscribe == /\ Spent /\ plan' = [plan EXCEPT !.pro = ~@]
             /\ UNCHANGED <<rscan, reports, engine, used, shares, rp, told>>
BuyReport(s) == /\ Spent /\ s \notin plan.bought /\ plan' = [plan EXCEPT !.bought = @ \union {s}]
                /\ UNCHANGED <<rscan, reports, engine, used, shares, rp, told>>

\* A day or a month begins.
NewPeriod ==
  /\ Spent
  /\ \E month \in {0, used.month} :
       /\ used' = [month |-> month, today |-> 0]
       /\ told' = IF month = 0 THEN [told EXCEPT !.free = 0] ELSE told
  /\ UNCHANGED <<rscan, reports, engine, plan, shares, rp>>

\* A new version of the engine: the processes start anew.
Deploy ==
  /\ Spent /\ engine' = engine + 1
  /\ rp' = [c \in RPCaller |-> RPIdle]
  /\ told' = [told EXCEPT !.plain = [s \in RScan |-> 0], !.forced = [s \in RScan |-> 0]]
  /\ UNCHANGED <<rscan, reports, plan, used, shares>>

RPNext ==
  \/ \E c \in RPCaller :
       \/ BuildReport(c) \/ Gate(c) \/ Narrate(c) \/ StoreNarrative(c) \/ GiveUp(c) \/ CreateShare(c)
       \/ \E s \in RScan : View(c, s) \/ AskShare(c, s)
  \/ \E i \in DOMAIN shares : EndShare(i)
  \/ \E s \in RScan : CompleteRScan(s) \/ DeleteScan(s) \/ BuyReport(s)
  \/ Subscribe \/ NewPeriod \/ Deploy

RPSpec == RPInit /\ [][RPNext]_rpVars

----------------------------------------------------------------------------

(***************************************************************************)
(* What narratives can cost is bounded: the limits of the day and of the    *)
(* month are exceeded by no more than the calls that were checked against   *)
(* them at the same time (service.py:64-94).                                *)
(***************************************************************************)
NarrativesCapped ==
  LET beside == Cardinality(RPCaller) - 1 IN
  used.today <= DailyAll + beside /\ told.free <= MonthlyFree + beside

(***************************************************************************)
(* A report is narrated once, and a second time when a free narrative has   *)
(* been paid for; only a forced one can make another one necessary          *)
(* (service.py:249-254, "NEVER re-calls the API on re-render").             *)
(***************************************************************************)
NarratedOnce == \A s \in RScan : told.plain[s] <= 2 + told.forced[s]

(***************************************************************************)
(* Only what a scan has found for good is stored and shown to the public,   *)
(* and an organization without a plan has no more links than its limit and  *)
(* the ones that were checked against it at the same time.                  *)
(***************************************************************************)
SharedSoundly ==
  /\ \A s \in RScan : reports[s] # <<>> => rscan[s] = "completed"
  /\ \A i \in DOMAIN shares : Public(i) # "not found" => rscan[shares[i].scan] # "gone"
  /\ Cardinality({i \in ActiveShares : shares[i].tier = "free"}) <= FreeShares + Cardinality(RPCaller) - 1

\* Reports cost, say and show what they should (reports/service.py, shares.py).
ReportsSound == NarrativesCapped /\ NarratedOnce /\ SharedSoundly
=============================================================================
