----------------------------- MODULE Watchlist -----------------------------
(***************************************************************************)
(* The websites an organization watches and the prompts it asks about them: *)
(* api/routes_monitors.py, the monitor actions of api/routes_admin.py, the   *)
(* sets and prompts of api/routes_answer_tracking.py with                   *)
(* services/answer_tracking/service.py, and when the scheduler takes a      *)
(* website up (monitoring/scheduler.py).                                    *)
(*                                                                         *)
(* A request that checks a number or a row first and writes later is two    *)
(* actions; what it has loaded is kept in wask.  An assignment of the value *)
(* that was loaded writes nothing.                                          *)
(***************************************************************************)
EXTENDS Naturals, Sequences, FiniteSets, FiniteSetsExt

CONSTANTS
  Site,          \* monitors that can exist
  WLCaller,      \* concurrent requests
  FreeMonitors,  \* free_monitor_limit
  ProMonitors,   \* pro_monitor_limit
  MaxPrompts,    \* answer_tracking_max_prompts
  WLOps,         \* bound of the model: requests
  WLApart        \* kinds of requests that do not overlap: sets of one or two

ASSUME WatchlistAssumption ==
  /\ {FreeMonitors, ProMonitors, MaxPrompts} \subseteq Nat \ {0} /\ FreeMonitors <= ProMonitors
  /\ WLOps \in Nat
  /\ IsFiniteSet(Site) /\ IsFiniteSet(WLCaller) /\ "none" \notin Site
  /\ WLApart \subseteq SUBSET {"create", "update", "first", "prompt", "add", "list", "admin", "other"}

VARIABLES
  watched,   \* monitors: status, frequency, next_scan_at, and the plan each was created under
  queued,    \* monitors with an active job
  lists,     \* prompt_sets in the order of their creation
  prompts,   \* tracked_prompts: their set, and the monitor they were entered for
  pro,       \* the organization has a plan
  wask,      \* what each request has loaded
  wlops,
  legacy     \* history: monitors whose sets were also made or moved by themselves

wlVars == <<watched, queued, lists, prompts, pro, wask, wlops, legacy>>

Absent == [here |-> FALSE, active |-> FALSE, freq |-> "manual", next |-> "none", plan |-> "free"]
NoWask == [op |-> "none", site |-> "none", list |-> 0, row |-> Absent]

WLInit ==
  /\ watched = [m \in Site |-> Absent] /\ queued = {}
  /\ lists = <<>> /\ prompts = <<>> /\ pro = FALSE
  /\ wask = [c \in WLCaller |-> NoWask] /\ wlops = 0 /\ legacy = {}

Beside(op) == \A d \in WLCaller : {op, wask[d].op} \notin WLApart
Begin(c, ask) ==
  /\ wask[c].op = "none" /\ Beside(ask.op) /\ wlops < WLOps
  /\ wask' = [wask EXCEPT ![c] = ask] /\ wlops' = wlops + 1
Finish(c, op) == wask[c].op = op /\ wask' = [wask EXCEPT ![c] = NoWask] /\ UNCHANGED wlops
Whole(op) == Beside(op) /\ wlops < WLOps /\ wlops' = wlops + 1 /\ UNCHANGED wask

Here == {m \in Site : watched[m].here}

----------------------------------------------------------------------------
(* Monitors.                                                               *)

\* monitor_quota
MayWatch == Cardinality(Here) < (IF pro THEN ProMonitors ELSE FreeMonitors)
AskMonitor(c) ==
  /\ MayWatch
  /\ Begin(c, [NoWask EXCEPT !.op = "create", !.row.plan = IF pro THEN "pro" ELSE "free"])
  /\ UNCHANGED <<watched, queued, lists, prompts, pro, legacy>>

CreateMonitor(c) ==
  /\ Finish(c, "create")
  /\ \E m \in Site \ Here, f \in {"manual", "weekly"} :
       watched' = [watched EXCEPT ![m] =
         [here |-> TRUE, active |-> TRUE, freq |-> f, plan |-> wask[c].row.plan,
          next |-> IF f = "manual" THEN "none" ELSE "due"]]
  /\ UNCHANGED <<queued, lists, prompts, pro, legacy>>

LoadUpdate(c, m) ==
  /\ m \in Here
  /\ Begin(c, [NoWask EXCEPT !.op = "update", !.site = m, !.row = watched[m]])
  /\ UNCHANGED <<watched, queued, lists, prompts, pro, legacy>>

\* Wrong: a monitor that is resumed waits for its next frequency.
UpdatedLazily(row, f, status) ==
  [row EXCEPT !.freq = IF f = "keep" THEN @ ELSE f,
              !.active = IF status = "keep" THEN @ ELSE status = "active",
              !.next = IF status = "paused" \/ (f # "keep" /\ (f = "manual" \/ ~row.active)) THEN "none"
                       ELSE IF f # "keep" THEN "later" ELSE @]

\* update_monitor: the next scan follows from a new frequency first, then from a new status.
Updated(row, f, status) ==
  LET freq == IF f = "keep" THEN row.freq ELSE f
      then == IF f = "keep" THEN row.next
              ELSE IF f = "manual" \/ ~row.active THEN "none" ELSE "later" IN
  [row EXCEPT !.freq = freq,
              !.active = IF status = "keep" THEN @ ELSE status = "active",
              !.next = IF status = "paused" THEN "none"
                       ELSE IF status = "active" /\ then = "none" /\ freq # "manual" THEN "due" ELSE then]

UpdateMonitor(c) ==
  LET m == wask[c].site
      old == wask[c].row IN
  /\ Finish(c, "update") /\ m \in Here
  /\ \E f \in {"keep", "manual", "weekly"}, status \in {"keep", "active", "paused"} :
       LET new == Updated(old, f, status) IN
       watched' = [watched EXCEPT
         ![m].freq = IF new.freq = old.freq THEN @ ELSE new.freq,
         ![m].active = IF new.active = old.active THEN @ ELSE new.active,
         ![m].next = IF new.next = old.next /\ (f = "keep" \/ new.next = "none") THEN @ ELSE new.next]
  /\ UNCHANGED <<queued, lists, prompts, pro, legacy>>

\* admin_pause_monitor and admin_resume_monitor
AdminPause(m) ==
  /\ m \in Here /\ Whole("admin")
  /\ watched' = [watched EXCEPT ![m].active = FALSE, ![m].next = "none"]
  /\ UNCHANGED <<queued, lists, prompts, pro, legacy>>
AdminResume(m) ==
  /\ m \in Here /\ Whole("admin")
  /\ watched' = [watched EXCEPT ![m].active = TRUE,
                                ![m].next = IF watched[m].freq = "manual" THEN @ ELSE "due"]
  /\ UNCHANGED <<queued, lists, prompts, pro, legacy>>

\* delete_monitor, also the administrator's: the sets stay.
DeleteMonitor(m) ==
  /\ m \in Here /\ Whole("admin")
  /\ watched' = [watched EXCEPT ![m] = Absent] /\ queued' = queued \ {m}
  /\ legacy' = legacy \ {m}
  /\ lists' = [l \in DOMAIN lists |-> IF lists[l].site = m THEN [lists[l] EXCEPT !.site = "none"] ELSE lists[l]]
  /\ prompts' = [p \in DOMAIN prompts |-> IF prompts[p].site = m THEN [prompts[p] EXCEPT !.site = "none"] ELSE prompts[p]]
  /\ UNCHANGED pro

----------------------------------------------------------------------------
(* The scheduler.                                                          *)

TakeUp(m) ==
  /\ m \in Here \ queued /\ watched[m].active /\ watched[m].freq # "manual" /\ watched[m].next = "due"
  /\ queued' = queued \union {m} /\ watched' = [watched EXCEPT ![m].next = "later"]
  /\ UNCHANGED <<lists, prompts, pro, wask, wlops, legacy>>

\* run_monitor
RunNow(m) ==
  /\ m \in Here \ queued /\ Whole("other") /\ queued' = queued \union {m}
  /\ UNCHANGED <<watched, lists, prompts, pro, legacy>>

\* The scan of a job succeeds, or the job fails.
EndJob(m) ==
  /\ m \in queued /\ queued' = queued \ {m}
  /\ watched' \in {watched, [watched EXCEPT ![m].next =
                     IF @ = "none" /\ watched[m].freq # "manual" THEN "later" ELSE @]}
  /\ UNCHANGED <<lists, prompts, pro, wask, wlops, legacy>>

BecomesDue(m) ==
  /\ watched[m].next = "later" /\ watched' = [watched EXCEPT ![m].next = "due"]
  /\ UNCHANGED <<queued, lists, prompts, pro, wask, wlops, legacy>>

----------------------------------------------------------------------------
(* Sets and prompts.                                                       *)

\* prompt_set_for_monitor: of several sets the one that was created first
ListOf(m) == LET own == {l \in DOMAIN lists : lists[l].here /\ lists[l].site = m} IN
             IF own = {} THEN 0 ELSE Min(own)
PromptCount(l) == Cardinality({p \in DOMAIN prompts : prompts[p].here /\ prompts[p].list = l})

\* Any request about the prompts of a monitor creates its set.
OpenList(c, m) ==
  /\ m \in Here
  /\ Begin(c, [NoWask EXCEPT !.op = IF ListOf(m) = 0 THEN "first" ELSE "prompt", !.site = m, !.list = ListOf(m)])
  /\ UNCHANGED <<watched, queued, lists, prompts, pro, legacy>>
OpenSet(c, l) ==
  /\ lists[l].here /\ Begin(c, [NoWask EXCEPT !.op = "prompt", !.list = l])
  /\ UNCHANGED <<watched, queued, lists, prompts, pro, legacy>>

MakeList(c) ==
  /\ wask[c].op = "first"
  /\ lists' = Append(lists, [site |-> wask[c].site, here |-> TRUE])
  /\ wask' = [wask EXCEPT ![c].op = "prompt", ![c].list = Len(lists) + 1]
  /\ UNCHANGED <<watched, queued, prompts, pro, wlops, legacy>>

CountPrompts(c) ==
  /\ wask[c].op = "prompt"
  /\ wask' = [wask EXCEPT ![c] = IF PromptCount(wask[c].list) < MaxPrompts
                                   THEN [@ EXCEPT !.op = "add"] ELSE NoWask]
  /\ UNCHANGED <<watched, queued, lists, prompts, pro, wlops, legacy>>

AddPrompt(c) ==
  /\ Finish(c, "add")
  /\ prompts' = Append(prompts, [list |-> wask[c].list, site |-> wask[c].site, here |-> TRUE])
  /\ UNCHANGED <<watched, queued, lists, pro, legacy>>

DeletePrompt(p) ==
  /\ prompts[p].here /\ Whole("other") /\ prompts' = [prompts EXCEPT ![p].here = FALSE]
  /\ UNCHANGED <<watched, queued, lists, pro, legacy>>

\* create_prompt_set, for a monitor or for none, and update_prompt_set with a monitor
CreateSet(m) ==
  /\ m \in Here \union {"none"} /\ Whole("list")
  /\ lists' = Append(lists, [site |-> m, here |-> TRUE]) /\ legacy' = legacy \union ({m} \ {"none"})
  /\ UNCHANGED <<watched, queued, prompts, pro>>
MoveSet(l, m) ==
  /\ lists[l].here /\ m \in Here \ {lists[l].site} /\ Whole("list")
  /\ lists' = [lists EXCEPT ![l].site = m] /\ legacy' = legacy \union ({m, lists[l].site} \ {"none"})
  /\ UNCHANGED <<watched, queued, prompts, pro>>

\* Wrong: the prompts of the set stay.
DeleteSetOnly(l) ==
  /\ lists[l].here /\ Whole("list")
  /\ lists' = [lists EXCEPT ![l].here = FALSE]
  /\ UNCHANGED <<watched, queued, prompts, pro, legacy>>

\* delete_prompt_set, with its prompts
DeleteSet(l) ==
  /\ lists[l].here /\ Whole("list")
  /\ lists' = [lists EXCEPT ![l].here = FALSE]
  /\ prompts' = [p \in DOMAIN prompts |-> [prompts[p] EXCEPT !.here = @ /\ prompts[p].list # l]]
  /\ UNCHANGED <<watched, queued, pro, legacy>>

ChangePlan == /\ Whole("other") /\ pro' = ~pro
              /\ UNCHANGED <<watched, queued, lists, prompts, legacy>>

WLNext ==
  \/ \E c \in WLCaller :
       \/ AskMonitor(c) \/ CreateMonitor(c) \/ UpdateMonitor(c)
       \/ MakeList(c) \/ CountPrompts(c) \/ AddPrompt(c)
       \/ \E m \in Site : LoadUpdate(c, m) \/ OpenList(c, m)
       \/ \E l \in DOMAIN lists : OpenSet(c, l)
  \/ \E m \in Site :
       \/ AdminPause(m) \/ AdminResume(m) \/ DeleteMonitor(m)
       \/ TakeUp(m) \/ RunNow(m) \/ EndJob(m) \/ BecomesDue(m)
  \/ \E m \in Site \union {"none"} : CreateSet(m)
  \/ \E l \in DOMAIN lists : DeleteSet(l) \/ \E m \in Site : MoveSet(l, m)
  \/ \E p \in DOMAIN prompts : DeletePrompt(p)
  \/ ChangePlan
WLSpec == WLInit /\ [][WLNext]_wlVars

----------------------------------------------------------------------------

(***************************************************************************)
(* A monitor that is active and not manual has a next scan, whatever was    *)
(* changed about it: one without a next scan is never due again             *)
(* (routes_monitors.py:236-260, scheduler.py:68-72).                        *)
(***************************************************************************)
ActiveScheduled ==
  \A m \in Here : watched[m].active /\ watched[m].freq # "manual" => watched[m].next # "none"

(***************************************************************************)
(* The limits of monitors and of prompts are exceeded by no more than the   *)
(* requests that were checked against them at the same time.                *)
(***************************************************************************)
WatchesLimited ==
  LET beside == Cardinality(WLCaller) - 1 IN
  /\ Cardinality({m \in Here : watched[m].plan = "free"}) <= FreeMonitors + beside
  /\ Cardinality(Here) <= ProMonitors + beside
  /\ \A l \in DOMAIN lists : PromptCount(l) <= MaxPrompts + beside

(***************************************************************************)
(* A prompt belongs to a set that exists, and one that was entered for a    *)
(* monitor is in the set its page shows, unless other sets were given to    *)
(* the monitor (service.py:48-66).                                          *)
(***************************************************************************)
PromptsShown ==
  \A p \in DOMAIN prompts : prompts[p].here =>
    /\ lists[prompts[p].list].here
    /\ prompts[p].site \in Here \ legacy => prompts[p].list = ListOf(prompts[p].site)

\* What is watched is scanned, limited and shown (routes_monitors.py, service.py).
WatchlistSound == ActiveScheduled /\ WatchesLimited /\ PromptsShown
=============================================================================
