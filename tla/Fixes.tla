------------------------------- MODULE Fixes -------------------------------
(***************************************************************************)
(* The life of one recommendation that somebody acts on: a UrlAction of    *)
(* services/url_intelligence/optimization.py (apply_op, apply_result,      *)
(* run_due_checks, sync_after_analysis), the outcome rules of              *)
(* verification.py and the before and after windows of fix_impact.py.      *)
(*                                                                         *)
(* Two checkers decide whether a fix works: a re-check fetches the page,   *)
(* and every crawl of the website is one.  Each loads the row, looks at    *)
(* evidence and writes the fields it changed; what people change in the    *)
(* meantime is overwritten unless FxTimely excludes it.  What the page     *)
(* shows at a look is arbitrary.  Time is in days.                         *)
(***************************************************************************)
EXTENDS Integers, FiniteSets, FiniteSetsExt

CONSTANTS
  FxMethods,     \* verification methods of the recommendations looked at
  Backoffs,      \* length of UNABLE_BACKOFF_HOURS
  SuppressAfter, \* SUPPRESS_AFTER
  DailyLimit,    \* RECHECK_DAILY_LIMIT
  TrackDays,     \* TRACK_DAYS; WINDOW_DAYS is one day
  Watched,       \* a serious issue of a high-value page
  FxOps,         \* bound of the model: changes by people
  FxCrawls,      \* bound of the model: crawls after the baseline
  FxHorizon,     \* bound of the model: days
  FxFaults,      \* bound of the model: crashes and exceptions
  FxTimely       \* {"load"}: no other commit between a checker's load and its write

ASSUME FixesAssumption ==
  /\ FxMethods \subseteq {"page_check", "site_crawl", "performance"}
  /\ {Backoffs, SuppressAfter, DailyLimit, TrackDays} \subseteq Nat \ {0}
  /\ {FxOps, FxCrawls, FxHorizon, FxFaults} \subseteq Nat
  /\ Watched \in BOOLEAN /\ FxTimely \subseteq {"load"}

VARIABLES
  method,   \* verification_method of the recommendation
  row,      \* the UrlAction
  crawl,    \* the newest crawl: its number, and whether it was synced
  snaps,    \* complete and pending performance windows, before and after
  fw,       \* the two checkers
  today, version, \* the day and RULES_VERSION
  \* history:
  ops, checks, \* changes by people, single-page checks of the day
  tries,    \* checks that could not decide since the fix was last claimed
  again,    \* the fix was verified more than once
  fxfaults

fxVars == <<method, row, crawl, snaps, fw, today, version, ops, checks, tries, again, fxfaults>>

Later == FxHorizon + 1
Never == FxHorizon + 2
In(days) == Min({today + days, Later})

Undone == {"new", "needs_attention", "not_fixed", "partially_fixed", "reopened"}
ActionStatus == Undone \union {"in_progress", "ready_for_verification", "verified", "ignored"}
\* What a look at the page shows; none is no answer, an error status, a redirect
Looks == {"broken", "partial", "fixed", "none"}
Checker == {"recheck", "sync"}

Resting == [pc |-> "idle", old |-> <<>>, at |-> 0]
NoWindow == [status |-> "none", edge |-> 0]

\* get_or_create_action: the row begins with the evidence of the first crawl.
FxInit ==
  /\ method \in FxMethods
  /\ row = [status |-> "new", due |-> Never, unable |-> 0, failed |-> 0,
            checkedCrawl |-> -1, recheckedOn |-> -1, version |-> 1,
            base |-> "broken", started |-> Never, verifiedOn |-> Never, snapDue |-> Never]
  /\ crawl = [no |-> 0, synced |-> TRUE]
  /\ snaps = [before |-> NoWindow, after |-> NoWindow]
  /\ fw = [c \in Checker |-> Resting]
  /\ today = 0 /\ version = 1 /\ ops = 0 /\ checks = 0 /\ tries = 0 /\ again = FALSE
  /\ fxfaults = 0

Loading(c) == fw[c].pc = "look"
\* A commit, when checks are taken to be timely
Unloaded == "load" \in FxTimely => \A c \in Checker : ~ Loading(c)

----------------------------------------------------------------------------
(* fix_impact.capture                                                      *)

\* windows: the day before work started, or the row was made; and the day
\* after the fix was verified.
WorkStart(r) == IF r.started # Never THEN r.started ELSE 0
\* Wrong: the window after includes the day of the verification.
EdgeSameDay(r, period) == IF period = "before" THEN WorkStart(r) - 1 ELSE r.verifiedOn
Edge(r, period) == IF period = "before" THEN WorkStart(r) - 1 ELSE r.verifiedOn + 1

\* What a source has for a window that is over is its own affair.
Readings(r, period) ==
  LET edge == Edge(r, period) IN
  {s \in {"pending", "complete", "unavailable"} :
     /\ s = "complete" => edge < today
     /\ s = "pending" => ~ (period = "after" /\ today - r.verifiedOn > TrackDays)}

\* A complete window is final; the others are taken anew.
Captured(r, periods, new) ==
  [p \in {"before", "after"} |->
     IF p \in periods /\ snaps[p].status # "complete" /\ (p = "before" \/ r.verifiedOn # Never)
     THEN [status |-> new[p], edge |-> Edge(r, p)] ELSE snaps[p]]

\* The row after its windows were captured: when to look again
Capture(r, periods) ==
  \E new \in [{"before", "after"} -> {"pending", "complete", "unavailable"}] :
    /\ \A p \in periods : (p = "before" \/ r.verifiedOn # Never) => new[p] \in Readings(r, p)
    /\ snaps' = Captured(r, periods, new)
    /\ row' = [r EXCEPT !.snapDue =
         IF \E p \in periods : snaps'[p].status = "pending" THEN In(1) ELSE Never]

----------------------------------------------------------------------------
(* apply_op and cancel_scheduled_checks: what people change.               *)

ByPerson == ops < FxOps /\ ops' = ops + 1 /\ Unloaded
FxStill == UNCHANGED <<method, crawl, fw, today, version, checks, again, fxfaults>>

\* The windows are captured after the change; that may fail.
Working(r) == Capture(r, {"before"}) \/ (row' = r /\ UNCHANGED snaps)
StartOf(r) == IF r.started = Never THEN today ELSE r.started

StartWork ==
  /\ ByPerson /\ row.status \in Undone \union {"ready_for_verification"}
  /\ Working([row EXCEPT !.status = "in_progress", !.started = StartOf(row)])
  /\ FxStill /\ UNCHANGED tries

\* Wrong: a claim leaves the counters of the last one.
ClaimOnly ==
  /\ ByPerson /\ row.status \in Undone \union {"in_progress"}
  /\ Working([row EXCEPT !.status = "ready_for_verification", !.started = StartOf(row),
                         !.due = IF method = "page_check" THEN today ELSE Never])
  /\ tries' = 0 /\ FxStill

\* op "ready": the fix is claimed, and checked when a page check can decide.
Claim ==
  /\ ByPerson /\ row.status \in Undone \union {"in_progress"}
  /\ Working([row EXCEPT !.status = "ready_for_verification", !.started = StartOf(row),
                         !.unable = 0, !.failed = 0,
                         !.due = IF method = "page_check" THEN today ELSE Never])
  /\ tries' = 0 /\ FxStill

AskRecheck ==
  /\ ByPerson /\ row.status # "ignored" /\ method = "page_check"
  /\ row' = [row EXCEPT !.due = today]
  /\ FxStill /\ UNCHANGED <<snaps, tries>>

\* The history forgets a claim whose check its owner cancels.
CancelRecheck ==
  /\ ByPerson /\ row.due # Never
  /\ row' = [row EXCEPT !.due = Never]
  /\ tries' = Backoffs + 1
  /\ FxStill /\ UNCHANGED snaps

Ignore ==
  /\ ByPerson /\ row.status # "ignored"
  /\ row' = [row EXCEPT !.status = "ignored", !.due = Never, !.snapDue = Never]
  /\ FxStill /\ UNCHANGED <<snaps, tries>>

Reopen ==
  /\ ByPerson /\ row.status \in {"verified", "ignored"}
  /\ row' = [row EXCEPT !.status = "reopened", !.failed = 0]
  /\ FxStill /\ UNCHANGED <<snaps, tries>>

----------------------------------------------------------------------------
(* outcome, schedule_after, apply_result                                   *)

Outcome(base, seen) ==
  IF seen = "none" THEN "unable_to_verify"
  ELSE IF seen = "fixed" THEN "verified"
  ELSE IF seen = "partial" /\ base = "broken" THEN "partially_fixed" ELSE "not_fixed"

NewStatus(status, result) ==
  IF result = "verified" THEN "verified"
  ELSE IF result = "unable_to_verify" THEN status
  ELSE IF status = "verified" THEN "reopened"
  ELSE IF status \in {"ready_for_verification", "partially_fixed", "not_fixed"} THEN result ELSE status

\* When the page is checked again; hours and weeks are days here.
NextCheck(r, result) ==
  IF method # "page_check" \/ r.status = "ignored" THEN Never
  ELSE IF result = "unable_to_verify" THEN (IF r.unable <= Backoffs THEN In(1) ELSE Never)
  ELSE IF result = "verified" THEN (IF Watched THEN In(2) ELSE Never)
  ELSE IF result = "partially_fixed" THEN In(1)
  ELSE IF r.failed >= SuppressAfter THEN Never ELSE In(1)

\* Counts are kept up to where they stop to matter.
Judged(r, result, c, crawlNo) ==
  LET s == [r EXCEPT
        !.status = NewStatus(r.status, result),
        !.unable = IF result = "unable_to_verify" THEN Min({@ + 1, Backoffs + 1}) ELSE 0,
        !.failed = IF result = "unable_to_verify" THEN @
                   ELSE IF result = "not_fixed" THEN Min({@ + 1, SuppressAfter}) ELSE 0,
        !.verifiedOn = IF result = "verified" /\ r.status # "verified" THEN today ELSE @,
        !.checkedCrawl = crawlNo,
        !.recheckedOn = IF c = "recheck" THEN today ELSE -1] IN
  [s EXCEPT !.due = NextCheck(s, result)]

\* A session writes the fields that differ from what it loaded.
Written(old, new) == [f \in DOMAIN row |-> IF new[f] = old[f] THEN row[f] ELSE new[f]]

Apply(c) == \E seen \in Looks :
  LET old == fw[c].old
      result == Outcome(old.base, seen)
      new == Judged(old, result, c, fw[c].at)
      verified == new.status = "verified" /\ old.status # "verified" IN
  /\ fw[c].pc = "look"
  /\ row' = Written(old, new)
  /\ fw' = [fw EXCEPT ![c] = IF verified THEN [Resting EXCEPT !.pc = "capture"] ELSE Resting]
  /\ crawl' = IF c = "sync" THEN [crawl EXCEPT !.synced = TRUE] ELSE crawl
  /\ tries' = IF result = "unable_to_verify" THEN Min({tries + 1, Backoffs + 1}) ELSE tries
  /\ again' = (again \/ (verified /\ old.verifiedOn # Never))
  /\ checks' = IF c = "recheck" THEN Min({checks + 1, DailyLimit + 1}) ELSE checks
  /\ UNCHANGED <<method, snaps, today, version, ops, fxfaults>>

\* After a fix is newly verified; it may fail, and is tried again the day after.
CaptureVerified(c) ==
  /\ fw[c].pc = "capture" /\ Unloaded
  /\ Capture(row, {"before", "after"})
     \/ (row' = [row EXCEPT !.snapDue = In(1)] /\ UNCHANGED snaps)
  /\ fw' = [fw EXCEPT ![c] = Resting]
  /\ UNCHANGED <<method, crawl, today, version, ops, checks, tries, again, fxfaults>>

----------------------------------------------------------------------------
(* run_due_checks: one batch of a website at a time.                       *)

DueNow == row.status # "ignored" /\ row.due <= today
\* checks_today counts the rows last checked today, by a re-check.
ChecksToday == IF row.recheckedOn = today THEN 1 ELSE 0

Postpone ==
  /\ fw["recheck"].pc = "idle" /\ DueNow /\ Unloaded
  /\ DailyLimit - ChecksToday <= 0
  /\ row' = [row EXCEPT !.due = In(1)]
  /\ FxStill /\ UNCHANGED <<snaps, ops, tries>>

LoadDue ==
  /\ fw["recheck"].pc = "idle" /\ DueNow /\ Unloaded
  /\ DailyLimit - ChecksToday > 0
  /\ fw' = [fw EXCEPT !["recheck"] = [pc |-> "look", old |-> row, at |-> crawl.no]]
  /\ UNCHANGED <<method, row, crawl, snaps, today, version, ops, checks, tries, again, fxfaults>>

DueSnapshots ==
  /\ fw["recheck"].pc = "idle" /\ Unloaded /\ row.snapDue <= today
  /\ Capture(row, {"before", "after"})
     \/ (row' = [row EXCEPT !.snapDue = In(1)] /\ UNCHANGED snaps)
  /\ FxStill /\ UNCHANGED <<ops, tries>>

----------------------------------------------------------------------------
(* sync_after_analysis: the crawl as a check.                              *)

TakeCrawl ==
  /\ crawl.synced /\ crawl.no < FxCrawls
  /\ crawl' = [no |-> crawl.no + 1, synced |-> FALSE]
  /\ UNCHANGED <<method, row, snaps, fw, today, version, ops, checks, tries, again, fxfaults>>

\* Wrong: ignored rows are checked by a crawl too.
PassedChecked == method = "performance" \/ row.checkedCrawl >= crawl.no
\* Ignored, a performance pattern, or checked since the crawl
Passed == row.status = "ignored" \/ method = "performance" \/ row.checkedCrawl >= crawl.no

\* Nothing to say, or the crawl did not reach the page
SkipSync ==
  /\ ~ crawl.synced /\ fw["sync"].pc = "idle"
  /\ crawl' = [crawl EXCEPT !.synced = TRUE]
  /\ UNCHANGED <<method, row, snaps, fw, today, version, ops, checks, tries, again, fxfaults>>

\* The checks have changed since the baseline: the crawl becomes the new one.
Rebaseline ==
  /\ ~ crawl.synced /\ fw["sync"].pc = "idle" /\ ~ Passed /\ Unloaded
  /\ row.version # version
  /\ \E seen \in Looks \ {"none"} : row' = [row EXCEPT !.version = version, !.base = seen]
  /\ crawl' = [crawl EXCEPT !.synced = TRUE]
  /\ UNCHANGED <<method, snaps, fw, today, version, ops, checks, tries, again, fxfaults>>

LoadForSync ==
  /\ ~ crawl.synced /\ fw["sync"].pc = "idle" /\ ~ Passed /\ Unloaded
  /\ row.version = version
  /\ fw' = [fw EXCEPT !["sync"] = [pc |-> "look", old |-> row, at |-> crawl.no]]
  /\ UNCHANGED <<method, row, crawl, snaps, today, version, ops, checks, tries, again, fxfaults>>

----------------------------------------------------------------------------
(* Faults, and the world.                                                  *)

FxFault == fxfaults < FxFaults /\ fxfaults' = fxfaults + 1

\* check_page raises: the row is read again and its check put off.
CheckRaises ==
  /\ FxFault /\ Loading("recheck")
  /\ LET unable == Min({row.unable + 1, Backoffs + 1}) IN
     row' = [row EXCEPT !.unable = unable, !.due = IF unable <= Backoffs THEN In(1) ELSE Never]
  /\ tries' = Min({tries + 1, Backoffs + 1})
  /\ fw' = [fw EXCEPT !["recheck"] = Resting]
  /\ UNCHANGED <<method, crawl, snaps, today, version, ops, checks, again>>

\* The worker dies; a job that is retried finds what is due.
CheckerDies(c) ==
  /\ FxFault /\ fw[c].pc # "idle"
  /\ fw' = [fw EXCEPT ![c] = Resting]
  /\ UNCHANGED <<method, row, crawl, snaps, today, version, ops, checks, tries, again>>

Upgrade ==
  /\ version = 1 /\ version' = 2
  /\ UNCHANGED <<method, row, crawl, snaps, fw, today, ops, checks, tries, again, fxfaults>>

NextDay ==
  /\ today < FxHorizon /\ Unloaded
  /\ today' = today + 1 /\ checks' = 0
  /\ UNCHANGED <<method, row, crawl, snaps, fw, version, ops, tries, again, fxfaults>>

People == StartWork \/ Claim \/ AskRecheck \/ CancelRecheck \/ Ignore \/ Reopen
Rechecks == Postpone \/ LoadDue \/ DueSnapshots \/ CheckRaises
Crawls == TakeCrawl \/ SkipSync \/ Rebaseline \/ LoadForSync
FxNext ==
  \/ People \/ Rechecks \/ Crawls
  \/ \E c \in Checker : Apply(c) \/ CaptureVerified(c) \/ CheckerDies(c)
  \/ Upgrade \/ NextDay

FxSpec == FxInit /\ [][FxNext]_fxVars

----------------------------------------------------------------------------

FxTypeOK ==
  /\ row.status \in ActionStatus /\ row.due \in 0 .. Never /\ row.snapDue \in 0 .. Never
  /\ row.unable \in 0 .. Backoffs + 1 /\ row.failed \in 0 .. SuppressAfter
  /\ row.base \in Looks \ {"none"}
  /\ \A p \in {"before", "after"} :
       snaps[p].status \in {"none", "pending", "complete", "unavailable"}
  /\ \A c \in Checker : fw[c].pc \in {"idle", "look", "capture"}

(***************************************************************************)
(* A fix that somebody claims, of an issue that a page check can decide,   *)
(* is not forgotten: as long as it waits for its verification a check is   *)
(* scheduled, through failed fetches, exceptions, crashes, the daily limit *)
(* and crawls that could not decide it, unless its owner cancelled the     *)
(* check or as many attempts as there are backoffs decided nothing since   *)
(* the claim.                                                              *)
(***************************************************************************)
ClaimIsChecked ==
  (row.status = "ready_for_verification" /\ method = "page_check" /\ tries <= Backoffs)
    => row.due # Never

(***************************************************************************)
(* Neither performance window mixes before and after: a complete window    *)
(* before ends before the work started, and, while the fix was verified    *)
(* once, a complete window after starts after it was (fix_impact.py,       *)
(* module comment), however the dates of the row moved since it was taken. *)
(***************************************************************************)
ImpactClean ==
  /\ snaps.before.status = "complete" => snaps.before.edge < WorkStart(row)
  /\ snaps.after.status = "complete" /\ ~ again => snaps.after.edge > row.verifiedOn

(***************************************************************************)
(* An ignored action stays out: until its owner reopens it, no check that  *)
(* was under way moves it or schedules another.                            *)
(***************************************************************************)
IgnoredStays ==
  [][(row.status = "ignored" /\ ~ Reopen) =>
       row'.status = "ignored" /\ row'.due = row.due]_fxVars

\* RECHECK_DAILY_LIMIT, "single-page checks per organization per day"
\* (optimization.py:60)
ChecksBounded == checks <= DailyLimit

(***************************************************************************)
(* A claimed fix is looked at, and what it brought is measured by days     *)
(* before the work against days after it.                                  *)
(***************************************************************************)
FixesSound == ClaimIsChecked /\ ImpactClean
=============================================================================
