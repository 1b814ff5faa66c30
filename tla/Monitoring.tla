----------------------------- MODULE Monitoring -----------------------------
(***************************************************************************)
(* Scans of monitors and what follows from them: monitoring/runner.py      *)
(* (run_scan_for_monitor, the monitor branch of process_job), alerts.py,   *)
(* notifications.py and the monitor side of run_scan and of ordinary scans *)
(* in api/routes_scan.py.                                                  *)
(*                                                                         *)
(* A scan finds a monitor's site "ok" or "bad", bad being critical for one *)
(* signal; what it finds is arbitrary.  Each commit is an action.  The     *)
(* monitors belong to one organization, their jobs run concurrently, and   *)
(* the whole behaviour fits in one notification window.                    *)
(***************************************************************************)
EXTENDS Naturals, FiniteSets

CONSTANTS
  Monitors,     \* monitors of the organization
  Recipient,    \* its owner and the creator of the monitors
  EmailCap,     \* critical_alert_max_per_org_per_day
  MNJobs,       \* bound of the model: jobs per monitor
  MNAttempts,   \* max_attempts of a job
  MNManual,     \* bound of the model: ordinary scans
  MNFaults      \* bound of the model: crashes and exceptions

ASSUME MonitoringAssumption ==
  /\ IsFiniteSet(Monitors) /\ IsFiniteSet(Recipient)
  /\ {EmailCap, MNJobs, MNAttempts} \subseteq Nat \ {0}
  /\ MNManual \in Nat /\ MNFaults \in Nat

VARIABLES
  mon,     \* monitors: the result of latest_scan_id
  snap,    \* the newest snapshot of each monitor
  alert,   \* alerts: one is stored for the bad period that is on
  log,     \* notification_log: sent alerts, by monitor and recipient
  mjob,    \* the monitor's job: state, attempts, number
  mw,      \* the worker of it
  manual,  \* ordinary scans so far
  mnfaults,
  \* history:
  fresh,   \* last_scan_at is not before the job's creation
  hist,    \* history entries of the job
  saw,     \* who saw the bad period first
  untold,  \* snapshots differ and no change set says so
  inbox,   \* emails each recipient got about each monitor
  mails,   \* emails the organization got
  mncut    \* "alert", "change", "email": a worker died between a commit and what follows from it

mnVars == <<mon, snap, alert, log, mjob, mw, manual, mnfaults, fresh, hist, saw, untold, inbox, mails, mncut>>

Health == {"ok", "bad"}
MNIdle == [pc |-> "idle", prev |-> "none", curr |-> "none", todo |-> {}]

MNInit ==
  /\ mon = [m \in Monitors |-> "none"] /\ snap = [m \in Monitors |-> "none"]
  /\ alert = [m \in Monitors |-> FALSE] /\ log = {}
  /\ mjob = [m \in Monitors |-> [state |-> "none", attempts |-> 0, number |-> 0]]
  /\ mw = [m \in Monitors |-> MNIdle]
  /\ manual = 0 /\ mnfaults = 0
  /\ fresh = [m \in Monitors |-> FALSE] /\ hist = [m \in Monitors |-> 0]
  /\ saw = [m \in Monitors |-> "none"] /\ untold = {}
  /\ inbox = [x \in Monitors \X Recipient |-> 0] /\ mails = 0 /\ mncut = [m \in Monitors |-> {}]

----------------------------------------------------------------------------
(* The queue's side, as JobQueue has it.                                   *)

Due(m) ==
  /\ mjob[m].state \in {"none", "done", "failed"} /\ mjob[m].number < MNJobs
  /\ mjob' = [mjob EXCEPT ![m] = [state |-> "queued", attempts |-> 0, number |-> @.number + 1]]
  /\ fresh' = [fresh EXCEPT ![m] = FALSE] /\ hist' = [hist EXCEPT ![m] = 0]
  /\ UNCHANGED <<mon, snap, alert, log, mw, manual, mnfaults, saw, untold, inbox, mails, mncut>>

MNGo(m, pc) == mw' = [mw EXCEPT ![m].pc = pc]

\* Wrong: every retry is taken for one of a job whose scan has finished.
TakeJobBlind(m) ==
  /\ mjob[m].state = "queued" /\ mw[m].pc = "idle"
  /\ mjob' = [mjob EXCEPT ![m].state = "running", ![m].attempts = @ + 1]
  /\ MNGo(m, IF mjob[m].attempts > 0 THEN "complete" ELSE "load")
  /\ UNCHANGED <<mon, snap, alert, log, manual, mnfaults, fresh, hist, saw, untold, inbox, mails, mncut>>

\* A retry of a job whose site was scanned since it was created only ends it.
TakeJob(m) ==
  /\ mjob[m].state = "queued" /\ mw[m].pc = "idle"
  /\ mjob' = [mjob EXCEPT ![m].state = "running", ![m].attempts = @ + 1]
  /\ MNGo(m, IF mjob[m].attempts > 0 /\ fresh[m] THEN "complete" ELSE "load")
  /\ UNCHANGED <<mon, snap, alert, log, manual, mnfaults, fresh, hist, saw, untold, inbox, mails, mncut>>

CompleteScan(m) ==
  /\ mw[m].pc = "complete"
  /\ mjob' = [mjob EXCEPT ![m].state = "done"]
  /\ mw' = [mw EXCEPT ![m] = MNIdle]
  /\ UNCHANGED <<mon, snap, alert, log, manual, mnfaults, fresh, hist, saw, untold, inbox, mails, mncut>>

----------------------------------------------------------------------------
(* run_scan_for_monitor                                                    *)

\* The baseline is the latest scan, whoever made it.
LoadBaseline(m) ==
  /\ mw[m].pc = "load"
  /\ mw' = [mw EXCEPT ![m].pc = "fetch", ![m].prev = mon[m]]
  /\ UNCHANGED <<mon, snap, alert, log, mjob, manual, mnfaults, fresh, hist, saw, untold, inbox, mails, mncut>>

\* The page is fetched, and the scan's row and its snapshot committed.
SaveSnapshot(m) ==
  /\ mw[m].pc = "fetch"
  /\ \E h \in Health :
       /\ mw' = [mw EXCEPT ![m].pc = "diff", ![m].curr = h]
       /\ snap' = [snap EXCEPT ![m] = h]
       /\ untold' = IF snap[m] \notin {"none", h} THEN untold \union {m} ELSE untold
  /\ UNCHANGED <<mon, alert, log, mjob, manual, mnfaults, fresh, hist, saw, inbox, mails, mncut>>

\* The differences to the snapshot before it join the scan.
SaveChanges(m) ==
  /\ mw[m].pc = "diff"
  /\ MNGo(m, "history") /\ untold' = untold \ {m}
  /\ UNCHANGED <<mon, snap, alert, log, mjob, manual, mnfaults, fresh, hist, saw, inbox, mails, mncut>>

\* A scan that found h becomes the latest.
Latest(m, h, who) ==
  /\ mon' = [mon EXCEPT ![m] = h]
  /\ fresh' = [fresh EXCEPT ![m] = TRUE]
  /\ saw' = [saw EXCEPT ![m] = IF h = "ok" THEN "none" ELSE IF @ = "none" THEN who ELSE @]

SaveHistory(m) ==
  /\ mw[m].pc = "history"
  /\ Latest(m, mw[m].curr, IF mw[m].prev = mon[m] THEN "monitor" ELSE "manual")
  /\ alert' = [alert EXCEPT ![m] = @ /\ mw[m].curr = "bad"]
  /\ hist' = [hist EXCEPT ![m] = @ + 1]
  /\ MNGo(m, "alert")
  /\ UNCHANGED <<snap, log, mjob, manual, mnfaults, untold, inbox, mails, mncut>>

\* Wrong: a first scan has nothing to compare with and alerts nobody.
CriticalAgain(m) == mw[m].curr = "bad" /\ mw[m].prev = "ok"
\* evaluate_alerts: a signal that is critical and was not is one alert.
Critical(m) == mw[m].curr = "bad" /\ mw[m].prev # "bad"

SaveAlerts(m) ==
  /\ mw[m].pc = "alert"
  /\ alert' = [alert EXCEPT ![m] = @ \/ Critical(m)]
  /\ mw' = [mw EXCEPT ![m].pc = IF Critical(m) THEN "notify" ELSE "complete",
                      ![m].todo = IF Critical(m) THEN Recipient ELSE {}]
  /\ UNCHANGED <<mon, snap, log, mjob, manual, mnfaults, fresh, hist, saw, untold, inbox, mails, mncut>>

----------------------------------------------------------------------------
(* notify_critical_alerts, one recipient after the other                   *)

\* The recipient whose turn it is
Turn(m) == CHOOSE u \in mw[m].todo : TRUE
NextTurn(m) == mw' = [mw EXCEPT ![m].pc = "notify", ![m].todo = @ \ {Turn(m)}]

\* Wrong: the limit of the organization is not looked at.
MayEmailUncapped(m, u) == <<m, u>> \notin log
\* Not emailed in the window, and the organization not at its limit
MayEmail(m, u) == <<m, u>> \notin log /\ Cardinality(log) < EmailCap

CheckEmail(m) ==
  /\ mw[m].pc = "notify"
  /\ \/ mw[m].todo = {} /\ MNGo(m, "complete")
     \/ mw[m].todo # {} /\ MayEmail(m, Turn(m)) /\ MNGo(m, "send")
     \/ mw[m].todo # {} /\ ~ MayEmail(m, Turn(m)) /\ NextTurn(m)
  /\ UNCHANGED <<mon, snap, alert, log, mjob, manual, mnfaults, fresh, hist, saw, untold, inbox, mails, mncut>>

\* The transport accepts the email, or it fails and is logged as failed.
SendEmail(m) ==
  /\ mw[m].pc = "send"
  /\ \/ inbox' = [inbox EXCEPT ![<<m, Turn(m)>>] = @ + 1] /\ mails' = mails + 1 /\ MNGo(m, "log")
     \/ UNCHANGED <<inbox, mails>> /\ NextTurn(m)
  /\ UNCHANGED <<mon, snap, alert, log, mjob, manual, mnfaults, fresh, hist, saw, untold, mncut>>

LogEmail(m) ==
  /\ mw[m].pc = "log"
  /\ log' = log \union {<<m, Turn(m)>>}
  /\ NextTurn(m)
  /\ UNCHANGED <<mon, snap, alert, mjob, manual, mnfaults, fresh, hist, saw, untold, inbox, mails, mncut>>

----------------------------------------------------------------------------
(* Other actors                                                            *)

\* _sync_monitor_latest_scan: an ordinary scan of the same page moves the
\* pointer, the score and the time, and records no history and no alert.
ManualScan(m) ==
  /\ manual < MNManual /\ manual' = manual + 1
  /\ \E h \in Health : Latest(m, h, "manual") /\ alert' = [alert EXCEPT ![m] = @ /\ h = "bad"]
  /\ UNCHANGED <<snap, log, mjob, mw, mnfaults, hist, untold, inbox, mails, mncut>>

\* What is lost when a worker stops at this point
Cut(m) ==
  (IF mw[m].pc = "diff" THEN {"change"} ELSE {})
    \union (IF mw[m].pc = "alert" THEN {"alert"} ELSE {})
    \union (IF mw[m].pc = "log" THEN {"email"} ELSE {})

\* The worker dies, or the scan raises: the job is retried or has failed.
DieOrRaise(m) ==
  /\ mw[m].pc # "idle" /\ mnfaults < MNFaults /\ mnfaults' = mnfaults + 1
  /\ mw' = [mw EXCEPT ![m] = MNIdle]
  /\ mncut' = [mncut EXCEPT ![m] = @ \union Cut(m)]
  /\ mjob' = [mjob EXCEPT ![m].state = IF mjob[m].attempts < MNAttempts THEN "queued" ELSE "failed"]
  /\ UNCHANGED <<mon, snap, alert, log, manual, fresh, hist, saw, untold, inbox, mails>>

\* A failure of the notification ends it; the scan has succeeded.
NotifyFails(m) ==
  /\ mw[m].pc \in {"notify", "send", "log"} /\ mnfaults < MNFaults /\ mnfaults' = mnfaults + 1
  /\ MNGo(m, "complete")
  /\ mncut' = [mncut EXCEPT ![m] = @ \union Cut(m)]
  /\ UNCHANGED <<mon, snap, alert, log, mjob, manual, fresh, hist, saw, untold, inbox, mails>>

MNNext == \E m \in Monitors :
  \/ Due(m) \/ TakeJob(m) \/ CompleteScan(m)
  \/ LoadBaseline(m) \/ SaveSnapshot(m) \/ SaveChanges(m) \/ SaveHistory(m) \/ SaveAlerts(m)
  \/ CheckEmail(m) \/ SendEmail(m) \/ LogEmail(m)
  \/ ManualScan(m) \/ DieOrRaise(m) \/ NotifyFails(m)

MNSpec == MNInit /\ [][MNNext]_mnVars

----------------------------------------------------------------------------

MNTypeOK ==
  /\ mon \in [Monitors -> Health \union {"none"}] /\ snap \in [Monitors -> Health \union {"none"}]
  /\ alert \in [Monitors -> BOOLEAN] /\ log \subseteq Monitors \X Recipient
  /\ mjob \in [Monitors -> [state : {"none", "queued", "running", "done", "failed"},
                            attempts : 0 .. MNAttempts, number : 0 .. MNJobs]]
  /\ mnfaults \in 0 .. MNFaults

(***************************************************************************)
(* A job is scanned once: however often it is retried it leaves at most    *)
(* one history entry, and it is not completed before its site has been     *)
(* scanned since it was created (runner.py:112-119).                       *)
(***************************************************************************)
ScannedOnce ==
  \A m \in Monitors : hist[m] <= 1 /\ (mjob[m].state = "done" => fresh[m])

(***************************************************************************)
(* A bad site its monitor saw first has its alert, and a difference of two *)
(* snapshots its change set, once the job is over, unless the worker died  *)
(* exactly between the commit and what follows from it.  (What an ordinary *)
(* scan sees first never becomes an alert: it is the next baseline.)       *)
(***************************************************************************)
NothingUnreported ==
  \A m \in Monitors : mjob[m].state = "done" =>
    /\ saw[m] = "monitor" => alert[m] \/ "alert" \in mncut[m]
    /\ m \in untold => "change" \in mncut[m]

(***************************************************************************)
(* A flapping site is no flood: a recipient gets one email per monitor in  *)
(* a window, and the organization as many as its limit and, when scans run *)
(* side by side, one more for each other one, except for an email that was *)
(* sent and never logged (notifications.py:151-175).                       *)
(***************************************************************************)
EmailsBounded ==
  /\ \A m \in Monitors, u \in Recipient :
       inbox[<<m, u>>] <= IF "email" \in mncut[m] THEN 1 + mnfaults ELSE 1
  /\ mails <= EmailCap + Cardinality(Monitors) - 1 + mnfaults

(***************************************************************************)
(* What was seen is told, and not too often (monitoring/runner.py:63-111). *)
(***************************************************************************)
AlertsSound == NothingUnreported /\ EmailsBounded
=============================================================================
