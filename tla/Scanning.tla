------------------------------ MODULE Scanning ------------------------------
(***************************************************************************)
(* Scans that people ask for: api/routes_scan.py (scan_slot, create_scan,  *)
(* run_scan, create_bulk_scan, execute_bulk_scan), the quotas of           *)
(* billing/entitlements.py and the bulk branch of monitoring/runner.py.    *)
(*                                                                         *)
(* The scans of one organization on the Free plan.  Each commit is an      *)
(* action; what a scan finds is left out.  A scan is accepted by what was  *)
(* read before it is made, and paid for by a usage event written after it. *)
(***************************************************************************)
EXTENDS Naturals, FiniteSets

CONSTANTS
  Caller,      \* requests that may be under way at once
  Slots,       \* scan_max_concurrency
  ScanLimit,   \* scan_limit of the plan
  MaxScans,    \* bound of the model: scans that are ever made
  BulkAttempts, \* max_attempts of a bulk scan's job
  ScFaults     \* bound of the model: crashes and exceptions

ASSUME ScanningAssumption ==
  {Slots, ScanLimit, MaxScans, BulkAttempts} \subseteq Nat \ {0} /\ ScFaults \in Nat /\ IsFiniteSet(Caller)

VARIABLES
  call,    \* what each request does, and the scan it made
  scan,    \* the scans: kind and status
  usage,   \* usage_events of the month
  trial,   \* Organization.used_bulk_trial
  bjob,    \* the job of each bulk scan: state and attempts
  bw,      \* what its executor does
  scfaults,
  cutAt,   \* history: where requests died: at "enqueue", "bill" or "trial", with their scan
  spoilt   \* history: scans that had completed when their last attempt was counted as failed

scVars == <<call, scan, usage, trial, bjob, bw, scfaults, cutAt, spoilt>>

Scan == 1 .. MaxScans
SingleSteps == {"preflight", "fetch", "bill"}
BulkSteps == {"bquota", "bcreate", "enqueue", "bbill", "trial"}

NoScan == [kind |-> "none", status |-> "none"]

ScInit ==
  /\ call = [q \in Caller |-> [pc |-> "idle", scan |-> 0]]
  /\ scan = [s \in Scan |-> NoScan]
  /\ usage = 0 /\ trial = "unused"
  /\ bjob = [s \in Scan |-> [state |-> "none", attempts |-> 0]]
  /\ bw = [s \in Scan |-> "idle"]
  /\ scfaults = 0 /\ cutAt = {} /\ spoilt = {}

CAt(q, pc) == call[q].pc = pc
CGo(q, pc) == call' = [call EXCEPT ![q].pc = pc]
Hang(q) == call' = [call EXCEPT ![q] = [pc |-> "idle", scan |-> 0]]

\* A new scan row, made by q, which then goes on to pc
NewScan(q, kind, status, pc) ==
  \E s \in Scan :
    /\ scan[s].kind = "none" /\ \A t \in 1 .. s - 1 : scan[t].kind # "none"
    /\ scan' = [scan EXCEPT ![s] = [kind |-> kind, status |-> status]]
    /\ call' = [call EXCEPT ![q] = [pc |-> pc, scan |-> s]]

\* scan_quota
QuotaLeft == usage < ScanLimit

----------------------------------------------------------------------------
(* A single page: create_scan and run_scan.                                *)

InSlot == {q \in Caller : call[q].pc \in SingleSteps}

\* Wrong: nobody waits for a slot.
EnterAnyway(q) ==
  /\ CAt(q, "idle")
  /\ CGo(q, "preflight")
  /\ UNCHANGED <<scan, usage, trial, bjob, bw, scfaults, cutAt, spoilt>>

\* scan_slot: who cannot start in time is turned away.
Enter(q) ==
  /\ CAt(q, "idle") /\ Cardinality(InSlot) < Slots
  /\ CGo(q, "preflight")
  /\ UNCHANGED <<scan, usage, trial, bjob, bw, scfaults, cutAt, spoilt>>

\* _scan_preflight: the quota is read once.
Preflight(q) ==
  /\ CAt(q, "preflight")
  /\ IF QuotaLeft THEN CGo(q, "fetch") ELSE Hang(q)
  /\ UNCHANGED <<scan, usage, trial, bjob, bw, scfaults, cutAt, spoilt>>

\* The page cannot be fetched, or the limiter or the URL check refuses it.
NotFetched(q) ==
  /\ CAt(q, "fetch") /\ Hang(q)
  /\ UNCHANGED <<scan, usage, trial, bjob, bw, scfaults, cutAt, spoilt>>

\* From the site or from the cache, the result becomes a row ...
Persist(q) ==
  /\ CAt(q, "fetch")
  /\ NewScan(q, "single", "completed", "bill")
  /\ UNCHANGED <<usage, trial, bjob, bw, scfaults, cutAt, spoilt>>

\* ... and the row is paid for (record_usage).
Bill(q) ==
  /\ CAt(q, "bill")
  /\ usage' = usage + 1 /\ Hang(q)
  /\ UNCHANGED <<scan, trial, bjob, bw, scfaults, cutAt, spoilt>>

----------------------------------------------------------------------------
(* A list of pages: create_bulk_scan.                                      *)

\* bulk_trial_available
AskBulk(q) ==
  /\ CAt(q, "idle") /\ trial = "unused"
  /\ CGo(q, "bquota")
  /\ UNCHANGED <<scan, usage, trial, bjob, bw, scfaults, cutAt, spoilt>>

BulkQuota(q) ==
  /\ CAt(q, "bquota")
  /\ IF QuotaLeft THEN CGo(q, "bcreate") ELSE Hang(q)
  /\ UNCHANGED <<scan, usage, trial, bjob, bw, scfaults, cutAt, spoilt>>

\* _create_pending_bulk_scan
BulkCreate(q) ==
  /\ CAt(q, "bcreate")
  /\ NewScan(q, "bulk", "pending", "enqueue")
  /\ UNCHANGED <<usage, trial, bjob, bw, scfaults, cutAt, spoilt>>

\* enqueue_bulk_scan
BulkEnqueue(q) ==
  /\ CAt(q, "enqueue")
  /\ bjob' = [bjob EXCEPT ![call[q].scan].state = "queued"]
  /\ CGo(q, "bbill")
  /\ UNCHANGED <<scan, usage, trial, bw, scfaults, cutAt, spoilt>>

\* Wrong: a bulk scan is not paid for when its trial is consumed.
BulkBillTrialOnly(q) ==
  /\ CAt(q, "bbill")
  /\ CGo(q, "trial")
  /\ UNCHANGED <<scan, usage, trial, bjob, bw, scfaults, cutAt, spoilt>>

BulkBill(q) ==
  /\ CAt(q, "bbill")
  /\ usage' = usage + 1 /\ CGo(q, "trial")
  /\ UNCHANGED <<scan, trial, bjob, bw, scfaults, cutAt, spoilt>>

\* mark_bulk_trial_used
UseTrial(q) ==
  /\ CAt(q, "trial")
  /\ trial' = "used" /\ Hang(q)
  /\ UNCHANGED <<scan, usage, bjob, bw, scfaults, cutAt, spoilt>>

----------------------------------------------------------------------------
(* The job: _process_bulk_scan_job and execute_bulk_scan.                  *)

BGo(s, pc) == bw' = [bw EXCEPT ![s] = pc]

ClaimBulk(s) ==
  /\ bjob[s].state = "queued" /\ bw[s] = "idle"
  /\ bjob' = [bjob EXCEPT ![s] = [state |-> "running", attempts |-> @.attempts + 1]]
  /\ BGo(s, "load")
  /\ UNCHANGED <<call, scan, usage, trial, scfaults, cutAt, spoilt>>

\* A scan that completed before is not made again.
LoadBulk(s) ==
  /\ bw[s] = "load"
  /\ IF scan[s].status = "completed"
     THEN BGo(s, "complete") /\ UNCHANGED scan
     ELSE BGo(s, "scan") /\ scan' = [scan EXCEPT ![s].status = "running"]
  /\ UNCHANGED <<call, usage, trial, bjob, scfaults, cutAt, spoilt>>

\* Every page is fetched or has its error; the result is one commit.
SaveBulk(s) ==
  /\ bw[s] = "scan"
  /\ scan' = [scan EXCEPT ![s].status = "completed"]
  /\ BGo(s, "complete")
  /\ UNCHANGED <<call, usage, trial, bjob, scfaults, cutAt, spoilt>>

CompleteBulk(s) ==
  /\ bw[s] = "complete"
  /\ bjob' = [bjob EXCEPT ![s].state = "done"]
  /\ BGo(s, "idle")
  /\ UNCHANGED <<call, scan, usage, trial, scfaults, cutAt, spoilt>>

\* Wrong: the scan is left as it is.
LeaveRunning(s) ==
  /\ bw[s] = "mark" /\ BGo(s, "idle")
  /\ UNCHANGED <<call, scan, usage, trial, bjob, scfaults, cutAt, spoilt>>

\* _mark_scan_failed, without a look at the scan's status
MarkScanFailed(s) ==
  /\ bw[s] = "mark" /\ BGo(s, "idle")
  /\ spoilt' = IF scan[s].status = "completed" THEN spoilt \union {s} ELSE spoilt
  /\ scan' = [scan EXCEPT ![s].status = "failed"]
  /\ UNCHANGED <<call, usage, trial, bjob, scfaults, cutAt>>

----------------------------------------------------------------------------
(* Faults.                                                                 *)

ScFault == scfaults < ScFaults /\ scfaults' = scfaults + 1

\* The process of a request dies, or its statement fails.
CallDies(q) ==
  /\ ~ CAt(q, "idle") /\ ScFault /\ Hang(q)
  /\ cutAt' = cutAt \union {<<call[q].pc, call[q].scan>>}
  /\ UNCHANGED <<scan, usage, trial, bjob, bw, spoilt>>

\* The executor raises, or dies and is recovered: another attempt or none left.
BulkFails(s) ==
  /\ bw[s] \in {"load", "scan", "complete"} /\ ScFault
  /\ \/ /\ bjob[s].attempts < BulkAttempts
        /\ bjob' = [bjob EXCEPT ![s].state = "queued"] /\ BGo(s, "idle")
     \/ /\ bjob[s].attempts >= BulkAttempts
        /\ bjob' = [bjob EXCEPT ![s].state = "failed"] /\ BGo(s, "mark")
  /\ UNCHANGED <<call, scan, usage, trial, cutAt, spoilt>>

\* ... or dies before the scan is finalized.
MarkDies(s) ==
  /\ bw[s] = "mark" /\ ScFault /\ BGo(s, "idle")
  /\ cutAt' = cutAt \union {<<"mark", s>>}
  /\ UNCHANGED <<call, scan, usage, trial, bjob, spoilt>>

CallStep(q) ==
  \/ Enter(q) \/ Preflight(q) \/ NotFetched(q) \/ Persist(q) \/ Bill(q)
  \/ AskBulk(q) \/ BulkQuota(q) \/ BulkCreate(q) \/ BulkEnqueue(q) \/ BulkBill(q) \/ UseTrial(q)
BulkStep(s) ==
  ClaimBulk(s) \/ LoadBulk(s) \/ SaveBulk(s) \/ CompleteBulk(s) \/ MarkScanFailed(s)

ScNext ==
  \/ \E q \in Caller : CallStep(q) \/ CallDies(q)
  \/ \E s \in Scan : BulkStep(s) \/ BulkFails(s) \/ MarkDies(s)
ScSpec == ScInit /\ [][ScNext]_scVars

----------------------------------------------------------------------------

Made == {s \in Scan : scan[s].kind # "none"}
Owing == {q \in Caller : call[q].pc \in {"bill", "enqueue", "bbill"}}
Unpaid == {c \in cutAt : c[1] \in {"bill", "enqueue", "bbill"}}

ScTypeOK ==
  /\ call \in [Caller -> [pc : {"idle"} \union SingleSteps \union BulkSteps, scan : 0 .. MaxScans]]
  /\ scan \in [Scan -> [kind : {"none", "single", "bulk"},
                        status : {"none", "pending", "running", "completed", "failed"}]]
  /\ usage \in 0 .. MaxScans /\ trial \in {"unused", "used"} /\ scfaults \in 0 .. ScFaults
  /\ bjob \in [Scan -> [state : {"none", "queued", "running", "done", "failed"}, attempts : 0 .. BulkAttempts]]

(***************************************************************************)
(* The meter is right: every scan of the organization has its usage event, *)
(* or the request that made it is about to write it or died exactly there; *)
(* and the quota is exceeded only by requests that were under way together *)
(* with the one that used it up (routes_scan.py:355-368, 789-790).         *)
(***************************************************************************)
ScansAccounted ==
  /\ Cardinality(Made) = usage + Cardinality(Owing) + Cardinality(Unpaid)
  /\ Cardinality(Made) <= ScanLimit + Cardinality(Caller) - 1 + Cardinality(Unpaid)
  /\ Cardinality(InSlot) <= Slots

(***************************************************************************)
(* A bulk scan the client polls ends: one that is pending or running has a *)
(* job that is queued or at work, or somebody died exactly where nobody    *)
(* takes over; and it is shown as failed only when its job has failed.     *)
(***************************************************************************)
BulkCarriedOn ==
  \A s \in Scan :
    /\ scan[s].status \in {"pending", "running"} =>
         \/ bjob[s].state \in {"queued", "running"} \/ bw[s] = "mark"
         \/ \E q \in Caller : call[q] = [pc |-> "enqueue", scan |-> s]
         \/ <<"enqueue", s>> \in cutAt \/ <<"mark", s>> \in cutAt
    /\ scan[s].status = "failed" => bjob[s].state = "failed"

(***************************************************************************)
(* The scans of an organization: the meter and the bulk scans are right    *)
(* together (routes_scan.py:355-368, runner.py:255-270).                   *)
(***************************************************************************)
ScansSound == ScansAccounted /\ BulkCarriedOn
=============================================================================
