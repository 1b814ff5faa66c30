--------------------------- MODULE RequestProofs ---------------------------
(***************************************************************************)
(* What holds of the requests of an organization however they overlap and  *)
(* for any values of the constants: its scans and their meter (Scanning),  *)
(* its members and invitations (Teams), its Google connection              *)
(* (GoogleSync), its accounts (Accounts), the events its pages collect     *)
(* (Ingest), and the limits on all of them (Limits).                       *)
(***************************************************************************)
EXTENDS Scanning, Teams, GoogleSync, Accounts, Ingest, Limits, SequenceTheorems,
        FiniteSetTheorems, TLAPS

(***************************************************************************)
(* Scans (Scanning)                                                        *)
(***************************************************************************)

\* The requests that have passed the quota check and not yet billed
Passed == {q \in Caller : call[q].pc \in {"fetch", "bill", "bcreate", "enqueue", "bbill"}}
OwningSteps == {"bill", "enqueue", "bbill"}

ScanTypes ==
  /\ call \in [Caller -> [pc : {"idle"} \union SingleSteps \union BulkSteps, scan : 0 .. MaxScans]]
  /\ scan \in [Scan -> [kind : {"none", "single", "bulk"},
                        status : {"none", "pending", "running", "completed", "failed"}]]
  /\ usage \in Nat /\ trial \in {"unused", "used"} /\ scfaults \in Nat
  /\ bjob \in [Scan -> [state : {"none", "queued", "running", "done", "failed"}, attempts : Nat]]
  /\ bw \in [Scan -> {"idle", "load", "scan", "complete", "mark"}]
  /\ IsFiniteSet(cutAt)
  /\ cutAt \subseteq ({"mark", "idle"} \union SingleSteps \union BulkSteps) \X (0 .. MaxScans)

\* A request owns the scan it has made until it has finished with it.
OwnedOnce ==
  /\ \A q \in Caller : call[q].pc \in OwningSteps \union {"trial"} =>
       /\ call[q].scan \in Made
       /\ \A c \in Unpaid : c[2] # call[q].scan
  /\ \A q, r \in Caller : q # r /\ call[q].pc \in OwningSteps \union {"trial"}
                          /\ call[r].pc \in OwningSteps \union {"trial"} => call[q].scan # call[r].scan
  /\ \A c \in Unpaid : c[2] \in Made

\* The meter: what is made is billed, owed or lost with a request that died; and what the quota let
\* through cannot exceed it by more than the other requests.
MeterInv ==
  /\ Cardinality(Made) = usage + Cardinality(Owing) + Cardinality(Unpaid)
  /\ usage + Cardinality(Passed) <= ScanLimit + Cardinality(Caller) - 1
  /\ Cardinality(InSlot) <= Slots

\* A bulk scan, its job and its executor go together.
BulkJobs ==
  \A s \in Scan :
    /\ scan[s].kind = "none" => scan[s].status = "none"
    /\ scan[s].status = "pending" => bjob[s].state \in {"none", "queued", "running"} \/ bw[s] = "mark" \/ <<"mark", s>> \in cutAt
    /\ bjob[s].state = "none" => scan[s].status \in {"none", "pending", "completed"} /\ bw[s] = "idle"
    /\ bjob[s].state # "none" => scan[s].kind = "bulk"
    /\ bw[s] \in {"load", "scan", "complete"} <=> bjob[s].state = "running"
    /\ bw[s] = "mark" => bjob[s].state = "failed"
    /\ bw[s] = "complete" => scan[s].status = "completed"
    /\ bjob[s].state = "done" => scan[s].status = "completed"
    /\ bjob[s].state = "failed" => scan[s].status = "failed" \/ bw[s] = "mark" \/ <<"mark", s>> \in cutAt
\* A bulk scan whose request has not queued it yet has no job.
Unqueued == \A q \in Caller : call[q].pc = "enqueue" =>
  /\ call[q].scan \in Scan
  /\ scan[call[q].scan].kind = "bulk" /\ bjob[call[q].scan].state = "none"
(***************************************************************************)
(* The inductive invariant of the scans (routes_scan.py, create_scan and   *)
(* create_bulk_scan; runner.py, _process_bulk_scan_job): the meter counts  *)
(* every scan at most once because a request owns the scan it has made,    *)
(* and a job, its executor and the status of its scan agree.               *)
(***************************************************************************)
ScanInv == ScanTypes /\ OwnedOnce /\ MeterInv /\ BulkJobs /\ Unqueued /\ BulkCarriedOn

\* The requests that are at one of the steps P
At(P) == {c \in Caller : call[c].pc \in P}
Step == {"idle"} \union SingleSteps \union BulkSteps

\* How the number of requests at some steps changes when one request moves.
LEMMA Turns ==
  ASSUME NEW q \in Caller, NEW r, call \in [Caller -> [pc : Step, scan : 0 .. MaxScans]],
         call' = [call EXCEPT ![q] = r], NEW P
  PROVE  /\ IsFiniteSet(At(P)) /\ Cardinality(At(P)) \in Nat /\ Cardinality(At(P)) <= Cardinality(Caller)
         /\ Cardinality(Caller) \in Nat \ {0}
         /\ (call[q].pc \in P <=> r.pc \in P) => At(P)' = At(P)
         /\ call[q].pc \notin P /\ r.pc \in P =>
              At(P)' = At(P) \union {q} /\ Cardinality(At(P)') = Cardinality(At(P)) + 1
         /\ call[q].pc \in P /\ r.pc \notin P =>
              At(P)' = At(P) \ {q} /\ Cardinality(At(P)') = Cardinality(At(P)) - 1
<1>1. IsFiniteSet(Caller) /\ At(P) \subseteq Caller  BY ScanningAssumption DEF At
<1>2. IsFiniteSet(At(P)) /\ Cardinality(At(P)) <= Cardinality(Caller)  BY <1>1, FS_Subset
<1>3. Cardinality(At(P)) \in Nat /\ Cardinality(Caller) \in Nat  BY <1>1, <1>2, FS_CardinalityType
<1>4. Cardinality(Caller) # 0  BY <1>1, FS_EmptySet
<1>5. (call[q].pc \in P <=> r.pc \in P) => At(P)' = At(P)  BY DEF At
<1>6. ASSUME call[q].pc \notin P, r.pc \in P
      PROVE  At(P)' = At(P) \union {q} /\ Cardinality(At(P)') = Cardinality(At(P)) + 1
  <2>1. At(P)' = At(P) \union {q} /\ q \notin At(P)  BY <1>6 DEF At
  <2> QED  BY <2>1, <1>2, FS_AddElement
<1>7. ASSUME call[q].pc \in P, r.pc \notin P
      PROVE  At(P)' = At(P) \ {q} /\ Cardinality(At(P)') = Cardinality(At(P)) - 1
  <2>1. At(P)' = At(P) \ {q} /\ q \in At(P)  BY <1>7 DEF At
  <2> QED  BY <2>1, <1>2, FS_RemoveElement
<1> QED  BY <1>2, <1>3, <1>4, <1>5, <1>6, <1>7

\* The sets the meter counts are finite.
LEMMA Sizes ==
  ASSUME ScanTypes
  PROVE  /\ IsFiniteSet(Made) /\ Cardinality(Made) \in Nat
         /\ IsFiniteSet(Unpaid) /\ Cardinality(Unpaid) \in Nat
<1>1. IsFiniteSet(Scan)  BY FS_Interval, ScanningAssumption DEF Scan
<1>2. IsFiniteSet(Made)  BY <1>1, FS_Subset DEF Made
<1>3. IsFiniteSet(Unpaid)  BY FS_Subset DEF Unpaid, ScanTypes
<1> QED  BY <1>2, <1>3, FS_CardinalityType

\* The invariant holds at the start.
LEMMA ScanInit == ScInit => ScanInv
<1> SUFFICES ASSUME ScInit PROVE ScanInv  OBVIOUS
<1>1. ScanTypes
  <2>1. IsFiniteSet(cutAt)  BY FS_EmptySet DEF ScInit
  <2> QED  BY <2>1, ScanningAssumption DEF ScInit, ScanTypes, NoScan
<1>2. Made = {} /\ Owing = {} /\ Unpaid = {} /\ Passed = {} /\ InSlot = {}
  BY DEF ScInit, Made, Owing, Unpaid, Passed, InSlot, NoScan, SingleSteps
<1>3. Cardinality({}) = 0 /\ Cardinality(Caller) \in Nat  BY FS_EmptySet, FS_CardinalityType, ScanningAssumption
<1>4. MeterInv  BY <1>2, <1>3, ScanningAssumption DEF MeterInv, ScInit
<1>5. OwnedOnce  BY <1>2 DEF OwnedOnce, ScInit, OwningSteps
<1>6. BulkJobs /\ Unqueued /\ BulkCarriedOn  BY DEF BulkJobs, Unqueued, BulkCarriedOn, ScInit, NoScan
<1> QED  BY <1>1, <1>4, <1>5, <1>6 DEF ScanInv

\* A step of a job's executor leaves the requests and the meter alone.
LEMMA ExecutorApart ==
  ASSUME ScanInv, UNCHANGED <<call, usage>>,
         scan' \in [Scan -> [kind : {"none", "single", "bulk"},
                             status : {"none", "pending", "running", "completed", "failed"}]],
         \A s \in Scan : scan'[s].kind = scan[s].kind, Unpaid' = Unpaid
  PROVE  OwnedOnce' /\ MeterInv'
<1>1. Made' = Made  BY DEF Made
<1>2. Owing' = Owing /\ Passed' = Passed /\ InSlot' = InSlot  BY DEF Owing, Passed, InSlot
<1>3. MeterInv'  BY <1>1, <1>2 DEF MeterInv, ScanInv
<1>4. OwnedOnce'  BY <1>1 DEF OwnedOnce, ScanInv
<1> QED  BY <1>3, <1>4

\* Every step of a job's executor preserves the invariant.
LEMMA ExecutorStep ==
  ASSUME ScanInv, NEW s \in Scan, BulkStep(s) \/ BulkFails(s) \/ MarkDies(s)
  PROVE  ScanInv'
<1> USE DEF ScanInv
<1>1. ASSUME ClaimBulk(s) PROVE ScanInv'
  <2>1. ScanTypes' /\ Unpaid' = Unpaid
    BY <1>1 DEF ClaimBulk, BGo, ScanTypes, Unpaid
  <2>2. OwnedOnce' /\ MeterInv'  BY <1>1, <2>1, ExecutorApart DEF ClaimBulk, ScanTypes
  <2>3. BulkJobs' /\ Unqueued' /\ BulkCarriedOn'  BY <1>1 DEF ClaimBulk, BGo, ScanTypes, BulkJobs, Unqueued, BulkCarriedOn
  <2> QED  BY <2>1, <2>2, <2>3
<1>2. ASSUME LoadBulk(s) PROVE ScanInv'
  <2>1. /\ UNCHANGED <<call, usage, trial, bjob, scfaults, cutAt, spoilt>> /\ bw[s] = "load"
        /\ \/ scan[s].status = "completed" /\ scan' = scan /\ bw' = [bw EXCEPT ![s] = "complete"]
           \/ scan' = [scan EXCEPT ![s].status = "running"] /\ bw' = [bw EXCEPT ![s] = "scan"]
    BY <1>2 DEF LoadBulk, BGo
  <2>2. Unpaid' = Unpaid  BY <2>1 DEF Unpaid
  <2>4. ScanTypes'  BY <2>1 DEF ScanTypes
  <2>5. \A t \in Scan : scan'[t].kind = scan[t].kind  BY <2>1 DEF ScanTypes
  <2>6. OwnedOnce' /\ MeterInv'  BY <2>1, <2>2, <2>4, <2>5, ExecutorApart DEF ScanTypes
  <2>3. BulkJobs' /\ Unqueued' /\ BulkCarriedOn'
    <3>1. CASE scan[s].status = "completed" /\ scan' = scan /\ bw' = [bw EXCEPT ![s] = "complete"]
      BY <2>1, <3>1 DEF ScanTypes, BulkJobs, Unqueued, BulkCarriedOn
    <3>2. CASE scan' = [scan EXCEPT ![s].status = "running"] /\ bw' = [bw EXCEPT ![s] = "scan"]
      BY <2>1, <3>2 DEF ScanTypes, BulkJobs, Unqueued, BulkCarriedOn
    <3> QED  BY <2>1, <3>1, <3>2
  <2> QED  BY <2>3, <2>4, <2>6
<1>3. ASSUME SaveBulk(s) PROVE ScanInv'
  <2>1. ScanTypes' /\ Unpaid' = Unpaid /\ (\A t \in Scan : scan'[t].kind = scan[t].kind)
    BY <1>3 DEF SaveBulk, BGo, ScanTypes, Unpaid
  <2>2. OwnedOnce' /\ MeterInv'  BY <1>3, <2>1, ExecutorApart DEF SaveBulk, ScanTypes
  <2>3. BulkJobs' /\ Unqueued' /\ BulkCarriedOn'  BY <1>3 DEF SaveBulk, BGo, ScanTypes, BulkJobs, Unqueued, BulkCarriedOn
  <2> QED  BY <2>1, <2>2, <2>3
<1>4. ASSUME CompleteBulk(s) PROVE ScanInv'
  <2>1. ScanTypes' /\ Unpaid' = Unpaid
    BY <1>4 DEF CompleteBulk, BGo, ScanTypes, Unpaid
  <2>2. OwnedOnce' /\ MeterInv'  BY <1>4, <2>1, ExecutorApart DEF CompleteBulk, ScanTypes
  <2>3. BulkJobs' /\ BulkCarriedOn'  BY <1>4 DEF CompleteBulk, BGo, ScanTypes, BulkJobs, BulkCarriedOn
  <2>4. bjob[s].state # "none" /\ call' = call /\ scan' = scan /\ \A t \in Scan \ {s} : bjob'[t] = bjob[t]
    BY <1>4 DEF CompleteBulk, ScanTypes, BulkJobs
  <2>5. Unqueued'  BY <2>4 DEF Unqueued
  <2> QED  BY <2>1, <2>2, <2>3, <2>5
<1>5. ASSUME MarkScanFailed(s) PROVE ScanInv'
  <2>1. ScanTypes' /\ Unpaid' = Unpaid /\ (\A t \in Scan : scan'[t].kind = scan[t].kind)
    BY <1>5 DEF MarkScanFailed, BGo, ScanTypes, Unpaid
  <2>2. OwnedOnce' /\ MeterInv'  BY <1>5, <2>1, ExecutorApart DEF MarkScanFailed, ScanTypes
  <2>3. BulkJobs' /\ Unqueued' /\ BulkCarriedOn'  BY <1>5 DEF MarkScanFailed, BGo, ScanTypes, BulkJobs, Unqueued, BulkCarriedOn
  <2> QED  BY <2>1, <2>2, <2>3
<1>6. ASSUME BulkFails(s) PROVE ScanInv'
  <2>1. ScanTypes' /\ Unpaid' = Unpaid
    BY <1>6 DEF BulkFails, ScFault, BGo, ScanTypes, Unpaid
  <2>2. OwnedOnce' /\ MeterInv'  BY <1>6, <2>1, ExecutorApart DEF BulkFails, ScanTypes
  <2>3. BulkJobs' /\ BulkCarriedOn'
    <3>1. UNCHANGED <<call, scan, cutAt>> /\ bw[s] \in {"load", "scan", "complete"}  BY <1>6 DEF BulkFails
    <3>2. CASE bjob' = [bjob EXCEPT ![s].state = "queued"] /\ bw' = [bw EXCEPT ![s] = "idle"]
      BY <3>1, <3>2 DEF ScanTypes, BulkJobs, BulkCarriedOn
    <3>3. CASE bjob' = [bjob EXCEPT ![s].state = "failed"] /\ bw' = [bw EXCEPT ![s] = "mark"]
      <4>1. BulkJobs'  BY <3>1, <3>3 DEF ScanTypes, BulkJobs
      <4>2. BulkCarriedOn'  BY <3>1, <3>3 DEF ScanTypes, BulkJobs, BulkCarriedOn
      <4> QED  BY <4>1, <4>2
    <3> QED  BY <1>6, <3>2, <3>3 DEF BulkFails, BGo
  <2>4. bjob[s].state # "none" /\ call' = call /\ scan' = scan /\ \A t \in Scan \ {s} : bjob'[t] = bjob[t]
    BY <1>6 DEF BulkFails, ScanTypes, BulkJobs
  <2>5. Unqueued'  BY <2>4 DEF Unqueued
  <2> QED  BY <2>1, <2>2, <2>3, <2>5
<1>7. ASSUME MarkDies(s) PROVE ScanInv'
  <2>0. IsFiniteSet(cutAt')  BY <1>7, FS_AddElement DEF MarkDies, ScanTypes
  <2>1. ScanTypes' /\ Unpaid' = Unpaid
    <3>1. <<"mark", s>>[1] = "mark" /\ <<"mark", s>> \in ({"mark", "idle"} \union SingleSteps \union BulkSteps) \X (0 .. MaxScans)
      BY ScanningAssumption DEF Scan
    <3>2. Unpaid' = Unpaid  BY <1>7, <3>1 DEF MarkDies, Unpaid
    <3> QED  BY <1>7, <2>0, <3>1, <3>2 DEF MarkDies, ScFault, BGo, ScanTypes
  <2>2. OwnedOnce' /\ MeterInv'  BY <1>7, <2>1, ExecutorApart DEF MarkDies, ScanTypes
  <2>3. BulkJobs' /\ Unqueued' /\ BulkCarriedOn'  BY <1>7 DEF MarkDies, BGo, ScanTypes, BulkJobs, Unqueued, BulkCarriedOn
  <2> QED  BY <2>1, <2>2, <2>3
<1> QED  BY <1>1, <1>2, <1>3, <1>4, <1>5, <1>6, <1>7 DEF BulkStep

\* Who owes for a scan or holds a slot is at one of these steps.
LEMMA Named == Owing = At({"bill", "enqueue", "bbill"}) /\ InSlot = At(SingleSteps)
               /\ Passed = At({"fetch", "bill", "bcreate", "enqueue", "bbill"})
BY DEF Owing, InSlot, Passed, At

\* A request that neither makes a scan nor dies with one to pay for.
LEMMA RequestMoves ==
  ASSUME ScanInv, NEW q \in Caller, NEW r \in [pc : Step, scan : 0 .. MaxScans],
         call' = [call EXCEPT ![q] = r], UNCHANGED <<scan, cutAt>>,
         usage' = usage \/ (usage' = usage + 1 /\ call[q].pc \in {"bill", "bbill"}),
         r.pc \in OwningSteps \union {"trial"} => r.scan = call[q].scan /\ call[q].pc \in OwningSteps,
         r.pc \in OwningSteps <=> (call[q].pc \in OwningSteps /\ usage' = usage),
         r.pc \in {"fetch", "bcreate"} => usage' = usage /\ usage < ScanLimit,
         r.pc \in SingleSteps /\ call[q].pc \notin SingleSteps => Cardinality(InSlot) < Slots
  PROVE  OwnedOnce' /\ MeterInv'
<1> USE DEF ScanInv
<1>1. Made' = Made /\ Unpaid' = Unpaid  BY DEF Made, Unpaid
<1>2. OwnedOnce'
  BY <1>1 DEF OwnedOnce, OwningSteps, ScanTypes
<1>3. call \in [Caller -> [pc : Step, scan : 0 .. MaxScans]]  BY DEF ScanTypes, Step
<1> DEFINE o == At({"bill", "enqueue", "bbill"})
           f == At({"fetch", "bill", "bcreate", "enqueue", "bbill"})
           l == At(SingleSteps)
<1>4. /\ Cardinality(o) \in Nat /\ Cardinality(f) \in Nat /\ Cardinality(l) \in Nat
      /\ Cardinality(f) <= Cardinality(Caller) /\ Cardinality(Caller) \in Nat \ {0}
      /\ IsFiniteSet(f)
  BY <1>3, Turns
<1>5. /\ usage' = usage => Cardinality(o') = Cardinality(o)
      /\ usage' = usage + 1 => Cardinality(o') = Cardinality(o) - 1
  <2>1. (call[q].pc \in {"bill", "enqueue", "bbill"} <=> r.pc \in {"bill", "enqueue", "bbill"})
          => Cardinality(o') = Cardinality(o)  BY <1>3, Turns
  <2>2. call[q].pc \in {"bill", "enqueue", "bbill"} /\ r.pc \notin {"bill", "enqueue", "bbill"}
          => Cardinality(o') = Cardinality(o) - 1  BY <1>3, Turns
  <2>3. usage \in Nat  BY DEF ScanTypes
  <2> HIDE DEF o
  <2> QED  BY <2>1, <2>2, <2>3 DEF OwningSteps
<1>6. usage' + Cardinality(f') <= ScanLimit + Cardinality(Caller) - 1
  <2>1. (call[q].pc \in {"fetch", "bill", "bcreate", "enqueue", "bbill"} <=>
           r.pc \in {"fetch", "bill", "bcreate", "enqueue", "bbill"}) => Cardinality(f') = Cardinality(f)
    BY <1>3, Turns
  <2>2. call[q].pc \in {"fetch", "bill", "bcreate", "enqueue", "bbill"}
          /\ r.pc \notin {"fetch", "bill", "bcreate", "enqueue", "bbill"} => Cardinality(f') = Cardinality(f) - 1
    BY <1>3, Turns
  <2>3. call[q].pc \notin {"fetch", "bill", "bcreate", "enqueue", "bbill"}
          /\ r.pc \in {"fetch", "bill", "bcreate", "enqueue", "bbill"}
          => Cardinality(f') = Cardinality(f) + 1 /\ usage < ScanLimit /\ usage' = usage
    BY <1>3, Turns DEF OwningSteps
  <2>4. call[q].pc \notin {"fetch", "bill", "bcreate", "enqueue", "bbill"} => Cardinality(f) <= Cardinality(Caller) - 1
    <3>1. ASSUME call[q].pc \notin {"fetch", "bill", "bcreate", "enqueue", "bbill"}
          PROVE  Cardinality(f) <= Cardinality(Caller) - 1
      <4>1. f \subseteq Caller \ {q}  BY <3>1 DEF At
      <4>2. IsFiniteSet(Caller) /\ Cardinality(Caller \ {q}) = Cardinality(Caller) - 1 /\ IsFiniteSet(Caller \ {q})
        BY ScanningAssumption, FS_RemoveElement
      <4> QED  BY <4>1, <4>2, FS_Subset
    <3> QED  BY <3>1
  <2>5. usage + Cardinality(f) <= ScanLimit + Cardinality(Caller) - 1  BY <1>4, Named DEF MeterInv
  <2>6. usage \in Nat /\ ScanLimit \in Nat  BY ScanningAssumption DEF ScanTypes
  <2>7. usage' = usage + 1 => /\ call[q].pc \in {"fetch", "bill", "bcreate", "enqueue", "bbill"}
                              /\ r.pc \notin {"fetch", "bill", "bcreate", "enqueue", "bbill"}
    BY <2>6 DEF OwningSteps
  <2> DEFINE in == call[q].pc \in {"fetch", "bill", "bcreate", "enqueue", "bbill"}
             out == r.pc \in {"fetch", "bill", "bcreate", "enqueue", "bbill"}
  <2> HIDE DEF in, out, f
  <2>8. CASE in <=> out  BY <2>8, <2>1, <2>5, <2>6, <2>7, <1>4 DEF in, out
  <2>9. CASE in /\ ~ out  BY <2>9, <2>2, <2>5, <2>6, <1>4 DEF in, out
  <2>10. CASE ~ in /\ out  BY <2>10, <2>3, <2>4, <2>5, <2>6, <1>4 DEF in, out
  <2> QED  BY <2>8, <2>9, <2>10
<1>7. Cardinality(l') <= Slots
  <2>1. (call[q].pc \in SingleSteps <=> r.pc \in SingleSteps) => Cardinality(l') = Cardinality(l)  BY <1>3, Turns
  <2>2. call[q].pc \in SingleSteps /\ r.pc \notin SingleSteps => Cardinality(l') = Cardinality(l) - 1
    BY <1>3, Turns
  <2>3. call[q].pc \notin SingleSteps /\ r.pc \in SingleSteps
          => Cardinality(l') = Cardinality(l) + 1 /\ Cardinality(l) < Slots  BY <1>3, Turns, Named
  <2>4. Cardinality(l) <= Slots /\ Slots \in Nat  BY Named, ScanningAssumption DEF MeterInv
  <2> HIDE DEF l
  <2> QED  BY <1>4, <2>1, <2>2, <2>3, <2>4
<1> HIDE DEF o, f, l
<1>8. MeterInv'
  <2>1. Cardinality(Made) = usage + Cardinality(o) + Cardinality(Unpaid)  BY Named DEF MeterInv, o
  <2>2. Cardinality(Made') = usage' + Cardinality(o') + Cardinality(Unpaid')
    BY <1>1, <1>4, <1>5, <2>1, Sizes DEF ScanTypes
  <2>3. Owing' = o' /\ Passed' = f' /\ InSlot' = l'  BY DEF o, f, l, Owing, Passed, InSlot, At
  <2> QED  BY <1>6, <1>7, <2>2, <2>3 DEF MeterInv
<1> QED  BY <1>2, <1>8

\* A request that makes a scan, which it owes for.
LEMMA RequestMakes ==
  ASSUME ScanInv, NEW q \in Caller, NEW k \in {"single", "bulk"}, NEW st \in {"pending", "completed"},
         NEW pc \in {"bill", "enqueue"}, NewScan(q, k, st, pc), UNCHANGED <<usage, cutAt>>,
         call[q].pc \in {"fetch", "bcreate"}, call[q].pc = "fetch" <=> pc = "bill"
  PROVE  OwnedOnce' /\ MeterInv'
<1> USE DEF ScanInv
<1> PICK s \in Scan : /\ scan[s].kind = "none"
                      /\ scan' = [scan EXCEPT ![s] = [kind |-> k, status |-> st]]
                      /\ call' = [call EXCEPT ![q] = [pc |-> pc, scan |-> s]]
  BY DEF NewScan
<1>1. Made' = Made \union {s} /\ s \notin Made /\ Unpaid' = Unpaid  BY DEF Made, Unpaid, ScanTypes
<1>2. OwnedOnce'
  BY <1>1 DEF OwnedOnce, OwningSteps, ScanTypes
<1>3. call \in [Caller -> [pc : Step, scan : 0 .. MaxScans]]  BY DEF ScanTypes, Step
<1> DEFINE r == [pc |-> pc, scan |-> s]
<1>4. Cardinality(Made') = Cardinality(Made) + 1  BY <1>1, Sizes, FS_AddElement
<1>5. Cardinality(Owing') = Cardinality(Owing) + 1 /\ Cardinality(Owing) \in Nat
  <2>1. call[q].pc \notin {"bill", "enqueue", "bbill"} /\ r.pc \in {"bill", "enqueue", "bbill"}  OBVIOUS
  <2>2. /\ Cardinality(At({"bill", "enqueue", "bbill"})') = Cardinality(At({"bill", "enqueue", "bbill"})) + 1
        /\ Cardinality(At({"bill", "enqueue", "bbill"})) \in Nat
    BY <1>3, <2>1, Turns
  <2> QED  BY <2>2 DEF Owing, At
<1>6. Passed' = Passed
  <2>1. call[q].pc \in {"fetch", "bill", "bcreate", "enqueue", "bbill"}
        /\ r.pc \in {"fetch", "bill", "bcreate", "enqueue", "bbill"}  OBVIOUS
  <2>2. At({"fetch", "bill", "bcreate", "enqueue", "bbill"})' = At({"fetch", "bill", "bcreate", "enqueue", "bbill"})
    BY <1>3, <2>1, Turns
  <2> QED  BY <2>2 DEF Passed, At
<1>7. InSlot' = InSlot
  <2>1. call[q].pc \in SingleSteps <=> r.pc \in SingleSteps  BY DEF SingleSteps
  <2>2. At(SingleSteps)' = At(SingleSteps)  BY <1>3, <2>1, Turns
  <2> QED  BY <2>2 DEF InSlot, At
<1>8. MeterInv'
  <2>1. Cardinality(Made') = usage' + Cardinality(Owing') + Cardinality(Unpaid')
    BY <1>1, <1>4, <1>5, Sizes DEF MeterInv, ScanTypes
  <2> QED  BY <1>6, <1>7, <2>1 DEF MeterInv
<1> QED  BY <1>2, <1>8

\* A request that dies, with a scan to pay for or not.
LEMMA ScanRequestDies ==
  ASSUME ScanInv, NEW q \in Caller, CallDies(q)
  PROVE  ScanTypes' /\ OwnedOnce' /\ MeterInv'
<1> USE DEF ScanInv
<1> DEFINE c == <<call[q].pc, call[q].scan>>
           r == [pc |-> "idle", scan |-> 0]
<1>0. /\ call' = [call EXCEPT ![q] = r] /\ cutAt' = cutAt \union {c} /\ call[q].pc # "idle"
      /\ UNCHANGED <<scan, usage, trial, bjob, bw, spoilt>> /\ scfaults' = scfaults + 1
  BY DEF CallDies, Hang, ScFault, CAt
<1>1. call \in [Caller -> [pc : Step, scan : 0 .. MaxScans]]  BY DEF ScanTypes, Step
<1>2. ScanTypes'
  <2>1. IsFiniteSet(cutAt')  BY <1>0, FS_AddElement DEF ScanTypes
  <2>2. c \in ({"mark", "idle"} \union SingleSteps \union BulkSteps) \X (0 .. MaxScans)  BY DEF ScanTypes
  <2>3. call' \in [Caller -> [pc : {"idle"} \union SingleSteps \union BulkSteps, scan : 0 .. MaxScans]]
    BY <1>0, ScanningAssumption DEF ScanTypes
  <2> QED  BY <1>0, <2>1, <2>2, <2>3 DEF ScanTypes
<1>3. CASE call[q].pc \notin OwningSteps
  <2>1. Unpaid' = Unpaid  BY <1>0, <1>3 DEF Unpaid, OwningSteps
  <2>2. Made' = Made  BY <1>0 DEF Made
  <2>3. OwnedOnce'  BY <1>0, <1>3, <2>1, <2>2 DEF OwnedOnce, OwningSteps, ScanTypes
  <2>4. /\ Owing' = Owing
        /\ InSlot' = InSlot \/ (Cardinality(InSlot') = Cardinality(InSlot) - 1 /\ Cardinality(InSlot) \in Nat)
        /\ Passed' = Passed \/ (Cardinality(Passed') = Cardinality(Passed) - 1 /\ Cardinality(Passed) \in Nat)
    <3> DEFINE o == {"bill", "enqueue", "bbill"}
               f == {"fetch", "bill", "bcreate", "enqueue", "bbill"}
    <3>1. r.pc \notin o /\ r.pc \notin f /\ r.pc \notin SingleSteps  BY DEF SingleSteps
    <3>2. call[q].pc \notin o  BY <1>3 DEF OwningSteps
    <3>3. At(o)' = At(o)  BY <1>0, <1>1, <3>1, <3>2, Turns
    <3>4. At(f)' = At(f) \/ (Cardinality(At(f)') = Cardinality(At(f)) - 1 /\ Cardinality(At(f)) \in Nat)
      BY <1>0, <1>1, <3>1, Turns
    <3>5. \/ At(SingleSteps)' = At(SingleSteps)
          \/ Cardinality(At(SingleSteps)') = Cardinality(At(SingleSteps)) - 1 /\ Cardinality(At(SingleSteps)) \in Nat
      BY <1>0, <1>1, <3>1, Turns
    <3> QED  BY <3>3, <3>4, <3>5 DEF At, Owing, Passed, InSlot
  <2>5. MeterInv'
    BY <1>0, <2>1, <2>2, <2>4, ScanningAssumption, FS_CardinalityType DEF MeterInv, ScanTypes
  <2> QED  BY <1>2, <2>3, <2>5
<1>4. CASE call[q].pc \in OwningSteps
  <2>1. Unpaid' = Unpaid \union {c} /\ c \notin Unpaid
    BY <1>0, <1>4 DEF Unpaid, OwningSteps, OwnedOnce
  <2>2. Made' = Made  BY <1>0 DEF Made
  <2>3. OwnedOnce'
    <3>1. call[q].scan \in Made /\ c[2] = call[q].scan  BY <1>4 DEF OwnedOnce
    <3>2. \A p \in Caller : call'[p].pc \in OwningSteps \union {"trial"} => p # q /\ call'[p] = call[p]
      BY <1>0 DEF OwningSteps, ScanTypes
    <3>3. \A p \in Caller : p # q /\ call[p].pc \in OwningSteps \union {"trial"} => call[p].scan # c[2]
      BY <1>4, <3>1 DEF OwnedOnce
    <3> HIDE DEF c
    <3> QED  BY <2>1, <2>2, <3>1, <3>2, <3>3 DEF OwnedOnce
  <2>4. Cardinality(Unpaid') = Cardinality(Unpaid) + 1  BY <2>1, Sizes, FS_AddElement
  <2>5. /\ Cardinality(Owing') = Cardinality(Owing) - 1 /\ Cardinality(Owing) \in Nat
        /\ InSlot' = InSlot \/ (Cardinality(InSlot') = Cardinality(InSlot) - 1 /\ Cardinality(InSlot) \in Nat)
        /\ Passed' = Passed \/ (Cardinality(Passed') = Cardinality(Passed) - 1 /\ Cardinality(Passed) \in Nat)
    <3> DEFINE o == {"bill", "enqueue", "bbill"}
               f == {"fetch", "bill", "bcreate", "enqueue", "bbill"}
    <3>1. r.pc \notin o /\ r.pc \notin f /\ r.pc \notin SingleSteps  BY DEF SingleSteps
    <3>2. call[q].pc \in o  BY <1>4 DEF OwningSteps
    <3>3. Cardinality(At(o)') = Cardinality(At(o)) - 1 /\ Cardinality(At(o)) \in Nat
      BY <1>0, <1>1, <3>1, <3>2, Turns
    <3>4. At(f)' = At(f) \/ (Cardinality(At(f)') = Cardinality(At(f)) - 1 /\ Cardinality(At(f)) \in Nat)
      BY <1>0, <1>1, <3>1, Turns
    <3>5. \/ At(SingleSteps)' = At(SingleSteps)
          \/ Cardinality(At(SingleSteps)') = Cardinality(At(SingleSteps)) - 1 /\ Cardinality(At(SingleSteps)) \in Nat
      BY <1>0, <1>1, <3>1, Turns
    <3> QED  BY <3>3, <3>4, <3>5 DEF At, Owing, Passed, InSlot
  <2>6. MeterInv'
    <3>1. Cardinality(Made') = usage' + Cardinality(Owing') + Cardinality(Unpaid')
      BY <1>0, <2>2, <2>4, <2>5, Sizes DEF MeterInv, ScanTypes
    <3> QED
      BY <1>0, <2>5, <3>1, ScanningAssumption, FS_CardinalityType DEF MeterInv, ScanTypes
  <2> QED  BY <1>2, <2>3, <2>6
<1> QED  BY <1>3, <1>4

\* A move of a request that does not touch scans or jobs: only who waits to enqueue matters.
LEMMA JobsApart ==
  ASSUME ScanInv, NEW q \in Caller, NEW r \in [pc : Step, scan : 0 .. MaxScans],
         call' = [call EXCEPT ![q] = r], UNCHANGED <<scan, bjob, bw>>,
         r.pc \notin {"bill", "enqueue"}, cutAt \subseteq cutAt',
         call[q].pc = "enqueue" => <<"enqueue", call[q].scan>> \in cutAt'
  PROVE  BulkJobs' /\ Unqueued' /\ BulkCarriedOn'
<1> USE DEF ScanInv
<1>1. BulkJobs'  BY DEF BulkJobs
<1>3. Unqueued'  BY DEF Unqueued, ScanTypes
<1>2. BulkCarriedOn'
  <2> SUFFICES ASSUME NEW s \in Scan, scan[s].status \in {"pending", "running"},
                      bjob[s].state \notin {"queued", "running"}, bw[s] # "mark"
               PROVE  \/ \E p \in Caller : call'[p] = [pc |-> "enqueue", scan |-> s]
                      \/ <<"enqueue", s>> \in cutAt' \/ <<"mark", s>> \in cutAt'
    BY DEF BulkCarriedOn
  <2> DEFINE enqueueing == [pc |-> "enqueue", scan |-> s]
  <2>1. CASE <<"enqueue", s>> \in cutAt \/ <<"mark", s>> \in cutAt  BY <2>1
  <2>2. ASSUME NEW p \in Caller, call[p] = enqueueing
        PROVE  (\E o \in Caller : call'[o] = enqueueing) \/ <<"enqueue", s>> \in cutAt'
    <3>1. CASE p = q  BY <2>2, <3>1
    <3>2. CASE p # q
      <4>1. call'[p] = call[p]  BY <3>2 DEF ScanTypes
      <4> QED  BY <2>2, <4>1
    <3> QED  BY <3>1, <3>2
  <2> QED  BY <2>1, <2>2 DEF BulkCarriedOn
<1> QED  BY <1>1, <1>2, <1>3

\* Every step of a request preserves the invariant.
LEMMA RequestStep ==
  ASSUME ScanInv, NEW q \in Caller, CallStep(q)
  PROVE  ScanInv'
<1> USE DEF ScanInv
<1>1. Cardinality(InSlot) < Slots \/ ~ Enter(q)  BY DEF Enter
<1>2. CASE Enter(q) \/ Preflight(q) \/ NotFetched(q) \/ Bill(q) \/ AskBulk(q) \/ BulkQuota(q) \/ BulkBill(q) \/ UseTrial(q)
  <2>1. PICK r \in [pc : Step, scan : 0 .. MaxScans] :
          /\ call' = [call EXCEPT ![q] = r]
          /\ r.pc \notin {"bill", "enqueue"}
          /\ r.pc \in OwningSteps \union {"trial"} => r.scan = call[q].scan /\ call[q].pc \in OwningSteps
          /\ r.pc \in OwningSteps <=> (call[q].pc \in OwningSteps /\ usage' = usage)
          /\ r.pc \in {"fetch", "bcreate"} => usage' = usage /\ usage < ScanLimit
          /\ r.pc \in SingleSteps /\ call[q].pc \notin SingleSteps => Cardinality(InSlot) < Slots
          /\ call[q].pc # "enqueue"
          /\ usage' = usage \/ (usage' = usage + 1 /\ call[q].pc \in {"bill", "bbill"})
    <3> DEFINE to(r) ==
          /\ call' = [call EXCEPT ![q] = r]
          /\ r.pc \notin {"bill", "enqueue"}
          /\ r.pc \in OwningSteps \union {"trial"} => r.scan = call[q].scan /\ call[q].pc \in OwningSteps
          /\ r.pc \in OwningSteps <=> (call[q].pc \in OwningSteps /\ usage' = usage)
          /\ r.pc \in {"fetch", "bcreate"} => usage' = usage /\ usage < ScanLimit
          /\ r.pc \in SingleSteps /\ call[q].pc \notin SingleSteps => Cardinality(InSlot) < Slots
          /\ call[q].pc # "enqueue"
          /\ usage' = usage \/ (usage' = usage + 1 /\ call[q].pc \in {"bill", "bbill"})
    <3> DEFINE idle == [pc |-> "idle", scan |-> 0]
               at(x) == [pc |-> x, scan |-> call[q].scan]
    <3>0. /\ idle \in [pc : Step, scan : 0 .. MaxScans]
          /\ \A x \in Step : at(x) \in [pc : Step, scan : 0 .. MaxScans]
          /\ \A x \in Step : CGo(q, x) => call' = [call EXCEPT ![q] = at(x)]
          /\ {"preflight", "fetch", "bquota", "bcreate", "trial"} \subseteq Step
          /\ usage \in Nat
      BY ScanningAssumption DEF ScanTypes, Step, CGo, SingleSteps, BulkSteps
    <3>1. CASE Enter(q)
      <4>1. to(at("preflight"))  BY <3>0, <3>1 DEF Enter, CAt, OwningSteps, SingleSteps
      <4> QED  BY <3>0, <4>1
    <3>2. CASE Preflight(q)
      <4>1. CASE QuotaLeft
        <5>1. to(at("fetch"))  BY <3>0, <3>2, <4>1 DEF Preflight, CAt, OwningSteps, SingleSteps, QuotaLeft
        <5> QED  BY <3>0, <5>1
      <4>2. CASE ~ QuotaLeft
        <5>1. to(idle)  BY <3>0, <3>2, <4>2 DEF Preflight, CAt, OwningSteps, SingleSteps, Hang
        <5> QED  BY <3>0, <5>1
      <4> QED  BY <4>1, <4>2
    <3>3. CASE NotFetched(q)
      <4>1. to(idle)  BY <3>0, <3>3 DEF NotFetched, CAt, OwningSteps, SingleSteps, Hang
      <4> QED  BY <3>0, <4>1
    <3>4. CASE Bill(q)
      <4>1. to(idle)  BY <3>0, <3>4 DEF Bill, CAt, OwningSteps, SingleSteps, Hang
      <4> QED  BY <3>0, <4>1
    <3>5. CASE AskBulk(q)
      <4>1. to(at("bquota"))  BY <3>0, <3>5 DEF AskBulk, CAt, OwningSteps, SingleSteps
      <4> QED  BY <3>0, <4>1
    <3>6. CASE BulkQuota(q)
      <4>1. CASE QuotaLeft
        <5>1. to(at("bcreate"))  BY <3>0, <3>6, <4>1 DEF BulkQuota, CAt, OwningSteps, SingleSteps, QuotaLeft
        <5> QED  BY <3>0, <5>1
      <4>2. CASE ~ QuotaLeft
        <5>1. to(idle)  BY <3>0, <3>6, <4>2 DEF BulkQuota, CAt, OwningSteps, SingleSteps, Hang
        <5> QED  BY <3>0, <5>1
      <4> QED  BY <4>1, <4>2
    <3>7. CASE BulkBill(q)
      <4>1. to(at("trial"))  BY <3>0, <3>7 DEF BulkBill, CAt, OwningSteps, SingleSteps
      <4> QED  BY <3>0, <4>1
    <3>8. CASE UseTrial(q)
      <4>1. to(idle)  BY <3>0, <3>8 DEF UseTrial, CAt, OwningSteps, SingleSteps, Hang
      <4> QED  BY <3>0, <4>1
    <3> QED  BY <1>2, <3>1, <3>2, <3>3, <3>4, <3>5, <3>6, <3>7, <3>8
  <2>2. UNCHANGED <<scan, bjob, bw, cutAt, scfaults>> /\ trial' \in {"unused", "used"}
    BY <1>2 DEF Enter, Preflight, NotFetched, Bill, AskBulk, BulkQuota, BulkBill, UseTrial, ScanTypes
  <2>3. OwnedOnce' /\ MeterInv'  BY <2>1, <2>2, RequestMoves
  <2>4. BulkJobs' /\ Unqueued' /\ BulkCarriedOn'  BY <2>1, <2>2, JobsApart
  <2>5. ScanTypes'  BY <2>1, <2>2 DEF ScanTypes, Step
  <2> QED  BY <2>3, <2>4, <2>5
<1>3. CASE BulkEnqueue(q)
  <2> DEFINE r == [pc |-> "bbill", scan |-> call[q].scan]
             s == call[q].scan
  <2>1. /\ call' = [call EXCEPT ![q] = r] /\ r \in [pc : Step, scan : 0 .. MaxScans] /\ call[q].pc = "enqueue"
        /\ UNCHANGED <<scan, usage, trial, bw, scfaults, cutAt, spoilt>> /\ s \in Scan
        /\ bjob' = [bjob EXCEPT ![s].state = "queued"]
    <3>1. /\ CAt(q, "enqueue") /\ CGo(q, "bbill") /\ bjob' = [bjob EXCEPT ![s].state = "queued"]
          /\ UNCHANGED <<scan, usage, trial, bw, scfaults, cutAt, spoilt>>
      BY <1>3 DEF BulkEnqueue
    <3>2. call' = [call EXCEPT ![q] = r] /\ r \in [pc : Step, scan : 0 .. MaxScans]
      <4>1. r \in [pc : Step, scan : 0 .. MaxScans]  BY DEF ScanTypes, Step, BulkSteps
      <4>2. call[q] \in [pc : Step, scan : 0 .. MaxScans]  BY DEF ScanTypes, Step
      <4>3. [call[q] EXCEPT !.pc = "bbill"] = r  BY <4>2
      <4>4. call' = [call EXCEPT ![q] = [call[q] EXCEPT !.pc = "bbill"]]  BY <3>1 DEF CGo
      <4> QED  BY <4>1, <4>3, <4>4
    <3>3. call[q].pc = "enqueue"  BY <3>1 DEF CAt
    <3>4. s \in Scan  BY <3>3 DEF Unqueued
    <3> QED  BY <3>1, <3>2, <3>3, <3>4
  <2>2. OwnedOnce' /\ MeterInv'  BY <2>1, RequestMoves DEF OwningSteps, SingleSteps
  <2>3. ScanTypes'  BY <2>1 DEF ScanTypes, Step
  <2>4. scan[s].kind = "bulk" /\ bjob[s].state = "none" /\ bw[s] = "idle"  BY <2>1 DEF BulkJobs, Unqueued
  <2>5. \A p \in Caller \ {q} : call[p].pc = "enqueue" => call[p].scan # s
    BY <2>1 DEF OwnedOnce, OwningSteps
  <2>6. BulkJobs'  BY <2>1, <2>4 DEF BulkJobs, ScanTypes
  <2>7. Unqueued'  BY <2>1, <2>5 DEF Unqueued, ScanTypes
  <2>8. BulkCarriedOn'
    <3> SUFFICES ASSUME NEW u \in Scan
                 PROVE  /\ scan[u].status \in {"pending", "running"} =>
                             \/ bjob'[u].state \in {"queued", "running"} \/ bw[u] = "mark"
                             \/ \E p \in Caller : call'[p] = [pc |-> "enqueue", scan |-> u]
                             \/ <<"enqueue", u>> \in cutAt \/ <<"mark", u>> \in cutAt
                        /\ scan[u].status = "failed" => bjob'[u].state = "failed"
      BY <2>1 DEF BulkCarriedOn
    <3>1. CASE u = s  BY <2>1, <2>4, <3>1 DEF BulkJobs, ScanTypes
    <3>2. CASE u # s
      <4>1. bjob'[u] = bjob[u]  BY <2>1, <3>2 DEF ScanTypes
      <4>2. ASSUME NEW p \in Caller, call[p] = [pc |-> "enqueue", scan |-> u]
            PROVE  call'[p] = [pc |-> "enqueue", scan |-> u]
        <5>1. p # q  BY <3>2, <4>2
        <5> QED  BY <2>1, <4>2, <5>1 DEF ScanTypes
      <4> QED  BY <4>1, <4>2 DEF BulkCarriedOn
    <3> QED  BY <3>1, <3>2
  <2> QED  BY <2>2, <2>3, <2>6, <2>7, <2>8
<1>4. CASE Persist(q)
  <2>1. /\ NewScan(q, "single", "completed", "bill") /\ call[q].pc = "fetch"
        /\ UNCHANGED <<usage, trial, bjob, bw, scfaults, cutAt, spoilt>>
    BY <1>4 DEF Persist, CAt
  <2>2. OwnedOnce' /\ MeterInv'  BY <2>1, RequestMakes
  <2>3. PICK s \in Scan : /\ scan[s].kind = "none"
                          /\ scan' = [scan EXCEPT ![s] = [kind |-> "single", status |-> "completed"]]
                          /\ call' = [call EXCEPT ![q] = [pc |-> "bill", scan |-> s]]
    BY <2>1 DEF NewScan
  <2>4. ScanTypes'  BY <2>1, <2>3 DEF ScanTypes, SingleSteps, Scan
  <2>5. bjob[s].state = "none" /\ bw[s] = "idle"  BY <2>3 DEF BulkJobs, ScanTypes
  <2>6. \A p \in Caller \ {q} : call[p].pc \in {"enqueue", "bill"} => call[p].scan # s
    BY <2>3 DEF OwnedOnce, OwningSteps, Made
  <2>7. BulkJobs'  BY <2>1, <2>3, <2>5 DEF BulkJobs, ScanTypes
  <2>8. Unqueued'  BY <2>1, <2>3, <2>5, <2>6 DEF Unqueued, ScanTypes
  <2>9. BulkCarriedOn'
    <3> SUFFICES ASSUME NEW u \in Scan
                 PROVE  /\ scan'[u].status \in {"pending", "running"} =>
                             \/ bjob[u].state \in {"queued", "running"} \/ bw[u] = "mark"
                             \/ \E p \in Caller : call'[p] = [pc |-> "enqueue", scan |-> u]
                             \/ <<"enqueue", u>> \in cutAt \/ <<"mark", u>> \in cutAt
                        /\ scan'[u].status = "failed" => bjob[u].state = "failed"
      BY <2>1 DEF BulkCarriedOn
    <3>1. CASE u = s  BY <2>3, <3>1 DEF ScanTypes
    <3>2. CASE u # s
      <4>1. scan'[u] = scan[u]  BY <2>3, <3>2 DEF ScanTypes
      <4>2. ASSUME NEW p \in Caller, call[p] = [pc |-> "enqueue", scan |-> u]
            PROVE  call'[p] = [pc |-> "enqueue", scan |-> u]
        <5>1. p # q  BY <2>1, <4>2
        <5> QED  BY <2>3, <4>2, <5>1 DEF ScanTypes
      <4> QED  BY <4>1, <4>2 DEF BulkCarriedOn
    <3> QED  BY <3>1, <3>2
  <2> QED  BY <2>2, <2>4, <2>7, <2>8, <2>9
<1>5. CASE BulkCreate(q)
  <2>1. /\ NewScan(q, "bulk", "pending", "enqueue") /\ call[q].pc = "bcreate"
        /\ UNCHANGED <<usage, trial, bjob, bw, scfaults, cutAt, spoilt>>
    BY <1>5 DEF BulkCreate, CAt
  <2>2. OwnedOnce' /\ MeterInv'  BY <2>1, RequestMakes
  <2>3. PICK s \in Scan : /\ scan[s].kind = "none"
                          /\ scan' = [scan EXCEPT ![s] = [kind |-> "bulk", status |-> "pending"]]
                          /\ call' = [call EXCEPT ![q] = [pc |-> "enqueue", scan |-> s]]
    BY <2>1 DEF NewScan
  <2>4. ScanTypes'  BY <2>1, <2>3 DEF ScanTypes, BulkSteps, Scan
  <2>5. bjob[s].state = "none" /\ bw[s] = "idle"  BY <2>3 DEF BulkJobs, ScanTypes
  <2>6. \A p \in Caller \ {q} : call[p].pc \in {"enqueue", "bill"} => call[p].scan # s
    BY <2>3 DEF OwnedOnce, OwningSteps, Made
  <2>7. BulkJobs'  BY <2>1, <2>3, <2>5 DEF BulkJobs, ScanTypes
  <2>8. Unqueued'  BY <2>1, <2>3, <2>5, <2>6 DEF Unqueued, ScanTypes
  <2>9. BulkCarriedOn'
    <3> SUFFICES ASSUME NEW u \in Scan
                 PROVE  /\ scan'[u].status \in {"pending", "running"} =>
                             \/ bjob[u].state \in {"queued", "running"} \/ bw[u] = "mark"
                             \/ \E p \in Caller : call'[p] = [pc |-> "enqueue", scan |-> u]
                             \/ <<"enqueue", u>> \in cutAt \/ <<"mark", u>> \in cutAt
                        /\ scan'[u].status = "failed" => bjob[u].state = "failed"
      BY <2>1 DEF BulkCarriedOn
    <3>1. CASE u = s  BY <2>3, <3>1 DEF ScanTypes
    <3>2. CASE u # s
      <4>1. scan'[u] = scan[u]  BY <2>3, <3>2 DEF ScanTypes
      <4>2. ASSUME NEW p \in Caller, call[p] = [pc |-> "enqueue", scan |-> u]
            PROVE  call'[p] = [pc |-> "enqueue", scan |-> u]
        <5>1. p # q  BY <2>1, <4>2
        <5> QED  BY <2>3, <4>2, <5>1 DEF ScanTypes
      <4> QED  BY <4>1, <4>2 DEF BulkCarriedOn
    <3> QED  BY <3>1, <3>2
  <2> QED  BY <2>2, <2>4, <2>7, <2>8, <2>9
<1> QED  BY <1>2, <1>3, <1>4, <1>5 DEF CallStep

\* Every step preserves the invariant.
LEMMA ScanNext == ScanInv /\ [ScNext]_scVars => ScanInv'
<1> SUFFICES ASSUME ScanInv, [ScNext]_scVars PROVE ScanInv'  OBVIOUS
<1>1. ASSUME NEW q \in Caller, CallDies(q) PROVE ScanInv'
  <2>1. ScanTypes' /\ OwnedOnce' /\ MeterInv'  BY <1>1, ScanRequestDies
  <2> DEFINE r == [pc |-> "idle", scan |-> 0]
  <2>2. /\ call' = [call EXCEPT ![q] = r] /\ r \in [pc : Step, scan : 0 .. MaxScans]
        /\ UNCHANGED <<scan, bjob, bw>> /\ cutAt' = cutAt \union {<<call[q].pc, call[q].scan>>}
    BY <1>1, ScanningAssumption DEF CallDies, Hang, Step
  <2>3. BulkJobs' /\ Unqueued' /\ BulkCarriedOn'  BY <2>2, JobsApart
  <2> QED  BY <2>1, <2>3 DEF ScanInv
<1>2. CASE UNCHANGED scVars
  BY <1>2 DEF ScanInv, scVars, ScanTypes, OwnedOnce, MeterInv, BulkJobs, Unqueued, BulkCarriedOn, Made, Unpaid, Owing, Passed, InSlot
<1> QED  BY <1>1, <1>2, RequestStep, ExecutorStep DEF ScNext

\* The invariant holds always.
LEMMA ScanAlways == ScSpec => []ScanInv
BY ScanInit, ScanNext, PTL DEF ScSpec

\* The invariant gives both promises: whoever owes for a scan has passed the quota check.
LEMMA ScanFollows == ScanInv => ScansSound
<1> SUFFICES ASSUME ScanInv PROVE ScansSound  OBVIOUS
<1>1. Owing \subseteq Passed /\ Passed \subseteq Caller  BY DEF Owing, Passed
<1>2. /\ IsFiniteSet(Caller) /\ Cardinality(Owing) <= Cardinality(Passed)
      /\ IsFiniteSet(Passed) /\ IsFiniteSet(Owing)
  BY <1>1, ScanningAssumption, FS_Subset
<1>3. /\ Cardinality(Owing) \in Nat /\ Cardinality(Passed) \in Nat /\ Cardinality(Unpaid) \in Nat
      /\ Cardinality(Caller) \in Nat /\ usage \in Nat /\ ScanLimit \in Nat \ {0}
  BY <1>2, Sizes, FS_CardinalityType, ScanningAssumption DEF ScanInv, ScanTypes
<1> QED  BY <1>2, <1>3 DEF ScanInv, MeterInv, ScansSound, ScansAccounted

(***************************************************************************)
(* However many requests overlap and wherever one of them or an executor   *)
(* dies, every scan is billed once, is about to be, or was lost exactly    *)
(* there; the quota is exceeded by fewer scans than there are concurrent   *)
(* requests, but for those; no more single scans run than there are slots; *)
(* and a bulk scan that has not ended has somebody to carry it on          *)
(* (routes_scan.py:355-368, 723, 789-790; runner.py:255-270).              *)
(***************************************************************************)
THEOREM Scans == ScSpec => []ScansSound
BY ScanAlways, ScanFollows, PTL

----------------------------------------------------------------------------
(***************************************************************************)
(* Members and invitations (Teams)                                         *)
(***************************************************************************)

InviteStatus == {"none", "pending", "accepted", "revoked", "expired"}

Invitations == [org : Person \cup {"none"}, to : Person \cup {"none"},
                role : Assignable \cup {"none"}, status : InviteStatus]
TeamTypes ==
  /\ account \in [Person -> Role \cup {"none"}]
  /\ member \in [Person -> [Person -> Role \cup {"none"}]]
  /\ invite \in [Invite -> Invitations]
  /\ accept \in [Invite -> Role \cup {"none", "new"}]

\* An organization with members is owned by the person who registered it, and by nobody else.
OwnersKept ==
  \A o, p \in Person : member[o][p] # "none" =>
    /\ member[o][p] = "owner" <=> o = p
    /\ member[o][o] = "owner"

\* An invitation comes from an organization with its owner, to somebody else, and does not offer
\* ownership; it is answered only once it was made.
InvitesSound ==
  \A i \in Invite :
    /\ invite[i].status # "none" =>
         /\ invite[i].org \in Person /\ invite[i].to \in Person /\ invite[i].role \in Assignable
         /\ invite[i].to # invite[i].org
         /\ member[invite[i].org][invite[i].org] = "owner"
    /\ accept[i] # "none" => invite[i].status # "none"

\* An account shows the role of its membership, of which there is one.
RolesShown ==
  /\ \A o, p \in Person : member[o][p] # "none" => account[p] = member[o][p]
  /\ \A o, q, p \in Person : member[o][p] # "none" /\ member[q][p] # "none" => o = q

\* One invitation of a person is being accepted at a time, and what was read of the account still
\* stands.
AcceptsSound ==
  /\ \A i, j \in Invite :
       accept[i] # "none" /\ accept[j] # "none" /\ invite[i].to = invite[j].to => i = j
  /\ \A i \in Invite : accept[i] \notin {"none", "new"} =>
       account[invite[i].to] = accept[i] /\ ~ Belongs(invite[i].to)

RolesShownIf == "accept" \in TMTimely => RolesShown
(***************************************************************************)
(* The inductive invariant of the teams (routes_org.py): owners and        *)
(* invitations are sound whatever overlaps; the roles are sound while a    *)
(* person accepts one invitation at a time.                                *)
(***************************************************************************)
TMInv ==
  /\ TeamTypes /\ OwnersKept /\ InvitesSound
  /\ "accept" \in TMTimely => RolesShown /\ AcceptsSound

\* The invariant holds at the start.
LEMMA TeamInit == TMInit => TMInv
BY DEF TMInit, TMInv, TeamTypes, OwnersKept, InvitesSound, RolesShown, AcceptsSound, NoInvite,
       Invitations, Invite, Role, Assignable, InviteStatus

\* The steps, one by one
LEMMA Registers ==
  ASSUME TMInv, NEW p \in Person, Register(p)
  PROVE  TMInv'
BY DEF TMInv, Register, TeamTypes, OwnersKept, InvitesSound, RolesShown, AcceptsSound, Belongs, Role, Assignable

\* A step that only makes or ends invitations
LEMMA InvitesChange ==
  ASSUME TMInv, UNCHANGED <<account, member, accept>>,
         invite' \in [Invite -> Invitations],
         \A i \in Invite : invite[i].status # "none" =>
           /\ invite'[i].status # "none"
           /\ invite'[i].org = invite[i].org /\ invite'[i].to = invite[i].to
           /\ invite'[i].role = invite[i].role,
         \A i \in Invite : invite[i].status = "none" /\ invite'[i].status # "none" =>
           /\ invite'[i].org \in Person /\ invite'[i].to \in Person
           /\ invite'[i].role \in Assignable /\ invite'[i].to # invite'[i].org
           /\ member[invite'[i].org][invite'[i].org] = "owner"
  PROVE  TMInv'
<1>1. (TeamTypes /\ OwnersKept /\ RolesShownIf)'
  BY DEF TMInv, TeamTypes, OwnersKept, RolesShownIf, RolesShown
<1>2. InvitesSound'
  BY DEF TMInv, InvitesSound
<1>3. ("accept" \in TMTimely => AcceptsSound)'
  BY DEF TMInv, InvitesSound, AcceptsSound, Belongs
<1> QED  BY <1>1, <1>2, <1>3 DEF TMInv, RolesShownIf

\* An invitation is made.
LEMMA Invites ==
  ASSUME TMInv, NEW by \in Person, NEW o \in Person, NEW to \in Person, NEW role \in Assignable,
         CreateInvitation(by, o, to, role)
  PROVE  TMInv'
<1> PICK i \in Invite :
      /\ invite[i].status = "none"
      /\ invite' = [j \in Invite |->
            IF j = i THEN [org |-> o, to |-> to, role |-> role, status |-> "pending"]
            ELSE IF invite[j].org = o /\ invite[j].to = to /\ Expected(j)
              THEN [invite[j] EXCEPT !.status = "revoked"] ELSE invite[j]]
  BY DEF CreateInvitation
<1>1. invite \in [Invite -> Invitations] /\ account' = account /\ member' = member /\ accept' = accept
  BY DEF CreateInvitation, TMInv, TeamTypes
<1>2. member[o][o] = "owner" /\ member[to][to] = "none" 
  <2>1. member[o][by] # "none" /\ ~ Belongs(to)
    BY DEF CreateInvitation, May, Allowed
  <2> QED  BY <2>1 DEF TMInv, OwnersKept, Belongs
<1>3. invite' \in [Invite -> Invitations]
  BY <1>1 DEF Invitations, InviteStatus
<1>4. \A j \in Invite : invite[j].status # "none" =>
           /\ invite'[j].status # "none"
           /\ invite'[j].org = invite[j].org /\ invite'[j].to = invite[j].to
           /\ invite'[j].role = invite[j].role
  BY <1>1 DEF Invitations
<1>5. \A j \in Invite : invite[j].status = "none" /\ invite'[j].status # "none" => j = i
  BY <1>1 DEF Expected
<1>6. to # o
  BY <1>2
<1> QED  BY <1>1, <1>2, <1>3, <1>4, <1>5, <1>6, InvitesChange

\* An invitation ends without being accepted.
LEMMA Restates ==
  ASSUME TMInv, NEW i \in Invite, NEW s \in InviteStatus \ {"none"}, invite[i].status # "none",
         invite' = Status(i, s), UNCHANGED <<account, member, accept>>
  PROVE  TMInv'
<1>1. invite \in [Invite -> Invitations]
  BY DEF TMInv, TeamTypes
<1>2. invite' \in [Invite -> Invitations]
  BY <1>1 DEF Status, Invitations
<1> QED  BY <1>1, <1>2, InvitesChange DEF Status, Invitations

\* Accepting reads the account.
LEMMA Reads ==
  ASSUME TMInv, NEW i \in Invite, AcceptRead(i)
  PROVE  TMInv'
BY DEF TMInv, AcceptRead, TeamTypes, OwnersKept, InvitesSound, RolesShown, AcceptsSound, Belongs, Role, Assignable, Expected

\* Accepting commits, on what it has read.
LEMMA Acceptances ==
  ASSUME TMInv, NEW i \in Invite, AcceptCommit(i)
  PROVE  TMInv'
<1> DEFINE p == invite[i].to
           o == invite[i].org
           r == invite[i].role
<1>0. accept' = [accept EXCEPT ![i] = "none"] /\ accept[i] # "none"
  BY DEF AcceptCommit
<1>a. /\ p \in Person /\ o \in Person /\ r \in Assignable /\ p # o
      /\ member[o][o] = "owner" /\ invite[i].status # "none"
  BY <1>0 DEF TMInv, InvitesSound
<1>1. CASE UNCHANGED <<member, account, invite>>
  BY <1>0, <1>1 DEF TMInv, TeamTypes, OwnersKept, InvitesSound, RolesShown, AcceptsSound, Belongs
<1>2. CASE ~ UNCHANGED <<member, account, invite>>
  <2>1. /\ accept[i] = "new" => account[p] = "none"
        /\ member[o][p] = "none"
        /\ member' = [member EXCEPT ![o][p] = r]
        /\ account' = IF accept[i] = r THEN account ELSE [account EXCEPT ![p] = r]
        /\ invite' = Status(i, "accepted")
    BY <1>2 DEF AcceptCommit
  <2>2. TeamTypes'
    <3>0. TeamTypes /\ r \in Role
      BY <1>a DEF TMInv, Role
    <3>1. invite' \in [Invite -> Invitations]
      BY <3>0, <2>1 DEF TeamTypes, Invitations, Status, InviteStatus
    <3>2. member' \in [Person -> [Person -> Role \cup {"none"}]]
      BY <3>0, <2>1, <1>a DEF TeamTypes
    <3>3. account' \in [Person -> Role \cup {"none"}]
      BY <3>0, <2>1, <1>a DEF TeamTypes
    <3> QED  BY <3>0, <3>1, <3>2, <3>3, <1>0 DEF TeamTypes
  <2>3. OwnersKept'
    BY <2>1, <1>a DEF TMInv, TeamTypes, OwnersKept, Assignable
  <2>4. InvitesSound'
    BY <1>0, <2>1, <1>a DEF TMInv, TeamTypes, Invitations, InvitesSound, Status
  <2>5. ASSUME "accept" \in TMTimely PROVE (RolesShown /\ AcceptsSound)'
    <3>1. ~ Belongs(p)
      BY <2>5, <2>1, <1>0, <1>a DEF TMInv, RolesShown, AcceptsSound, Belongs
    <3>5. accept[i] = r => account[p] = r
      BY <2>5, <1>0, <1>a DEF TMInv, AcceptsSound, Assignable
    <3>2. RolesShown'
      BY <3>5, <2>5, <2>1, <1>a, <3>1 DEF TMInv, TeamTypes, RolesShown, Belongs
    <3>3. \A j \in Invite : invite'[j].to = invite[j].to
      BY <2>1 DEF TMInv, TeamTypes, Invitations, Status
    <3>4. AcceptsSound'
      BY <1>0, <2>5, <2>1, <1>a, <3>1, <3>3 DEF TMInv, TeamTypes, AcceptsSound, Belongs
    <3> QED  BY <3>2, <3>4
  <2> QED  BY <2>2, <2>3, <2>4, <2>5 DEF TMInv
<1> QED  BY <1>1, <1>2

\* A role is changed.
LEMMA Updates ==
  ASSUME TMInv, NEW by \in Person, NEW o \in Person, NEW p \in Person, NEW role \in Assignable,
         UpdateMemberRole(by, o, p, role)
  PROVE  TMInv'
BY DEF TMInv, UpdateMemberRole, TeamTypes, OwnersKept, InvitesSound, RolesShown, AcceptsSound, Belongs, Role, Assignable, May, Allowed

\* A member is removed.
LEMMA Removes ==
  ASSUME TMInv, NEW by \in Person, NEW o \in Person, NEW p \in Person,
         RemoveMember(by, o, p)
  PROVE  TMInv'
BY DEF TMInv, RemoveMember, TeamTypes, OwnersKept, InvitesSound, RolesShown, AcceptsSound, Belongs, Role, Assignable, May, Allowed

\* Every step preserves the invariant.
LEMMA TeamNext == TMInv /\ [TMNext]_tmVars => TMInv'
<1> SUFFICES ASSUME TMInv, [TMNext]_tmVars PROVE TMInv'
  OBVIOUS
<1>1. CASE UNCHANGED tmVars
  BY <1>1 DEF tmVars, TMInv, TeamTypes, OwnersKept, InvitesSound, RolesShown, AcceptsSound, Belongs
<1>2. ASSUME NEW i \in Invite, Expire(i) PROVE TMInv'
  BY <1>2, Restates DEF Expire, Expected, InviteStatus
<1>3. ASSUME NEW i \in Invite, NEW by \in Person, CancelInvitation(by, i) PROVE TMInv'
  BY <1>3, Restates DEF CancelInvitation, InviteStatus
<1> QED  BY <1>1, <1>2, <1>3, Registers, Invites, Reads, Acceptances, Updates, Removes DEF TMNext

\* A set without two elements has one at most.
LEMMA AtMostOne ==
  ASSUME NEW S, \A x, y \in S : x = y
  PROVE  Cardinality(S) <= 1
<1>1. CASE S = {}
  BY <1>1, FS_EmptySet
<1>2. CASE S # {}
  <2> PICK x \in S : TRUE
    BY <1>2
  <2> S = {x}
    OBVIOUS
  <2> QED  BY FS_Singleton
<1> QED  BY <1>1, <1>2

\* The invariant holds always.
LEMMA TeamAlways == TMSpec => []TMInv
BY TeamInit, TeamNext, PTL DEF TMSpec

(***************************************************************************)
(* Whatever invitations are made, accepted at once, cancelled or outdated, *)
(* and whatever roles are changed, an organization is owned by the person  *)
(* who registered it and by no other member (routes_org.py: an invitation  *)
(* and a role change cannot offer "owner", and the owner cannot be         *)
(* removed).                                                               *)
(***************************************************************************)
THEOREM OwnersStay == TMSpec => []OwnersKept
BY TeamAlways, PTL DEF TMInv

(***************************************************************************)
(* While a person accepts one invitation at a time, everybody belongs to   *)
(* one organization at most, whose membership gives the role the account   *)
(* shows, for any number of people and invitations (accept_invitation,     *)
(* update_member_role and remove_member in routes_org.py).                 *)
(***************************************************************************)
THEOREM Memberships ==
  ASSUME "accept" \in TMTimely
  PROVE  TMSpec => []MembershipSound
<1>1. TMInv => MembershipSound
  BY AtMostOne DEF TMInv, MembershipSound, RolesShown, OwnersKept
<1> QED  BY <1>1, TeamAlways, PTL

----------------------------------------------------------------------------
(***************************************************************************)
(* The Google connection (GoogleSync)                                      *)
(***************************************************************************)

Connection == [status : {"none", "pending", "active", "error", "revoked"}, token : Nat,
               prop : Props \cup {"none"}, last : Int, next : Int, failures : Nat,
               link : Props \cup {"none"}]
Measured == [Day -> Props \cup {"none"}]

RequestRow == [op : {"none", "callback", "select", "disconnect"}, seen : Connection,
            prop : Props \cup {"none"}]
SyncRow == [pc : {"none", "token", "report"}, seen : Connection, end : Nat]

GoogleTypes ==
  /\ kind \in {"ga4", "gsc"} /\ day \in Nat /\ conn \in Connection
  /\ rows \in Measured /\ side \in Measured
  /\ grants \subseteq Nat \ {0} /\ gsops \in Nat
  /\ req \in RequestRow /\ sync \in SyncRow

\* Who selects a property or disconnects still sees the token of the row.
TokenKept ==
  /\ req.op \in {"select", "disconnect"} => conn.token = req.seen.token
  /\ req.op = "disconnect" /\ conn.status = "active" => req.seen.status = "active"

TokenInv == GoogleTypes /\ TokenKept /\ ActiveHasToken

\* What the select request and the sync have loaded is still so.
SeesRow(r) == r.op = "select" => r.seen = conn
SeesReports(s) ==
  s.pc # "none" => /\ s.seen.prop = conn.prop /\ s.seen.last = conn.last /\ conn.prop # "none"
                   /\ s.end <= day /\ day <= s.end + 1
SeenStill ==
  /\ SeesRow(req) /\ SeesReports(sync)
  /\ conn.prop = "none" => conn.last = Never

\* The inductive invariant of the reports, while selections and syncs keep apart
ReportInv == SeenStill /\ OneProperty /\ WindowWhole

\* The columns of a connection
LEMMA RowFields ==
  ASSUME NEW r \in Connection
  PROVE  DOMAIN r = {"status", "token", "prop", "last", "next", "failures", "link"}
BY DEF Connection

\* A session writes the columns that differ from what it loaded, and no other.
LEMMA Flushed ==
  ASSUME conn \in Connection, NEW seen \in Connection, NEW new \in Connection
  PROVE  /\ Flush(seen, new) \in Connection
         /\ \A f \in DOMAIN conn :
              Flush(seen, new)[f] = IF new[f] # seen[f] THEN new[f] ELSE conn[f]
BY RowFields DEF Connection, Flush

\* What there is of a connection at the start is well typed.
LEMMA AtRest ==
  /\ Never \in Int /\ NoConn \in Connection
  /\ NoReq \in RequestRow /\ NoReq.op = "none" /\ NoReq.seen \in Connection
  /\ NoSync \in SyncRow /\ NoSync.pc = "none"
  /\ Nowhere \in Measured
<1>1. Never \in Int
  BY GoogleAssumption DEF Never
<1>2. NoConn \in Connection
  BY <1>1 DEF NoConn, Connection
<1> QED  BY <1>1, <1>2 DEF NoReq, NoSync, RequestRow, SyncRow, Nowhere, Measured

\* Both invariants hold at the start.
LEMMA GoogleInit == GSInit => TokenInv /\ ReportInv
<1> SUFFICES ASSUME GSInit PROVE TokenInv /\ ReportInv
  OBVIOUS
<1>1. TokenInv
  BY AtRest DEF GSInit, TokenInv, GoogleTypes, TokenKept, ActiveHasToken, NoConn
<1>2. ReportInv
  BY AtRest DEF GSInit, ReportInv, SeenStill, SeesRow, SeesReports, OneProperty, WindowWhole, NoConn, Nowhere
<1> QED  BY <1>1, <1>2

\* A handler that ends without writing what it loaded
LEMMA HandlerEnds ==
  ASSUME TokenInv, UNCHANGED <<kind, day, conn, Reports, grants, gsops>>,
         req' \in {req, NoReq}, sync' \in {sync, NoSync}
  PROVE  TokenInv'
BY AtRest DEF TokenInv, GoogleTypes, TokenKept, ActiveHasToken, Reports

\* One that commits
LEMMA RowCommits ==
  ASSUME TokenInv, conn' \in Connection, UNCHANGED <<kind, day, gsops>>,
         rows' \in Measured, side' \in Measured, grants' \subseteq Nat \ {0},
         req' \in {req, NoReq}, sync' \in {sync, NoSync},
         conn'.status = "active" => conn'.token # 0,
         req' = req => conn'.token = conn.token /\ (conn'.status = "active" => conn.status = "active")
  PROVE  TokenInv'
BY AtRest DEF TokenInv, GoogleTypes, TokenKept, ActiveHasToken

\* A commit that writes neither a token nor the status "active"
Keeps ==
  /\ conn' \in Connection /\ conn'.token = conn.token
  /\ conn'.status = "active" => conn.status = "active"

\* The row as a sync leaves it: put off until day n, or done on day l
PutOff(c, n) == [c EXCEPT !.failures = @ + 1, !.next = n]
DoneOn(c, l) == [c EXCEPT !.last = l, !.failures = 0, !.next = l + 1]

\* A sync that failed changes nothing but its schedule.
LEMMA Rescheduled ==
  ASSUME NEW c \in Connection, NEW n \in Int
  PROVE  /\ PutOff(c, n) \in Connection
         /\ PutOff(c, n).status = c.status /\ PutOff(c, n).token = c.token
         /\ PutOff(c, n).prop = c.prop /\ PutOff(c, n).last = c.last /\ PutOff(c, n).link = c.link
<1>1. c.failures + 1 \in Nat
  BY DEF Connection
<1> QED  BY <1>1 DEF Connection, PutOff

\* A sync that ended moves the day it has reached.
LEMMA Synced ==
  ASSUME NEW c \in Connection, NEW l \in Int
  PROVE  /\ DoneOn(c, l) \in Connection /\ DoneOn(c, l).last = l
         /\ DoneOn(c, l).status = c.status /\ DoneOn(c, l).token = c.token
         /\ DoneOn(c, l).prop = c.prop /\ DoneOn(c, l).link = c.link
<1>1. l + 1 \in Int
  OBVIOUS
<1> QED  BY <1>1 DEF Connection, DoneOn

\* A session that marks an error keeps the credential.
LEMMA Wrote ==
  ASSUME conn \in Connection, NEW seen \in Connection, NEW new \in Connection,
         conn' = Flush(seen, new), new.token = seen.token, new.status \in {seen.status, "error"}
  PROVE  Keeps
BY RowFields, Flushed DEF Keeps

\* So does a request that fails.
LEMMA Marked ==
  ASSUME conn \in Connection, NEW seen \in Connection, Mark(seen)
  PROVE  Keeps
<1> DEFINE new == [seen EXCEPT !.status = "error"]
<1>1. new \in Connection /\ new.token = seen.token /\ new.status = "error"
  BY DEF Connection
<1> QED  BY <1>1, Wrote DEF Mark

\* Every step keeps the types and the credential of an active connection.
LEMMA TokenNext == TokenInv /\ [GSNext]_gsVars => TokenInv'
<1> SUFFICES ASSUME TokenInv, [GSNext]_gsVars PROVE TokenInv'
  OBVIOUS
<1>0. /\ conn \in Connection /\ rows \in Measured /\ side \in Measured
      /\ grants \subseteq Nat \ {0} /\ gsops \in Nat /\ day \in Nat /\ req \in RequestRow /\ sync \in SyncRow
  BY DEF TokenInv, GoogleTypes
<1>1. ASSUME Connect \/ TriggerSync PROVE TokenInv'
  <2>1. gsops' \in Nat /\ UNCHANGED <<kind, day, conn, Reports, grants, req, sync>>
    BY <1>0, <1>1 DEF Connect, TriggerSync, GSAsk
  <2> QED  BY <2>1 DEF Reports, TokenInv, GoogleTypes, TokenKept, ActiveHasToken
<1>2. ASSUME Callback PROVE TokenInv'
  BY <1>2, AtRest DEF Callback, NoReq, Reports, RequestRow, TokenInv, GoogleTypes, TokenKept, ActiveHasToken
<1>3. ASSUME Exchanged PROVE TokenInv'
  <2> PICK fresh \in {0, gsops} :
       LET token == IF fresh = 0 THEN conn.token ELSE fresh IN
       /\ token # 0
       /\ conn' = [conn EXCEPT !.token = token,
                               !.status = IF conn.prop = "none" THEN "pending" ELSE "active"]
       /\ grants' = IF fresh = 0 THEN grants ELSE grants \cup {fresh}
    BY <1>3 DEF Exchanged
  <2>1. /\ conn' \in Connection /\ conn'.token # 0
    BY <1>0 DEF Connection
  <2>2. grants' \subseteq Nat \ {0}
    BY <1>0
  <2>3. req' = NoReq /\ req' # req
    BY <1>3, AtRest DEF Exchanged
  <2> QED  BY <1>0, <1>3, <2>1, <2>2, <2>3, RowCommits DEF Exchanged, Reports
<1>4. ASSUME ExchangeFails \/ SelectFails PROVE TokenInv'
  BY <1>4, HandlerEnds DEF ExchangeFails, SelectFails
<1>5. ASSUME NEW op \in {"select", "disconnect"}, LoadConn(op) PROVE TokenInv'
  <2>1. req' \in RequestRow /\ req'.seen = conn /\ gsops' \in Nat
    BY <1>0, <1>5 DEF LoadConn, RequestRow, GSAsk
  <2> QED  BY <1>5, <2>1 DEF LoadConn, Reports, TokenInv, GoogleTypes, TokenKept, ActiveHasToken
<1>6. ASSUME SelectRefused PROVE TokenInv'
  <2>1. Keeps
    BY <1>0, <1>6, Marked DEF RequestRow, SelectRefused
  <2> QED  BY <1>0, <1>6, <2>1, RowCommits DEF SelectRefused, Reports, TokenInv, ActiveHasToken, Keeps
<1>7. ASSUME SelectCommit PROVE TokenInv'
  <2> DEFINE kept == IF Switches THEN Forget(req.seen) ELSE req.seen
             new == [kept EXCEPT !.prop = req.prop, !.status = "active", !.next = day]
  <2>1. req.seen \in Connection /\ req.op = "select" /\ conn' = Flush(req.seen, new)
    BY <1>0, <1>7 DEF RequestRow, SelectCommit
  <2>2. new \in Connection /\ new.token = req.seen.token /\ new.status = "active"
    <3>1. kept \in Connection /\ kept.token = req.seen.token
      BY <2>1, AtRest DEF Connection, Forget
    <3>2. req.prop \in Props \cup {"none"} /\ day \in Int
      BY <1>0 DEF RequestRow
    <3> HIDE DEF kept
    <3> QED  BY <3>1, <3>2 DEF Connection
  <2>3. conn' \in Connection /\ conn'.token = conn.token /\ conn.token = req.seen.token
    BY <1>0, <2>1, <2>2, RowFields, Flushed DEF TokenInv, TokenKept
  <2>4. req.seen.token # 0
    BY <1>0, <1>7 DEF SelectCommit
  <2>5. rows' \in Measured /\ side' \in Measured
    BY <1>0, <1>7, AtRest DEF SelectCommit, Reports
  <2>6. UNCHANGED <<kind, day, grants, sync, gsops>> /\ req' = NoReq /\ req' # req
    BY <1>7, <2>1, AtRest DEF SelectCommit
  <2> QED  BY <1>0, <2>3, <2>4, <2>5, <2>6, RowCommits
<1>8. ASSUME Disconnect PROVE TokenInv'
  <2> DEFINE new == [req.seen EXCEPT !.token = 0, !.status = "revoked", !.next = Never]
  <2>1. req.seen \in Connection /\ req.op = "disconnect" /\ conn' = Flush(req.seen, new)
    BY <1>0, <1>8 DEF RequestRow, Disconnect
  <2>2. new \in Connection /\ new.status = "revoked"
    BY <2>1, AtRest DEF Connection
  <2>3. conn' \in Connection
    BY <1>0, <2>1, <2>2, Flushed
  <2>4. conn'.status # "active"
    <3>1. conn'.status = IF req.seen.status # "revoked" THEN "revoked" ELSE conn.status
      BY <1>0, <2>1, <2>2, RowFields, Flushed
    <3> QED  BY <3>1, <2>1 DEF TokenInv, TokenKept
  <2>5. UNCHANGED <<kind, day, rows, side, sync, gsops>> /\ req' = NoReq /\ req' # req
    BY <1>8, <2>1, AtRest DEF Disconnect, Reports
  <2>6. grants' \subseteq Nat \ {0}
    BY <1>0, <1>8 DEF Disconnect
  <2> QED  BY <1>0, <2>3, <2>4, <2>5, <2>6, RowCommits
<1>9. ASSUME LinkWebsite PROVE TokenInv'
  <2>1. conn' \in Connection /\ conn'.token = conn.token /\ conn'.status = conn.status
    BY <1>0, <1>9 DEF LinkWebsite, Connection
  <2> QED  BY <1>9, <2>1 DEF LinkWebsite, Reports, GSAsk, TokenInv, GoogleTypes, TokenKept, ActiveHasToken
<1>10. ASSUME Withdraw \/ EnqueueDue \/ DayPasses PROVE TokenInv'
  <2>1. /\ grants' \subseteq grants /\ day' \in Nat
        /\ UNCHANGED <<kind, conn, Reports, req, sync, gsops>>
    BY <1>0, <1>10 DEF Withdraw, EnqueueDue, DayPasses
  <2> QED  BY <2>1 DEF Reports, TokenInv, GoogleTypes, TokenKept, ActiveHasToken
<1>11. ASSUME StartSync PROVE TokenInv'
  BY <1>0, <1>11 DEF StartSync, Reports, SyncRow, TokenInv, GoogleTypes, TokenKept, ActiveHasToken
<1>12. ASSUME TokenKnown PROVE TokenInv'
  BY <1>0, <1>12 DEF TokenKnown, Reports, SyncRow, TokenInv, GoogleTypes, TokenKept, ActiveHasToken
<1>13. ASSUME SyncStopped PROVE TokenInv'
  <2>1. Keeps
    BY <1>0, <1>13, Marked DEF SyncRow, SyncStopped
  <2> QED  BY <1>0, <1>13, <2>1, RowCommits DEF SyncStopped, Reports, TokenInv, ActiveHasToken, Keeps, Finish
<1>14. ASSUME SyncDeferred PROVE TokenInv'
  <2>0. sync.seen \in Connection
    BY <1>0 DEF SyncRow
  <2> PICK wait \in {0, 1} : conn' = Flush(sync.seen, PutOff(sync.seen, day + wait))
    BY <1>14 DEF SyncDeferred, PutOff
  <2>1. day + wait \in Int
    BY <1>0
  <2>2. Keeps
    BY <1>0, <2>0, <2>1, Rescheduled, Wrote
  <2> QED  BY <1>0, <1>14, <2>2, RowCommits DEF SyncDeferred, Reports, TokenInv, ActiveHasToken, Keeps, Finish
<1>15. ASSUME SyncCommit PROVE TokenInv'
  <2>0. sync.seen \in Connection /\ day \in Int
    BY <1>0 DEF SyncRow
  <2>1. conn' = Flush(sync.seen, DoneOn(sync.seen, day))
    BY <1>15 DEF SyncCommit, DoneOn
  <2>2. Keeps
    BY <1>0, <2>0, <2>1, Synced, Wrote
  <2>3. ASSUME NEW report \in Measured PROVE Replaced(report, sync.seen, sync.end) \in Measured
    BY <2>0 DEF Replaced, Measured, Connection
  <2>4. rows' \in Measured /\ side' \in Measured
    BY <1>0, <1>15, <2>3 DEF SyncCommit
  <2> QED  BY <1>0, <1>15, <2>2, <2>4, RowCommits DEF SyncCommit, TokenInv, ActiveHasToken, Keeps, Finish
<1>16. ASSUME SyncDies PROVE TokenInv'
  BY <1>16, HandlerEnds DEF SyncDies
<1>17. CASE UNCHANGED gsVars
  BY <1>17, HandlerEnds DEF gsVars, Reports
<1> QED  BY <1>1, <1>2, <1>3, <1>4, <1>5, <1>6, <1>7, <1>8, <1>9, <1>10, <1>11, <1>12, <1>13, <1>14,
           <1>15, <1>16, <1>17 DEF GSNext

\* A step that writes nothing of the connection or its reports
LEMMA NothingWritten ==
  ASSUME ReportInv, UNCHANGED <<conn, rows, side, day>>, SeesRow(req'), SeesReports(sync')
  PROVE  ReportInv'
BY DEF ReportInv, SeenStill, SeesRow, SeesReports, OneProperty, WindowWhole

\* One that writes neither the property, nor the cursor, nor the link
LEMMA OtherColumns ==
  ASSUME ReportInv, UNCHANGED <<rows, side, day>>,
         conn'.prop = conn.prop, conn'.last = conn.last, conn'.link = conn.link,
         sync' \in {sync, NoSync}, req'.op # "select"
  PROVE  ReportInv'
BY AtRest DEF ReportInv, SeenStill, SeesRow, SeesReports, OneProperty, WindowWhole

\* Every step keeps the reports those of the selected property.
LEMMA ReportNext ==
  ASSUME {"sync", "select"} \subseteq GSTimely
  PROVE  TokenInv /\ ReportInv /\ [GSNext]_gsVars => ReportInv'
<1> SUFFICES ASSUME TokenInv, ReportInv, [GSNext]_gsVars PROVE ReportInv'
  OBVIOUS
<1>0. /\ conn \in Connection /\ rows \in Measured /\ side \in Measured /\ kind \in {"ga4", "gsc"}
      /\ day \in Nat /\ req \in RequestRow /\ sync \in SyncRow
  BY DEF TokenInv, GoogleTypes
<1>a. SeesRow(req) /\ SeesRow(NoReq) /\ SeesReports(sync) /\ SeesReports(NoSync)
  BY AtRest DEF ReportInv, SeenStill, SeesRow, SeesReports
<1>1. ASSUME Connect \/ TriggerSync \/ ExchangeFails \/ SelectFails \/ Withdraw \/ EnqueueDue
             \/ UNCHANGED gsVars
      PROVE ReportInv'
  BY <1>1, <1>a, NothingWritten DEF Connect, TriggerSync, ExchangeFails, SelectFails, Withdraw, EnqueueDue, gsVars, Reports
<1>2. ASSUME Callback PROVE ReportInv'
  BY <1>2, <1>a, NothingWritten DEF Callback, NoReq, SeesRow, Reports
<1>3. ASSUME Exchanged PROVE ReportInv'
  <2>1. conn'.prop = conn.prop /\ conn'.last = conn.last /\ conn'.link = conn.link
    BY <1>0, <1>3 DEF Exchanged, Connection
  <2> QED  BY <1>3, <2>1, AtRest, OtherColumns DEF Exchanged, Reports
<1>4. ASSUME NEW op \in {"select", "disconnect"}, LoadConn(op) PROVE ReportInv'
  BY <1>4, <1>a, NothingWritten DEF LoadConn, Reports, SeesRow
<1>5. ASSUME SelectRefused PROVE ReportInv'
  <2> DEFINE new == [req.seen EXCEPT !.status = "error"]
  <2>1. req.seen = conn /\ conn' = Flush(req.seen, new)
    BY <1>5, <1>a DEF SelectRefused, SeesRow, Mark
  <2>2. new \in Connection /\ new.prop = conn.prop /\ new.last = conn.last /\ new.link = conn.link
    BY <1>0, <2>1 DEF Connection
  <2>3. conn'.prop = conn.prop /\ conn'.last = conn.last /\ conn'.link = conn.link
    BY <1>0, <2>1, <2>2, RowFields, Flushed
  <2> QED  BY <1>5, <2>3, AtRest, OtherColumns DEF SelectRefused, Reports
<1>8. ASSUME Disconnect PROVE ReportInv'
  <2> DEFINE new == [req.seen EXCEPT !.token = 0, !.status = "revoked", !.next = Never]
  <2>1. req.seen \in Connection /\ conn' = Flush(req.seen, new)
    BY <1>0, <1>8 DEF RequestRow, Disconnect
  <2>2. new \in Connection /\ new.prop = req.seen.prop /\ new.last = req.seen.last /\ new.link = req.seen.link
    BY <2>1, AtRest DEF Connection
  <2>3. conn'.prop = conn.prop /\ conn'.last = conn.last /\ conn'.link = conn.link
    BY <1>0, <2>1, <2>2, RowFields, Flushed
  <2> QED  BY <1>8, <2>3, AtRest, OtherColumns DEF Disconnect, Reports
<1>9. ASSUME LinkWebsite PROVE ReportInv'
  <2>1. /\ conn' \in Connection /\ conn'.prop = conn.prop /\ conn'.last = conn.last
        /\ conn'.link = conn.prop
    BY <1>0, <1>9 DEF LinkWebsite, Connection
  <2>2. req.op # "select" /\ UNCHANGED <<kind, day, rows, side, req, sync>>
    BY <1>9 DEF LinkWebsite, Quiet, Reports
  <2> QED  BY <2>1, <2>2 DEF ReportInv, SeenStill, SeesRow, SeesReports, OneProperty, WindowWhole
<1>10. ASSUME DayPasses PROVE ReportInv'
  BY <1>0, <1>10 DEF DayPasses, ReportInv, SeenStill, SeesRow, SeesReports, OneProperty, WindowWhole, Reports, SyncRow
<1>11. ASSUME StartSync PROVE ReportInv'
  BY <1>0, <1>11, <1>a, NothingWritten DEF StartSync, Reports, SeesReports
<1>12. ASSUME TokenKnown PROVE ReportInv'
  <2>1. /\ sync'.seen = sync.seen /\ sync'.end = day /\ sync.pc # "none"
    BY <1>0, <1>12 DEF TokenKnown, SyncRow
  <2>2. SeesReports(sync')
    BY <1>0, <1>a, <2>1 DEF SeesReports
  <2> QED  BY <1>12, <1>a, <2>2, NothingWritten DEF TokenKnown, Reports
<1>13. ASSUME SyncStopped PROVE ReportInv'
  <2> DEFINE new == [sync.seen EXCEPT !.status = "error"]
  <2>1. sync.seen \in Connection /\ conn' = Flush(sync.seen, new)
    BY <1>0, <1>13 DEF SyncStopped, Mark, SyncRow
  <2>2. /\ new \in Connection /\ new.prop = sync.seen.prop
        /\ new.last = sync.seen.last /\ new.link = sync.seen.link
    BY <1>0, <2>1 DEF Connection
  <2>3. conn'.prop = conn.prop /\ conn'.last = conn.last /\ conn'.link = conn.link
    BY <1>0, <2>1, <2>2, RowFields, Flushed
  <2> QED  BY <1>13, <2>3, AtRest, OtherColumns DEF SyncStopped, Reports, Quiet, Finish
<1>14. ASSUME SyncDeferred PROVE ReportInv'
  <2>0. sync.seen \in Connection
    BY <1>0 DEF SyncRow
  <2> PICK wait \in {0, 1} : conn' = Flush(sync.seen, PutOff(sync.seen, day + wait))
    BY <1>14 DEF SyncDeferred, PutOff
  <2>1. day + wait \in Int
    BY <1>0
  <2>2. conn'.prop = conn.prop /\ conn'.last = conn.last /\ conn'.link = conn.link
    BY <1>0, <2>0, <2>1, Rescheduled, RowFields, Flushed
  <2> QED  BY <1>14, <2>2, AtRest, OtherColumns DEF SyncDeferred, Reports, Quiet, Finish
<1>15. ASSUME SyncDies PROVE ReportInv'
  BY <1>15, <1>a, NothingWritten DEF SyncDies, Reports
<1>6. ASSUME SelectCommit PROVE ReportInv'
  <2> DEFINE kept == IF Switches THEN Forget(req.seen) ELSE req.seen
             new == [kept EXCEPT !.prop = req.prop, !.status = "active", !.next = day]
  <2>1. req.seen = conn /\ conn' = Flush(conn, new)
    BY <1>6, <1>a DEF SelectCommit, SeesRow
  <2>2. /\ new \in Connection /\ new.prop = req.prop
        /\ new.last = IF Switches THEN Never ELSE conn.last
        /\ new.link = IF Switches THEN "none" ELSE conn.link
    <3>1. /\ kept \in Connection
          /\ kept.last = IF Switches THEN Never ELSE conn.last
          /\ kept.link = IF Switches THEN "none" ELSE conn.link
      BY <1>0, <2>1, AtRest DEF Connection, Forget
    <3>2. req.prop \in Props \cup {"none"} /\ day \in Int
      BY <1>0 DEF RequestRow
    <3> HIDE DEF kept
    <3> QED  BY <3>1, <3>2 DEF Connection
  <2>3. /\ conn'.prop = req.prop
        /\ conn'.last = IF Switches THEN Never ELSE conn.last
        /\ conn'.link = IF Switches THEN "none" ELSE conn.link
    <3> HIDE DEF new
    <3> QED  BY <1>0, <2>1, <2>2, RowFields, Flushed
  <2>4. UNCHANGED <<day, sync>> /\ sync.pc = "none" /\ req'.op = "none"
    BY <1>6, AtRest DEF SelectCommit, Quiet
  <2>5. CASE Switches
    <3>1. rows' = Nowhere /\ side' = Nowhere
      BY <1>6, <2>5 DEF SelectCommit
    <3> QED  BY <2>3, <2>4, <2>5, <3>1
            DEF ReportInv, SeenStill, SeesRow, SeesReports, OneProperty, WindowWhole, Nowhere
  <2>6. CASE ~ Switches
    <3>1. rows' = rows /\ side' = side
      BY <1>6, <2>6 DEF SelectCommit, Reports
    <3>2. conn.prop = req.prop \/ conn.prop = "none"
      BY <2>1, <2>6 DEF Switches
    <3>3. OneProperty'
      BY <2>3, <2>6, <3>1, <3>2 DEF ReportInv, OneProperty
    <3>4. (conn.prop = "none" => conn.last = Never) /\ WindowWhole
      BY DEF ReportInv, SeenStill
    <3>5. WindowWhole'
      BY <2>3, <2>6, <3>1, <3>2, <3>4 DEF WindowWhole
    <3>6. SeenStill'
      BY <2>3, <2>4, <2>6, <3>2, <3>4 DEF SeenStill, SeesRow, SeesReports
    <3> QED  BY <3>3, <3>5, <3>6 DEF ReportInv
  <2> QED  BY <2>5, <2>6
<1>16. ASSUME SyncCommit PROVE ReportInv'
  <2>0. sync.seen \in Connection /\ day \in Int /\ sync.end \in Nat
    BY <1>0 DEF SyncRow
  <2>1. /\ sync.seen.prop = conn.prop /\ sync.seen.last = conn.last /\ conn.prop # "none"
        /\ sync.end <= day /\ day <= sync.end + 1
    BY <1>16, <1>a DEF SyncCommit, SeesReports
  <2>2. conn' = Flush(sync.seen, DoneOn(sync.seen, day))
    BY <1>16 DEF SyncCommit, DoneOn
  <2>3. conn'.prop = conn.prop /\ conn'.last = day /\ conn'.link = conn.link
    BY <1>0, <2>0, <2>1, <2>2, Synced, RowFields, Flushed
  <2>4. /\ rows' = Replaced(rows, sync.seen, sync.end)
        /\ side' \in {side, Replaced(side, sync.seen, sync.end)}
        /\ day' = day /\ sync'.pc = "none" /\ req' = req /\ req.op # "select"
    BY <1>16, AtRest DEF SyncCommit, Quiet, Finish
  <2>5. First(sync.seen, sync.end) <= sync.end - Lookback
    BY <2>0, GoogleAssumption DEF First
  <2>6. \A d \in Day : {rows'[d], side'[d]} \subseteq {"none", conn.prop}
    BY <2>1, <2>4 DEF Replaced, ReportInv, OneProperty
  <2>7. \A d \in Day : day - Lookback <= d /\ d < day => rows'[d] = conn.prop
    <3> SUFFICES ASSUME NEW d \in Day, day - Lookback <= d, d < day PROVE rows'[d] = conn.prop
      OBVIOUS
    <3>1. d \in Int /\ Lookback \in Int
      BY GoogleAssumption DEF Day
    <3>2. First(sync.seen, sync.end) <= d /\ d <= sync.end
      BY <2>0, <2>1, <2>5, <3>1, GoogleAssumption DEF First
    <3> QED  BY <2>1, <2>4, <3>2 DEF Replaced
  <2>8. OneProperty' /\ WindowWhole'
    BY <2>3, <2>6, <2>7 DEF ReportInv, OneProperty, WindowWhole
  <2>9. SeenStill'
    BY <2>1, <2>3, <2>4 DEF SeenStill, SeesRow, SeesReports
  <2> QED  BY <2>8, <2>9 DEF ReportInv
<1> QED  BY <1>1, <1>2, <1>3, <1>4, <1>5, <1>6, <1>8, <1>9, <1>10, <1>11, <1>12, <1>13, <1>14,
           <1>15, <1>16 DEF GSNext

\* The credential stands always.
LEMMA TokenAlways == GSSpec => []TokenInv
BY GoogleInit, TokenNext, PTL DEF GSSpec

(***************************************************************************)
(* While a selection and a sync do not overlap, no row of one property is  *)
(* shown as another's, and a connection that claims a sync holds every     *)
(* full day of the window it read, for any properties, windows and         *)
(* failures (google_analytics.py:752, run_sync and select_property;        *)
(* search_console.py likewise).                                            *)
(***************************************************************************)
THEOREM Connections ==
  ASSUME {"sync", "select"} \subseteq GSTimely
  PROVE  GSSpec => []ConnectionSound
<1>1. TokenInv /\ ReportInv => ConnectionSound
  BY DEF TokenInv, ReportInv, ConnectionSound
<1>2. TokenInv /\ ReportInv /\ [GSNext]_gsVars => (TokenInv /\ ReportInv)'
  BY TokenNext, ReportNext
<1> QED  BY <1>1, <1>2, GoogleInit, PTL DEF GSSpec

(***************************************************************************)
(* An active connection has the credential its syncs need, whatever        *)
(* callbacks, selections, disconnections and syncs overlap: each writes    *)
(* only the columns it changed, and none of them writes "active" over a    *)
(* row whose token another has dropped (google_analytics.py and            *)
(* search_console.py: handle_callback, select_property, disconnect).       *)
(***************************************************************************)
THEOREM TokensStand == GSSpec => []ActiveHasToken
BY TokenAlways, PTL DEF TokenInv

----------------------------------------------------------------------------
(***************************************************************************)
(* Accounts (Accounts)                                                     *)
(***************************************************************************)

User == [here : BOOLEAN, email : Address, verified : BOOLEAN, active : BOOLEAN,
         password : Nat, reset : Nat, proven : SUBSET Address]
Session == [login : Nat, password : Nat, live : BOOLEAN]
Link == [to : Address, open : BOOLEAN]
Asking == [op : Kind \cup {"none", "issue"}, row : Nat \cup Address,
           saw : [password : Nat, verified : BOOLEAN]]

Refreshing(c) == ask[c].op \in {"refresh", "issue"}

\* The types, and what a request may have read of the rows
AccountTypes ==
  /\ user \in User
  /\ sessions \in Seq(Session)
  /\ links \in Seq(Link)
  /\ resets \in Seq(BOOLEAN)
  /\ ask \in [ACCaller -> Asking]
  /\ \A c \in ACCaller :
       /\ Refreshing(c) => ask[c].row \in 1 .. Len(sessions)
       /\ ask[c].op = "verify" => ask[c].row \in 1 .. Len(links)
       /\ ask[c].op \in {"address", "resend"} => ask[c].row \in Address
  /\ user.reset <= user.password

\* No two requests run that do not overlap
KindOf(c) == IF ask[c].op = "issue" THEN "refresh" ELSE ask[c].op
\* Requests whose kinds are kept apart do not run at once.
NoOverlap == \A c, d \in ACCaller : c # d => {KindOf(c), KindOf(d)} \notin Apart

AccountInv == AccountTypes /\ NoOverlap

\* The types hold at the start.
LEMMA AccountInit == ACInit => AccountInv
<1> SUFFICES ASSUME ACInit PROVE AccountInv
  OBVIOUS
<1>1. NoAsk \in Asking /\ NoAsk.op = "none"
  BY DEF NoAsk, Asking
<1>2. AccountTypes
  BY <1>1, AccountsAssumption DEF ACInit, AccountTypes, Refreshing, User, Session, Link
<1>3. NoOverlap
  BY <1>1, AccountsAssumption DEF ACInit, NoOverlap, KindOf, Kind
<1> QED  BY <1>2, <1>3 DEF AccountInv

\* The requests: one begins, one ends, or none does.
Begins(c, op, row) == Load(c, op, row) /\ UNCHANGED Rows

\* A request begins.
LEMMA Begun ==
  ASSUME AccountInv, NEW c \in ACCaller, NEW op \in Kind, NEW row \in Nat \cup Address, Begins(c, op, row),
         op = "refresh" => row \in 1 .. Len(sessions),
         op = "verify" => row \in 1 .. Len(links),
         op \in {"address", "resend"} => row \in Address
  PROVE  AccountInv'
<1>1. ask'[c] = [op |-> op, row |-> row, saw |-> [password |-> user.password, verified |-> user.verified]]
      /\ \A d \in ACCaller \ {c} : ask'[d] = ask[d]
  BY DEF Begins, Load, AccountInv, AccountTypes
<1>2. AccountTypes'
  BY <1>1 DEF Begins, Load, AccountInv, AccountTypes, Refreshing, Asking, Rows, Kind, User
<1>3. NoOverlap'
  BY <1>1 DEF Begins, Load, MayRun, AccountInv, NoOverlap, KindOf, Kind
<1> QED  BY <1>2, <1>3 DEF AccountInv

\* Rows are added and changed, never removed.
Grows(s, t) == Len(s) <= Len(t)
Moved ==
  /\ ask' \in [ACCaller -> Asking]
  /\ \A d \in ACCaller :
        \/ ask'[d].op = "none"
        \/ ask'[d].row = ask[d].row /\ ask'[d].op = "issue" /\ ask[d].op \in {"refresh", "issue"}
        \/ ask'[d] = ask[d]
\* A commit that keeps the rows well typed keeps the types of what was read of them.
LEMMA Written ==
  ASSUME AccountInv,
         user' \in User,
         user'.reset <= user'.password,
         sessions' \in Seq(Session), Grows(sessions, sessions'),
         links' \in Seq(Link), Grows(links, links'),
         resets' \in Seq(BOOLEAN),
         \/ UNCHANGED ask
         \/ \E c \in ACCaller : ask' = [ask EXCEPT ![c] = NoAsk]
         \/ \E c \in ACCaller : ask[c].op = "refresh" /\ ask' = [ask EXCEPT ![c].op = "issue"]
  PROVE  AccountInv'
<1>0. NoAsk \in Asking /\ NoAsk.op = "none"
  BY DEF NoAsk, Asking
<1>a. ask \in [ACCaller -> Asking]
  BY DEF AccountInv, AccountTypes
<1>b. ASSUME UNCHANGED ask PROVE Moved
  BY <1>a, <1>b DEF Moved
<1>c. ASSUME NEW c \in ACCaller, ask' = [ask EXCEPT ![c] = NoAsk] PROVE Moved
  BY <1>0, <1>a, <1>c DEF Moved
<1>d. ASSUME NEW c \in ACCaller, ask[c].op = "refresh", ask' = [ask EXCEPT ![c].op = "issue"]
      PROVE Moved
  <2>1. ask' = [ask EXCEPT ![c] = [ask[c] EXCEPT !.op = "issue"]]
    BY <1>d
  <2>2. /\ [ask[c] EXCEPT !.op = "issue"] \in Asking /\ [ask[c] EXCEPT !.op = "issue"].op = "issue"
        /\ [ask[c] EXCEPT !.op = "issue"].row = ask[c].row
    BY <1>a DEF Asking
  <2> QED  BY <1>a, <1>d, <2>1, <2>2 DEF Moved
<1>1. Moved
  BY <1>b, <1>c, <1>d
<1>2. \A d \in ACCaller : KindOf(d)' \in {"none", KindOf(d)}
  BY <1>1 DEF Moved, KindOf
<1>3. AccountTypes'
  <2>1. \A c \in ACCaller :
       /\ Refreshing(c)' => ask'[c].row \in 1 .. Len(sessions')
       /\ ask'[c].op = "verify" => ask'[c].row \in 1 .. Len(links')
       /\ ask'[c].op \in {"address", "resend"} => ask'[c].row \in Address
    <3>1. Len(sessions) \in Nat /\ Len(sessions') \in Nat /\ Len(links) \in Nat /\ Len(links') \in Nat
      BY LenProperties DEF AccountInv, AccountTypes
    <3> SUFFICES ASSUME NEW c \in ACCaller
                 PROVE  /\ Refreshing(c)' => ask'[c].row \in 1 .. Len(sessions')
                        /\ ask'[c].op = "verify" => ask'[c].row \in 1 .. Len(links')
                        /\ ask'[c].op \in {"address", "resend"} => ask'[c].row \in Address
      OBVIOUS
    <3>2. /\ Refreshing(c) => ask[c].row \in 1 .. Len(sessions)
          /\ ask[c].op = "verify" => ask[c].row \in 1 .. Len(links)
          /\ ask[c].op \in {"address", "resend"} => ask[c].row \in Address
      BY DEF AccountInv, AccountTypes
    <3>3. CASE ask'[c].op = "none"
      BY <3>3 DEF Refreshing
    <3>4. CASE ask'[c] = ask[c]
      BY <3>1, <3>2, <3>4 DEF Refreshing, Grows
    <3>5. CASE ask'[c].row = ask[c].row /\ ask'[c].op = "issue" /\ Refreshing(c)
      BY <3>1, <3>2, <3>5 DEF Refreshing, Grows
    <3> QED  BY <1>1, <3>3, <3>4, <3>5 DEF Moved, Refreshing
  <2> QED  BY <1>1, <2>1 DEF AccountTypes, Moved
<1>4. NoOverlap'
  <2> SUFFICES ASSUME NEW c \in ACCaller, NEW d \in ACCaller, c # d
               PROVE  {KindOf(c), KindOf(d)}' \notin Apart
    BY DEF NoOverlap
  <2>2. \A S \in Apart : "none" \notin S
    BY AccountsAssumption DEF Kind
  <2> QED  BY <1>2, <2>2 DEF AccountInv, NoOverlap
<1> QED  BY <1>3, <1>4 DEF AccountInv

----------------------------------------------------------------------------
\* Rows that only end
Narrow(s, t) ==
  /\ t \in Seq(Session) /\ Len(t) = Len(s)
  /\ \A i \in 1 .. Len(s) :
       t[i].login = s[i].login /\ t[i].password = s[i].password /\ (t[i].live => s[i].live)
Close(s, t) ==
  /\ t \in Seq(Link) /\ Len(t) = Len(s)
  /\ \A i \in 1 .. Len(s) : t[i].to = s[i].to /\ (t[i].open => s[i].open)

\* Rows that end do no harm to what was read of them.
LEMMA Ending ==
  ASSUME sessions \in Seq(Session)
  PROVE  /\ Narrow(sessions, sessions)
         /\ Narrow(sessions, AllRevoked) /\ \A i \in 1 .. Len(sessions) : ~ AllRevoked[i].live
         /\ \A s \in 1 .. Len(sessions) : Narrow(sessions, Revoked(s)) /\ ~ Revoked(s)[s].live
<1>1. DOMAIN sessions = 1 .. Len(sessions) /\ Len(sessions) \in Nat /\ sessions \in [1 .. Len(sessions) -> Session]
  BY LenProperties
<1>2. Narrow(sessions, AllRevoked) /\ \A i \in 1 .. Len(sessions) : ~ AllRevoked[i].live
  <2>1. /\ AllRevoked \in [1 .. Len(sessions) -> Session]
        /\ \A i \in 1 .. Len(sessions) : /\ AllRevoked[i].login = sessions[i].login
                                         /\ AllRevoked[i].password = sessions[i].password
                                         /\ ~ AllRevoked[i].live
    BY <1>1 DEF AllRevoked, Session
  <2>2. AllRevoked \in Seq(Session) /\ Len(AllRevoked) = Len(sessions)
    BY <1>1, <2>1, SeqDef, LenProperties
  <2> QED  BY <2>1, <2>2 DEF Narrow
<1>3. ASSUME NEW s \in 1 .. Len(sessions)
      PROVE  Narrow(sessions, Revoked(s)) /\ ~ Revoked(s)[s].live
  <2> DEFINE e == [sessions[s] EXCEPT !.live = FALSE]
  <2>1. e \in Session /\ e.login = sessions[s].login /\ e.password = sessions[s].password /\ ~ e.live
    BY <1>1 DEF Session
  <2>2. Revoked(s) = [sessions EXCEPT ![s] = e]
    BY DEF Revoked
  <2> HIDE DEF e
  <2> QED  BY <2>1, <2>2, ExceptSeq DEF Narrow
<1> QED  BY <1>2, <1>3 DEF Narrow

\* Closing some links, or all of them, opens none.
LEMMA Closing ==
  ASSUME links \in Seq(Link)
  PROVE  /\ Close(links, links)
         /\ \A l \in 1 .. Len(links) : Close(links, [links EXCEPT ![l].open = FALSE])
         /\ LET closed == [l \in DOMAIN links |-> [links[l] EXCEPT !.open = FALSE]]
            IN  Close(links, closed) /\ \A i \in 1 .. Len(links) : ~ closed[i].open
<1>1. DOMAIN links = 1 .. Len(links) /\ Len(links) \in Nat /\ links \in [1 .. Len(links) -> Link]
  BY LenProperties
<1> DEFINE closed == [l \in DOMAIN links |-> [links[l] EXCEPT !.open = FALSE]]
<1>2. Close(links, closed) /\ \A i \in 1 .. Len(links) : ~ closed[i].open
  <2>1. /\ closed \in [1 .. Len(links) -> Link]
        /\ \A i \in 1 .. Len(links) : closed[i].to = links[i].to /\ ~ closed[i].open
    BY <1>1 DEF Link
  <2>2. closed \in Seq(Link) /\ Len(closed) = Len(links)
    <3> HIDE DEF closed
    <3> QED  BY <1>1, <2>1, SeqDef, LenProperties
  <2> QED  BY <2>1, <2>2 DEF Close
<1>3. ASSUME NEW l \in 1 .. Len(links)
      PROVE  Close(links, [links EXCEPT ![l].open = FALSE])
  <2> DEFINE e == [links[l] EXCEPT !.open = FALSE]
  <2>1. e \in Link /\ e.to = links[l].to /\ ~ e.open
    BY <1>1 DEF Link
  <2>2. [links EXCEPT ![l].open = FALSE] = [links EXCEPT ![l] = e]
    OBVIOUS
  <2>3. Close(links, [links EXCEPT ![l] = e])
    <3> HIDE DEF e
    <3> QED  BY <2>1, ExceptSeq DEF Close
  <2> QED  BY <2>2, <2>3
<1> QED  BY <1>2, <1>3 DEF Close

\* Requests that only end things, whose own row may be gone
Tidies ==
  /\ user' \in User
  /\ user'.here => user.here
  /\ user'.email = user.email /\ user'.verified = user.verified /\ user'.proven = user.proven
  /\ user'.reset = user.reset /\ user'.password >= user.password
  /\ Narrow(sessions, sessions') /\ Close(links, links') /\ resets' \in Seq(BOOLEAN)
  /\ ask' = ask \/ \E c \in ACCaller : ask' = [ask EXCEPT ![c] = NoAsk]

\* The commits that a request reaches by way of what it has read
Commits(c) ==
  \/ Rotate(c) \/ Resend(c)
  \/ user.here /\ (Issue(c) \/ Reset(c) \/ Verify(c) \/ ChangeAddress(c))

\* A step begins a request, commits one, or only ends rows.
LEMMA Steps ==
  ASSUME AccountInv, [ACNext]_acVars
  PROVE  \/ Tidies \/ VerifyByAdmin
         \/ \E c \in ACCaller : Commits(c)
         \/ \E c \in ACCaller, op \in Kind, row \in Nat \cup Address :
              /\ Begins(c, op, row)
              /\ op = "refresh" => row \in 1 .. Len(sessions) /\ sessions[row].live
              /\ op = "verify" => row \in 1 .. Len(links) /\ links[row].open
              /\ op = "address" => row \in Address
              /\ op = "resend" => row = user.email
<1>0. /\ sessions \in Seq(Session) /\ links \in Seq(Link) /\ resets \in Seq(BOOLEAN) /\ user \in User
      /\ Len(sessions) \in Nat /\ DOMAIN sessions = 1 .. Len(sessions)
      /\ DOMAIN links = 1 .. Len(links) /\ DOMAIN resets = 1 .. Len(resets) /\ Len(links) \in Nat /\ Len(resets) \in Nat
  BY LenProperties DEF AccountInv, AccountTypes
<1>a. user.password \in Nat /\ user.password >= user.password
  BY <1>0 DEF User
<1>1. Narrow(sessions, sessions) /\ Close(links, links)
  BY <1>0, Ending, Closing
<1>2. ASSUME UNCHANGED acVars PROVE Tidies
  BY <1>0, <1>1, <1>2 DEF acVars, Tidies, User
<1>3. ASSUME NEW c \in ACCaller, NEW op, Fails(c, op) PROVE Tidies
  <2>1. UNCHANGED <<user, sessions, links, resets>> /\ ask' = [ask EXCEPT ![c] = NoAsk]
    BY <1>3 DEF Fails, Done, Rows
  <2>2. user.password >= user.password
    BY <1>0 DEF User
  <2> QED  BY <1>0, <1>1, <2>1, <2>2 DEF Tidies
<1>4. ASSUME Logout \/ LogoutAll PROVE Tidies
  BY <1>0, <1>1, <1>4, Ending DEF Logout, LogoutAll, AtOnce, Live, Tidies, User
<1>5. ASSUME Forgot PROVE Tidies
  <2>1. Append(resets, TRUE) \in Seq(BOOLEAN)
    BY <1>0, AppendProperties
  <2> QED  BY <1>0, <1>1, <1>5, <2>1 DEF Forgot, AtOnce, Tidies, User
<1>6. ASSUME ChangePassword \/ SetStatus PROVE Tidies
  <2>1. UNCHANGED <<sessions, links, resets, ask>> /\ user.here
        /\ \/ user' = [user EXCEPT !.password = @ + 1]
           \/ user' = [user EXCEPT !.active = ~@]
    BY <1>6 DEF ChangePassword, SetStatus, AtOnce
  <2>2. /\ user' \in User
        /\ user'.email = user.email /\ user'.verified = user.verified /\ user'.proven = user.proven
        /\ user'.reset = user.reset /\ user'.password \in {user.password, user.password + 1}
    <3>1. user.password + 1 \in Nat /\ (~ user.active) \in BOOLEAN
      BY <1>a
    <3>2. CASE user' = [user EXCEPT !.password = @ + 1]
      BY <1>0, <3>1, <3>2 DEF User
    <3>3. CASE user' = [user EXCEPT !.active = ~@]
      BY <1>0, <3>1, <3>3 DEF User
    <3> QED  BY <2>1, <3>2, <3>3
  <2>3. user'.password >= user.password
    BY <1>a, <2>2
  <2> QED  BY <1>0, <1>1, <2>1, <2>2, <2>3 DEF Tidies
<1>7. ASSUME DeleteUser PROVE Tidies
  <2>1. [r \in DOMAIN resets |-> FALSE] \in Seq(BOOLEAN)
    <3> DEFINE none == [r \in DOMAIN resets |-> FALSE]
    <3>1. none \in [1 .. Len(resets) -> BOOLEAN]
      BY <1>0
    <3> HIDE DEF none
    <3>2. none \in Seq(BOOLEAN)
      BY <1>0, <3>1, SeqDef
    <3> QED  BY <3>2 DEF none
  <2>2. /\ user' \in User
        /\ user'.email = user.email /\ user'.verified = user.verified /\ user'.proven = user.proven
        /\ user'.reset = user.reset /\ user'.password = user.password /\ user.here
    BY <1>0, <1>7 DEF DeleteUser, User
  <2>3. Narrow(sessions, sessions') /\ Close(links, links')
    BY <1>0, <1>7, Ending, Closing DEF DeleteUser
  <2> QED  BY <1>7, <1>a, <2>1, <2>2, <2>3 DEF DeleteUser, AtOnce, Tidies
<1>8. ASSUME ExpireRow PROVE Tidies
  <2>1. \A r \in 1 .. Len(resets) : [resets EXCEPT ![r] = FALSE] \in Seq(BOOLEAN)
    BY <1>0, ExceptSeq
  <2>2. user.password >= user.password
    BY <1>0 DEF User
  <2>3. \A s \in Live : Narrow(sessions, Revoked(s))
    BY <1>0, Ending DEF Live
  <2>4. \A l \in DOMAIN links : Close(links, [links EXCEPT ![l].open = FALSE])
    BY <1>0, Closing
  <2>5. /\ sessions' = sessions \/ \E s \in Live : sessions' = Revoked(s)
        /\ links' = links \/ \E l \in DOMAIN links : links' = [links EXCEPT ![l].open = FALSE]
        /\ resets' = resets \/ \E r \in DOMAIN resets : resets' = [resets EXCEPT ![r] = FALSE]
        /\ UNCHANGED <<user, ask>>
    BY <1>8 DEF ExpireRow
  <2> QED  BY <1>0, <1>1, <2>1, <2>2, <2>3, <2>4, <2>5 DEF Tidies
<1>9. ASSUME NEW c \in ACCaller,
             Rotate(c) \/ Issue(c) \/ Reset(c) \/ Verify(c) \/ ChangeAddress(c) \/ Resend(c)
      PROVE  Tidies \/ Commits(c)
  BY <1>3, <1>9 DEF Commits, Issue, Reset, Verify, ChangeAddress
<1> DEFINE Asks(c, op, row) ==
             /\ Begins(c, op, row)
             /\ op = "refresh" => row \in 1 .. Len(sessions) /\ sessions[row].live
             /\ op = "verify" => row \in 1 .. Len(links) /\ links[row].open
             /\ op = "address" => row \in Address
             /\ op = "resend" => row = user.email
           Begun0 == \E c \in ACCaller, op \in Kind, row \in Nat \cup Address : Asks(c, op, row)
<1>10. ASSUME NEW c \in ACCaller, LoadLogin(c) PROVE Begun0
  <2>1. Asks(c, "login", Len(sessions) + 1) /\ "login" \in Kind /\ Len(sessions) + 1 \in Nat
    BY <1>0, <1>10 DEF LoadLogin, Begins, Kind
  <2> QED  BY <2>1
<1>11. ASSUME NEW c \in ACCaller, LoadResend(c) PROVE Begun0
  <2>1. Asks(c, "resend", user.email) /\ "resend" \in Kind /\ user.email \in Address
    BY <1>0, <1>11 DEF LoadResend, Begins, Kind, User
  <2> QED  BY <2>1
<1>12. ASSUME NEW c \in ACCaller, NEW s \in DOMAIN sessions, LoadRefresh(c, s) PROVE Begun0
  <2>1. Asks(c, "refresh", s) /\ "refresh" \in Kind /\ s \in Nat
    BY <1>0, <1>12 DEF LoadRefresh, Begins, Kind, Live
  <2> QED  BY <2>1
<1>13. ASSUME NEW c \in ACCaller, NEW r \in DOMAIN resets, LoadReset(c, r) PROVE Begun0
  <2>1. Asks(c, "reset", r) /\ "reset" \in Kind /\ r \in Nat
    BY <1>0, <1>13 DEF LoadReset, Begins, Kind
  <2> QED  BY <2>1
<1>14. ASSUME NEW c \in ACCaller, NEW l \in DOMAIN links, LoadVerify(c, l) PROVE Begun0
  <2>1. Asks(c, "verify", l) /\ "verify" \in Kind /\ l \in Nat
    BY <1>0, <1>14 DEF LoadVerify, Begins, Kind
  <2> QED  BY <2>1
<1>15. ASSUME NEW c \in ACCaller, NEW a \in Address, LoadAddress(c, a) PROVE Begun0
  <2>1. Asks(c, "address", a) /\ "address" \in Kind
    BY <1>0, <1>15 DEF LoadAddress, Begins, Kind
  <2> QED  BY <2>1
<1> HIDE DEF Begun0
<1>16. Tidies \/ VerifyByAdmin \/ (\E c \in ACCaller : Commits(c)) \/ Begun0
  BY <1>2, <1>4, <1>5, <1>6, <1>7, <1>8, <1>9, <1>10, <1>11, <1>12, <1>13, <1>14, <1>15 DEF ACNext
<1> QED  BY <1>16 DEF Begun0

\* A link for a new password is used up, or was gone.
LEMMA UsedUp ==
  ASSUME resets \in Seq(BOOLEAN), NEW r
  PROVE  [resets EXCEPT ![r] = FALSE] \in Seq(BOOLEAN)
<1> DEFINE used == [resets EXCEPT ![r] = FALSE]
<1>1. resets \in [1 .. Len(resets) -> BOOLEAN] /\ Len(resets) \in Nat
  BY LenProperties
<1>2. used \in [1 .. Len(resets) -> BOOLEAN]
  BY <1>1
<1> HIDE DEF used
<1>3. used \in Seq(BOOLEAN)
  BY <1>1, <1>2, SeqDef
<1> QED  BY <1>3 DEF used

\* Every step keeps the types.
LEMMA AccountNext == AccountInv /\ [ACNext]_acVars => AccountInv'
<1> SUFFICES ASSUME AccountInv, [ACNext]_acVars PROVE AccountInv'
  OBVIOUS
<1>0. /\ sessions \in Seq(Session) /\ links \in Seq(Link) /\ resets \in Seq(BOOLEAN) /\ user \in User
      /\ Len(sessions) \in Nat /\ Len(links) \in Nat /\ user.reset <= user.password
      /\ ask \in [ACCaller -> Asking]
  BY LenProperties DEF AccountInv, AccountTypes
<1>a. user.password \in Nat /\ user.reset \in Nat /\ user.proven \subseteq Address
      /\ user.verified \in BOOLEAN /\ user.email \in Address
  BY <1>0 DEF User
<1>1. Grows(sessions, sessions) /\ Grows(links, links)
  BY <1>0 DEF Grows
<1>2. CASE Tidies
  <2>3. user' \in User
    BY <1>2 DEF Tidies
  <2>0. user'.password \in Nat
    BY <2>3 DEF User
  <2>1. user'.reset <= user'.password
    BY <1>0, <1>a, <1>2, <2>0 DEF Tidies
  <2>2. /\ sessions' \in Seq(Session) /\ Grows(sessions, sessions')
        /\ links' \in Seq(Link) /\ Grows(links, links')
    BY <1>0, <1>2 DEF Tidies, Narrow, Close, Grows
  <2>4. resets' \in Seq(BOOLEAN) /\ (ask' = ask \/ \E c \in ACCaller : ask' = [ask EXCEPT ![c] = NoAsk])
    BY <1>2 DEF Tidies
  <2> QED  BY <2>1, <2>2, <2>3, <2>4, Written
<1>3. CASE VerifyByAdmin
  <2>1. user' \in User /\ user'.reset <= user'.password
    BY <1>0, <1>3 DEF VerifyByAdmin, User
  <2> QED  BY <1>0, <1>1, <1>3, <2>1, Written DEF VerifyByAdmin, AtOnce
<1>4. ASSUME NEW c \in ACCaller, NEW op \in Kind, NEW row \in Nat \cup Address, Begins(c, op, row),
             op = "refresh" => row \in 1 .. Len(sessions),
             op = "verify" => row \in 1 .. Len(links),
             op = "address" => row \in Address, op = "resend" => row = user.email
      PROVE  AccountInv'
  <2>1. user.email \in Address
    BY <1>0 DEF User
  <2> QED  BY <1>4, <2>1, Begun
<1>5. ASSUME NEW c \in ACCaller, Rotate(c) PROVE AccountInv'
  <2>1. sessions' = Revoked(ask[c].row) \/ sessions' = sessions
    BY <1>5 DEF Rotate
  <2>2. ask[c].row \in 1 .. Len(sessions)
    BY <1>5 DEF Rotate, AccountInv, AccountTypes, Refreshing
  <2>3. sessions' \in Seq(Session) /\ Grows(sessions, sessions')
    BY <1>0, <1>1, <2>1, <2>2, Ending DEF Narrow, Grows
  <2> QED  BY <1>0, <1>1, <1>5, <2>3, Written DEF Rotate
<1>6. ASSUME NEW c \in ACCaller, Resend(c) PROVE AccountInv'
  <2>1. [to |-> ask[c].row, open |-> TRUE] \in Link
    BY <1>6 DEF Resend, Done, AccountInv, AccountTypes, Link
  <2>2. links' \in Seq(Link) /\ Grows(links, links')
    BY <1>0, <1>6, <2>1, AppendProperties DEF Resend, Grows
  <2> QED  BY <1>0, <1>1, <1>6, <2>2, Written DEF Resend, Done
<1>7. ASSUME NEW c \in ACCaller, user.here, Issue(c) PROVE AccountInv'
  <2> DEFINE old == sessions[ask[c].row]
             new == IF ask[c].op = "login"
                      THEN [login |-> Len(sessions) + 1, password |-> ask[c].saw.password, live |-> TRUE]
                      ELSE [login |-> old.login, password |-> old.password, live |-> TRUE]
  <2>1. /\ ask[c].op \in {"login", "issue"} /\ sessions' = Append(sessions, new)
        /\ Done(c, ask[c].op) /\ UNCHANGED <<user, links, resets>>
    BY <1>7 DEF Issue, Fails
  <2>2. ask[c].op = "issue" => old \in Session
    BY <1>0, ElementOfSeq DEF AccountInv, AccountTypes, Refreshing
  <2>3. new \in Session
    BY <1>0, <2>1, <2>2 DEF Asking, Session
  <2>4. sessions' \in Seq(Session) /\ Grows(sessions, sessions')
    <3> HIDE DEF new
    <3> QED  BY <1>0, <2>1, <2>3, AppendProperties DEF Grows
  <2> QED  BY <1>0, <1>1, <2>1, <2>4, Written DEF Done
<1>8. ASSUME NEW c \in ACCaller, user.here, Reset(c) PROVE AccountInv'
  <2>0. user' = [user EXCEPT !.password = user.password + 1, !.reset = user.password + 1]
    BY <1>8 DEF Reset, Fails
  <2>9. user.password + 1 \in Nat
    BY <1>a
  <2>1. user' \in User /\ user'.reset <= user'.password
    <3>1. user' \in User
      BY <1>0, <2>0, <2>9 DEF User
    <3>2. user'.reset = user.password + 1 /\ user'.password = user.password + 1
      BY <1>0, <2>0 DEF User
    <3> QED  BY <1>a, <3>1, <3>2
  <2>2. sessions' \in Seq(Session) /\ Grows(sessions, sessions')
    BY <1>0, <1>8, Ending DEF Reset, Fails, Narrow, Grows
  <2>3. resets' \in Seq(BOOLEAN)
    BY <1>0, <1>8, UsedUp DEF Reset, Fails
  <2> QED  BY <1>0, <1>1, <1>8, <2>1, <2>2, <2>3, Written DEF Reset, Fails, Done
<1>9. ASSUME NEW c \in ACCaller, user.here, Verify(c) PROVE AccountInv'
  <2>1. ask[c].row \in 1 .. Len(links)
    BY <1>9 DEF Verify, Fails, Done, AccountInv, AccountTypes
  <2>2. links[ask[c].row] \in Link
    BY <1>0, <2>1, ElementOfSeq
  <2>5. links[ask[c].row].to \in Address
    BY <2>2 DEF Link
  <2>6. /\ user' = [user EXCEPT !.verified = (@ \/ ~ask[c].saw.verified),
                                !.proven = @ \union {links[ask[c].row].to}]
        /\ links' = [links EXCEPT ![ask[c].row].open = FALSE]
    BY <1>9 DEF Verify, Fails
  <2>3. user' \in User /\ user'.reset <= user'.password
    <3>1. user.proven \union {links[ask[c].row].to} \in SUBSET Address
      BY <1>a, <2>5
    <3> QED  BY <1>0, <2>6, <3>1 DEF User
  <2>4. links' \in Seq(Link) /\ Grows(links, links')
    <3>1. Close(links, links')
      BY <1>0, <2>1, <2>6, Closing
    <3> QED  BY <1>0, <3>1 DEF Close, Grows
  <2> QED  BY <1>0, <1>1, <1>9, <2>3, <2>4, Written DEF Verify, Fails, Done
<1>10. ASSUME NEW c \in ACCaller, user.here, ChangeAddress(c) PROVE AccountInv'
  <2> DEFINE closed == [l \in DOMAIN links |-> [links[l] EXCEPT !.open = FALSE]]
  <2>1. /\ Done(c, "address") /\ links' = Append(closed, [to |-> ask[c].row, open |-> TRUE])
        /\ user' = [user EXCEPT !.email = ask[c].row, !.verified = (@ /\ ~ask[c].saw.verified)]
        /\ UNCHANGED <<sessions, resets>>
    BY <1>10 DEF ChangeAddress, Fails
  <2>2. ask[c].row \in Address
    BY <2>1 DEF Done, AccountInv, AccountTypes
  <2>3. user' \in User /\ user'.reset <= user'.password
    BY <1>0, <2>1, <2>2 DEF User, Asking
  <2>4. [to |-> ask[c].row, open |-> TRUE] \in Link
    BY <2>2 DEF Link
  <2>5. closed \in Seq(Link) /\ Len(closed) = Len(links)
    BY <1>0, Closing DEF Close
  <2>6. links' \in Seq(Link) /\ Grows(links, links')
    <3> HIDE DEF closed
    <3> QED  BY <1>0, <2>1, <2>4, <2>5, AppendProperties DEF Grows
  <2> QED  BY <1>0, <1>1, <2>1, <2>3, <2>6, Written DEF Done
<1> QED  BY <1>2, <1>3, <1>4, <1>5, <1>6, <1>7, <1>8, <1>9, <1>10, Steps DEF Commits

----------------------------------------------------------------------------
\* The types hold always.
LEMMA AccountAlways == ACSpec => []AccountInv
BY AccountInit, AccountNext, PTL DEF ACSpec

\* What the steps of the requests do to ask
LEMMA Asked ==
  ASSUME AccountInv, NEW c \in ACCaller
  PROVE  /\ \A op : Done(c, op) => ask[c].op = op /\ ask'[c].op = "none"
                                   /\ \A d \in ACCaller \ {c} : ask'[d] = ask[d]
         /\ \A op, row : Begins(c, op, row) =>
              /\ ask'[c] = [op |-> op, row |-> row, saw |-> [password |-> user.password, verified |-> user.verified]]
              /\ MayRun(op) /\ UNCHANGED <<user, sessions, links>>
              /\ \A d \in ACCaller \ {c} : ask'[d] = ask[d]
         /\ Rotate(c) => /\ ask[c].op = "refresh" /\ ask'[c].op = "issue" /\ ask'[c].row = ask[c].row
                         /\ \A d \in ACCaller \ {c} : ask'[d] = ask[d]
<1>1. ask \in [ACCaller -> Asking]
  BY DEF AccountInv, AccountTypes
<1>2. ASSUME Rotate(c)
      PROVE  /\ ask[c].op = "refresh" /\ ask'[c].op = "issue" /\ ask'[c].row = ask[c].row
             /\ \A d \in ACCaller \ {c} : ask'[d] = ask[d]
  BY <1>1, <1>2 DEF Rotate, Asking
<1> QED  BY <1>1, <1>2 DEF Done, Begins, Load, NoAsk, Rows

\* The kinds of requests about an address that must not overlap
AddressAlone == {{"address"}, {"verify", "address"}, {"resend", "address"}, {"admin", "address"}}
\* What a request has read of the address of the account is still so.
SeesAddress(a) ==
  /\ a.op = "verify" => links[a.row].to = user.email
  /\ a.op = "address" => a.saw.verified = user.verified
  /\ a.op = "resend" => a.row = user.email
(***************************************************************************)
(* The inductive invariant of verified addresses: every link that can      *)
(* still be followed was sent to the address the account has now           *)
(* (routes_auth.py, update_me closes the others).                          *)
(***************************************************************************)
AddressInv ==
  /\ VerifiedProven
  /\ \A l \in 1 .. Len(links) : links[l].open => links[l].to = user.email
  /\ \A c \in ACCaller : SeesAddress(ask[c])

\* A step that leaves the address alone and sends no link elsewhere
LEMMA SameAddress ==
  ASSUME AccountInv, AddressInv,
         user'.email = user.email, user'.verified = user.verified, user'.proven = user.proven,
         user'.here => user.here,
         Close(links, links') \/ links' = Append(links, [to |-> user.email, open |-> TRUE]),
         \A c \in ACCaller : ask'[c] = ask[c] \/ SeesAddress(ask[c])'
  PROVE  AddressInv'
<1>0. links \in Seq(Link) /\ Len(links) \in Nat
  BY LenProperties DEF AccountInv, AccountTypes
<1>1. VerifiedProven'
  BY DEF AddressInv, VerifiedProven
<1>2. /\ Len(links') >= Len(links)
      /\ \A l \in 1 .. Len(links) : links'[l].to = links[l].to /\ (links'[l].open => links[l].open)
      /\ \A l \in 1 .. Len(links') : l > Len(links) => links'[l].to = user.email
  <2>1. CASE Close(links, links')
    BY <1>0, <2>1 DEF Close
  <2>2. CASE links' = Append(links, [to |-> user.email, open |-> TRUE])
    <3> DEFINE e == [to |-> user.email, open |-> TRUE]
    <3>1. e \in Link /\ e.to = user.email
      BY DEF Link, AccountInv, AccountTypes, User
    <3> HIDE DEF e
    <3>2. links' = Append(links, e)
      BY <2>2 DEF e
    <3> QED  BY <1>0, <3>1, <3>2, AppendProperties
  <2> QED  BY <2>1, <2>2
<1>3. \A l \in 1 .. Len(links') : links'[l].open => links'[l].to = user'.email
  BY <1>0, <1>2 DEF AddressInv
<1>4. ASSUME NEW c \in ACCaller PROVE SeesAddress(ask[c])'
  <2>1. ask[c].op = "verify" => ask[c].row \in 1 .. Len(links)
    BY DEF AccountInv, AccountTypes
  <2>2. CASE ask'[c] = ask[c]
    BY <1>0, <1>2, <2>1, <2>2 DEF AddressInv, SeesAddress
  <2> QED  BY <2>2
<1> QED  BY <1>1, <1>3, <1>4 DEF AddressInv

\* Every step keeps the links to the address they prove.
LEMMA AddressNext ==
  ASSUME AddressAlone \subseteq Apart
  PROVE  AccountInv /\ AddressInv /\ [ACNext]_acVars => AddressInv'
<1> SUFFICES ASSUME AccountInv, AddressInv, [ACNext]_acVars PROVE AddressInv'
  OBVIOUS
<1>0. /\ links \in Seq(Link) /\ user \in User /\ Len(links) \in Nat /\ DOMAIN links = 1 .. Len(links)
      /\ ask \in [ACCaller -> Asking] /\ Close(links, links)
  BY LenProperties, Closing DEF AccountInv, AccountTypes
\* nobody else is asking while an address is changed
<1>1. ASSUME NEW c \in ACCaller, ask[c].op = "address"
      PROVE  \A d \in ACCaller \ {c} : ask[d].op \notin {"address", "verify", "resend"}
  BY <1>1 DEF AccountInv, NoOverlap, KindOf, AddressAlone
<1>2. ASSUME \E c \in ACCaller : ask[c].op = "address" PROVE ~ MayRun("admin") /\ ~ MayRun("verify")
             /\ ~ MayRun("resend") /\ ~ MayRun("address")
  BY <1>2 DEF MayRun, AddressAlone
<1>3. CASE Tidies
  <2>1. \A c \in ACCaller : ask'[c] = ask[c] \/ ask'[c].op = "none"
    BY <1>0, <1>3 DEF Tidies, NoAsk
  <2> QED  BY <1>3, <2>1, SameAddress DEF Tidies, SeesAddress
<1>4. CASE VerifyByAdmin
  <2>1. MayRun("admin") /\ user.here /\ UNCHANGED <<links, ask>>
        /\ user' = [user EXCEPT !.verified = TRUE, !.proven = @ \union {user.email}]
    BY <1>4 DEF VerifyByAdmin, AtOnce
  <2>2. user'.here = user.here /\ user'.email = user.email /\ user.email \in user'.proven /\ user'.verified
    BY <1>0, <2>1 DEF User
  <2>3. \A c \in ACCaller : ask[c].op # "address"
    BY <1>2, <2>1
  <2> QED  BY <2>1, <2>2, <2>3 DEF AddressInv, VerifiedProven, SeesAddress
<1>5. ASSUME NEW c \in ACCaller, NEW op \in Kind, NEW row \in Nat \cup Address, Begins(c, op, row),
             op = "verify" => row \in 1 .. Len(links) /\ links[row].open,
             op = "resend" => row = user.email
      PROVE  AddressInv'
  <2>1. UNCHANGED <<user, links>> /\ \A d \in ACCaller \ {c} : ask'[d] = ask[d]
    BY <1>5, Asked
  <2>2. SeesAddress(ask[c])'
    <3>0. ask'[c] = [op |-> op, row |-> row,
                     saw |-> [password |-> user.password, verified |-> user.verified]]
      BY <1>5, Asked
    <3>1. ask'[c].op = op /\ ask'[c].row = row /\ ask'[c].saw.verified = user.verified
      BY <3>0
    <3> QED  BY <1>5, <2>1, <3>1 DEF SeesAddress, AddressInv
  <2> QED  BY <1>0, <2>1, <2>2, SameAddress
<1>6. ASSUME NEW c \in ACCaller, Rotate(c) PROVE AddressInv'
  <2>1. SeesAddress(ask[c])' /\ \A d \in ACCaller \ {c} : ask'[d] = ask[d]
    BY <1>6, Asked DEF SeesAddress
  <2> QED  BY <1>0, <1>6, <2>1, SameAddress DEF Rotate
<1>7. ASSUME NEW c \in ACCaller, Resend(c) PROVE AddressInv'
  <2>1. /\ ask[c].op = "resend" /\ ask'[c].op = "none" /\ \A d \in ACCaller \ {c} : ask'[d] = ask[d]
    BY <1>7, Asked DEF Resend
  <2>2. ask[c].row = user.email
    BY <2>1 DEF AddressInv, SeesAddress
  <2>3. SeesAddress(ask[c])'
    BY <2>1 DEF SeesAddress
  <2> QED  BY <1>7, <2>1, <2>2, <2>3, SameAddress DEF Resend
<1>8. ASSUME NEW c \in ACCaller, user.here, Issue(c) \/ Reset(c) PROVE AddressInv'
  <2>1. ask'[c].op = "none" /\ \A d \in ACCaller \ {c} : ask'[d] = ask[d]
    BY <1>8, Asked DEF Issue, Reset, Fails
  <2>2. SeesAddress(ask[c])'
    BY <2>1 DEF SeesAddress
  <2>3. /\ links' = links /\ user'.email = user.email /\ user'.verified = user.verified
        /\ user'.proven = user.proven /\ user'.here = user.here
    BY <1>0, <1>8 DEF Issue, Reset, Fails, User
  <2> QED  BY <1>0, <2>1, <2>2, <2>3, SameAddress
<1>9. ASSUME NEW c \in ACCaller, user.here, Verify(c) PROVE AddressInv'
  <2>1. /\ ask[c].op = "verify" /\ ask'[c].op = "none" /\ \A d \in ACCaller \ {c} : ask'[d] = ask[d]
        /\ user' = [user EXCEPT !.verified = (@ \/ ~ask[c].saw.verified),
                                !.proven = @ \union {links[ask[c].row].to}]
        /\ links' = [links EXCEPT ![ask[c].row].open = FALSE]
    BY <1>9, Asked DEF Verify, Fails
  <2>2. ask[c].row \in 1 .. Len(links) /\ links[ask[c].row].to = user.email
    BY <2>1 DEF AccountInv, AccountTypes, AddressInv, SeesAddress
  <2>3. user'.email = user.email /\ user.email \in user'.proven
    BY <1>0, <2>1, <2>2 DEF User
  <2>4. Close(links, links')
    BY <1>0, <2>1, <2>2, Closing
  <2>5. \A d \in ACCaller : ask[d].op # "address"
    BY <1>1, <2>1
  <2>6. VerifiedProven'
    BY <2>3 DEF VerifiedProven
  <2>7. \A l \in 1 .. Len(links') : links'[l].open => links'[l].to = user'.email
    BY <2>3, <2>4 DEF AddressInv, Close
  <2>8. ASSUME NEW d \in ACCaller PROVE SeesAddress(ask[d])'
    <3>1. ask[d].op = "verify" => ask[d].row \in 1 .. Len(links)
      BY DEF AccountInv, AccountTypes
    <3> QED  BY <2>1, <2>3, <2>4, <2>5, <3>1 DEF SeesAddress, AddressInv, Close
  <2> QED  BY <2>6, <2>7, <2>8 DEF AddressInv
<1>10. ASSUME NEW c \in ACCaller, user.here, ChangeAddress(c) PROVE AddressInv'
  <2> DEFINE closed == [l \in DOMAIN links |-> [links[l] EXCEPT !.open = FALSE]]
             e == [to |-> ask[c].row, open |-> TRUE]
  <2>1. /\ ask[c].op = "address" /\ ask'[c].op = "none" /\ \A d \in ACCaller \ {c} : ask'[d] = ask[d]
        /\ links' = Append(closed, e)
        /\ user' = [user EXCEPT !.email = ask[c].row, !.verified = (@ /\ ~ask[c].saw.verified)]
    BY <1>10, Asked DEF ChangeAddress, Fails
  <2>2. user'.email = ask[c].row /\ ~ user'.verified
    BY <1>0, <2>1 DEF AddressInv, SeesAddress, User
  <2>3. closed \in Seq(Link) /\ Len(closed) = Len(links) /\ \A l \in 1 .. Len(links) : ~ closed[l].open
    BY <1>0, Closing DEF Close
  <2>4. e \in Link /\ e.to = ask[c].row
    BY <2>1 DEF Link, AccountInv, AccountTypes
  <2>5. \A l \in 1 .. Len(links') : links'[l].open => links'[l].to = ask[c].row
    <3> HIDE DEF closed, e
    <3> QED  BY <1>0, <2>1, <2>3, <2>4, AppendProperties
  <2>6. \A d \in ACCaller : SeesAddress(ask[d])'
    BY <1>1, <2>1 DEF SeesAddress
  <2> QED  BY <2>2, <2>5, <2>6 DEF AddressInv, VerifiedProven
<1> QED  BY <1>3, <1>4, <1>5, <1>6, <1>7, <1>8, <1>9, <1>10, Steps DEF Commits

\* The kinds of requests that must not overlap a password reset
ResetAlone == {{"login", "reset"}, {"refresh", "reset"}}
\* What a request goes on from was begun under a password no older than the last reset.
SeesSession(a) ==
  /\ a.op \in {"refresh", "issue"} => sessions[a.row].password >= user.reset
  /\ a.op = "login" => a.saw.password >= user.reset
\* The inductive invariant of password resets
ResetInv ==
  /\ \A s \in 1 .. Len(sessions) : sessions[s].live => sessions[s].password >= user.reset
  /\ \A c \in ACCaller : SeesSession(ask[c])

\* A step that resets no password and revives no session
LEMMA SameReset ==
  ASSUME AccountInv, ResetInv, user'.reset = user.reset, Narrow(sessions, sessions'),
         \A c \in ACCaller : ask'[c] = ask[c] \/ SeesSession(ask[c])'
  PROVE  ResetInv'
<1>1. \A s \in 1 .. Len(sessions') : sessions'[s].live => sessions'[s].password >= user'.reset
  BY DEF ResetInv, Narrow
<1>2. ASSUME NEW c \in ACCaller PROVE SeesSession(ask[c])'
  <2>1. ask[c].op \in {"refresh", "issue"} => ask[c].row \in 1 .. Len(sessions)
    BY DEF AccountInv, AccountTypes, Refreshing
  <2>2. CASE ask'[c] = ask[c]
    BY <2>1, <2>2 DEF ResetInv, SeesSession, Narrow
  <2> QED  BY <2>2
<1> QED  BY <1>1, <1>2 DEF ResetInv

\* Every step keeps sessions younger than the last reset.
LEMMA ResetNext ==
  ASSUME ResetAlone \subseteq Apart
  PROVE  AccountInv /\ ResetInv /\ [ACNext]_acVars => ResetInv'
<1> SUFFICES ASSUME AccountInv, ResetInv, [ACNext]_acVars PROVE ResetInv'
  OBVIOUS
<1>0. /\ sessions \in Seq(Session) /\ user \in User /\ Len(sessions) \in Nat
      /\ ask \in [ACCaller -> Asking] /\ Narrow(sessions, sessions)
      /\ user.password >= user.reset
  <2>1. user.password \in Nat /\ user.reset \in Nat /\ user.reset <= user.password
    BY DEF AccountInv, AccountTypes, User
  <2> QED  BY <2>1, LenProperties, Ending DEF AccountInv, AccountTypes
<1>1. CASE Tidies
  <2>1. \A c \in ACCaller : ask'[c] = ask[c] \/ ask'[c].op = "none"
    BY <1>0, <1>1 DEF Tidies, NoAsk
  <2> QED  BY <1>1, <2>1, SameReset DEF Tidies, SeesSession
<1>2. CASE VerifyByAdmin
  <2>1. user'.reset = user.reset
    BY <1>0, <1>2 DEF VerifyByAdmin, User
  <2> QED  BY <1>0, <1>2, <2>1, SameReset DEF VerifyByAdmin, AtOnce
<1>3. ASSUME NEW c \in ACCaller, NEW op \in Kind, NEW row \in Nat \cup Address, Begins(c, op, row),
             op = "refresh" => row \in 1 .. Len(sessions) /\ sessions[row].live
      PROVE  ResetInv'
  <2>1. UNCHANGED <<user, sessions>> /\ \A d \in ACCaller \ {c} : ask'[d] = ask[d]
    BY <1>3, Asked
  <2>2. SeesSession(ask[c])'
    <3>0. ask'[c] = [op |-> op, row |-> row,
                     saw |-> [password |-> user.password, verified |-> user.verified]]
      BY <1>3, Asked
    <3>1. ask'[c].op = op /\ ask'[c].row = row /\ ask'[c].saw.password = user.password
      BY <3>0
    <3> QED  BY <1>0, <1>3, <2>1, <3>1 DEF SeesSession, ResetInv, Kind
  <2> QED  BY <1>0, <2>1, <2>2, SameReset
<1>4. ASSUME NEW c \in ACCaller, Rotate(c) PROVE ResetInv'
  <2>1. /\ ask[c].op = "refresh" /\ ask'[c].op = "issue" /\ ask'[c].row = ask[c].row
        /\ \A d \in ACCaller \ {c} : ask'[d] = ask[d]
    BY <1>4, Asked
  <2>2. ask[c].row \in 1 .. Len(sessions)
    BY <2>1 DEF AccountInv, AccountTypes, Refreshing
  <2>3. Narrow(sessions, sessions') /\ user' = user
    BY <1>0, <1>4, <2>2, Ending DEF Rotate
  <2>4. SeesSession(ask[c])'
    BY <2>1, <2>2, <2>3 DEF ResetInv, SeesSession, Narrow
  <2> QED  BY <2>1, <2>3, <2>4, SameReset
<1>5. ASSUME NEW c \in ACCaller, Resend(c) \/ (user.here /\ (Verify(c) \/ ChangeAddress(c))) PROVE ResetInv'
  <2>1. /\ ask'[c].op = "none" /\ \A d \in ACCaller \ {c} : ask'[d] = ask[d]
    BY <1>5, Asked DEF Resend, Verify, ChangeAddress, Fails
  <2>2. SeesSession(ask[c])'
    BY <2>1 DEF SeesSession
  <2>3. sessions' = sessions /\ user'.reset = user.reset
    BY <1>0, <1>5 DEF Resend, Verify, ChangeAddress, Fails, User
  <2> QED  BY <1>0, <2>1, <2>2, <2>3, SameReset
<1>6. ASSUME NEW c \in ACCaller, user.here, Issue(c) PROVE ResetInv'
  <2> DEFINE old == sessions[ask[c].row]
             new == IF ask[c].op = "login"
                      THEN [login |-> Len(sessions) + 1, password |-> ask[c].saw.password, live |-> TRUE]
                      ELSE [login |-> old.login, password |-> old.password, live |-> TRUE]
  <2>1. /\ ask[c].op \in {"login", "issue"} /\ sessions' = Append(sessions, new) /\ user' = user
        /\ ask'[c].op = "none" /\ \A d \in ACCaller \ {c} : ask'[d] = ask[d]
    BY <1>6, Asked DEF Issue, Fails
  <2>2. new.password >= user.reset
    BY <2>1 DEF ResetInv, SeesSession
  <2>3. ask[c].op = "issue" => old \in Session
    BY <1>0, ElementOfSeq DEF AccountInv, AccountTypes, Refreshing
  <2>4. new \in Session
    BY <1>0, <2>1, <2>3 DEF Asking, Session
  <2>5. /\ Len(sessions') = Len(sessions) + 1 /\ sessions'[Len(sessions) + 1] = new
        /\ \A s \in 1 .. Len(sessions) : sessions'[s] = sessions[s]
    <3> HIDE DEF new
    <3> QED  BY <1>0, <2>1, <2>4, AppendProperties
  <2>6. \A s \in 1 .. Len(sessions') : sessions'[s].live => sessions'[s].password >= user'.reset
    <3> HIDE DEF new
    <3> QED  BY <1>0, <2>1, <2>2, <2>5 DEF ResetInv
  <2>7. ASSUME NEW d \in ACCaller PROVE SeesSession(ask[d])'
    <3>1. ask[d].op \in {"refresh", "issue"} => ask[d].row \in 1 .. Len(sessions)
      BY DEF AccountInv, AccountTypes, Refreshing
    <3> QED  BY <2>1, <2>5, <3>1 DEF ResetInv, SeesSession
  <2> QED  BY <2>6, <2>7 DEF ResetInv
<1>7. ASSUME NEW c \in ACCaller, user.here, Reset(c) PROVE ResetInv'
  <2>1. /\ ask[c].op = "reset" /\ ask'[c].op = "none" /\ \A d \in ACCaller \ {c} : ask'[d] = ask[d]
        /\ sessions' = AllRevoked
    BY <1>7, Asked DEF Reset, Fails
  <2>2. \A s \in 1 .. Len(sessions') : ~ sessions'[s].live
    BY <1>0, <2>1, Ending DEF Narrow
  <2>3. \A d \in ACCaller \ {c} : ask[d].op \notin {"login", "refresh", "issue"}
    BY <2>1 DEF AccountInv, NoOverlap, KindOf, ResetAlone
  <2> QED  BY <2>1, <2>2, <2>3 DEF ResetInv, SeesSession
<1> QED  BY <1>1, <1>2, <1>3, <1>4, <1>5, <1>6, <1>7, Steps DEF Commits

\* The session a refresh goes on from is the only live one of its sign-in.
SeesLogin(a) ==
  /\ a.op \in {"refresh", "issue"} =>
       \A t \in 1 .. Len(sessions) :
         sessions[t].live /\ sessions[t].login = sessions[a.row].login => t = a.row
  /\ a.op = "issue" => ~ sessions[a.row].live
\* The inductive invariant of sign-ins: one live session each
LoginInv ==
  /\ \A s, t \in 1 .. Len(sessions) :
       sessions[s].live /\ sessions[t].live /\ sessions[s].login = sessions[t].login => s = t
  /\ \A s \in 1 .. Len(sessions) : sessions[s].login <= Len(sessions)
  /\ \A c \in ACCaller : SeesLogin(ask[c])

\* A step that starts no session
LEMMA SameLogins ==
  ASSUME AccountInv, LoginInv, Narrow(sessions, sessions'),
         \A c \in ACCaller : ask'[c] = ask[c] \/ SeesLogin(ask[c])'
  PROVE  LoginInv'
<1>1. /\ \A s, t \in 1 .. Len(sessions') :
           sessions'[s].live /\ sessions'[t].live /\ sessions'[s].login = sessions'[t].login => s = t
      /\ \A s \in 1 .. Len(sessions') : sessions'[s].login <= Len(sessions')
  BY DEF LoginInv, Narrow
<1>2. ASSUME NEW c \in ACCaller PROVE SeesLogin(ask[c])'
  <2>1. ask[c].op \in {"refresh", "issue"} => ask[c].row \in 1 .. Len(sessions)
    BY DEF AccountInv, AccountTypes, Refreshing
  <2>2. CASE ask'[c] = ask[c]
    BY <2>1, <2>2 DEF LoginInv, SeesLogin, Narrow
  <2> QED  BY <2>2
<1> QED  BY <1>1, <1>2 DEF LoginInv

\* Every step keeps one live session of a sign-in.
LEMMA LoginNext ==
  ASSUME {{"refresh"}} \subseteq Apart
  PROVE  AccountInv /\ LoginInv /\ [ACNext]_acVars => LoginInv'
<1> SUFFICES ASSUME AccountInv, LoginInv, [ACNext]_acVars PROVE LoginInv'
  OBVIOUS
<1>0. /\ sessions \in Seq(Session) /\ Len(sessions) \in Nat
      /\ ask \in [ACCaller -> Asking] /\ Narrow(sessions, sessions)
  BY LenProperties, Ending DEF AccountInv, AccountTypes
<1>1. CASE Tidies
  <2>1. \A c \in ACCaller : ask'[c] = ask[c] \/ ask'[c].op = "none"
    BY <1>0, <1>1 DEF Tidies, NoAsk
  <2> QED  BY <1>1, <2>1, SameLogins DEF Tidies, SeesLogin
<1>2. CASE VerifyByAdmin
  BY <1>0, <1>2, SameLogins DEF VerifyByAdmin, AtOnce
<1>3. ASSUME NEW c \in ACCaller, NEW op \in Kind, NEW row \in Nat \cup Address, Begins(c, op, row),
             op = "refresh" => row \in 1 .. Len(sessions) /\ sessions[row].live
      PROVE  LoginInv'
  <2>1. UNCHANGED sessions /\ \A d \in ACCaller \ {c} : ask'[d] = ask[d]
    BY <1>3, Asked
  <2>2. SeesLogin(ask[c])'
    <3>0. ask'[c] = [op |-> op, row |-> row,
                     saw |-> [password |-> user.password, verified |-> user.verified]]
      BY <1>3, Asked
    <3>1. ask'[c].op = op /\ ask'[c].row = row
      BY <3>0
    <3> QED  BY <1>3, <2>1, <3>1 DEF SeesLogin, LoginInv, Kind
  <2> QED  BY <1>0, <2>1, <2>2, SameLogins
<1>4. ASSUME NEW c \in ACCaller, Rotate(c) PROVE LoginInv'
  <2>1. /\ ask[c].op = "refresh" /\ ask'[c].op = "issue" /\ ask'[c].row = ask[c].row
        /\ \A d \in ACCaller \ {c} : ask'[d] = ask[d]
    BY <1>4, Asked
  <2>2. ask[c].row \in 1 .. Len(sessions) /\ DOMAIN sessions = 1 .. Len(sessions)
    BY <1>0, <2>1, LenProperties DEF AccountInv, AccountTypes, Refreshing
  <2>3. Narrow(sessions, sessions') /\ ~ sessions'[ask[c].row].live
    BY <1>0, <1>4, <2>2, Ending DEF Rotate
  <2>4. SeesLogin(ask[c])'
    BY <2>1, <2>2, <2>3 DEF LoginInv, SeesLogin, Narrow
  <2> QED  BY <2>1, <2>3, <2>4, SameLogins
<1>5. ASSUME NEW c \in ACCaller, Resend(c) \/ (user.here /\ (Verify(c) \/ ChangeAddress(c))) PROVE LoginInv'
  <2>1. /\ ask'[c].op = "none" /\ \A d \in ACCaller \ {c} : ask'[d] = ask[d]
    BY <1>5, Asked DEF Resend, Verify, ChangeAddress, Fails
  <2>2. SeesLogin(ask[c])'
    BY <2>1 DEF SeesLogin
  <2>3. sessions' = sessions
    BY <1>5 DEF Resend, Verify, ChangeAddress, Fails
  <2> QED  BY <1>0, <2>1, <2>2, <2>3, SameLogins
<1>6. ASSUME NEW c \in ACCaller, user.here, Issue(c) PROVE LoginInv'
  <2> DEFINE old == sessions[ask[c].row]
             new == IF ask[c].op = "login"
                      THEN [login |-> Len(sessions) + 1, password |-> ask[c].saw.password, live |-> TRUE]
                      ELSE [login |-> old.login, password |-> old.password, live |-> TRUE]
  <2>1. /\ ask[c].op \in {"login", "issue"} /\ sessions' = Append(sessions, new)
        /\ ask'[c].op = "none" /\ \A d \in ACCaller \ {c} : ask'[d] = ask[d]
    BY <1>6, Asked DEF Issue, Fails
  <2>3. ask[c].op = "issue" => ask[c].row \in 1 .. Len(sessions) /\ old \in Session
    BY <1>0, ElementOfSeq DEF AccountInv, AccountTypes, Refreshing
  <2>4. new \in Session
    BY <1>0, <2>1, <2>3 DEF Asking, Session
  <2>5. /\ Len(sessions') = Len(sessions) + 1 /\ sessions'[Len(sessions) + 1] = new
        /\ \A s \in 1 .. Len(sessions) : sessions'[s] = sessions[s]
    <3> HIDE DEF new
    <3> QED  BY <1>0, <2>1, <2>4, AppendProperties
  \* no live session has the login of the one that is added
  <2>6. \A s \in 1 .. Len(sessions) : sessions[s].live => sessions[s].login # new.login
    <3>1. CASE ask[c].op = "login"
      BY <1>0, <3>1 DEF LoginInv
    <3>2. CASE ask[c].op = "issue"
      BY <2>3, <3>2 DEF LoginInv, SeesLogin
    <3> QED  BY <2>1, <3>1, <3>2
  <2>7. new.login <= Len(sessions) + 1
    <3>1. CASE ask[c].op = "login"
      BY <1>0, <3>1
    <3>2. CASE ask[c].op = "issue"
      BY <1>0, <2>3, <3>2 DEF LoginInv, Session
    <3> QED  BY <2>1, <3>1, <3>2
  <2>8. /\ \A s, t \in 1 .. Len(sessions') :
           sessions'[s].live /\ sessions'[t].live /\ sessions'[s].login = sessions'[t].login => s = t
        /\ \A s \in 1 .. Len(sessions') : sessions'[s].login <= Len(sessions')
    <3> HIDE DEF new
    <3>1. \A s \in 1 .. Len(sessions') : s = Len(sessions) + 1 \/ s \in 1 .. Len(sessions)
      BY <1>0, <2>5
    <3>2. \A s \in 1 .. Len(sessions) : sessions[s] \in Session
      BY <1>0, ElementOfSeq
    <3>3. ASSUME NEW s \in 1 .. Len(sessions'), NEW t \in 1 .. Len(sessions'),
                 sessions'[s].live, sessions'[t].live, sessions'[s].login = sessions'[t].login
          PROVE  s = t
      <4>1. CASE s = Len(sessions) + 1
        BY <2>5, <2>6, <3>1, <3>3, <4>1
      <4>2. CASE t = Len(sessions) + 1
        BY <2>5, <2>6, <3>1, <3>3, <4>2
      <4>3. CASE s \in 1 .. Len(sessions) /\ t \in 1 .. Len(sessions)
        BY <2>5, <3>3, <4>3 DEF LoginInv
      <4> QED  BY <3>1, <4>1, <4>2, <4>3
    <3>4. ASSUME NEW s \in 1 .. Len(sessions') PROVE sessions'[s].login <= Len(sessions')
      <4>1. CASE s = Len(sessions) + 1
        BY <2>5, <2>7, <4>1
      <4>2. CASE s \in 1 .. Len(sessions)
        <5>1. sessions[s].login \in Nat /\ sessions[s].login <= Len(sessions)
          BY <3>2, <4>2 DEF LoginInv, Session
        <5> QED  BY <1>0, <2>5, <4>2, <5>1
      <4> QED  BY <3>1, <4>1, <4>2
    <3> QED  BY <3>3, <3>4
  <2>9. ASSUME NEW d \in ACCaller PROVE SeesLogin(ask[d])'
    <3>1. CASE d = c
      BY <2>1, <3>1 DEF SeesLogin
    <3>2. CASE d # c /\ ask[d].op \in {"refresh", "issue"}
      <4>1. ask[c].op = "login"
        BY <2>1, <3>2 DEF AccountInv, NoOverlap, KindOf
      <4>2. ask[d].row \in 1 .. Len(sessions) /\ sessions[ask[d].row].login # new.login
        BY <1>0, <3>2, <4>1 DEF AccountInv, AccountTypes, Refreshing, LoginInv
      <4> HIDE DEF new
      <4> QED  BY <1>0, <2>1, <2>5, <3>2, <4>2 DEF LoginInv, SeesLogin
    <3>3. CASE d # c /\ ask[d].op \notin {"refresh", "issue"}
      BY <2>1, <3>3 DEF SeesLogin
    <3> QED  BY <3>1, <3>2, <3>3
  <2> QED  BY <2>8, <2>9 DEF LoginInv
<1>7. ASSUME NEW c \in ACCaller, user.here, Reset(c) PROVE LoginInv'
  <2>1. /\ ask'[c].op = "none" /\ \A d \in ACCaller \ {c} : ask'[d] = ask[d]
        /\ sessions' = AllRevoked
    BY <1>7, Asked DEF Reset, Fails
  <2>2. SeesLogin(ask[c])'
    BY <2>1 DEF SeesLogin
  <2> QED  BY <1>0, <2>1, <2>2, Ending, SameLogins
<1> QED  BY <1>1, <1>2, <1>3, <1>4, <1>5, <1>6, <1>7, Steps DEF Commits

\* The three invariants hold at the start.
LEMMA ParallelInit == ACInit => AddressInv /\ ResetInv /\ LoginInv
<1> SUFFICES ASSUME ACInit PROVE AddressInv /\ ResetInv /\ LoginInv
  OBVIOUS
<1>1. AddressInv
  <2>1. user.email = Registered /\ ~ user.verified
    BY DEF ACInit
  <2>2. Len(links) = 1 /\ links[1].to = Registered
    BY DEF ACInit
  <2>3. \A c \in ACCaller : ask[c].op = "none"
    BY DEF ACInit, NoAsk
  <2> QED  BY <2>1, <2>2, <2>3 DEF AddressInv, VerifiedProven, SeesAddress
<1>2. ResetInv
  BY DEF ACInit, ResetInv, SeesSession, NoAsk
<1>3. LoginInv
  BY DEF ACInit, LoginInv, SeesLogin, NoAsk
<1> QED  BY <1>1, <1>2, <1>3

(***************************************************************************)
(* While requests about an address keep apart, an address is verified only *)
(* when a link that was sent to it has been followed or an administrator   *)
(* vouched for it, whatever addresses the account had before and however   *)
(* many links are under way (routes_auth.py:348-350).                      *)
(***************************************************************************)
THEOREM AddressesProven ==
  ASSUME AddressAlone \subseteq Apart
  PROVE  ACSpec => []VerifiedProven
<1>1. AddressInv => VerifiedProven
  BY DEF AddressInv
<1> QED  BY <1>1, ParallelInit, AddressNext, AccountAlways, PTL DEF ACSpec

(***************************************************************************)
(* While, besides, a reset overlaps no login and no refresh and a session  *)
(* is refreshed by one request at a time, nobody is signed in after a      *)
(* password reset with an older password, and a sign-in has one live       *)
(* session (routes_auth.py:305, reset_password, refresh and login).        *)
(***************************************************************************)
THEOREM SignIns ==
  ASSUME (AddressAlone \cup ResetAlone \cup {{"refresh"}}) \subseteq Apart
  PROVE  ACSpec => []AccountsSound
<1>1. AddressAlone \subseteq Apart /\ ResetAlone \subseteq Apart /\ {{"refresh"}} \subseteq Apart
  OBVIOUS
<1>2. AccountInv /\ AddressInv /\ ResetInv /\ LoginInv => AccountsSound
  <2> SUFFICES ASSUME AccountInv, AddressInv, ResetInv, LoginInv PROVE AccountsSound
    OBVIOUS
  <2>1. DOMAIN sessions = 1 .. Len(sessions)
    BY LenProperties DEF AccountInv, AccountTypes
  <2> QED  BY <2>1 DEF AccountsSound, AddressInv, ResetInv, LoginInv, ResetSignsOut, Rotated, Live
<1> QED  BY <1>1, <1>2, ParallelInit, AddressNext, ResetNext, LoginNext, AccountAlways, PTL DEF ACSpec

----------------------------------------------------------------------------
(***************************************************************************)
(* Collected events (Ingest)                                               *)
(***************************************************************************)

Visiting == [made : BOOLEAN, test : BOOLEAN, views : Nat]
Ordered == [made : BOOLEAN, visit : Visit \cup {NoVisit}, value : {Unvalued} \cup Amount,
            verified : BOOLEAN]
Serving == [pc : {"idle", "visit", "view", "order", "commit"}, kind : {"batch", "confirm"},
            visit : Visit \cup {NoVisit}, view : 0 .. Views, order : Order \cup {NoOrder},
            value : {Unvalued} \cup Amount, seen : Visit \cup {NoVisit}, count : Nat,
            dupe : BOOLEAN, row : {"none", "verified", "unlinked", "reported"}, linked : BOOLEAN]

EventTypes ==
  /\ visit \in [Visit -> Visiting]
  /\ viewed \subseteq Visit \X (1 .. Views)
  /\ order \in [Order -> Ordered]
  /\ event \in [IGCaller -> Serving]
  /\ crossed \subseteq Visit

ViewsOf(s) == {w \in viewed : w[1] = s}
\* A request that carries pageviews, and the values an order was confirmed with
Batch(r) == r.pc # "idle" /\ r.kind = "batch"
Given(o) == {c[2] : c \in {d \in confirmed : d[1] = o}}

\* What a request has read
Knows(r) ==
  /\ Batch(r) => r.visit \in Visit
  /\ r.pc # "idle" /\ r.kind = "confirm" => r.view = NoView /\ r.order \in Order
  /\ r.pc # "idle" /\ r.view # NoView => r.kind = "batch"
  /\ r.pc \in {"visit", "view"} => r.view # NoView
  /\ r.pc = "order" => r.order \in Order
  /\ r.pc \in {"view", "order", "commit"} /\ r.view # NoView =>
       /\ r.seen # NoVisit => visit[r.visit].made
       /\ r.count <= Cardinality(ViewsOf(r.visit))
       /\ r.visit \notin crossed => r.count = visit[r.visit].views
  /\ r.pc \in {"order", "commit"} /\ r.view # NoView /\ r.dupe => <<r.visit, r.view>> \in viewed
  /\ r.pc = "commit" /\ r.order # NoOrder /\ r.row = "verified" => order[r.order].verified

\* Two batches of a visit at once mark it as crossed.
Alone == \A p, q \in IGCaller :
  p # q /\ Batch(event[p]) /\ Batch(event[q]) /\ event[p].visit = event[q].visit
    => event[p].visit \in crossed

\* Test visits are those on the marker; what is verified has been made.
RowsSound ==
  /\ \A s \in Visit : visit[s].test => s \in Test
  /\ \A o \in Order : order[o].verified => order[o].made

\* A visit counts no more pageviews than it has rows, and fewer only if two batches of it
\* overlapped.
CountsSound == \A s \in Visit :
  /\ visit[s].views <= Cardinality(ViewsOf(s))
  /\ visit[s].views < Cardinality(ViewsOf(s)) => s \in crossed
  /\ ViewsOf(s) # {} => visit[s].made
\* An order is verified when it was confirmed, with a value that confirmation gave.
OrdersSound == \A o \in Order :
  /\ order[o].verified <=> Given(o) # {}
  /\ Given(o) # {} /\ Unvalued \notin Given(o) => order[o].value \in Given(o)

(***************************************************************************)
(* The inductive invariant of the collector (routes_tracking.py, collect   *)
(* and confirm_conversion; ingest.py): the rows are sound, and what each   *)
(* request has read before its commit is no more than there is now.        *)
(***************************************************************************)
EventInv ==
  /\ EventTypes /\ RowsSound /\ CountsSound /\ OrdersSound /\ Alone
  /\ \A q \in IGCaller : Knows(event[q])

\* The invariant holds at the start.
LEMMA EventsInit == IGInit => EventInv
<1> SUFFICES ASSUME IGInit PROVE EventInv
  OBVIOUS
<1>1. IGIdle \in Serving /\ IGIdle.pc = "idle"
  BY IngestAssumption DEF IGIdle, Serving, NoView
<1>2. EventTypes
  BY <1>1 DEF IGInit, EventTypes, Visiting, Ordered
<1>3. \A s \in Visit : ViewsOf(s) = {}
  BY DEF IGInit, ViewsOf
<1>4. \A o \in Order : Given(o) = {}
  BY DEF IGInit, Given
<1>5. RowsSound /\ CountsSound /\ OrdersSound
  <2>1. \A s \in Visit : Cardinality(ViewsOf(s)) = 0
    BY <1>3, FS_EmptySet
  <2> QED  BY <1>3, <1>4, <2>1 DEF IGInit, RowsSound, CountsSound, OrdersSound
<1>6. Alone /\ \A q \in IGCaller : Knows(event[q])
  BY <1>1 DEF IGInit, Alone, Knows, Batch
<1> QED  BY <1>2, <1>5, <1>6 DEF EventInv

\* The rows of a visit are finitely many, and more of them count more.
LEMMA FewViews ==
  ASSUME EventTypes, NEW s \in Visit
  PROVE  IsFiniteSet(ViewsOf(s)) /\ Cardinality(ViewsOf(s)) \in Nat
<1>0. 1 \in Int /\ Views \in Int
  BY IngestAssumption
<1>1. IsFiniteSet({s}) /\ IsFiniteSet(1 .. Views)
  BY <1>0, FS_Singleton, FS_Interval
<1>2. IsFiniteSet({s} \X (1 .. Views))
  BY <1>1, FS_Product
<1>3. ViewsOf(s) \subseteq {s} \X (1 .. Views)
  BY DEF ViewsOf, EventTypes
<1> QED  BY <1>2, <1>3, FS_Subset, FS_CardinalityType

\* The rows of a visit are still finitely many after a step.
LEMMA ViewsLater ==
  ASSUME EventTypes', NEW s \in Visit
  PROVE  Cardinality(ViewsOf(s)') \in Nat
<1>0. 1 \in Int /\ Views \in Int
  BY IngestAssumption
<1>1. IsFiniteSet({s}) /\ IsFiniteSet(1 .. Views)
  BY <1>0, FS_Singleton, FS_Interval
<1>2. IsFiniteSet({s} \X (1 .. Views))
  BY <1>1, FS_Product
<1>3. ViewsOf(s)' \subseteq {s} \X (1 .. Views)
  BY DEF ViewsOf, EventTypes
<1> QED  BY <1>2, <1>3, FS_Subset, FS_CardinalityType

\* A request goes on without writing a row
LEMMA Serves ==
  ASSUME EventInv, NEW q \in IGCaller, NEW r \in Serving, IGGo(q, r), IGStored,
         crossed' \subseteq Visit, crossed \subseteq crossed', Knows(r),
         Batch(r) => 
           \/ Batch(event[q]) /\ event[q].visit = r.visit
           \/ \A p \in IGCaller \ {q} :
                Batch(event[p]) /\ event[p].visit = r.visit => r.visit \in crossed'
  PROVE  EventInv'
<1>1. EventTypes'
  BY DEF EventInv, EventTypes, IGGo, IGStored
<1>2. \A s : ViewsOf(s)' = ViewsOf(s)
  BY DEF ViewsOf, IGStored
<1>3. \A o : Given(o)' = Given(o)
  BY DEF Given, IGStored
<1>4. (RowsSound /\ CountsSound /\ OrdersSound)'
  BY <1>2, <1>3 DEF EventInv, RowsSound, CountsSound, OrdersSound, IGStored
<1>5. event'[q] = r /\ \A p \in IGCaller \ {q} : event'[p] = event[p]
  BY DEF EventInv, EventTypes, IGGo
<1>6. Alone'
  BY <1>5 DEF EventInv, Alone
<1>7. ASSUME NEW p \in IGCaller PROVE Knows(event[p])'
  <2>1. Knows(event'[p])
    BY <1>5 DEF EventInv
  <2> QED  BY <2>1, <1>2 DEF Knows, IGStored, Batch
<1> QED  BY <1>1, <1>4, <1>6, <1>7 DEF EventInv

\* A request that commits, and the part of it that writes the pageview
Committed(r) ==
  /\ r \in Serving /\ r.pc = "commit" /\ ~ Clashes(r) /\ Knows(r)
  /\ visit' = WriteVisit(r) /\ order' = WriteOrder(r)
  /\ viewed' = IF Adds(r).view THEN viewed \union {<<r.visit, r.view>>} ELSE viewed
  /\ confirmed' = IF r.kind = "confirm" THEN confirmed \union {<<r.order, r.value>>} ELSE confirmed
  /\ crossed' = crossed

\* The pageview is new, and the visit's count the one the request has read, plus one.
Viewed(r) ==
  /\ r.visit \in Visit /\ r.view \in 1 .. Views /\ <<r.visit, r.view>> \notin viewed
  /\ Batch(r) /\ r.count \in Nat
  /\ visit' \in [Visit -> Visiting]
  /\ visit'[r.visit].made /\ visit'[r.visit].views = r.count + 1
  /\ visit'[r.visit].test => r.visit \in Test
  /\ \A s \in Visit \ {r.visit} : visit'[s] = visit[s]
  /\ viewed' = viewed \union {<<r.visit, r.view>>}

\* A commit writes the visit only together with the pageview it brings.
LEMMA VisitWritten ==
  ASSUME EventInv, NEW r, Committed(r)
  PROVE  UNCHANGED <<visit, viewed>> \/ Viewed(r)
<1>1. visit \in [Visit -> Visiting] /\ viewed \subseteq Visit \X (1 .. Views)
  BY DEF EventInv, EventTypes
<1>3. CASE r.view = NoView \/ (r.dupe /\ r.seen # NoVisit)
  BY <1>3 DEF Committed, WriteVisit, Adds
<1>4. CASE r.view # NoView /\ (~ r.dupe \/ r.seen = NoVisit)
  \* a row that exists would make the index of visits raise
  <2>1. ~ r.dupe /\ <<r.visit, r.view>> \notin viewed /\ r.visit \in Visit /\ r.view \in 1 .. Views /\ Batch(r)
    <3>1. r.visit \in Visit /\ r.view \in 1 .. Views /\ Batch(r)
      BY <1>4, IngestAssumption DEF Committed, Knows, Batch, NoView, Serving
    <3>2. r.dupe => visit[r.visit].made
      <4>1. r.dupe => <<r.visit, r.view>> \in viewed
        BY <1>4 DEF Committed, Knows
      <4>2. <<r.visit, r.view>> \in viewed => <<r.visit, r.view>> \in ViewsOf(r.visit)
        BY DEF ViewsOf
      <4> QED  BY <3>1, <4>1, <4>2 DEF EventInv, CountsSound
    <3> QED  BY <1>4, <3>1, <3>2 DEF Committed, Clashes, Adds
  <2>2. viewed' = viewed \union {<<r.visit, r.view>>}
    BY <1>4, <2>1 DEF Committed, Adds
  <2> DEFINE new == [made |-> TRUE, views |-> Counted(r),
                     test |-> IF Adds(r).visit THEN r.visit \in Test /\ r.view = 1 ELSE visit[r.visit].test]
  <2>3. visit' = [visit EXCEPT ![r.visit] = new]
    BY <1>4, <2>1 DEF Committed, WriteVisit
  <2>4. r.count \in Nat /\ Counted(r) = r.count + 1
    BY <2>1 DEF Committed, Counted, Serving
  <2>5. /\ new \in Visiting /\ new.made /\ new.views = r.count + 1
        /\ new.test => r.visit \in Test
    <3>1. visit[r.visit] \in Visiting /\ (visit[r.visit].test => r.visit \in Test)
      BY <1>1, <2>1 DEF EventInv, RowsSound
    <3>2. new.test \in BOOLEAN /\ (new.test => r.visit \in Test)
      BY <2>1, <3>1 DEF Visiting
    <3> QED  BY <2>4, <3>2 DEF Visiting
  <2> HIDE DEF new
  <2> QED  BY <1>1, <2>1, <2>2, <2>3, <2>4, <2>5 DEF Viewed
<1> QED  BY <1>3, <1>4

\* A new pageview is one row more, of that visit only.
LEMMA ViewAdded ==
  ASSUME EventInv, NEW r, Viewed(r)
  PROVE  /\ ViewsOf(r.visit)' # {}
         /\ Cardinality(ViewsOf(r.visit)') = Cardinality(ViewsOf(r.visit)) + 1
         /\ \A s \in Visit \ {r.visit} : ViewsOf(s)' = ViewsOf(s)
<1>1. ViewsOf(r.visit)' = ViewsOf(r.visit) \cup {<<r.visit, r.view>>}
  BY DEF Viewed, ViewsOf
<1>2. <<r.visit, r.view>> \notin ViewsOf(r.visit)
  BY DEF Viewed, ViewsOf
<1>3. \A s \in Visit \ {r.visit} : ViewsOf(s)' = ViewsOf(s)
  BY DEF Viewed, ViewsOf
<1>4. IsFiniteSet(ViewsOf(r.visit))
  BY FewViews DEF Viewed, EventInv
<1> QED  BY <1>1, <1>2, <1>3, <1>4, FS_AddElement

\* What a commit does to the visits
LEMMA VisitsKept ==
  ASSUME EventInv, NEW q \in IGCaller, Committed(event[q])
  PROVE  /\ visit' \in [Visit -> Visiting] /\ viewed' \subseteq Visit \X (1 .. Views)
         /\ viewed \subseteq viewed' /\ (\A s \in Visit : visit'[s].test => s \in Test) /\ CountsSound'
         /\ \A s \in Visit : /\ visit[s].made => visit'[s].made
                             /\ Cardinality(ViewsOf(s)) <= Cardinality(ViewsOf(s)')
         /\ \A p \in IGCaller \ {q} : Batch(event[p]) /\ event[p].visit \notin crossed =>
              visit'[event[p].visit] = visit[event[p].visit]
<1>0. PICK r : r = event[q]
  OBVIOUS
<1>r. Committed(r)
  BY <1>0
<1>1. /\ visit \in [Visit -> Visiting] /\ viewed \subseteq Visit \X (1 .. Views)
      /\ \A s \in Visit : Cardinality(ViewsOf(s)) \in Nat
  BY FewViews DEF EventInv, EventTypes
<1>2. CASE UNCHANGED <<visit, viewed>>
  <2>1. \A s \in Visit : ViewsOf(s)' = ViewsOf(s)
    BY <1>2 DEF ViewsOf
  <2> QED  BY <1>1, <1>2, <1>r, <2>1 DEF Committed, EventInv, RowsSound, CountsSound
<1>3. CASE Viewed(r)
  <2>1. /\ ViewsOf(r.visit)' # {}
        /\ Cardinality(ViewsOf(r.visit)') = Cardinality(ViewsOf(r.visit)) + 1
        /\ \A s \in Visit \ {r.visit} : ViewsOf(s)' = ViewsOf(s)
    BY <1>3, ViewAdded
  <2>2. /\ r.count <= Cardinality(ViewsOf(r.visit))
        /\ r.visit \notin crossed => r.count = visit[r.visit].views
    BY <1>3, <1>r, IngestAssumption DEF Committed, Knows, Batch, Viewed, NoView
  <2>3. r.visit \in Visit /\ r.count \in Nat /\ Batch(r) /\ crossed' = crossed
    BY <1>3, <1>r DEF Viewed, Committed
  <2>4. CountsSound'
    <3> SUFFICES ASSUME NEW s \in Visit
                 PROVE  /\ visit'[s].views <= Cardinality(ViewsOf(s)')
                        /\ visit'[s].views < Cardinality(ViewsOf(s)') => s \in crossed'
                        /\ ViewsOf(s)' # {} => visit'[s].made
      BY DEF CountsSound
    <3>1. CASE s = r.visit
      <4>1. visit'[s].made /\ visit'[s].views = r.count + 1
        BY <1>3, <3>1 DEF Viewed
      <4>2. visit[s].views < Cardinality(ViewsOf(s)) => s \in crossed
        BY DEF EventInv, CountsSound
      <4>3. visit[s].views \in Nat
        BY <1>1 DEF Visiting
      <4>4. Cardinality(ViewsOf(s)) \in Nat /\ visit[s].views <= Cardinality(ViewsOf(s))
        BY <1>1 DEF EventInv, CountsSound
      <4> DEFINE few == Cardinality(ViewsOf(s))  more == Cardinality(ViewsOf(s)')
      <4>5. more = few + 1 /\ r.count <= few /\ (s \notin crossed => r.count = visit[s].views)
        BY <2>1, <2>2, <3>1
      <4> HIDE DEF few, more
      <4>6. few \in Nat /\ visit[s].views <= few /\ (visit[s].views < few => s \in crossed)
        BY <4>2, <4>4 DEF few
      <4>7. /\ visit'[s].views <= more
            /\ visit'[s].views < more => s \in crossed'
        BY <2>3, <4>1, <4>3, <4>5, <4>6
      <4> QED  BY <4>1, <4>7 DEF more
    <3>2. CASE s # r.visit
      <4>1. visit'[s] = visit[s] /\ ViewsOf(s)' = ViewsOf(s)
        BY <1>3, <2>1, <3>2 DEF Viewed
      <4> QED  BY <2>3, <4>1 DEF EventInv, CountsSound
    <3> QED  BY <3>1, <3>2
  <2>5. \A s \in Visit : Cardinality(ViewsOf(s)) <= Cardinality(ViewsOf(s)')
    <3> SUFFICES ASSUME NEW s \in Visit PROVE Cardinality(ViewsOf(s)) <= Cardinality(ViewsOf(s)')
      OBVIOUS
    <3>1. Cardinality(ViewsOf(s)) \in Nat
      BY <1>1
    <3>2. \/ Cardinality(ViewsOf(s)') = Cardinality(ViewsOf(s)) + 1
          \/ Cardinality(ViewsOf(s)') = Cardinality(ViewsOf(s))
      BY <2>1
    <3> QED  BY <3>1, <3>2
  <2>6. \A p \in IGCaller \ {q} : Batch(event[p]) /\ event[p].visit \notin crossed =>
              visit'[event[p].visit] = visit[event[p].visit]
    <3> SUFFICES ASSUME NEW p \in IGCaller \ {q}, Batch(event[p]), event[p].visit \notin crossed
                 PROVE  visit'[event[p].visit] = visit[event[p].visit]
      OBVIOUS
    <3>1. event[p].visit # r.visit
      BY <1>0, <2>3 DEF EventInv, Alone
    <3>2. event[p].visit \in Visit
      BY DEF EventInv, Knows
    <3> QED  BY <1>3, <3>1, <3>2 DEF Viewed
  <2>7. /\ visit' \in [Visit -> Visiting] /\ viewed' \subseteq Visit \X (1 .. Views)
        /\ viewed \subseteq viewed'
    BY <1>1, <1>3 DEF Viewed
  <2>8. \A s \in Visit : (visit'[s].test => s \in Test) /\ (visit[s].made => visit'[s].made)
    BY <1>3 DEF Viewed, EventInv, RowsSound
  <2> QED  BY <2>4, <2>5, <2>6, <2>7, <2>8
<1> QED  BY <1>2, <1>3, <1>r, VisitWritten

\* What it does to the orders
LEMMA OrdersKept ==
  ASSUME EventInv, NEW r, Committed(r)
  PROVE  /\ order' \in [Order -> Ordered]
         /\ \A o \in Order : /\ order[o].verified => order'[o].verified
                             /\ order'[o].verified => order'[o].made
         /\ OrdersSound'
<1>1. order \in [Order -> Ordered] /\ r.pc # "idle" /\ Knows(r) /\ r \in Serving
  BY DEF EventInv, EventTypes, Committed
<1>2. \A o \in Order : order[o].verified => order[o].made
  BY DEF EventInv, RowsSound
<1>3. \A o : Given(o)' = IF r.kind = "confirm" /\ o = r.order THEN Given(o) \cup {r.value} ELSE Given(o)
  <2> SUFFICES ASSUME NEW o
               PROVE  Given(o)' = IF r.kind = "confirm" /\ o = r.order THEN Given(o) \cup {r.value} ELSE Given(o)
    OBVIOUS
  <2>1. CASE r.kind # "confirm"
    BY <2>1 DEF Given, Committed
  <2>2. CASE r.kind = "confirm"
    <3>1. confirmed' = confirmed \cup {<<r.order, r.value>>}
      BY <2>2 DEF Committed
    <3>2. PICK c : c = <<r.order, r.value>>
      OBVIOUS
    <3>3. c[1] = r.order /\ c[2] = r.value /\ confirmed' = confirmed \cup {c}
      BY <3>1, <3>2
    <3>4. \A v : v \in Given(o)' <=> \E d \in confirmed' : d[1] = o /\ v = d[2]
      BY DEF Given
    <3>5. \A v : v \in Given(o) <=> \E d \in confirmed : d[1] = o /\ v = d[2]
      BY DEF Given
    <3>6. \A v : v \in Given(o)' <=> v \in Given(o) \/ (o = r.order /\ v = r.value)
      BY <3>3, <3>4, <3>5
    <3>7. CASE o = r.order
      <4>1. \A v : v \in Given(o)' <=> v \in Given(o) \cup {r.value}
        BY <3>6, <3>7
      <4>2. Given(o)' = Given(o) \cup {r.value}
        BY <4>1
      <4> QED  BY <2>2, <3>7, <4>2
    <3>8. CASE o # r.order
      <4>1. \A v : v \in Given(o)' <=> v \in Given(o)
        BY <3>6, <3>8
      <4>2. Given(o)' = Given(o)
        BY <4>1
      <4> QED  BY <3>8, <4>2
    <3> QED  BY <3>7, <3>8
  <2> QED  BY <2>1, <2>2
<1>4. CASE r.order = NoOrder
  <2>1. r.kind = "batch" /\ order' = order
    BY <1>1, <1>4, IngestAssumption DEF Committed, WriteOrder, Adds, Upgrades, Knows, Serving, NoOrder
  <2> QED  BY <1>1, <1>2, <1>3, <2>1 DEF EventInv, OrdersSound
<1>5. CASE r.order # NoOrder
  <2>1. r.order \in Order
    BY <1>1, <1>5 DEF Serving
  <2>2. order[r.order] \in Ordered
    BY <1>1, <2>1
  <2>3. CASE Adds(r).order
    <3> DEFINE new == [made |-> TRUE, visit |-> IF r.linked THEN r.visit ELSE NoVisit,
                       value |-> r.value, verified |-> r.kind = "confirm"]
    <3>1. order' = [order EXCEPT ![r.order] = new]
      BY <2>3 DEF Committed, WriteOrder
    <3>2. new \in Ordered /\ new.made /\ new.value = r.value /\ (new.verified <=> r.kind = "confirm")
      BY <1>1 DEF Ordered, Serving
    <3>3. ~ order[r.order].verified /\ Given(r.order) = {}
      BY <1>2, <2>1, <2>3 DEF Committed, Clashes, EventInv, OrdersSound
    <3> HIDE DEF new
    <3>4. order'[r.order] = new /\ \A o \in Order \ {r.order} : order'[o] = order[o]
      BY <1>1, <2>1, <3>1
    <3>5. OrdersSound'
      BY <1>3, <3>2, <3>3, <3>4 DEF EventInv, OrdersSound
    <3> QED  BY <1>1, <1>2, <2>1, <3>1, <3>2, <3>3, <3>4, <3>5
  <2>4. CASE ~ Adds(r).order /\ Upgrades(r)
    <3> DEFINE new == [made |-> TRUE, verified |-> TRUE,
                       value |-> IF r.value # Unvalued THEN r.value ELSE order[r.order].value,
                       visit |-> IF r.linked /\ r.row = "unlinked" THEN r.visit ELSE order[r.order].visit]
    <3>1. order' = [order EXCEPT ![r.order] = new]
      BY <2>4 DEF Committed, WriteOrder
    <3>2. /\ new \in Ordered /\ new.made /\ new.verified
          /\ new.value = IF r.value # Unvalued THEN r.value ELSE order[r.order].value
      BY <1>1, <2>2 DEF Ordered, Serving
    <3>3. r.kind = "confirm"
      BY <2>4 DEF Upgrades
    <3> HIDE DEF new
    <3>4. order'[r.order] = new /\ \A o \in Order \ {r.order} : order'[o] = order[o]
      BY <1>1, <2>1, <3>1
    <3>5. OrdersSound'
      BY <1>3, <3>2, <3>3, <3>4 DEF EventInv, OrdersSound
    <3> QED  BY <1>1, <1>2, <2>1, <3>1, <3>2, <3>3, <3>4, <3>5
  <2>5. CASE ~ Adds(r).order /\ ~ Upgrades(r)
    <3>1. order' = order
      BY <2>5 DEF Committed, WriteOrder
    <3>2. r.kind = "confirm" => order[r.order].verified
      <4>1. r.kind = "confirm" => r.row = "verified"
        BY <1>1, <1>5, <2>5 DEF Adds, Upgrades, Serving
      <4> QED  BY <1>5, <4>1 DEF Committed, Knows
    <3>3. OrdersSound'
      BY <1>3, <2>1, <3>1, <3>2 DEF EventInv, OrdersSound
    <3> QED  BY <1>1, <1>2, <3>1, <3>3
  <2> QED  BY <2>3, <2>4, <2>5
<1> QED  BY <1>4, <1>5

\* The commit of a request preserves the invariant.
LEMMA CommitsSound ==
  ASSUME EventInv, NEW q \in IGCaller, Commit(q)
  PROVE  EventInv'
<1>0. Committed(event[q]) /\ event' = [event EXCEPT ![q] = IGIdle] /\ crossed' = crossed
  BY DEF Commit, Committed, EventInv, EventTypes, IGGo
<1>1. IGIdle \in Serving /\ IGIdle.pc = "idle"
  BY IngestAssumption DEF IGIdle, Serving, NoView
<1>2. EventTypes'
  BY <1>0, <1>1, VisitsKept, OrdersKept DEF EventInv, EventTypes
<1>3. (RowsSound /\ CountsSound /\ OrdersSound)'
  BY <1>0, VisitsKept, OrdersKept DEF RowsSound
<1>4. event'[q].pc = "idle" /\ \A p \in IGCaller \ {q} : event'[p] = event[p]
  BY <1>0, <1>1 DEF EventInv, EventTypes
<1>5. Alone'
  BY <1>0, <1>4 DEF EventInv, Alone, Batch
<1>6. ASSUME NEW p \in IGCaller PROVE Knows(event[p])'
  <2>1. CASE p = q
    BY <1>4, <2>1 DEF Knows, Batch
  <2>2. CASE p # q
    <3>0. PICK e : e = event[p]
      OBVIOUS
    <3>1. Knows(e) /\ e \in Serving /\ event'[p] = e
      BY <1>4, <2>2, <3>0 DEF EventInv, EventTypes
    <3>2. ASSUME e.pc \in {"view", "order", "commit"}, e.view # NoView
          PROVE  /\ e.seen # NoVisit => visit'[e.visit].made
                 /\ e.count <= Cardinality(ViewsOf(e.visit)')
                 /\ e.visit \notin crossed' => e.count = visit'[e.visit].views
      <4>1. Batch(e) /\ e.visit \in Visit
        BY <3>1, <3>2 DEF Knows, Batch
      <4>2. /\ visit[e.visit].made => visit'[e.visit].made
            /\ Cardinality(ViewsOf(e.visit)) <= Cardinality(ViewsOf(e.visit)')
            /\ e.visit \notin crossed => visit'[e.visit] = visit[e.visit]
        BY <1>0, <2>2, <3>0, <4>1, VisitsKept
      <4>3. Cardinality(ViewsOf(e.visit)) \in Nat /\ Cardinality(ViewsOf(e.visit)') \in Nat /\ e.count \in Nat
        <5>1. e.count \in Nat
          BY <3>1 DEF Serving
        <5>2. Cardinality(ViewsOf(e.visit)) \in Nat
          BY <4>1, FewViews DEF EventInv
        <5>3. Cardinality(ViewsOf(e.visit)') \in Nat
          BY <1>2, <4>1, ViewsLater
        <5> QED  BY <5>1, <5>2, <5>3
      <4>4. /\ e.seen # NoVisit => visit[e.visit].made
            /\ e.count <= Cardinality(ViewsOf(e.visit))
            /\ e.visit \notin crossed => e.count = visit[e.visit].views
        BY <3>1, <3>2 DEF Knows
      <4> QED  BY <1>0, <4>2, <4>3, <4>4
    <3>3. e.order \in Order => (order[e.order].verified => order'[e.order].verified)
      BY <1>0, OrdersKept
    <3>4. viewed \subseteq viewed'
      BY <1>0, VisitsKept
    <3>5. e.order # NoOrder => e.order \in Order
      BY <3>1 DEF Serving
    <3> QED  BY <3>1, <3>2, <3>3, <3>4, <3>5 DEF Knows, Batch
  <2> QED  BY <2>1, <2>2
<1> QED  BY <1>2, <1>3, <1>5, <1>6 DEF EventInv

\* A request arrives, reads on or ends: no row is written.
LEMMA RequestsGoOn ==
  ASSUME EventInv, NEW q \in IGCaller,
         Collect(q) \/ Confirm(q) \/ ReadVisit(q) \/ ReadView(q) \/ ReadOrder(q) \/ Clash(q) \/ RequestDies(q)
  PROVE  EventInv'
<1>0. PICK e : e = event[q]
  OBVIOUS
<1>1. e \in Serving /\ Knows(e) /\ IGIdle \in Serving /\ IGIdle.pc = "idle"
  BY <1>0, IngestAssumption DEF EventInv, EventTypes, IGIdle, Serving, NoView
<1>2. Knows(IGIdle) /\ ~ Batch(IGIdle)
  BY <1>1 DEF Knows, Batch
<1>3. crossed \subseteq Visit
  BY DEF EventInv, EventTypes
<1>i. PICK i : i = IGIdle /\ i \in Serving /\ i.kind = "batch" /\ i.view = NoView
  BY <1>1 DEF IGIdle
<1>4. CASE Collect(q)
  <2>1. PICK s \in Visit, n \in 0 .. Views, o \in Order \union {NoOrder}, v \in {Unvalued, 1} :
          /\ n # NoView \/ o # NoOrder
          /\ IGGo(q, [i EXCEPT !.pc = IF n = NoView THEN "order" ELSE "visit", !.visit = s,
                                    !.view = n, !.order = o, !.value = v])
          /\ crossed' = IF Overlaps(s) THEN crossed \union {s} ELSE crossed
    BY <1>i, <1>4 DEF Collect
  <2> DEFINE pc == IF n = NoView THEN "order" ELSE "visit"
             r == [i EXCEPT !.pc = pc, !.visit = s, !.view = n, !.order = o, !.value = v]
  <2>2. /\ r \in Serving /\ r.pc = pc
        /\ r.visit = s /\ r.view = n /\ r.order = o /\ r.kind = "batch"
    <3>1. v \in {Unvalued} \cup Amount /\ pc \in {"visit", "order"}
      BY DEF Amount, Unvalued
    <3> HIDE DEF pc
    <3> QED  BY <1>i, <3>1 DEF Serving
  <2>3. Knows(r) /\ Batch(r)
    BY <2>1, <2>2 DEF Knows, Batch
  <2>4. IGGo(q, r) /\ IGStored /\ crossed' \subseteq Visit /\ crossed \subseteq crossed'
    BY <1>3, <1>4, <2>1 DEF Collect
  <2>5. \A p \in IGCaller : Batch(event[p]) /\ event[p].visit = s => s \in crossed'
    BY <2>1 DEF Overlaps, Batch
  <2> HIDE DEF r
  <2> QED  BY <2>2, <2>3, <2>4, <2>5, Serves
<1>5. CASE Confirm(q)
  <2>1. PICK s \in Visit \union {NoVisit}, o \in Order, v \in {Unvalued, 2} :
          IGGo(q, [i EXCEPT !.pc = "order", !.kind = "confirm", !.visit = s, !.order = o, !.value = v])
    BY <1>i, <1>5 DEF Confirm
  <2> DEFINE r == [i EXCEPT !.pc = "order", !.kind = "confirm", !.visit = s, !.order = o, !.value = v]
  <2>2. r \in Serving /\ r.pc = "order" /\ r.kind = "confirm" /\ r.view = NoView /\ r.order = o
    <3>1. v \in {Unvalued} \cup Amount /\ NoView \in 0 .. Views
      BY IngestAssumption DEF Amount, Unvalued, NoView
    <3> QED  BY <1>i, <3>1 DEF Serving
  <2>3. Knows(r) /\ ~ Batch(r)
    BY <2>1, <2>2 DEF Knows, Batch
  <2>4. IGGo(q, r) /\ IGStored /\ crossed' = crossed
    BY <1>5, <2>1 DEF Confirm
  <2> HIDE DEF r
  <2> QED  BY <1>3, <2>2, <2>3, <2>4, Serves
<1>6. CASE ReadVisit(q)
  <2> DEFINE r == [e EXCEPT !.pc = "view", !.seen = IF visit[e.visit].made THEN e.visit ELSE NoVisit,
                            !.count = visit[e.visit].views]
  <2>1. e.pc = "visit" /\ IGGo(q, r) /\ IGStored /\ crossed' = crossed
    BY <1>0, <1>6 DEF ReadVisit
  <2>2. e.view # NoView /\ Batch(e) /\ e.visit \in Visit
    BY <1>1, <2>1 DEF Knows, Batch
  <2>3. visit[e.visit] \in Visiting
    BY <2>2 DEF EventInv, EventTypes
  <2>4. /\ r.pc = "view" /\ r.seen = (IF visit[e.visit].made THEN e.visit ELSE NoVisit)
        /\ r.count = visit[e.visit].views /\ r.visit = e.visit /\ r.kind = e.kind /\ r.view = e.view
        /\ r.order = e.order
    BY <1>1 DEF Serving
  <2>5. visit[e.visit].views \in Nat
    BY <2>3 DEF Visiting
  <2>6. r \in Serving
    BY <1>1, <2>2, <2>5 DEF Serving
  <2>7. /\ visit[e.visit].views <= Cardinality(ViewsOf(e.visit))
    BY <2>2 DEF EventInv, CountsSound
  <2>8. Knows(r) /\ Batch(r)
    BY <1>1, <2>1, <2>2, <2>4, <2>7 DEF Knows, Batch
  <2>9. Batch(event[q]) /\ event[q].visit = r.visit
    BY <1>0, <2>2, <2>4
  <2> HIDE DEF r
  <2> QED  BY <1>3, <2>1, <2>6, <2>8, <2>9, Serves
<1>7. CASE ReadView(q)
  <2> DEFINE dupe == <<e.visit, e.view>> \in viewed
             r == [e EXCEPT !.pc = IF e.order = NoOrder THEN "commit" ELSE "order", !.dupe = dupe]
  <2>1. e.pc = "view" /\ IGGo(q, r) /\ IGStored /\ crossed' = crossed
    BY <1>0, <1>7 DEF ReadView
  <2>2. e.view # NoView /\ Batch(e)
    BY <1>1, <2>1 DEF Knows, Batch
  <2>4. /\ r.pc = (IF e.order = NoOrder THEN "commit" ELSE "order") /\ r.seen = e.seen
        /\ r.count = e.count /\ r.visit = e.visit /\ r.kind = e.kind /\ r.view = e.view
        /\ r.order = e.order /\ r.dupe = dupe
    BY <1>1 DEF Serving
  <2>5. dupe \in BOOLEAN /\ (dupe => <<e.visit, e.view>> \in viewed)
    OBVIOUS
  <2> HIDE DEF dupe
  <2>6. r \in Serving
    BY <1>1, <2>5 DEF Serving
  <2>7. r.order # NoOrder => r.order \in Order
    BY <1>1, <2>4 DEF Serving
  <2>8. Knows(r) /\ Batch(r)
    BY <1>1, <2>1, <2>2, <2>4, <2>5, <2>7 DEF Knows, Batch
  <2>9. Batch(event[q]) /\ event[q].visit = r.visit
    BY <1>0, <2>2, <2>4
  <2> HIDE DEF r
  <2> QED  BY <1>3, <2>1, <2>6, <2>8, <2>9, Serves
<1>8. CASE ReadOrder(q)
  <2> DEFINE row == CASE ~ order[e.order].made -> "none"
                      [] order[e.order].verified -> "verified"
                      [] order[e.order].visit = NoVisit -> "unlinked"
                      [] OTHER -> "reported"
             linked == e.visit # NoVisit /\ (e.view # NoView \/ visit[e.visit].made)
             r == [e EXCEPT !.pc = "commit", !.linked = linked, !.row = row]
  <2>1. e.pc = "order" /\ IGGo(q, r) /\ IGStored /\ crossed' = crossed
    BY <1>0, <1>8 DEF ReadOrder
  <2>2. e.order \in Order
    BY <1>1, <2>1 DEF Knows
  <2>3. order[e.order] \in Ordered
    BY <2>2 DEF EventInv, EventTypes
  <2>4. order[e.order].made \in BOOLEAN /\ order[e.order].verified \in BOOLEAN
    BY <2>3 DEF Ordered
  <2>5. /\ row \in {"none", "verified", "unlinked", "reported"}
        /\ row = "verified" => order[e.order].verified
    BY <2>4
  <2>6. linked \in BOOLEAN
    OBVIOUS
  <2> HIDE DEF row, linked
  <2>7. /\ r.pc = "commit" /\ r.seen = e.seen /\ r.row = row
        /\ r.count = e.count /\ r.visit = e.visit /\ r.kind = e.kind /\ r.view = e.view
        /\ r.order = e.order /\ r.dupe = e.dupe
    BY <1>1 DEF Serving
  <2>8. r \in Serving
    BY <1>1, <2>5, <2>6 DEF Serving
  <2>9. Knows(r)
    BY <1>1, <2>1, <2>5, <2>7 DEF Knows, Batch
  <2>10. Batch(r) => Batch(event[q]) /\ event[q].visit = r.visit
    BY <1>0, <2>1, <2>7 DEF Batch
  <2> HIDE DEF r
  <2> QED  BY <1>3, <2>1, <2>8, <2>9, <2>10, Serves
<1>9. CASE Clash(q) \/ RequestDies(q)
  <2>1. IGGo(q, IGIdle) /\ IGStored /\ crossed' = crossed
    BY <1>9 DEF Clash, RequestDies
  <2> QED  BY <1>1, <1>2, <1>3, <2>1, Serves
<1> QED  BY <1>4, <1>5, <1>6, <1>7, <1>8, <1>9

\* Every step preserves the invariant.
LEMMA EventNext == EventInv /\ [IGNext]_igVars => EventInv'
<1> SUFFICES ASSUME EventInv, [IGNext]_igVars PROVE EventInv'
  OBVIOUS
<1>1. CASE IGNext
  BY <1>1, CommitsSound, RequestsGoOn DEF IGNext
<1>2. CASE UNCHANGED igVars
  <2>1. (\A s : ViewsOf(s)' = ViewsOf(s)) /\ (\A o : Given(o)' = Given(o))
    BY <1>2 DEF igVars, ViewsOf, Given
  <2>2. (EventTypes /\ RowsSound /\ CountsSound /\ OrdersSound /\ Alone)'
    BY <1>2, <2>1 DEF igVars, EventInv, EventTypes, RowsSound, CountsSound, OrdersSound, Alone
  <2>3. \A q \in IGCaller : Knows(event[q])'
    BY <1>2, <2>1 DEF igVars, EventInv, Knows
  <2> QED  BY <2>2, <2>3 DEF EventInv
<1> QED  BY <1>1, <1>2

\* The invariant says what the dashboard relies on
LEMMA EventsFollow == EventInv => EventsSound
<1> SUFFICES ASSUME EventInv PROVE EventsSound
  OBVIOUS
<1>1. ViewsCounted
  <2> SUFFICES ASSUME NEW s \in Visit
               PROVE  /\ visit[s].views <= Cardinality(ViewsOf(s))
                      /\ visit[s].views < Cardinality(ViewsOf(s)) => s \in crossed
                      /\ Cardinality(ViewsOf(s)) > 0 => visit[s].made
    BY DEF ViewsCounted, ViewsOf
  <2>1. Cardinality({}) = 0
    BY FS_EmptySet
  <2>2. Cardinality(ViewsOf(s)) > 0 => ViewsOf(s) # {}
    BY <2>1
  <2> QED  BY <2>2 DEF EventInv, CountsSound
<1>2. ConfirmedStands
  <2> SUFFICES ASSUME NEW o \in Order
               PROVE  /\ order[o].verified <=> Given(o) # {}
                      /\ (Given(o) # {} /\ Unvalued \notin Given(o)) => order[o].value \in Given(o)
                      /\ order[o].verified /\ o \notin ConfirmedOrders => order[o].visit \in Test
    BY DEF ConfirmedStands, Given
  <2>1. order[o].verified /\ o \notin ConfirmedOrders => order[o].visit \in Test
    <3>1. order[o] \in Ordered
      BY DEF EventInv, EventTypes
    <3>2. order[o].visit \in Visit \cup {NoVisit}
      BY <3>1 DEF Ordered
    <3>3. order[o].verified => order[o].made
      BY DEF EventInv, RowsSound
    <3> QED  BY <3>2, <3>3 DEF ConfirmedOrders, Genuine, EventInv, RowsSound
  <2> QED  BY <2>1 DEF EventInv, OrdersSound
<1> QED  BY <1>1, <1>2 DEF EventsSound

(***************************************************************************)
(* For any visits, orders, callers and interleaving of their reads and     *)
(* commits, a beacon that arrives twice or a batch that fails half-way     *)
(* never inflates a visit, and a conversion the customer's server has      *)
(* confirmed stays confirmed, with a value that server gave (ingest.py:90; *)
(* the unique indexes of the tables are all that stands between two        *)
(* requests).                                                              *)
(***************************************************************************)
THEOREM Events == IGSpec => []EventsSound
<1>1. IGInit => EventInv
  BY EventsInit
<1>2. EventInv /\ [IGNext]_igVars => EventInv'
  BY EventNext
<1>3. EventInv => EventsSound
  BY EventsFollow
<1> QED  BY <1>1, <1>2, <1>3, PTL DEF IGSpec

----------------------------------------------------------------------------
(***************************************************************************)
(* Limiter and caches (Limits)                                             *)
(***************************************************************************)

\* The calls of the limiter, the cached values and the making of the client
Call == [no : Nat, at : Nat]
Value == [at : Nat, until : Nat]
Boot == [done : BOOLEAN, client : BOOLEAN, lock : {"free", "taken"},
         pc : [Thread -> {"ask", "wait", "make", "flag", "leave", "done"}], got : [Thread -> {"nothing", "client", "none"}]]

\* The types
LMTypes ==
  /\ boot \in Boot
  /\ redis \in [count : Nat, until : Nat, value : Value]
  /\ hits \in [Process -> SUBSET Call]
  /\ store \in [Process -> Value]
  /\ clock \in Nat /\ lmcalls \in Nat
  /\ outage \in [failed : BOOLEAN, restarts : Nat]
  /\ passed \in SUBSET Call
  /\ refused \in [by : {"nobody", "redis"} \union Process, at : Nat, wait : Nat]

\* Once made, the client is there for good.
BootInv == /\ boot.done => boot.client
           /\ \A t \in Thread : /\ boot.pc[t] \in {"flag", "leave"} => boot.client
                                /\ boot.got[t] # "none"

\* A value in a cache expires its time to live after it was computed.
Dated(v) == v = Nothing \/ v.until = v.at + Ttl
CacheInv == Dated(redis.value) /\ \A p \in Process : Dated(store[p])

\* A process that counts for itself does so because Redis has failed, and up to the limit.
HitsInv == \A p \in Process : /\ IsFiniteSet(hits[p]) /\ Cardinality(hits[p]) <= Limit
                              /\ hits[p] # {} => outage.failed
\* Calls that were let through, so far
PassedInv == IsFiniteSet(passed) /\ \A c \in passed : c.at <= clock

\* Of a refusal its window ends, or its oldest call is forgotten, before the wait is over.
Over == refused.at + 2 * (refused.wait + 1)
RefusalInv == /\ refused.by = "redis" => redis.until <= Over
              /\ refused.by \in Process => \E c \in hits[refused.by] : c.at + Window < Over

\* The calls since a time that Redis let through
Shared(y) == {c \in passed : c.at >= y /\ \A p \in Process : c \notin hits[p]}
\* What Redis lets through in one window, and one more for each of its restarts
Base == Limit * (1 + outage.restarts)
\* Fewer calls than the live window and those before it allow have been let through since y, where
\* y is at most a window ago.
Bounded(n, y) ==
  IF clock < redis.until
    THEN IF redis.until < y + Window THEN n < redis.count /\ n < Limit
                                     ELSE n < redis.count + Base /\ n < Limit + Base
    ELSE n < Base
\* The window Redis counts in ends in time, and bounds the calls of every stretch of a window.
WindowInv == /\ clock < redis.until => redis.count >= 1 /\ redis.until <= clock + Window
             /\ \A y \in Nat : clock < y + Window => Bounded(Cardinality(Shared(y)), y)

(***************************************************************************)
(* The inductive invariant of the limiter, the caches and their client     *)
(* (core/cache.py): the client is never seen unmade, the values are dated, *)
(* each process holds at most its limit of its own, a refusal is due to    *)
(* calls that are over when its wait is, and what Redis let through in a   *)
(* window is bounded by its count and its restarts.                        *)
(***************************************************************************)
LimitInv == LMTypes /\ BootInv /\ CacheInv /\ HitsInv /\ PassedInv /\ RefusalInv /\ WindowInv

\* What the assumption says of the bounds
LEMMA LimitNats == /\ Limit \in Nat /\ Limit >= 1 /\ Window \in Nat /\ Window >= 1 /\ Ttl \in Nat /\ Ttl >= 1 /\ Window % 2 = 0
                   /\ IsFiniteSet(Process) /\ "redis" \notin Process /\ "nobody" \notin Process
BY LimitsAssumption

\* One restart more is one limit more.
LEMMA BaseGrows ==
  /\ \A r \in Nat : Limit * (1 + r) \in Nat /\ Limit <= Limit * (1 + r)
  /\ \A r \in Nat : Limit * (1 + (r + 1)) = Limit + Limit * (1 + r)
<1>1. ASSUME NEW r \in Nat
      PROVE  Limit * (1 + r) \in Nat /\ Limit <= Limit * (1 + r) /\ Limit * (1 + (r + 1)) = Limit + Limit * (1 + r)
  <2>1. Limit * r \in Nat /\ Limit * (1 + r) = Limit + Limit * r BY LimitNats
  <2>2. Limit * (1 + (r + 1)) = Limit + Limit * (1 + r) BY LimitNats
  <2> QED  BY <2>1, <2>2, LimitNats
<1> QED  BY <1>1

\* What the restarts allow is a number, and at least the limit.
LEMMA BaseNat == ASSUME LMTypes PROVE Base \in Nat /\ Limit <= Base
<1>1. outage.restarts \in Nat BY DEF LMTypes
<1> QED  BY <1>1, BaseGrows DEF Base

\* The calls of a stretch are finitely many, and none are in the future.
LEMMA SharedFew ==
  ASSUME LMTypes, PassedInv, NEW y \in Nat
  PROVE  /\ IsFiniteSet(Shared(y)) /\ Cardinality(Shared(y)) \in Nat
         /\ clock < y => Cardinality(Shared(y)) = 0
<1>1. Shared(y) \subseteq passed /\ IsFiniteSet(passed) BY DEF Shared, PassedInv
<1>2. IsFiniteSet(Shared(y)) /\ Cardinality(Shared(y)) \in Nat BY <1>1, FS_Subset, FS_CardinalityType
<1>3. clock < y => Shared(y) = {}
  <2> SUFFICES ASSUME clock < y, NEW c \in passed, c.at >= y PROVE FALSE BY DEF Shared
  <2>1. c.at <= clock /\ c.at \in Nat /\ clock \in Nat BY DEF PassedInv, LMTypes, Call
  <2> QED  BY <2>1
<1> QED  BY <1>2, <1>3, FS_EmptySet

\* The call that is made now
LEMMA TheCall == ASSUME LMTypes PROVE ThisCall \in Call /\ ThisCall.at = clock
BY DEF LMTypes, ThisCall, Call

\* What Redis counts: the script, and what it leaves alone.
LEMMA Counts ==
  ASSUME LMTypes, WindowInv
  PROVE  /\ Incr \in [count : Nat, until : Nat, value : Value] /\ Incr.value = redis.value
         /\ clock < Incr.until /\ Incr.count >= 1 /\ Incr.until <= clock + Window
         /\ clock < redis.until => Incr.count = redis.count + 1 /\ Incr.until = redis.until
         /\ ~ (clock < redis.until) => Incr.count = 1 /\ Incr.until = clock + Window
<1> DEFINE n == Count + 1
           u == IF Count = 0 THEN clock + Window ELSE redis.until
<1>1. /\ redis \in [count : Nat, until : Nat, value : Value] /\ clock \in Nat /\ redis.count \in Nat /\ redis.until \in Nat
      /\ clock < redis.until => redis.count >= 1 /\ redis.until <= clock + Window
  BY DEF LMTypes, WindowInv
<1>2. Count \in Nat /\ (clock < redis.until => Count = redis.count) /\ (~ (clock < redis.until) => Count = 0) BY <1>1 DEF Count
<1>3. n \in Nat /\ u \in Nat BY <1>1, <1>2, LimitNats
<1>4. Incr = [redis EXCEPT !.count = n, !.until = u] BY DEF Incr
<1>5. /\ clock < redis.until => n = redis.count + 1 /\ u = redis.until
      /\ ~ (clock < redis.until) => n = 1 /\ u = clock + Window
  BY <1>1, <1>2
<1> HIDE DEF n, u
<1>6. Incr \in [count : Nat, until : Nat, value : Value] /\ Incr.value = redis.value /\ Incr.count = n /\ Incr.until = u
  BY <1>1, <1>3, <1>4
<1> QED  BY <1>1, <1>5, <1>6, LimitNats

\* With a window under way, or begun, so many more calls are within its bound.
LEMMA StillBounded ==
  ASSUME LimitInv, redis' = Incr, UNCHANGED clock, outage'.restarts = outage.restarts,
         NEW y \in Nat, clock < y + Window, NEW m \in Nat,
         \/ m <= Cardinality(Shared(y))
         \/ m <= Cardinality(Shared(y)) + 1 /\ y <= clock /\ Incr.count <= Limit
  PROVE  Bounded(m, y)'
<1> DEFINE n == Cardinality(Shared(y))
<1>1. n \in Nat /\ Bounded(n, y) /\ (clock < y => n = 0) BY SharedFew DEF LimitInv, WindowInv
<1>2. Base \in Nat /\ Limit <= Base /\ Base' = Base BY BaseNat DEF LimitInv, Base
<1>3. /\ clock \in Nat /\ redis.until \in Nat /\ redis.count \in Nat /\ Incr.until \in Nat /\ Incr.count \in Nat
      /\ clock < Incr.until /\ Incr.count >= 1 /\ Incr.until <= clock + Window
      /\ clock < redis.until => Incr.count = redis.count + 1 /\ Incr.until = redis.until
      /\ ~ (clock < redis.until) => Incr.count = 1 /\ Incr.until = clock + Window
  BY Counts DEF LimitInv, LMTypes
<1>4. m <= n \/ (m <= n + 1 /\ y <= clock /\ Incr.count <= Limit) OBVIOUS
<1> HIDE DEF n
<1>5. IF Incr.until < y + Window THEN m < Incr.count /\ m < Limit ELSE m < Incr.count + Base /\ m < Limit + Base
  <2>1. CASE clock < redis.until /\ redis.until < y + Window
    <3>1. n < redis.count /\ n < Limit BY <1>1, <2>1 DEF Bounded
    <3> QED  BY <1>1, <1>3, <1>4, <2>1, <3>1, LimitNats
  <2>2. CASE clock < redis.until /\ ~ (redis.until < y + Window)
    <3>1. n < redis.count + Base /\ n < Limit + Base BY <1>1, <2>2 DEF Bounded
    <3> QED  BY <1>1, <1>2, <1>3, <1>4, <2>2, <3>1, LimitNats
  <2>3. CASE ~ (clock < redis.until)
    <3>1. n < Base BY <1>1, <2>3 DEF Bounded
    <3> QED  BY <1>1, <1>2, <1>3, <1>4, <2>3, <3>1, LimitNats
  <2> QED  BY <2>1, <2>2, <2>3
<1> QED  BY <1>2, <1>3, <1>5 DEF Bounded

\* Everything of the limiter is let be by who asks for the client, and by a cache that is read.
LimiterStays == UNCHANGED <<redis, hits, clock, lmcalls, outage, passed, refused>>

\* A step that leaves the limiter alone keeps what it says of the limiter.
LEMMA StayingLimiter ==
  ASSUME LimitInv, LimiterStays
  PROVE  HitsInv' /\ PassedInv' /\ RefusalInv' /\ WindowInv'
<1> USE DEF LimiterStays
<1>1. HitsInv' BY DEF LimitInv, HitsInv
<1>2. PassedInv' BY DEF LimitInv, PassedInv
<1>3. RefusalInv' BY DEF LimitInv, RefusalInv, Over
<1>4. WindowInv' BY DEF LimitInv, WindowInv, Bounded, Shared, Base
<1> QED  BY <1>1, <1>2, <1>3, <1>4

\* The making of the client keeps the invariant.
LEMMA GetsClient == ASSUME LimitInv, GetRedis PROVE LimitInv'
<1>1. PICK t \in Thread : LookAtFlag(t) \/ TakeLock(t) \/ MakeClient(t) \/ SetFlag(t) \/ LeaveLock(t) BY DEF GetRedis
<1>2. UNCHANGED <<redis, hits, store, clock, outage, lmcalls, passed, refused>> BY DEF GetRedis
<1>3. LMTypes /\ BootInv /\ boot \in Boot BY DEF LimitInv, LMTypes
<1>4. boot' \in Boot /\ BootInv'
  <2> USE DEF Boot
  <2>1. CASE LookAtFlag(t) BY <1>3, <2>1 DEF LookAtFlag, Answer, Went, BootInv
  <2>2. CASE TakeLock(t)
    <3>1. boot' = [boot EXCEPT !.pc[t] = IF boot.done THEN "leave" ELSE "make", !.lock = "taken"] BY <1>3, <2>2 DEF TakeLock, Went
    <3> QED  BY <1>3, <3>1 DEF BootInv
  <2>3. CASE MakeClient(t) BY <1>3, <2>3 DEF MakeClient, Went, BootInv
  <2>4. CASE SetFlag(t) BY <1>3, <2>4 DEF SetFlag, Went, BootInv
  <2>5. CASE LeaveLock(t)
    <3>1. boot.client BY <1>3, <2>5 DEF LeaveLock, BootInv
    <3>2. boot' = [boot EXCEPT !.pc[t] = "done", !.got[t] = "client", !.lock = "free"]
      BY <1>3, <2>5, <3>1 DEF LeaveLock, Answer, Went
    <3> QED  BY <1>3, <3>1, <3>2 DEF BootInv
  <2> QED  BY <1>1, <2>1, <2>2, <2>3, <2>4, <2>5
<1>5. LMTypes' BY <1>2, <1>3, <1>4 DEF LMTypes
<1>6. CacheInv' BY <1>2 DEF LimitInv, CacheInv
<1> QED  BY <1>2, <1>4, <1>5, <1>6, StayingLimiter DEF LimitInv, LimiterStays

\* So does a call that Redis counts.
LEMMA ChecksRedis == ASSUME LimitInv, CheckRedis PROVE LimitInv'
<1>1. /\ Called /\ redis' = Incr /\ UNCHANGED <<boot, hits, store, clock, outage>> /\ lmcalls' = lmcalls + 1
      /\ IF Incr.count <= Limit THEN LetThrough ELSE Refuse("redis", RedisWait)
  BY DEF CheckRedis, Called
<1>2. LMTypes /\ clock \in Nat /\ lmcalls \in Nat /\ passed \in SUBSET Call /\ WindowInv /\ PassedInv BY DEF LimitInv, LMTypes
<1>3. /\ Incr \in [count : Nat, until : Nat, value : Value] /\ Incr.value = redis.value
      /\ clock < Incr.until /\ Incr.count >= 1 /\ Incr.until <= clock + Window
  BY <1>2, Counts
<1>4. ThisCall \in Call /\ ThisCall.at = clock BY <1>2, TheCall
<1>5. passed' \in SUBSET Call /\ passed' \subseteq passed \union {ThisCall}
  BY <1>1, <1>2, <1>4 DEF LetThrough, Refuse
<1>6. refused' \in [by : {"nobody", "redis"} \union Process, at : Nat, wait : Nat] /\ RefusalInv'
  <2>1. CASE LetThrough
    <3>1. refused' = [by |-> "nobody", at |-> 0, wait |-> 0] BY <2>1 DEF LetThrough, NoRefusal
    <3> QED  BY <3>1, LimitNats DEF RefusalInv
  <2>2. CASE Refuse("redis", RedisWait)
    <3> DEFINE left == (Incr.until - clock + 1) \div 2
    <3>1. Incr.until \in Nat BY <1>3
    <3>2. left \in Nat /\ left > 0 /\ Incr.until <= clock + 2 * (left + 1) BY <1>2, <1>3, <3>1
    <3>3. RedisWait = left BY <1>1, <3>2 DEF RedisWait
    <3> HIDE DEF left
    <3>4. refused' = [by |-> "redis", at |-> clock, wait |-> left] BY <2>2, <3>3 DEF Refuse
    <3> QED  BY <1>1, <1>2, <3>2, <3>4, LimitNats DEF RefusalInv, Over
  <2> QED  BY <1>1, <2>1, <2>2
<1>7. LMTypes' BY <1>1, <1>2, <1>3, <1>5, <1>6 DEF LMTypes
<1>8. BootInv' BY <1>1 DEF LimitInv, BootInv
<1>9. CacheInv' BY <1>1, <1>3 DEF LimitInv, CacheInv, Dated
<1>10. HitsInv' BY <1>1 DEF LimitInv, HitsInv
<1>11. PassedInv'
  <2>1. IsFiniteSet(passed \union {ThisCall}) BY <1>2, FS_AddElement DEF PassedInv
  <2>2. IsFiniteSet(passed') BY <1>5, <2>1, FS_Subset
  <2>3. \A c \in passed' : c.at <= clock BY <1>2, <1>4, <1>5 DEF PassedInv
  <2> QED  BY <1>1, <2>2, <2>3 DEF PassedInv
<1>12. WindowInv'
  <2>1. ASSUME NEW y \in Nat, clock < y + Window PROVE \E n \in Nat : n = Cardinality(Shared(y)') /\ Bounded(n, y)'
    <3> DEFINE old == Shared(y)
               new == Shared(y)'
    <3>1. IsFiniteSet(old) /\ Cardinality(old) \in Nat BY <1>2, SharedFew
    <3>2. CASE y <= clock /\ Incr.count <= Limit
      <4>1. new \subseteq old \union {ThisCall} BY <1>1, <1>5 DEF Shared
      <4> HIDE DEF old, new
      <4>2. IsFiniteSet(old \union {ThisCall}) /\ Cardinality(old \union {ThisCall}) <= Cardinality(old) + 1
            /\ Cardinality(old \union {ThisCall}) \in Nat
        BY <3>1, FS_AddElement, FS_CardinalityType
      <4>3. Cardinality(new) <= Cardinality(old \union {ThisCall}) /\ Cardinality(new) \in Nat
        BY <4>1, <4>2, FS_Subset, FS_CardinalityType
      <4>4. Cardinality(new) <= Cardinality(old) + 1 BY <3>1, <4>2, <4>3
      <4>5. PICK n \in Nat : n = Cardinality(new) BY <4>3
      <4>6. Bounded(n, y)' BY <1>1, <2>1, <3>2, <4>4, <4>5, StillBounded DEF old
      <4> QED  BY <4>5, <4>6 DEF new
    <3>3. CASE ~ (y <= clock /\ Incr.count <= Limit)
      <4>1. new \subseteq old
        <5>1. CASE ~ (y <= clock)
          <6>1. ~ (ThisCall.at >= y) BY <1>2, <1>4, <5>1
          <6> QED  BY <1>1, <1>5, <6>1 DEF Shared
        <5>2. CASE ~ (Incr.count <= Limit)
          <6>1. passed' = passed BY <1>1, <5>2 DEF Refuse
          <6> QED  BY <1>1, <6>1 DEF Shared
        <5> QED  BY <3>3, <5>1, <5>2
      <4> HIDE DEF old, new
      <4>2. Cardinality(new) <= Cardinality(old) /\ Cardinality(new) \in Nat BY <3>1, <4>1, FS_Subset, FS_CardinalityType
      <4>3. PICK n \in Nat : n = Cardinality(new) BY <4>2
      <4>4. Bounded(n, y)' BY <1>1, <2>1, <4>2, <4>3, StillBounded DEF old
      <4> QED  BY <4>3, <4>4 DEF new
    <3> QED  BY <3>2, <3>3
  <2>2. clock' < redis'.until => redis'.count >= 1 /\ redis'.until <= clock' + Window BY <1>1, <1>3
  <2>3. \A y \in Nat : clock' < y + Window => Bounded(Cardinality(Shared(y)), y)' BY <1>1, <2>1 DEF Bounded
  <2> QED  BY <2>2, <2>3 DEF WindowInv
<1> QED  BY <1>6, <1>7, <1>8, <1>9, <1>10, <1>11, <1>12 DEF LimitInv

\* So does a call that a process counts for itself.
LEMMA ChecksLocally == ASSUME LimitInv, NEW p \in Process, CheckLocally(p) PROVE LimitInv'
<1>1. /\ outage' = [outage EXCEPT !.failed = TRUE] /\ redis' \in {redis, Incr} /\ UNCHANGED <<boot, store, clock>> /\ lmcalls' = lmcalls + 1
      /\ \/ /\ Cardinality(Recent(p)) < Limit
            /\ hits' = [hits EXCEPT ![p] = Recent(p) \union {ThisCall}] /\ LetThrough
         \/ /\ hits' = [hits EXCEPT ![p] = Recent(p)] /\ passed' = passed
            /\ \E oldest \in Recent(p) : Refuse(p, LocalWait(oldest))
  BY DEF CheckLocally, Called, Refuse
<1>2. /\ LMTypes /\ clock \in Nat /\ lmcalls \in Nat /\ passed \in SUBSET Call /\ WindowInv /\ PassedInv
      /\ hits \in [Process -> SUBSET Call] /\ IsFiniteSet(hits[p]) /\ Cardinality(hits[p]) <= Limit
  BY DEF LimitInv, LMTypes, HitsInv
<1>3. /\ Incr \in [count : Nat, until : Nat, value : Value] /\ Incr.value = redis.value
      /\ clock < Incr.until /\ Incr.count >= 1 /\ Incr.until <= clock + Window
  BY <1>2, Counts
<1>4. ThisCall \in Call /\ ThisCall.at = clock BY <1>2, TheCall
<1>5. Recent(p) \subseteq hits[p] BY DEF Recent
<1>6. hits' \in [Process -> SUBSET Call] /\ \A q \in Process : q # p => hits'[q] = hits[q]
  BY <1>1, <1>2, <1>4, <1>5
<1>7. /\ IsFiniteSet(hits'[p]) /\ Cardinality(hits'[p]) <= Limit
      /\ hits'[p] \subseteq Recent(p) \union {ThisCall} /\ Recent(p) \subseteq hits'[p]
  <2>1. IsFiniteSet(Recent(p)) /\ Cardinality(Recent(p)) \in Nat /\ Cardinality(Recent(p)) <= Cardinality(hits[p]) /\ Cardinality(hits[p]) \in Nat
    BY <1>2, <1>5, FS_Subset, FS_CardinalityType
  <2>2. CASE Cardinality(Recent(p)) < Limit /\ hits'[p] = Recent(p) \union {ThisCall}
    <3>1. IsFiniteSet(Recent(p) \union {ThisCall}) /\ Cardinality(Recent(p) \union {ThisCall}) <= Cardinality(Recent(p)) + 1
          /\ Cardinality(Recent(p) \union {ThisCall}) \in Nat
      <4>1. /\ IsFiniteSet(Recent(p) \union {ThisCall})
            /\ Cardinality(Recent(p) \union {ThisCall})
                 = (IF ThisCall \in Recent(p) THEN Cardinality(Recent(p)) ELSE Cardinality(Recent(p)) + 1)
        BY <2>1, FS_AddElement
      <4> QED  BY <2>1, <4>1
    <3> QED  BY <2>1, <2>2, <3>1, LimitNats
  <2>3. CASE hits'[p] = Recent(p) BY <1>2, <2>1, <2>3, LimitNats
  <2> QED  BY <1>1, <1>2, <2>2, <2>3
<1>8. passed' \in SUBSET Call /\ passed' \subseteq passed \union {ThisCall} /\ (ThisCall \in passed' => ThisCall \in passed \/ ThisCall \in hits'[p])
  BY <1>1, <1>2, <1>4 DEF LetThrough
<1>9. refused' \in [by : {"nobody", "redis"} \union Process, at : Nat, wait : Nat] /\ RefusalInv'
  <2>1. CASE LetThrough
    <3>1. refused' = [by |-> "nobody", at |-> 0, wait |-> 0] BY <2>1 DEF LetThrough, NoRefusal
    <3> QED  BY <3>1, LimitNats DEF RefusalInv
  <2>2. ASSUME NEW oldest \in Recent(p), Refuse(p, LocalWait(oldest)), hits' = [hits EXCEPT ![p] = Recent(p)]
        PROVE  refused' \in [by : {"nobody", "redis"} \union Process, at : Nat, wait : Nat] /\ RefusalInv'
    <3> DEFINE w == (Window - (clock - oldest.at)) \div 2
    <3>1. oldest \in hits[p] /\ oldest \in Call /\ clock - oldest.at < Window /\ oldest.at \in Nat BY <1>2 DEF Recent, Call
    <3>2. w \in Nat /\ oldest.at + Window < clock + 2 * (w + 1)
      <4>1. oldest.at <= clock \/ oldest.at > clock BY <1>2, <3>1
      <4> QED  BY <1>2, <3>1, <4>1, LimitNats
    <3>3. refused' = [by |-> p, at |-> clock, wait |-> w] BY <2>2 DEF Refuse, LocalWait
    <3> HIDE DEF w
    <3>4. oldest \in hits'[p] BY <1>2, <2>2
    <3> QED  BY <1>2, <3>2, <3>3, <3>4, LimitNats DEF RefusalInv, Over
  <2> QED  BY <1>1, <2>1, <2>2
<1>10. /\ outage' \in [failed : BOOLEAN, restarts : Nat] /\ outage'.failed /\ outage'.restarts = outage.restarts
       /\ redis' \in [count : Nat, until : Nat, value : Value] /\ redis'.value = redis.value
  BY <1>1, <1>2, <1>3 DEF LMTypes
<1>11. LMTypes' BY <1>1, <1>2, <1>6, <1>8, <1>9, <1>10 DEF LMTypes
<1>12. BootInv' BY <1>1 DEF LimitInv, BootInv
<1>13. CacheInv' BY <1>1, <1>10 DEF LimitInv, CacheInv, Dated
<1>14. HitsInv' BY <1>6, <1>7, <1>10 DEF LimitInv, HitsInv
<1>15. PassedInv'
  <2>1. IsFiniteSet(passed \union {ThisCall}) BY <1>2, FS_AddElement DEF PassedInv
  <2>2. IsFiniteSet(passed') BY <1>8, <2>1, FS_Subset
  <2>3. \A c \in passed' : c.at <= clock BY <1>2, <1>4, <1>8 DEF PassedInv
  <2> QED  BY <1>1, <2>2, <2>3 DEF PassedInv
<1>16. WindowInv'
  <2>1. ASSUME NEW y \in Nat, clock < y + Window PROVE \E n \in Nat : n = Cardinality(Shared(y)') /\ Bounded(n, y)'
    <3>1. Shared(y)' \subseteq Shared(y)
      <4> SUFFICES ASSUME NEW c \in passed', c.at >= y, \A q \in Process : c \notin hits'[q] PROVE c \in Shared(y) BY DEF Shared
      <4>1. c \in passed /\ c \in Call BY <1>2, <1>8
      <4>2. c \notin hits[p]
        <5> SUFFICES ASSUME c \in hits[p] PROVE FALSE OBVIOUS
        <5>1. clock - c.at < Window BY <1>2, <2>1, <4>1, LimitNats DEF Call
        <5> QED  BY <1>7, <5>1 DEF Recent
      <4> QED  BY <1>6, <4>1, <4>2 DEF Shared
    <3>2. IsFiniteSet(Shared(y)) /\ Cardinality(Shared(y)) \in Nat BY <1>2, SharedFew
    <3>3. Cardinality(Shared(y)') <= Cardinality(Shared(y)) /\ Cardinality(Shared(y)') \in Nat
      BY <3>1, <3>2, FS_Subset, FS_CardinalityType
    <3>0. PICK n \in Nat : n = Cardinality(Shared(y)') BY <3>3
    <3>4. CASE redis' = redis
      <4>1. Bounded(Cardinality(Shared(y)), y) BY <2>1 DEF LimitInv, WindowInv
      <4>2. redis.count \in Nat /\ Base \in Nat BY <1>2, BaseNat DEF LMTypes
      <4>3. Base' = Base BY <1>10 DEF Base
      <4>4. Bounded(n, y)' BY <1>1, <3>0, <3>2, <3>3, <3>4, <4>1, <4>2, <4>3, LimitNats DEF Bounded
      <4> QED  BY <3>0, <4>4
    <3>5. CASE redis' = Incr
      <4>1. Bounded(n, y)' BY <1>1, <1>10, <2>1, <3>0, <3>3, <3>5, StillBounded
      <4> QED  BY <3>0, <4>1
    <3> QED  BY <1>1, <3>4, <3>5
  <2>2. clock' < redis'.until => redis'.count >= 1 /\ redis'.until <= clock' + Window BY <1>1, <1>2, <1>3 DEF WindowInv
  <2>3. \A y \in Nat : clock' < y + Window => Bounded(Cardinality(Shared(y)), y)' BY <1>1, <2>1 DEF Bounded
  <2> QED  BY <2>2, <2>3 DEF WindowInv
<1> QED  BY <1>9, <1>11, <1>12, <1>13, <1>14, <1>15, <1>16 DEF LimitInv

\* So does a value stored in Redis.
LEMMA SetsShared == ASSUME LimitInv, SetShared PROVE LimitInv'
<1>1. /\ redis' = [redis EXCEPT !.value = [at |-> clock, until |-> clock + Ttl]] /\ refused' = NoRefusal /\ lmcalls' = lmcalls + 1
      /\ UNCHANGED <<boot, hits, store, clock, outage, passed>>
  BY DEF SetShared, Called
<1>2. LMTypes /\ clock + Ttl \in Nat BY LimitNats DEF LimitInv, LMTypes
<1>3. /\ redis' \in [count : Nat, until : Nat, value : Value] /\ redis'.count = redis.count /\ redis'.until = redis.until
      /\ Dated(redis'.value)
  BY <1>1, <1>2 DEF LMTypes, Value, Dated
<1>4. refused' \in [by : {"nobody", "redis"} \union Process, at : Nat, wait : Nat] /\ RefusalInv'
  BY <1>1, LimitNats DEF NoRefusal, RefusalInv
<1>5. LMTypes' BY <1>1, <1>2, <1>3, <1>4 DEF LMTypes
<1>6. BootInv' BY <1>1 DEF LimitInv, BootInv
<1>7. CacheInv' BY <1>1, <1>3 DEF LimitInv, CacheInv
<1>8. HitsInv' /\ PassedInv' BY <1>1 DEF LimitInv, HitsInv, PassedInv
<1>9. WindowInv' BY <1>1, <1>3 DEF LimitInv, WindowInv, Bounded, Shared, Base
<1> QED  BY <1>4, <1>5, <1>6, <1>7, <1>8, <1>9 DEF LimitInv

\* So does a value stored in a process.
LEMMA SetsLocal == ASSUME LimitInv, NEW p \in Process, SetLocal(p) PROVE LimitInv'
<1>1. /\ store' = [store EXCEPT ![p] = [at |-> clock, until |-> clock + Ttl]] /\ refused' = NoRefusal /\ lmcalls' = lmcalls + 1
      /\ UNCHANGED <<boot, redis, hits, clock, outage, passed>>
  BY DEF SetLocal, Called
<1>2. LMTypes /\ clock + Ttl \in Nat BY LimitNats DEF LimitInv, LMTypes
<1>3. store' \in [Process -> Value] /\ \A q \in Process : Dated(store'[q])
  BY <1>1, <1>2 DEF LimitInv, LMTypes, Value, Dated, CacheInv
<1>4. refused' \in [by : {"nobody", "redis"} \union Process, at : Nat, wait : Nat] /\ RefusalInv'
  BY <1>1, LimitNats DEF NoRefusal, RefusalInv
<1>5. LMTypes' BY <1>1, <1>2, <1>3, <1>4 DEF LMTypes
<1>6. BootInv' BY <1>1 DEF LimitInv, BootInv
<1>7. CacheInv' BY <1>1, <1>3 DEF LimitInv, CacheInv
<1>8. HitsInv' /\ PassedInv' BY <1>1 DEF LimitInv, HitsInv, PassedInv
<1>9. WindowInv' BY <1>1 DEF LimitInv, WindowInv, Bounded, Shared, Base
<1> QED  BY <1>4, <1>5, <1>6, <1>7, <1>8, <1>9 DEF LimitInv

\* So does dropping it when it has expired.
LEMMA DropsLocal == ASSUME LimitInv, NEW p \in Process, DropLocal(p) PROVE LimitInv'
<1>1. store' = [store EXCEPT ![p] = Nothing] /\ UNCHANGED <<boot, redis, hits, clock, outage, lmcalls, passed, refused>>
  BY DEF DropLocal
<1>2. LMTypes /\ Nothing \in Value BY DEF LimitInv, Nothing, Value
<1>3. store' \in [Process -> Value] /\ \A q \in Process : Dated(store'[q])
  BY <1>1, <1>2 DEF LimitInv, LMTypes, Dated, CacheInv
<1>4. LMTypes' BY <1>1, <1>2, <1>3 DEF LMTypes
<1>5. BootInv' BY <1>1 DEF LimitInv, BootInv
<1>6. CacheInv' BY <1>1, <1>3 DEF LimitInv, CacheInv
<1> QED  BY <1>1, <1>4, <1>5, <1>6, StayingLimiter DEF LimitInv, LimiterStays

\* So does time.
LEMMA Ticks == ASSUME LimitInv, LMTick PROVE LimitInv'
<1>1. clock' = clock + 1 /\ UNCHANGED <<boot, redis, hits, store, outage, lmcalls, passed, refused>> BY DEF LMTick
<1>2. LMTypes /\ clock \in Nat /\ redis.until \in Nat /\ redis.count \in Nat BY DEF LimitInv, LMTypes
<1>3. LMTypes' BY <1>1, <1>2 DEF LMTypes
<1>4. BootInv' BY <1>1 DEF LimitInv, BootInv
<1>5. CacheInv' BY <1>1 DEF LimitInv, CacheInv
<1>6. HitsInv' BY <1>1 DEF LimitInv, HitsInv
<1>7. PassedInv'
  <2>1. \A c \in passed : c.at \in Nat BY <1>2 DEF LMTypes, Call
  <2> QED  BY <1>1, <1>2, <2>1 DEF LimitInv, PassedInv
<1>8. RefusalInv' BY <1>1 DEF LimitInv, RefusalInv, Over
<1>9. WindowInv'
  <2>1. ASSUME NEW y \in Nat, clock + 1 < y + Window PROVE Bounded(Cardinality(Shared(y)), y)'
    <3>1. Shared(y)' = Shared(y) /\ Base' = Base /\ redis' = redis BY <1>1 DEF Shared, Base
    <3>2. PICK n \in Nat : n = Cardinality(Shared(y)) BY <1>2, SharedFew DEF LimitInv
    <3>3. Bounded(n, y) BY <1>2, <2>1, <3>2, LimitNats DEF LimitInv, WindowInv
    <3>4. Limit <= Base /\ Base \in Nat BY <1>2, BaseNat
    <3>5. clock < redis.until /\ ~ (clock + 1 < redis.until) => redis.until < y + Window BY <1>2, <2>1, LimitNats
    <3>6. Bounded(n, y)' BY <1>1, <1>2, <2>1, <3>1, <3>3, <3>4, <3>5, LimitNats DEF Bounded
    <3> QED  BY <3>1, <3>2, <3>6 DEF Bounded
  <2>2. clock' < redis'.until => redis'.count >= 1 /\ redis'.until <= clock' + Window
    BY <1>1, <1>2, LimitNats DEF LimitInv, WindowInv
  <2> QED  BY <1>1, <2>1, <2>2 DEF WindowInv
<1> QED  BY <1>3, <1>4, <1>5, <1>6, <1>7, <1>8, <1>9 DEF LimitInv

\* So does a restart of Redis.
LEMMA Restarts == ASSUME LimitInv, RedisRestarts PROVE LimitInv'
<1>1. /\ outage' = [outage EXCEPT !.restarts = @ + 1]
      /\ redis' = [count |-> 0, until |-> 0, value |-> Nothing] /\ refused' = NoRefusal
      /\ UNCHANGED <<boot, hits, store, clock, lmcalls, passed>>
  BY DEF RedisRestarts
<1>2. LMTypes /\ clock \in Nat /\ redis.until \in Nat /\ redis.count \in Nat /\ outage.restarts \in Nat BY DEF LimitInv, LMTypes
<1>3. /\ outage' \in [failed : BOOLEAN, restarts : Nat] /\ outage'.failed = outage.failed /\ outage'.restarts = outage.restarts + 1
      /\ redis' \in [count : Nat, until : Nat, value : Value] /\ Dated(redis'.value) /\ redis'.until = 0
  BY <1>1, <1>2 DEF LMTypes, Value, Nothing, Dated
<1>4. refused' \in [by : {"nobody", "redis"} \union Process, at : Nat, wait : Nat] /\ RefusalInv'
  BY <1>1, LimitNats DEF NoRefusal, RefusalInv
<1>5. LMTypes' BY <1>1, <1>2, <1>3, <1>4 DEF LMTypes
<1>6. BootInv' BY <1>1 DEF LimitInv, BootInv
<1>7. CacheInv' BY <1>1, <1>3 DEF LimitInv, CacheInv
<1>8. HitsInv' /\ PassedInv' BY <1>1, <1>3 DEF LimitInv, HitsInv, PassedInv
<1>9. WindowInv'
  <2>1. Base' = Limit + Base /\ Base \in Nat /\ Limit <= Base
    <3>1. Base' = Limit * (1 + (outage.restarts + 1)) BY <1>3 DEF Base
    <3> QED  BY <1>2, <3>1, BaseGrows, BaseNat DEF Base
  <2>2. ASSUME NEW y \in Nat, clock < y + Window PROVE Bounded(Cardinality(Shared(y)), y)'
    <3>1. Shared(y)' = Shared(y) BY <1>1 DEF Shared
    <3>2. PICK n \in Nat : n = Cardinality(Shared(y)) BY <1>2, SharedFew DEF LimitInv
    <3>3. Bounded(n, y) BY <2>2, <3>2 DEF LimitInv, WindowInv
    <3>4. n < Limit + Base BY <1>2, <2>1, <3>3, LimitNats DEF Bounded
    <3>5. ~ (clock' < redis'.until) BY <1>1, <1>2, <1>3
    <3> QED  BY <2>1, <3>1, <3>2, <3>4, <3>5 DEF Bounded
  <2>3. ~ (clock' < redis'.until) BY <1>1, <1>2, <1>3
  <2> QED  BY <1>1, <2>2, <2>3 DEF WindowInv
<1> QED  BY <1>4, <1>5, <1>6, <1>7, <1>8, <1>9 DEF LimitInv

\* It holds at the start.
LEMMA LimitsInit == LMInit => LimitInv
<1> SUFFICES ASSUME LMInit PROVE LimitInv OBVIOUS
<1>1. LMTypes BY DEF LMInit, LMTypes, Boot, Value, Nothing, NoRefusal
<1>2. BootInv BY DEF LMInit, BootInv
<1>3. CacheInv BY DEF LMInit, CacheInv, Dated
<1>4. HitsInv BY FS_EmptySet, LimitNats DEF LMInit, HitsInv
<1>5. PassedInv BY FS_EmptySet DEF LMInit, PassedInv
<1>6. RefusalInv BY LimitNats DEF LMInit, RefusalInv, NoRefusal
<1>7. WindowInv
  <2>1. ~ (clock < redis.until) BY DEF LMInit
  <2>2. \A y \in Nat : Shared(y) = {} BY DEF LMInit, Shared
  <2>3. 0 < Base BY <1>1, BaseNat, LimitNats
  <2> QED  BY <2>1, <2>2, <2>3, FS_EmptySet DEF WindowInv, Bounded
<1> QED  BY <1>1, <1>2, <1>3, <1>4, <1>5, <1>6, <1>7 DEF LimitInv

\* Every step keeps it.
LEMMA LimitsNext == LimitInv /\ [LMNext]_lmVars => LimitInv'
<1> SUFFICES ASSUME LimitInv, [LMNext]_lmVars PROVE LimitInv' OBVIOUS
<1>1. CASE UNCHANGED lmVars
  <2>1. LimiterStays /\ boot' = boot /\ store' = store BY <1>1 DEF lmVars, LimiterStays
  <2>2. LMTypes' BY <2>1 DEF LimiterStays, LimitInv, LMTypes
  <2>3. BootInv' BY <2>1 DEF LimitInv, BootInv
  <2>4. CacheInv' BY <2>1 DEF LimiterStays, LimitInv, CacheInv
  <2> QED  BY <2>1, <2>2, <2>3, <2>4, StayingLimiter DEF LimitInv
<1>2. CASE \E p \in Process : CheckLocally(p) \/ SetLocal(p) \/ DropLocal(p) BY <1>2, ChecksLocally, SetsLocal, DropsLocal
<1> QED  BY <1>1, <1>2, GetsClient, ChecksRedis, SetsShared, Ticks, Restarts DEF LMNext

\* The processes count no more than their limits, together.
LEMMA HitsFew ==
  ASSUME LMTypes, HitsInv
  PROVE  LET all == UNION {hits[p] : p \in Process} IN IsFiniteSet(all) /\ Cardinality(all) <= Cardinality(Process) * Limit
<1> DEFINE all == UNION {hits[p] : p \in Process}
           enum == [p \in Process |-> CHOOSE b : b \in Bijection(1 .. Cardinality(hits[p]), hits[p])]
           slot == [c \in all |-> CHOOSE q \in Process \X (1 .. Limit) : enum[q[1]][q[2]] = c]
<1>1. ASSUME NEW p \in Process
      PROVE  Cardinality(hits[p]) \in Nat /\ Cardinality(hits[p]) <= Limit /\ enum[p] \in Bijection(1 .. Cardinality(hits[p]), hits[p])
  <2>1. IsFiniteSet(hits[p]) /\ Cardinality(hits[p]) <= Limit BY DEF HitsInv
  <2>2. Cardinality(hits[p]) \in Nat /\ ExistsBijection(1 .. Cardinality(hits[p]), hits[p]) BY <2>1, FS_CardinalityType
  <2>3. \E b : b \in Bijection(1 .. Cardinality(hits[p]), hits[p]) BY <2>2 DEF ExistsBijection
  <2> QED  BY <2>1, <2>2, <2>3
<1>2. ASSUME NEW c \in all PROVE \E q \in Process \X (1 .. Limit) : enum[q[1]][q[2]] = c
  <2>1. PICK p \in Process : c \in hits[p] OBVIOUS
  <2> HIDE DEF enum
  <2>2. PICK i \in 1 .. Cardinality(hits[p]) : enum[p][i] = c BY <1>1, <2>1 DEF Bijection, Surjection
  <2>3. i \in 1 .. Limit
    <3>1. Cardinality(hits[p]) \in Nat /\ Cardinality(hits[p]) <= Limit BY <1>1
    <3> QED  BY <3>1, LimitNats
  <2>4. <<p, i>> \in Process \X (1 .. Limit) /\ enum[<<p, i>>[1]][<<p, i>>[2]] = c BY <2>2, <2>3
  <2> QED  BY <2>4
<1> HIDE DEF enum
<1>3. \A c \in all : slot[c] \in Process \X (1 .. Limit) /\ enum[slot[c][1]][slot[c][2]] = c BY <1>2
<1>4. slot \in [all -> Process \X (1 .. Limit)] BY <1>3
<1> HIDE DEF slot, all
<1>5. \A c, d \in all : slot[c] = slot[d] => c = d BY <1>3
<1>6. slot \in Injection(all, Process \X (1 .. Limit)) BY <1>4, <1>5 DEF Injection, IsInjective
<1>7. IsFiniteSet(1 .. Limit) /\ Cardinality(1 .. Limit) = Limit
  <2>1. 1 \in Int /\ Limit \in Int /\ ~ (1 > Limit) /\ Limit - 1 + 1 = Limit BY LimitNats
  <2> QED  BY <2>1, FS_Interval
<1>8. IsFiniteSet(Process \X (1 .. Limit)) /\ Cardinality(Process \X (1 .. Limit)) = Cardinality(Process) * Limit
  BY <1>7, LimitNats, FS_Product
<1>9. IsFiniteSet(all) /\ Cardinality(all) <= Cardinality(Process) * Limit BY <1>6, <1>8, FS_Injection
<1> QED  BY <1>9 DEF all

\* The limit holds: the calls of a stretch are those Redis let through and those the processes
\* hold.
LEMMA LimitsHeld == ASSUME LimitInv PROVE LimitHeld
<1> DEFINE late == {c \in passed : clock - c.at < Window}
           y == IF clock >= Window THEN clock - Window + 1 ELSE 0
           all == UNION {hits[p] : p \in Process}
           n == Cardinality(Shared(y))
           r == outage.restarts
<1>1. /\ LMTypes /\ PassedInv /\ HitsInv /\ clock \in Nat /\ redis.until \in Nat /\ redis.count \in Nat /\ r \in Nat
      /\ \A c \in passed : c.at \in Nat
  BY DEF LimitInv, LMTypes, Call
<1>2. y \in Nat /\ clock < y + Window /\ \A k \in Nat : clock - k < Window => k >= y BY <1>1, LimitNats
<1>3. late \subseteq Shared(y) \union all BY <1>1, <1>2 DEF Shared
<1> HIDE DEF y
<1>4. IsFiniteSet(Shared(y)) /\ n \in Nat BY <1>1, <1>2, SharedFew
<1>5. n < Limit * (2 + r)
  <2>1. Base \in Nat /\ Limit <= Base /\ Limit * (2 + r) = Limit + Base
    <3>1. Limit * (1 + (r + 1)) = Limit + Limit * (1 + r) /\ 1 + (r + 1) = 2 + r BY <1>1, BaseGrows
    <3> QED  BY <1>1, <3>1, BaseNat DEF Base
  <2>2. Bounded(n, y) BY <1>2 DEF LimitInv, WindowInv
  <2> HIDE DEF n, r
  <2> QED  BY <1>1, <1>4, <2>1, <2>2, LimitNats DEF Bounded
<1>6. IsFiniteSet(all) /\ Cardinality(all) <= Cardinality(Process) * Limit BY <1>1, HitsFew
<1> HIDE DEF late, all
<1>7. Cardinality(all) \in Nat /\ Cardinality(Process) \in Nat BY <1>6, LimitNats, FS_CardinalityType
<1>8. IsFiniteSet(Shared(y) \union all) /\ Cardinality(Shared(y) \union all) <= n + Cardinality(all)
      /\ Cardinality(Shared(y) \union all) \in Nat
  <2>1. IsFiniteSet(Shared(y) \union all)
        /\ Cardinality(Shared(y) \union all) = n + Cardinality(all) - Cardinality(Shared(y) \intersect all)
    BY <1>4, <1>6, FS_Union
  <2>2. Cardinality(Shared(y) \intersect all) \in Nat BY <1>4, FS_Subset, FS_CardinalityType
  <2>3. Cardinality(Shared(y) \union all) \in Nat BY <2>1, FS_CardinalityType
  <2> HIDE DEF n
  <2> QED  BY <1>4, <1>7, <2>1, <2>2, <2>3
<1>9. Cardinality(late) <= Cardinality(Shared(y) \union all) /\ Cardinality(late) \in Nat
  BY <1>3, <1>8, FS_Subset, FS_CardinalityType
<1>10. CASE outage.failed
  <2>1. Limit * (2 + (r + Cardinality(Process))) = Limit * (2 + r) + Cardinality(Process) * Limit
    <3> HIDE DEF r
    <3> QED  BY <1>1, <1>7, LimitNats
  <2>2. Limit * (2 + r) \in Nat /\ Cardinality(Process) * Limit \in Nat BY <1>1, <1>7, LimitNats
  <2>3. Cardinality(late) < Limit * (2 + r) + Cardinality(Process) * Limit
    <3> DEFINE a == Limit * (2 + r)
               b == Cardinality(Process) * Limit
    <3>1. a \in Nat /\ b \in Nat /\ n < a /\ Cardinality(all) <= b BY <1>5, <1>6, <2>2
    <3> HIDE DEF a, b, n
    <3>2. Cardinality(late) < a + b BY <1>4, <1>7, <1>8, <1>9, <3>1
    <3> QED  BY <3>2 DEF a, b
  <2> QED  BY <1>10, <2>1, <2>3 DEF LimitHeld, late
<1>11. CASE ~ outage.failed
  <2>1. all = {} BY <1>1, <1>11 DEF HitsInv, all
  <2>2. Cardinality(all) = 0 BY <2>1, FS_EmptySet
  <2>3. Cardinality(late) < Limit * (2 + r)
    <3> DEFINE a == Limit * (2 + r)
    <3>1. a \in Nat /\ n < a BY <1>1, <1>5, LimitNats
    <3> HIDE DEF a, n
    <3>2. Cardinality(late) < a BY <1>4, <1>8, <1>9, <2>2, <3>1
    <3> QED  BY <3>2 DEF a
  <2>4. r + 0 = r BY <1>1
  <2> QED  BY <1>11, <2>3, <2>4 DEF LimitHeld, late
<1> QED  BY <1>10, <1>11

\* A refusal ends: the call it was due to is over.
LEMMA RefusalsEnd == ASSUME LimitInv PROVE RefusalEnds
<1> SUFFICES ASSUME refused.by # "nobody", clock >= Over
             PROVE  IF refused.by = "redis" THEN Count < Limit ELSE Cardinality(Recent(refused.by)) < Limit
  BY DEF RefusalEnds, Over
<1>1. clock \in Nat /\ Over \in Nat /\ redis.until \in Nat /\ refused.by \in {"redis"} \union Process /\ hits \in [Process -> SUBSET Call]
  BY DEF LimitInv, LMTypes, Over
<1>2. CASE refused.by = "redis"
  <2>1. redis.until <= Over BY <1>2 DEF LimitInv, RefusalInv
  <2>2. Count = 0 BY <1>1, <2>1 DEF Count
  <2> QED  BY <1>2, <2>2, LimitNats
<1>3. CASE refused.by # "redis"
  <2> DEFINE p == refused.by
  <2>1. p \in Process BY <1>1, <1>3
  <2>2. PICK c \in hits[p] : c.at + Window < Over BY <2>1 DEF LimitInv, RefusalInv
  <2>3. c.at \in Nat BY <1>1, <2>1 DEF Call
  <2>4. ~ (clock - c.at < Window) BY <1>1, <2>2, <2>3, LimitNats
  <2>5. Recent(p) \subseteq hits[p] \ {c} BY <2>4 DEF Recent
  <2>6. IsFiniteSet(hits[p]) /\ Cardinality(hits[p]) <= Limit /\ Cardinality(hits[p]) \in Nat
    BY <2>1, FS_CardinalityType DEF LimitInv, HitsInv
  <2> HIDE DEF p
  <2>7. IsFiniteSet(hits[p] \ {c}) /\ Cardinality(hits[p] \ {c}) = Cardinality(hits[p]) - 1 BY <2>2, <2>6, FS_RemoveElement
  <2>8. Cardinality(Recent(p)) <= Cardinality(hits[p] \ {c}) /\ Cardinality(Recent(p)) \in Nat
    BY <2>5, <2>7, FS_Subset, FS_CardinalityType
  <2>9. Cardinality(Recent(p)) < Limit BY <2>6, <2>7, <2>8, LimitNats
  <2> QED  BY <1>3, <2>9 DEF p
<1> QED  BY <1>2, <1>3

\* Nothing stale is served.
LEMMA CachesFresh == ASSUME LimitInv PROVE CacheFresh
<1>1. clock \in Nat /\ redis.value \in Value /\ store \in [Process -> Value] BY DEF LimitInv, LMTypes
<1>2. Valid # Nothing => clock - Valid.at < Ttl BY <1>1, LimitNats DEF LimitInv, CacheInv, Dated, Valid, Value
<1>3. ASSUME NEW p \in Process, Local(p) # Nothing PROVE clock - Local(p).at <= Ttl
  <2>1. Local(p) = store[p] /\ ~ (clock > store[p].until) /\ store[p] # Nothing BY <1>3 DEF Local
  <2>2. store[p].until = store[p].at + Ttl BY <2>1 DEF LimitInv, CacheInv, Dated
  <2>3. store[p].at \in Nat BY <1>1 DEF Value
  <2> QED  BY <1>1, <2>1, <2>2, <2>3, LimitNats
<1> QED  BY <1>2, <1>3 DEF CacheFresh

(***************************************************************************)
(* For any numbers of processes and threads, any limit, window and time to *)
(* live, and whenever Redis fails or starts anew: in any stretch of one    *)
(* window fewer calls get through than two windows of Redis, one more for  *)
(* each of its restarts and, once it has failed, one for each process;     *)
(* whoever waits as long as it was told is let in; nothing older than its  *)
(* time to live is served; and every thread gets the client, also one that *)
(* asks while it is being made (core/cache.py).                            *)
(***************************************************************************)
THEOREM LimitsKept == LMSpec => []LimitsSound
<1>1. LimitInv => LimitsSound
  <2> SUFFICES ASSUME LimitInv PROVE LimitsSound OBVIOUS
  <2>1. ClientSeen BY DEF LimitInv, BootInv, ClientSeen
  <2> QED  BY <2>1, LimitsHeld, RefusalsEnd, CachesFresh DEF LimitsSound
<1> QED  BY <1>1, LimitsInit, LimitsNext, PTL DEF LMSpec
=============================================================================
