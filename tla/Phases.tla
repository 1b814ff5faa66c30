------------------------------- MODULE Phases -------------------------------
(***************************************************************************)
(* The email phases of a scheduler pass: _phase and tick of                *)
(* monitoring/worker.py, PhaseLease of monitoring/leader.py,               *)
(* maybe_send_summaries of monitoring/notifications.py and                 *)
(* maybe_send_digests of services/digest.py, over one period of every kind *)
(* of email.                                                               *)
(*                                                                         *)
(* Any process may be in a pass: a leader that was deposed or is shutting  *)
(* down finishes the send in hand while its successor ticks.  A phase is   *)
(* guarded by a lease of its own, taken here as module Lease promises it;  *)
(* the loop looks at it once for every organization, and what an email     *)
(* needs is checked, sent and recorded in three steps.                     *)
(***************************************************************************)
EXTENDS Naturals, FiniteSets

CONSTANTS
  PhProc,    \* processes
  Orgs,      \* organizations with a monitor
  Broken,    \* those whose digest cannot be built
  PhFaults   \* bound of the model: crashes, lost leases and failed sends

ASSUME PhasesAssumption ==
  Broken \subseteq Orgs /\ PhFaults \in Nat

VARIABLES
  phlease,   \* the holders of each phase's lease
  pass,      \* what each process does
  digests,   \* organizations with a digest-enabled monitor
  known,     \* organizations that had a summary, or its baseline, before
  noted,     \* notification_log rows of the period that count as served
  mail,      \* history: the emails of the period
  slips,     \* history: processes cut between the check and the record of an email
  phfaults

phVars == <<phlease, pass, digests, known, noted, mail, slips, phfaults>>

Phase == {"summaries", "digests"}
Kinds == {"weekly", "monthly", "digest"}
Emails == Orgs \X Kinds

\* A digest takes the place of the weekly summary.
KindsOf(phase, o) ==
  IF phase = "digests" THEN {k \in {"digest"} : o \in digests}
  ELSE {"monthly"} \union {k \in {"weekly"} : o \notin digests}

Resting(phase) == [pc |-> "idle", phase |-> phase, todo |-> {}, org |-> "none", kinds |-> {}]

PhInit ==
  /\ phlease = [f \in Phase |-> {}]
  /\ pass = [p \in PhProc |-> Resting("summaries")]
  /\ known \in SUBSET Orgs /\ digests \in SUBSET Orgs
  /\ noted = {}
  /\ mail = [e \in Emails |-> 0] /\ slips = [e \in Emails |-> 0]
  /\ phfaults = 0

PhAt(p, pc) == pass[p].pc = pc
PhGo(p, pc) == pass' = [pass EXCEPT ![p].pc = pc]
OtherPhase(f) == CHOOSE g \in Phase : g # f
Fenced(p) == phlease[pass[p].phase] = {p}
\* The email in hand; the weekly summary comes before the monthly one
KindOf(p) == IF "weekly" \in pass[p].kinds THEN "weekly" ELSE CHOOSE k \in pass[p].kinds : TRUE
EmailOf(p) == <<pass[p].org, KindOf(p)>>
DropKind(p) == pass' = [pass EXCEPT ![p].pc = "check", ![p].kinds = @ \ {KindOf(p)}]

----------------------------------------------------------------------------
(* _phase: the lease is taken, or the phase is skipped.                    *)

BeginPhase(p) ==
  LET f == pass[p].phase IN
  /\ PhAt(p, "idle")
  /\ \/ /\ phlease[f] = {}
        /\ phlease' = [phlease EXCEPT ![f] = {p}]
        /\ pass' = [pass EXCEPT ![p].pc = "loop", ![p].todo = Orgs]
     \/ /\ phlease[f] # {}
        /\ pass' = [pass EXCEPT ![p] = Resting(OtherPhase(f))]
        /\ UNCHANGED phlease
  /\ UNCHANGED <<digests, known, noted, mail, slips, phfaults>>

EndPhase(p) ==
  LET f == pass[p].phase IN
  /\ PhAt(p, "end") \/ (PhAt(p, "loop") /\ pass[p].todo = {})
  /\ phlease' = [phlease EXCEPT ![f] = @ \ {p}]
  /\ pass' = [pass EXCEPT ![p] = Resting(OtherPhase(f))]
  /\ UNCHANGED <<digests, known, noted, mail, slips, phfaults>>

\* Wrong: the lease is looked at only when the phase begins.
NextOrgUnfenced(p) ==
  /\ PhAt(p, "loop") /\ pass[p].todo # {}
  /\ \E o \in pass[p].todo :
       pass' = [pass EXCEPT ![p] = [pass[p] EXCEPT !.pc = "check", !.org = o, !.todo = @ \ {o},
                                   !.kinds = KindsOf(pass[p].phase, o)]]
  /\ UNCHANGED <<phlease, digests, known, noted, mail, slips, phfaults>>

\* keep_going, then the next organization
NextOrg(p) ==
  /\ PhAt(p, "loop") /\ pass[p].todo # {}
  /\ \/ ~ Fenced(p) /\ PhGo(p, "end")
     \/ /\ Fenced(p)
        /\ \E o \in pass[p].todo :
             pass' = [pass EXCEPT ![p] = [pass[p] EXCEPT !.pc = "check", !.org = o, !.todo = @ \ {o},
                                   !.kinds = KindsOf(pass[p].phase, o)]]
  /\ UNCHANGED <<phlease, digests, known, noted, mail, slips, phfaults>>

\* _last_sent, _sent_this_week: was it sent in this period?
CheckKind(p) ==
  /\ PhAt(p, "check")
  /\ \/ pass[p].kinds = {} /\ PhGo(p, "loop")
     \/ pass[p].kinds # {} /\ EmailOf(p) \in noted /\ DropKind(p)
     \/ /\ pass[p].kinds # {} /\ EmailOf(p) \notin noted
        /\ PhGo(p, IF pass[p].phase = "summaries" /\ pass[p].org \notin known THEN "record" ELSE "send")
  /\ UNCHANGED <<phlease, digests, known, noted, mail, slips, phfaults>>

\* Wrong: an organization whose digest fails ends the batch.
DeliverOrStop(p) ==
  /\ PhAt(p, "send")
  /\ \/ pass[p].phase = "digests" /\ pass[p].org \in Broken /\ PhGo(p, "end") /\ UNCHANGED mail
     \/ /\ ~ (pass[p].phase = "digests" /\ pass[p].org \in Broken)
        /\ mail' = [mail EXCEPT ![EmailOf(p)] = @ + 1] /\ PhGo(p, "record")
  /\ UNCHANGED <<phlease, digests, known, noted, slips, phfaults>>

\* The email is sent, or building a digest raises, which skips the organization.
Deliver(p) ==
  /\ PhAt(p, "send")
  /\ \/ pass[p].phase = "digests" /\ pass[p].org \in Broken /\ PhGo(p, "loop") /\ UNCHANGED mail
     \/ /\ ~ (pass[p].phase = "digests" /\ pass[p].org \in Broken)
        /\ mail' = [mail EXCEPT ![EmailOf(p)] = @ + 1] /\ PhGo(p, "record")
  /\ UNCHANGED <<phlease, digests, known, noted, slips, phfaults>>

\* The row of an email that went out, or of the baseline of a new organization
Record(p) ==
  /\ PhAt(p, "record")
  /\ noted' = noted \union {EmailOf(p)}
  /\ DropKind(p)
  /\ UNCHANGED <<phlease, digests, known, mail, slips, phfaults>>

----------------------------------------------------------------------------
(* Faults.                                                                 *)

PhFault == phfaults < PhFaults /\ phfaults' = phfaults + 1

\* The transport fails.  The row says so: a digest's counts as this week's,
\* a summary's does not and it is tried again on the next pass.
DeliverFails(p) ==
  /\ PhAt(p, "send") /\ pass[p].org \notin Broken /\ PhFault
  /\ noted' = IF pass[p].phase = "digests" THEN noted \union {EmailOf(p)} ELSE noted
  /\ DropKind(p)
  /\ UNCHANGED <<phlease, digests, known, mail, slips>>

\* The emails whose check p has behind it, or does without another look at the lease
Loose(p) == IF pass[p].pc \in {"check", "send", "record"}
            THEN {<<pass[p].org, k>> : k \in pass[p].kinds} ELSE {}
Slip(S) == slips' = [e \in Emails |-> IF e \in S THEN slips[e] + 1 ELSE slips[e]]

\* A lease is not renewed in time while its phase is running.
LoseLease(p) ==
  /\ ~ PhAt(p, "idle") /\ Fenced(p) /\ PhFault
  /\ phlease' = [phlease EXCEPT ![pass[p].phase] = {}]
  /\ Slip(Loose(p))
  /\ UNCHANGED <<pass, digests, known, noted, mail>>

\* The process loses the leadership or stops.
StopGoing(p) ==
  /\ PhAt(p, "loop") /\ PhFault /\ PhGo(p, "end")
  /\ UNCHANGED <<phlease, digests, known, noted, mail, slips>>

PhCrash(p) ==
  /\ ~ PhAt(p, "idle") /\ PhFault
  /\ pass' = [pass EXCEPT ![p] = Resting("summaries")]
  /\ Slip(IF PhAt(p, "record") THEN {EmailOf(p)} ELSE {})
  /\ UNCHANGED <<phlease, digests, known, noted, mail>>

\* The lease of a process that died runs out.
ExpireLease(p, f) ==
  /\ phlease[f] = {p} /\ (PhAt(p, "idle") \/ pass[p].phase # f)
  /\ phlease' = [phlease EXCEPT ![f] = {}]
  /\ UNCHANGED <<pass, digests, known, noted, mail, slips, phfaults>>

PhWork(p) ==
  \/ BeginPhase(p) \/ EndPhase(p) \/ NextOrg(p) \/ CheckKind(p) \/ Deliver(p) \/ Record(p)
PhExpiry == \E p \in PhProc, f \in Phase : ExpireLease(p, f)

PhNext ==
  \/ \E p \in PhProc : PhWork(p) \/ DeliverFails(p) \/ LoseLease(p) \/ StopGoing(p) \/ PhCrash(p)
  \/ PhExpiry

\* A process that lives goes on, and a lease that is not renewed runs out.
PhFair == WF_phVars(PhExpiry) /\ \A p \in PhProc : WF_phVars(PhWork(p))

PhSpec == PhInit /\ [][PhNext]_phVars /\ PhFair

----------------------------------------------------------------------------

PhTypeOK ==
  /\ phlease \in [Phase -> SUBSET PhProc] /\ \A f \in Phase : Cardinality(phlease[f]) <= 1
  /\ noted \subseteq Emails /\ known \subseteq Orgs /\ digests \subseteq Orgs /\ phfaults \in 0 .. PhFaults
  /\ mail \in [Emails -> Nat] /\ slips \in [Emails -> Nat]

(***************************************************************************)
(* No organization gets an email of one kind twice in its period, however  *)
(* many processes tick at once, but for a process that lost its lease or   *)
(* died with that very email checked and not yet recorded                  *)
(* (leader.py:190-199, worker.py:159).                                     *)
(***************************************************************************)
OncePerPeriod == \A e \in Emails : mail[e] <= 1 + slips[e]

(***************************************************************************)
(* Every organization is served in the end: one whose digest always fails, *)
(* a crash, a lost lease or a failed send keeps no other waiting for ever  *)
(* (digest.py:266-268, "one org's failure is isolated").                   *)
(***************************************************************************)
EveryOrgServed ==
  \A o \in Orgs, k \in Kinds :
    <>((\E f \in Phase : k \in KindsOf(f, o)) /\ ~ (k = "digest" /\ o \in Broken)
         => <<o, k>> \in noted)
=============================================================================
