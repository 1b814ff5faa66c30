--------------------------- MODULE TrackingProofs ---------------------------
(***************************************************************************)
(* What holds of what goes on after the first scan, for any values of the  *)
(* constants: the mails of the week and of the month (Phases), the scans   *)
(* of a monitored site and their alerts (Monitoring), the monitors and     *)
(* prompts of an organization (Watchlist), the runs that ask AI engines    *)
(* and their analyses (AnswerTracking).                                    *)
(***************************************************************************)
EXTENDS Phases, Monitoring, AnswerTracking, Watchlist, FiniteSetTheorems,
        WellFoundedInduction, TLAPS

(***************************************************************************)
(* Weekly and monthly mails (Phases)                                       *)
(***************************************************************************)

Passing == [pc : {"idle", "loop", "check", "send", "record", "end"}, phase : Phase,
            todo : SUBSET Orgs, org : Orgs \cup {"none"}, kinds : SUBSET Kinds]

\* Nobody or one process
Holders == {S \in SUBSET PhProc : \A x, y \in S : x = y}

PhaseTypes ==
  /\ phlease \in [Phase -> Holders]
  /\ pass \in [PhProc -> Passing]
  /\ noted \subseteq Emails
  /\ mail \in [Emails -> Nat] /\ slips \in [Emails -> Nat]

\* Which kinds of email a phase has to do with
KindsIn(phase) == IF phase = "digests" THEN {"digest"} ELSE {"weekly", "monthly"}

\* The organization and the kinds of email a process has in hand
InHand(p) ==
  /\ pass[p].pc \in {"check", "send", "record"} =>
       pass[p].org \in Orgs /\ pass[p].kinds \subseteq KindsIn(pass[p].phase)
  /\ pass[p].pc \in {"send", "record"} => pass[p].kinds # {}

\* Process p is about to record, or to send, email e.
Writes(p, e) == PhAt(p, "record") /\ EmailOf(p) = e
Sends(p, e) == PhAt(p, "send") /\ EmailOf(p) = e
\* A process without the lease that may yet send the email
Owes(p, e) == ~ Fenced(p) /\ e \in Loose(p) /\ ~ Writes(p, e)

Owing(e) == {p \in PhProc : Owes(p, e)}
\* How often the email was sent or may yet be without the lease
SentDue(e) == mail[e] + Cardinality(Owing(e))

\* Every sending is paid for: by the one allowed, until the email is recorded, or by a slip.
Paid(e) ==
  /\ IsFiniteSet(Owing(e))
  /\ SentDue(e) <= slips[e] + 1
  /\ e \notin noted /\ (\A p \in PhProc : ~ (Fenced(p) /\ Writes(p, e))) => SentDue(e) <= slips[e]
  /\ (\E p \in PhProc : Fenced(p) /\ Sends(p, e)) => SentDue(e) <= slips[e]

(***************************************************************************)
(* The inductive invariant of the mail phases (leader.py, PhaseLease;      *)
(* notifications.py, maybe_send_summaries; digest.py, maybe_send_digests): *)
(* an email was sent or may yet be sent, by a process that has lost its    *)
(* lease, no more often than the slips allow, and once more by the holder  *)
(* of the lease or because it is recorded.                                 *)
(***************************************************************************)
PhaseInv == PhaseTypes /\ (\A p \in PhProc : InHand(p)) /\ (\A e \in Emails : Paid(e))

\* The invariant holds at the start.
LEMMA PhaseInit == PhInit => PhaseInv
<1> SUFFICES ASSUME PhInit PROVE PhaseInv
  OBVIOUS
<1>1. \A p \in PhProc : pass[p] \in Passing /\ pass[p].pc = "idle"
  BY DEF PhInit, Resting, Passing, Phase, Kinds
<1>2. PhaseTypes
  BY <1>1 DEF PhInit, PhaseTypes, Phase, Emails, Holders
<1>3. \A p \in PhProc : InHand(p)
  BY <1>1 DEF InHand
<1>4. ASSUME NEW e \in Emails PROVE Paid(e)
  <2>1. Owing(e) = {}
    BY <1>1 DEF Owing, Owes, Loose
  <2>2. mail[e] = 0 /\ slips[e] = 0
    BY DEF PhInit
  <2> QED  BY <1>1, <2>1, <2>2, FS_EmptySet DEF Paid, SentDue, Sends, PhAt
<1> QED  BY <1>2, <1>3, <1>4 DEF PhaseInv

\* The email in hand is one of those still loose.
LEMMA InHandLoose ==
  ASSUME PhaseInv, NEW p \in PhProc
  PROVE  /\ pass[p] \in Passing /\ InHand(p)
         /\ pass[p].kinds # {} => KindOf(p) \in pass[p].kinds
         /\ \A e : Writes(p, e) \/ Sends(p, e) => e \in Loose(p)
<1>1. pass[p] \in Passing /\ InHand(p)
  BY DEF PhaseInv, PhaseTypes
<1>2. pass[p].kinds # {} => KindOf(p) \in pass[p].kinds
  BY DEF KindOf
<1>3. \A e : Writes(p, e) \/ Sends(p, e) => e \in Loose(p)
  BY <1>1, <1>2 DEF Writes, Sends, Loose, EmailOf, PhAt, InHand
<1> QED  BY <1>1, <1>2, <1>3

\* Two processes do not both hold the lease of the phase an email belongs to.
LEMMA OneSender ==
  ASSUME PhaseInv, NEW p \in PhProc, NEW q \in PhProc, p # q, Fenced(p), Fenced(q), NEW e,
         e \in Loose(p), e \in Loose(q)
  PROVE  FALSE
<1>1. PICK k \in pass[p].kinds : e = <<pass[p].org, k>> /\ pass[p].pc \in {"check", "send", "record"}
  BY DEF Loose
<1>2. PICK l \in pass[q].kinds : e = <<pass[q].org, l>> /\ pass[q].pc \in {"check", "send", "record"}
  BY DEF Loose
<1>3. k = l
  BY <1>1, <1>2
<1>4. k \in KindsIn(pass[p].phase) /\ k \in KindsIn(pass[q].phase)
  BY <1>1, <1>2, <1>3 DEF PhaseInv, InHand
<1>5. pass[p].phase \in {"summaries", "digests"} /\ pass[q].phase \in {"summaries", "digests"}
  BY InHandLoose DEF Passing, Phase
<1>6. pass[p].phase = pass[q].phase
  BY <1>4, <1>5 DEF KindsIn
<1> QED  BY <1>6 DEF Fenced

\* Process p moves, and nobody else does.
OnlyMoves(p) == \A q \in PhProc \ {p} : pass'[q] = pass[q] /\ (Fenced(q)' <=> Fenced(q))

One(b) == IF b THEN 1 ELSE 0

\* Who owes an email, when one process moves
LEMMA OwingStep ==
  ASSUME PhaseInv, NEW p \in PhProc, OnlyMoves(p), NEW e \in Emails
  PROVE  /\ IsFiniteSet(Owing(e)') /\ Cardinality(Owing(e)) \in Nat
         /\ Cardinality(Owing(e)') = Cardinality(Owing(e)) + One(Owes(p, e)') - One(Owes(p, e))
<1> DEFINE S == Owing(e)  T == Owing(e)'
<1>0. PICK a \in BOOLEAN, b \in BOOLEAN : (a <=> Owes(p, e)) /\ (b <=> Owes(p, e)')
  OBVIOUS
<1>1. IsFiniteSet(S) /\ Cardinality(S) \in Nat
  BY FS_CardinalityType DEF PhaseInv, Paid
<1>2. \A q \in PhProc \ {p} : q \in T <=> q \in S
  BY DEF OnlyMoves, Owing, Owes, Loose, Writes, EmailOf, KindOf, PhAt
<1>3. (p \in S <=> Owes(p, e)) /\ (p \in T <=> Owes(p, e)')
  BY DEF Owing
<1>4. S \subseteq PhProc /\ T \subseteq PhProc
  BY DEF Owing
<1> HIDE DEF S, T
<1>5. CASE a = b
  <2>1. T = S
    BY <1>0, <1>2, <1>3, <1>4, <1>5
  <2> QED  BY <1>0, <1>1, <1>5, <2>1 DEF One, S, T
<1>6. CASE a /\ ~ b
  <2>1. T = S \ {p} /\ p \in S
    BY <1>0, <1>2, <1>3, <1>4, <1>6
  <2>2. IsFiniteSet(T) /\ Cardinality(T) = Cardinality(S) - 1
    BY <1>1, <2>1, FS_RemoveElement
  <2> QED  BY <1>0, <1>1, <1>6, <2>2 DEF One, S, T
<1>7. CASE ~ a /\ b
  <2>1. T = S \cup {p} /\ p \notin S
    BY <1>0, <1>2, <1>3, <1>4, <1>7
  <2>2. IsFiniteSet(T) /\ Cardinality(T) = Cardinality(S) + 1
    BY <1>1, <2>1, FS_AddElement
  <2> QED  BY <1>0, <1>1, <1>7, <2>2 DEF One, S, T
<1> QED  BY <1>5, <1>6, <1>7

(* How a step keeps the balance of one email: what it adds to the emails sent  *)
(* and owed is added to the slips, but for the delivery under the lease.       *)
\* An email stays paid for when one process moves, by one of four reasons.
LEMMA PaidStep ==
  ASSUME PhaseInv, PhaseTypes', NEW p \in PhProc, OnlyMoves(p), NEW e \in Emails,
         noted \subseteq noted',
         \/ mail'[e] + One(Owes(p, e)') + slips[e] <= mail[e] + One(Owes(p, e)) + slips'[e]
         \/ /\ Fenced(p) /\ Sends(p, e) /\ (Fenced(p) /\ Writes(p, e))'
            /\ mail'[e] = mail[e] + 1 /\ slips'[e] = slips[e],
         Fenced(p) /\ Writes(p, e) =>
            \/ e \in noted' \/ (Fenced(p) /\ Writes(p, e))'
            \/ mail'[e] + One(Owes(p, e)') + slips[e] + 1 <= mail[e] + One(Owes(p, e)) + slips'[e],
         (Fenced(p) /\ Sends(p, e))' =>
            \/ Fenced(p) /\ Sends(p, e)
            \/ e \notin noted /\ Fenced(p) /\ e \in Loose(p) /\ PhAt(p, "check")
  PROVE  Paid(e)'
<1> DEFINE n == Cardinality(Owing(e))  k == Cardinality(Owing(e)')
           a == One(Owes(p, e))  b == One(Owes(p, e)')
<1>1. /\ IsFiniteSet(Owing(e)') /\ n \in Nat /\ k = n + b - a
  BY OwingStep
<1>2. a \in {0, 1} /\ b \in {0, 1}
  BY DEF One
<1>3. mail[e] \in Nat /\ slips[e] \in Nat /\ mail'[e] \in Nat /\ slips'[e] \in Nat
  BY DEF PhaseInv, PhaseTypes
<1>4. /\ mail[e] + n <= slips[e] + 1
      /\ e \notin noted /\ (\A q \in PhProc : ~ (Fenced(q) /\ Writes(q, e))) => mail[e] + n <= slips[e]
      /\ (\E q \in PhProc : Fenced(q) /\ Sends(q, e)) => mail[e] + n <= slips[e]
  BY DEF PhaseInv, Paid, SentDue
<1>5. \A q \in PhProc \ {p} :
        /\ (Writes(q, e)' <=> Writes(q, e)) /\ (Sends(q, e)' <=> Sends(q, e))
        /\ (Fenced(q)' <=> Fenced(q))
  BY DEF OnlyMoves, Writes, Sends, EmailOf, KindOf, PhAt
<1>6. SentDue(e)' = mail'[e] + k
  BY DEF SentDue
<1>7. CASE /\ Fenced(p) /\ Sends(p, e) /\ (Fenced(p) /\ Writes(p, e))'
           /\ mail'[e] = mail[e] + 1 /\ slips'[e] = slips[e]
  <2>1. mail[e] + n <= slips[e]
    BY <1>4, <1>7
  <2>2. ~ Owes(p, e) /\ ~ Owes(p, e)'
    BY <1>7 DEF Owes
  <2>3. a = 0 /\ b = 0
    BY <2>2 DEF One
  <2> HIDE DEF n, k, a, b
  <2>4. mail'[e] + k <= slips'[e] + 1
    BY <1>1, <1>3, <1>7, <2>1, <2>3
  <2>5. ~ \E q \in PhProc : (Fenced(q) /\ Sends(q, e))'
    <3>1. ~ Sends(p, e)'
      BY <1>7 DEF Sends, Writes, PhAt
    <3>2. \A q \in PhProc \ {p} : ~ (Fenced(q) /\ Sends(q, e))
      BY <1>7, InHandLoose, OneSender
    <3> QED  BY <1>5, <3>1, <3>2
  <2> QED  BY <1>1, <1>6, <1>7, <2>4, <2>5 DEF Paid
<1>8. CASE mail'[e] + b + slips[e] <= mail[e] + a + slips'[e]
  <2> HIDE DEF n, k, a, b
  <2>1. mail'[e] + k <= slips'[e] + 1
    BY <1>1, <1>2, <1>3, <1>4, <1>8
  <2>2. mail[e] + n <= slips[e] => mail'[e] + k <= slips'[e]
    BY <1>1, <1>2, <1>3, <1>8
  <2>3. ASSUME e \notin noted', \A q \in PhProc : ~ (Fenced(q) /\ Writes(q, e))'
        PROVE  mail'[e] + k <= slips'[e]
    <3>1. CASE Fenced(p) /\ Writes(p, e)
      <4>1. mail'[e] + b + slips[e] + 1 <= mail[e] + a + slips'[e]
        BY <2>3, <3>1 DEF a, b
      <4> QED  BY <1>1, <1>2, <1>3, <1>4, <4>1
    <3>2. CASE ~ (Fenced(p) /\ Writes(p, e))
      <4>1. \A q \in PhProc : ~ (Fenced(q) /\ Writes(q, e))
        BY <1>5, <2>3, <3>2
      <4> QED  BY <1>4, <2>2, <2>3, <4>1
    <3> QED  BY <3>1, <3>2
  <2>4. ASSUME NEW q \in PhProc, (Fenced(q) /\ Sends(q, e))'
        PROVE  mail'[e] + k <= slips'[e]
    <3>1. CASE Fenced(q) /\ Sends(q, e)
      BY <1>4, <2>2, <3>1
    <3>2. CASE ~ (Fenced(q) /\ Sends(q, e))
      <4>1. q = p
        BY <1>5, <2>4, <3>2
      <4>2. e \notin noted /\ Fenced(p) /\ e \in Loose(p) /\ PhAt(p, "check")
        BY <2>4, <3>2, <4>1
      <4>3. \A r \in PhProc : ~ (Fenced(r) /\ Writes(r, e))
        <5>1. ~ Writes(p, e)
          BY <4>2 DEF Writes, PhAt
        <5> QED  BY <4>2, <5>1, InHandLoose, OneSender
      <4> QED  BY <1>4, <2>2, <4>2, <4>3
    <3> QED  BY <3>1, <3>2
  <2> QED  BY <1>1, <1>6, <2>1, <2>3, <2>4 DEF Paid, k
<1> QED  BY <1>7, <1>8

\* Processes that do not move keep what they have in hand.
LEMMA PhaseLater ==
  ASSUME PhaseInv, PhaseTypes', NEW p \in PhProc, OnlyMoves(p), InHand(p)', \A e \in Emails : Paid(e)'
  PROVE  PhaseInv'
<1>1. \A q \in PhProc : InHand(q)'
  BY DEF PhaseInv, OnlyMoves, InHand
<1> QED  BY <1>1 DEF PhaseInv

\* Between two organizations no email is in hand.
LEMMA BetweenOrgs ==
  ASSUME PhaseInv, NEW p \in PhProc, BeginPhase(p) \/ EndPhase(p) \/ NextOrg(p) \/ StopGoing(p)
  PROVE  PhaseInv'
<1>1. pass[p] \in Passing /\ pass[p].phase \in Phase
  BY InHandLoose DEF Passing
<1>2. UNCHANGED <<noted, mail, slips>> /\ pass[p].pc \in {"idle", "end", "loop"}
  BY DEF BeginPhase, EndPhase, NextOrg, StopGoing, PhAt
<1>3. PICK r : /\ r \in Passing /\ pass' = [pass EXCEPT ![p] = r] /\ r.pc \in {"idle", "loop", "end", "check"}
               /\ r.pc = "check" => /\ r.org \in Orgs /\ r.kinds \subseteq KindsIn(r.phase)
                                    /\ r.phase = pass[p].phase /\ Fenced(p) /\ phlease' = phlease
  <2>1. \A f \in Phase : OtherPhase(f) \in Phase
    BY DEF OtherPhase, Phase
  <2>2. \A f \in Phase : Resting(f) \in Passing /\ Resting(f).pc = "idle"
    BY DEF Resting, Passing
  <2>3. CASE BeginPhase(p)
    <3>1. [pass[p] EXCEPT !.pc = "loop", !.todo = Orgs] \in Passing
      BY <1>1 DEF Passing
    <3>2. [pass[p] EXCEPT !.pc = "loop", !.todo = Orgs].pc = "loop"
      BY <1>1 DEF Passing
    <3> QED  BY <1>1, <2>1, <2>2, <2>3, <3>1, <3>2 DEF BeginPhase, PhaseInv, PhaseTypes
  <2>4. CASE EndPhase(p)
    BY <1>1, <2>1, <2>2, <2>4 DEF EndPhase
  <2>5. CASE NextOrg(p)
    <3>1. CASE PhGo(p, "end") /\ ~ Fenced(p)
      <4>1. [pass[p] EXCEPT !.pc = "end"] \in Passing /\ [pass[p] EXCEPT !.pc = "end"].pc = "end"
        BY <1>1 DEF Passing
      <4> QED  BY <3>1, <4>1 DEF PhGo
    <3>2. CASE \E o \in pass[p].todo :
                  /\ Fenced(p)
                  /\ pass' = [pass EXCEPT ![p] = [pass[p] EXCEPT !.pc = "check", !.org = o,
                                 !.todo = pass[p].todo \ {o}, !.kinds = KindsOf(pass[p].phase, o)]]
      <4>1. PICK o \in pass[p].todo : 
                  /\ Fenced(p)
                  /\ pass' = [pass EXCEPT ![p] = [pass[p] EXCEPT !.pc = "check", !.org = o,
                                 !.todo = pass[p].todo \ {o}, !.kinds = KindsOf(pass[p].phase, o)]]
        BY <3>2
      <4>2. o \in Orgs /\ pass[p].todo \ {o} \in SUBSET Orgs
        BY <1>1 DEF Passing
      <4>3. KindsOf(pass[p].phase, o) \subseteq KindsIn(pass[p].phase) /\ KindsOf(pass[p].phase, o) \in SUBSET Kinds
        BY DEF KindsOf, KindsIn, Kinds
      <4> DEFINE todo == pass[p].todo \ {o}  kinds == KindsOf(pass[p].phase, o)
                 r == [pass[p] EXCEPT !.pc = "check", !.org = o, !.todo = todo, !.kinds = kinds]
      <4>4. pass' = [pass EXCEPT ![p] = r]
        BY <4>1
      <4> HIDE DEF todo, kinds
      <4>5. /\ r \in Passing /\ r.pc = "check" /\ r.org = o /\ r.kinds = kinds /\ r.phase = pass[p].phase
        BY <1>1, <4>2, <4>3 DEF Passing, todo, kinds
      <4> HIDE DEF r
      <4>6. phlease' = phlease
        BY <2>5 DEF NextOrg
      <4> QED  BY <4>1, <4>2, <4>3, <4>4, <4>5, <4>6 DEF kinds
    <3> QED  BY <2>5, <3>1, <3>2 DEF NextOrg
  <2>6. CASE StopGoing(p)
    <3>1. [pass[p] EXCEPT !.pc = "end"] \in Passing /\ [pass[p] EXCEPT !.pc = "end"].pc = "end"
      BY <1>1 DEF Passing
    <3> QED  BY <2>6, <3>1 DEF StopGoing, PhGo
  <2> QED  BY <2>3, <2>4, <2>5, <2>6
<1>4. /\ phlease' \in [Phase -> Holders]
      /\ \/ phlease' = phlease
         \/ /\ phlease[pass[p].phase] = {} 
            /\ phlease' = [phlease EXCEPT ![pass[p].phase] = {p}]
         \/ phlease' = [phlease EXCEPT ![pass[p].phase] = phlease[pass[p].phase] \ {p}]
  <2>0. phlease \in [Phase -> Holders] /\ {p} \in Holders /\ phlease[pass[p].phase] \ {p} \in Holders
    BY <1>1 DEF PhaseInv, PhaseTypes, Holders
  <2>1. CASE BeginPhase(p)
    BY <2>0, <2>1, <1>1 DEF BeginPhase
  <2>2. CASE EndPhase(p)
    <3>1. phlease' = [phlease EXCEPT ![pass[p].phase] = phlease[pass[p].phase] \ {p}]
      BY <2>2 DEF EndPhase
    <3> QED  BY <2>0, <3>1, <1>1
  <2>3. CASE NextOrg(p) \/ StopGoing(p)
    BY <2>0, <2>3 DEF NextOrg, StopGoing
  <2> QED  BY <2>1, <2>2, <2>3
<1>5. pass'[p] = r /\ \A q \in PhProc \ {p} : pass'[q] = pass[q]
  BY <1>3 DEF PhaseInv, PhaseTypes
<1>6. OnlyMoves(p)
  <2> SUFFICES ASSUME NEW q \in PhProc \ {p} PROVE Fenced(q)' <=> Fenced(q)
    BY <1>5 DEF OnlyMoves
  <2>1. phlease'[pass[q].phase] = {q} <=> phlease[pass[q].phase] = {q}
    <3>1. pass[q].phase \in Phase
      BY InHandLoose DEF Passing
    <3>2. phlease[pass[q].phase] \in Holders /\ phlease \in [Phase -> Holders]
      BY <3>1 DEF PhaseInv, PhaseTypes
    <3>3. phlease[pass[q].phase] \ {p} = {q} => phlease[pass[q].phase] = {q}
      BY <3>2 DEF Holders
    <3> QED  BY <1>1, <1>4, <3>1, <3>2, <3>3
  <2> QED  BY <1>5, <2>1 DEF Fenced
<1>7. PhaseTypes'
  BY <1>2, <1>3, <1>4 DEF PhaseInv, PhaseTypes
<1>8. InHand(p)'
  BY <1>3, <1>5 DEF InHand
<1>9. ASSUME NEW e \in Emails PROVE Paid(e)'
  <2>1. ~ Writes(p, e) /\ ~ Sends(p, e) /\ ~ Owes(p, e)
    BY <1>2 DEF Writes, Sends, Owes, Loose, PhAt
  <2>2. ~ Writes(p, e)' /\ ~ Sends(p, e)'
    BY <1>3, <1>5 DEF Writes, Sends, PhAt
  <2>3. ~ Owes(p, e)'
    <3>1. CASE r.pc = "check"
      <4>1. Fenced(p)'
        BY <1>3, <1>5, <3>1 DEF Fenced
      <4> QED  BY <4>1 DEF Owes
    <3>2. CASE r.pc # "check"
      BY <1>3, <1>5, <3>2 DEF Owes, Loose
    <3> QED  BY <3>1, <3>2
  <2>4. mail'[e] + One(Owes(p, e)') + slips[e] <= mail[e] + One(Owes(p, e)) + slips'[e]
    <3>1. mail[e] \in Nat /\ slips[e] \in Nat
      BY DEF PhaseInv, PhaseTypes
    <3> QED  BY <1>2, <2>1, <2>3, <3>1 DEF One
  <2> QED  BY <1>2, <1>6, <1>7, <2>1, <2>2, <2>4, PaidStep
<1> QED  BY <1>6, <1>7, <1>8, <1>9, PhaseLater

\* A step that sends nothing and drops nothing
LEMMA GoesOn ==
  ASSUME PhaseInv, NEW p \in PhProc, NEW x \in {"idle", "loop", "check", "send", "record", "end"},
         PhGo(p, x), phlease' = phlease
  PROVE  /\ pass' \in [PhProc -> Passing] /\ OnlyMoves(p) /\ (Fenced(p)' <=> Fenced(p))
         /\ pass'[p].pc = x /\ pass'[p].org = pass[p].org
         /\ pass'[p].phase = pass[p].phase /\ pass'[p].kinds = pass[p].kinds
<1>1. pass \in [PhProc -> Passing] /\ pass[p] \in Passing
  BY DEF PhaseInv, PhaseTypes
<1> DEFINE r == [pass[p] EXCEPT !.pc = x]
<1>2. pass' = [pass EXCEPT ![p] = r]
  BY DEF PhGo
<1>3. /\ r \in Passing /\ r.pc = x /\ r.org = pass[p].org /\ r.phase = pass[p].phase
      /\ r.kinds = pass[p].kinds
  BY <1>1 DEF Passing
<1> HIDE DEF r
<1>4. pass'[p] = r /\ \A q \in PhProc \ {p} : pass'[q] = pass[q]
  BY <1>1, <1>2
<1>5. OnlyMoves(p) /\ (Fenced(p)' <=> Fenced(p))
  BY <1>3, <1>4 DEF OnlyMoves, Fenced
<1> QED  BY <1>1, <1>2, <1>3, <1>4, <1>5

\* A kind of email is dropped from what a process has in hand.
LEMMA KindDropped ==
  ASSUME PhaseInv, NEW p \in PhProc, DropKind(p), phlease' = phlease
  PROVE  /\ pass' \in [PhProc -> Passing] /\ OnlyMoves(p) /\ (Fenced(p)' <=> Fenced(p))
         /\ pass'[p].pc = "check" /\ pass'[p].org = pass[p].org
         /\ pass'[p].phase = pass[p].phase /\ pass'[p].kinds = pass[p].kinds \ {KindOf(p)}
<1>1. pass \in [PhProc -> Passing] /\ pass[p] \in Passing
  BY DEF PhaseInv, PhaseTypes
<1> DEFINE ks == pass[p].kinds \ {KindOf(p)}
           r == [pass[p] EXCEPT !.pc = "check", !.kinds = ks]
<1>2. pass' = [pass EXCEPT ![p] = r]
  BY <1>1 DEF DropKind
<1>3. ks \in SUBSET Kinds
  BY <1>1 DEF Passing
<1> HIDE DEF ks
<1>4. /\ r \in Passing /\ r.pc = "check" /\ r.org = pass[p].org /\ r.phase = pass[p].phase
      /\ r.kinds = ks
  BY <1>1, <1>3 DEF Passing
<1> HIDE DEF r
<1>5. pass'[p] = r /\ \A q \in PhProc \ {p} : pass'[q] = pass[q]
  BY <1>1, <1>2
<1>6. OnlyMoves(p) /\ (Fenced(p)' <=> Fenced(p))
  BY <1>4, <1>5 DEF OnlyMoves, Fenced
<1> QED  BY <1>1, <1>2, <1>4, <1>5, <1>6 DEF ks

\* The email in hand is dropped from what the process may yet send, and no other.
LEMMA DroppedOne ==
  ASSUME PhaseInv, NEW p \in PhProc, DropKind(p), phlease' = phlease,
         pass[p].pc \in {"check", "send", "record"}, pass[p].kinds # {}, NEW e \in Emails
  PROVE  /\ e \in Loose(p)' <=> e \in Loose(p) /\ e # EmailOf(p)
         /\ EmailOf(p) \in Loose(p) /\ EmailOf(p) \in Emails
         /\ ~ Writes(p, e)' /\ ~ Sends(p, e)'
<1>1. /\ pass'[p].pc = "check" /\ pass'[p].org = pass[p].org
      /\ pass'[p].kinds = pass[p].kinds \ {KindOf(p)}
  BY KindDropped
<1>2. KindOf(p) \in pass[p].kinds /\ pass[p].org \in Orgs /\ pass[p].kinds \subseteq Kinds
  BY InHandLoose DEF InHand, Passing
<1>3. e \in Loose(p)' <=> \E k \in pass[p].kinds \ {KindOf(p)} : e = <<pass[p].org, k>>
  BY <1>1 DEF Loose
<1>4. e \in Loose(p) <=> \E k \in pass[p].kinds : e = <<pass[p].org, k>>
  BY DEF Loose
<1>5. EmailOf(p) \in Loose(p) /\ EmailOf(p) \in Emails
  BY <1>2 DEF Loose, EmailOf, Emails
<1> QED  BY <1>1, <1>3, <1>4, <1>5 DEF Writes, Sends, PhAt, EmailOf

\* The lease is checked, and the email sent next is not yet recorded.
LEMMA Checked ==
  ASSUME PhaseInv, NEW p \in PhProc, CheckKind(p)
  PROVE  PhaseInv'
<1>1. PhAt(p, "check") /\ UNCHANGED <<phlease, noted, mail, slips>> /\ pass[p].pc = "check"
  BY DEF CheckKind, PhAt
<1>2. \A e \in Emails : mail[e] \in Nat /\ slips[e] \in Nat
  BY DEF PhaseInv, PhaseTypes
<1>3. \A e : ~ Writes(p, e) /\ ~ Sends(p, e)
  BY <1>1 DEF Writes, Sends, PhAt
<1>4. CASE pass[p].kinds = {} /\ PhGo(p, "loop")
  <2>1. /\ pass' \in [PhProc -> Passing] /\ OnlyMoves(p)
        /\ pass'[p].pc = "loop"
    BY <1>1, <1>4, GoesOn
  <2>2. PhaseTypes' /\ InHand(p)'
    BY <1>1, <2>1 DEF PhaseInv, PhaseTypes, InHand
  <2>3. ASSUME NEW e \in Emails PROVE Paid(e)'
    <3>1. ~ Writes(p, e)' /\ ~ Sends(p, e)' /\ ~ Owes(p, e)' /\ ~ Owes(p, e)
      BY <1>4, <2>1 DEF Writes, Sends, PhAt, Owes, Loose
    <3>2. mail'[e] + One(Owes(p, e)') + slips[e] <= mail[e] + One(Owes(p, e)) + slips'[e]
      BY <1>1, <1>2, <3>1 DEF One
    <3> QED  BY <1>1, <1>3, <2>1, <2>2, <3>1, <3>2, PaidStep
  <2> QED  BY <2>1, <2>2, <2>3, PhaseLater
<1>5. CASE pass[p].kinds # {} /\ DropKind(p)
  <2>1. /\ pass' \in [PhProc -> Passing] /\ OnlyMoves(p) /\ (Fenced(p)' <=> Fenced(p))
        /\ pass'[p].pc = "check" /\ pass'[p].org = pass[p].org
        /\ pass'[p].phase = pass[p].phase /\ pass'[p].kinds = pass[p].kinds \ {KindOf(p)}
    BY <1>1, <1>5, KindDropped
  <2>2. PhaseTypes' /\ InHand(p)'
    BY <1>1, <2>1 DEF PhaseInv, PhaseTypes, InHand
  <2>3. ASSUME NEW e \in Emails PROVE Paid(e)'
    <3>1. ~ Writes(p, e)' /\ ~ Sends(p, e)' /\ (e \in Loose(p)' => e \in Loose(p))
      BY <1>1, <1>5, DroppedOne
    <3>2. Owes(p, e)' => Owes(p, e)
      BY <1>3, <2>1, <3>1 DEF Owes
    <3>3. mail'[e] + One(Owes(p, e)') + slips[e] <= mail[e] + One(Owes(p, e)) + slips'[e]
      BY <1>1, <1>2, <3>2 DEF One
    <3> QED  BY <1>1, <1>3, <2>1, <2>2, <3>1, <3>3, PaidStep
  <2> QED  BY <2>1, <2>2, <2>3, PhaseLater
<1>6. CASE /\ pass[p].kinds # {} /\ EmailOf(p) \notin noted
           /\ PhGo(p, IF pass[p].phase = "summaries" /\ pass[p].org \notin known THEN "record" ELSE "send")
  <2>1. PICK x \in {"send", "record"} : PhGo(p, x)
    BY <1>6
  <2>2. /\ pass' \in [PhProc -> Passing] /\ OnlyMoves(p) /\ (Fenced(p)' <=> Fenced(p))
        /\ pass'[p].pc = x /\ pass'[p].org = pass[p].org
        /\ pass'[p].phase = pass[p].phase /\ pass'[p].kinds = pass[p].kinds
    BY <1>1, <2>1, GoesOn
  <2>3. PhaseTypes' /\ InHand(p)'
    BY <1>1, <1>6, <2>2 DEF PhaseInv, PhaseTypes, InHand
  <2>4. ASSUME NEW e \in Emails PROVE Paid(e)'
    <3>1. Loose(p)' = Loose(p) /\ EmailOf(p)' = EmailOf(p)
      BY <1>1, <2>2 DEF Loose, EmailOf, KindOf
    <3>2. Owes(p, e)' => Owes(p, e)
      BY <1>3, <2>2, <3>1 DEF Owes
    <3>3. mail'[e] + One(Owes(p, e)') + slips[e] <= mail[e] + One(Owes(p, e)) + slips'[e]
      BY <1>1, <1>2, <3>2 DEF One
    <3>4. Sends(p, e)' => e \notin noted /\ e \in Loose(p)
      <4>1. EmailOf(p) \in Loose(p)
        BY <1>1, <1>6, InHandLoose DEF Loose, EmailOf
      <4> QED  BY <1>6, <3>1, <4>1 DEF Sends
    <3> QED  BY <1>1, <1>3, <2>2, <2>3, <3>3, <3>4, PaidStep
  <2> QED  BY <2>2, <2>3, <2>4, PhaseLater
<1> QED  BY <1>4, <1>5, <1>6 DEF CheckKind

\* The email is sent.
LEMMA Delivered ==
  ASSUME PhaseInv, NEW p \in PhProc, Deliver(p)
  PROVE  PhaseInv'
<1>1. pass[p].pc = "send" /\ pass[p].kinds # {} /\ UNCHANGED <<phlease, noted, slips>>
  BY InHandLoose DEF Deliver, PhAt, InHand
<1>2. \A e \in Emails : mail[e] \in Nat /\ slips[e] \in Nat
  BY DEF PhaseInv, PhaseTypes
<1>3. EmailOf(p) \in Loose(p) /\ EmailOf(p) \in Emails
  BY <1>1, InHandLoose DEF Loose, EmailOf, Emails, InHand, Passing
<1>4. \A e : ~ Writes(p, e) /\ (Sends(p, e) <=> EmailOf(p) = e)
  BY <1>1 DEF Writes, Sends, PhAt
<1>5. CASE PhGo(p, "loop") /\ UNCHANGED mail
  <2>1. pass' \in [PhProc -> Passing] /\ OnlyMoves(p) /\ pass'[p].pc = "loop"
    BY <1>1, <1>5, GoesOn
  <2>2. PhaseTypes' /\ InHand(p)'
    BY <1>1, <1>5, <2>1 DEF PhaseInv, PhaseTypes, InHand
  <2>3. ASSUME NEW e \in Emails PROVE Paid(e)'
    <3>1. ~ Writes(p, e)' /\ ~ Sends(p, e)' /\ ~ Owes(p, e)'
      BY <2>1 DEF Writes, Sends, PhAt, Owes, Loose
    <3>2. mail'[e] + One(Owes(p, e)') + slips[e] <= mail[e] + One(Owes(p, e)) + slips'[e]
      BY <1>1, <1>2, <1>5, <3>1 DEF One
    <3> QED  BY <1>1, <1>4, <2>1, <2>2, <3>1, <3>2, PaidStep
  <2> QED  BY <2>1, <2>2, <2>3, PhaseLater
<1>6. CASE mail' = [mail EXCEPT ![EmailOf(p)] = @ + 1] /\ PhGo(p, "record")
  <2>1. /\ pass' \in [PhProc -> Passing] /\ OnlyMoves(p) /\ (Fenced(p)' <=> Fenced(p))
        /\ pass'[p].pc = "record" /\ pass'[p].org = pass[p].org
        /\ pass'[p].phase = pass[p].phase /\ pass'[p].kinds = pass[p].kinds
    BY <1>1, <1>6, GoesOn
  <2>2. mail' \in [Emails -> Nat]
    BY <1>3, <1>6 DEF PhaseInv, PhaseTypes
  <2>3. PhaseTypes' /\ InHand(p)'
    BY <1>1, <2>1, <2>2 DEF PhaseInv, PhaseTypes, InHand
  <2>4. Loose(p)' = Loose(p) /\ EmailOf(p)' = EmailOf(p)
    BY <1>1, <2>1 DEF Loose, EmailOf, KindOf
  <2>5. ASSUME NEW e \in Emails PROVE Paid(e)'
    <3>1. ~ Sends(p, e)' /\ (Writes(p, e)' <=> EmailOf(p) = e)
      BY <2>1, <2>4 DEF Writes, Sends, PhAt
    <3>2. CASE EmailOf(p) = e /\ Fenced(p)
      <4>1. mail'[e] = mail[e] + 1 /\ slips'[e] = slips[e]
        BY <1>1, <1>3, <1>6, <3>2 DEF PhaseInv, PhaseTypes
      <4>2. Fenced(p) /\ Sends(p, e) /\ (Fenced(p) /\ Writes(p, e))'
        BY <1>4, <2>1, <3>1, <3>2
      <4> QED  BY <1>1, <1>4, <2>1, <2>3, <3>1, <4>1, <4>2, PaidStep
    <3>3. CASE EmailOf(p) = e /\ ~ Fenced(p)
      <4>1. mail'[e] = mail[e] + 1 /\ slips'[e] = slips[e]
        BY <1>1, <1>3, <1>6, <3>3 DEF PhaseInv, PhaseTypes
      <4>2. Owes(p, e) /\ ~ Owes(p, e)'
        BY <1>3, <1>4, <3>1, <3>3 DEF Owes
      <4>3. mail'[e] + One(Owes(p, e)') + slips[e] <= mail[e] + One(Owes(p, e)) + slips'[e]
        BY <1>2, <4>1, <4>2 DEF One
      <4> QED  BY <1>1, <1>4, <2>1, <2>3, <3>1, <4>3, PaidStep
    <3>4. CASE EmailOf(p) # e
      <4>1. mail'[e] = mail[e] /\ slips'[e] = slips[e]
        BY <1>1, <1>3, <1>6, <3>4 DEF PhaseInv, PhaseTypes
      <4>2. Owes(p, e)' <=> Owes(p, e)
        BY <1>4, <2>1, <2>4, <3>1, <3>4 DEF Owes
      <4>3. mail'[e] + One(Owes(p, e)') + slips[e] <= mail[e] + One(Owes(p, e)) + slips'[e]
        BY <1>2, <4>1, <4>2 DEF One
      <4> QED  BY <1>1, <1>4, <2>1, <2>3, <3>1, <4>3, PaidStep
    <3> QED  BY <3>2, <3>3, <3>4
  <2> QED  BY <2>1, <2>3, <2>5, PhaseLater
<1> QED  BY <1>5, <1>6 DEF Deliver

\* The row is written, or a failed digest's is, and the kind is done with.
LEMMA Noted ==
  ASSUME PhaseInv, NEW p \in PhProc, Record(p) \/ DeliverFails(p)
  PROVE  PhaseInv'
<1>1. /\ pass[p].pc \in {"send", "record"} /\ pass[p].kinds # {} /\ UNCHANGED <<phlease, mail, slips>>
      /\ DropKind(p)
      /\ noted' = noted \union {EmailOf(p)} \/ (pass[p].pc = "send" /\ noted' = noted)
  <2>1. pass[p].pc \in {"send", "record"} /\ pass[p].kinds # {}
    <3>1. pass[p].pc \in {"send", "record"}
      BY DEF Record, DeliverFails, PhAt
    <3> QED  BY <3>1, InHandLoose DEF InHand
  <2>2. UNCHANGED <<phlease, mail, slips>> /\ DropKind(p)
    BY DEF Record, DeliverFails
  <2>3. noted' = noted \union {EmailOf(p)} \/ (pass[p].pc = "send" /\ noted' = noted)
    <3>1. CASE Record(p)
      BY <3>1 DEF Record
    <3>2. CASE DeliverFails(p)
      BY <3>2 DEF DeliverFails, PhAt
    <3> QED  BY <3>1, <3>2
  <2> QED  BY <2>1, <2>2, <2>3
<1>2. \A e \in Emails : mail[e] \in Nat /\ slips[e] \in Nat
  BY DEF PhaseInv, PhaseTypes
<1>3. \A e \in Emails : /\ e \in Loose(p)' <=> e \in Loose(p) /\ e # EmailOf(p)
                         /\ ~ Writes(p, e)' /\ ~ Sends(p, e)'
  BY <1>1, DroppedOne
<1>4. EmailOf(p) \in Emails
  BY <1>1, InHandLoose DEF EmailOf, Emails, InHand, Passing
<1>5. /\ pass' \in [PhProc -> Passing] /\ OnlyMoves(p) /\ (Fenced(p)' <=> Fenced(p))
      /\ pass'[p].pc = "check" /\ pass'[p].org = pass[p].org
      /\ pass'[p].phase = pass[p].phase /\ pass'[p].kinds = pass[p].kinds \ {KindOf(p)}
  BY <1>1, KindDropped
<1>6. PhaseTypes' /\ InHand(p)' /\ noted \subseteq noted'
  BY <1>1, <1>4, <1>5 DEF PhaseInv, PhaseTypes, InHand
<1>7. ASSUME NEW e \in Emails PROVE Paid(e)'
  <2>1. Owes(p, e)' => Owes(p, e)
    BY <1>3, <1>5 DEF Owes, Writes
  <2>2. mail'[e] + One(Owes(p, e)') + slips[e] <= mail[e] + One(Owes(p, e)) + slips'[e]
    BY <1>1, <1>2, <2>1 DEF One
  <2>3. Writes(p, e) => e \in noted'
    BY <1>1 DEF Writes, PhAt
  <2>4. ~ Sends(p, e)'
    BY <1>5 DEF Sends, PhAt
  <2> QED  BY <1>5, <1>6, <2>2, <2>3, <2>4, PaidStep
<1> QED  BY <1>5, <1>6, <1>7, PhaseLater

\* A lost lease owes an allowance for every email the process may yet send.
LEMMA LeaseLost ==
  ASSUME PhaseInv, NEW p \in PhProc, LoseLease(p)
  PROVE  PhaseInv'
<1>1. Fenced(p) /\ UNCHANGED <<pass, noted, mail>> /\ phlease' = [phlease EXCEPT ![pass[p].phase] = {}]
  BY DEF LoseLease
<1>2. slips' = [e \in Emails |-> IF e \in Loose(p) THEN slips[e] + 1 ELSE slips[e]]
  BY DEF LoseLease, Slip
<1>3. \A e \in Emails : mail[e] \in Nat /\ slips[e] \in Nat
  BY DEF PhaseInv, PhaseTypes
<1>4. \A q \in PhProc : pass[q].phase \in Phase
  BY InHandLoose DEF Passing
<1>5. OnlyMoves(p) /\ ~ Fenced(p)'
  <2>1. phlease \in [Phase -> Holders]
    BY DEF PhaseInv, PhaseTypes
  <2>2. ~ Fenced(p)'
    BY <1>1, <1>4, <2>1 DEF Fenced
  <2>3. \A q \in PhProc \ {p} : Fenced(q)' <=> Fenced(q)
    BY <1>1, <1>4, <2>1 DEF Fenced
  <2> QED  BY <1>1, <2>2, <2>3 DEF OnlyMoves
<1>6. PhaseTypes' /\ InHand(p)'
  <2>1. {} \in Holders
    BY DEF Holders
  <2>2. slips' \in [Emails -> Nat]
    BY <1>2, <1>3
  <2> QED  BY <1>1, <2>1, <2>2 DEF PhaseInv, PhaseTypes, InHand
<1>7. ASSUME NEW e \in Emails PROVE Paid(e)'
  <2>1. (Writes(p, e)' <=> Writes(p, e)) /\ (Sends(p, e)' <=> Sends(p, e)) /\ Loose(p)' = Loose(p)
    BY <1>1 DEF Writes, Sends, PhAt, EmailOf, KindOf, Loose
  <2>2. ~ Owes(p, e) /\ (Owes(p, e)' <=> e \in Loose(p) /\ ~ Writes(p, e))
    BY <1>1, <1>5, <2>1 DEF Owes
  <2>3. Writes(p, e) => e \in Loose(p)
    BY InHandLoose
  <2>4. slips'[e] = slips[e] + One(e \in Loose(p))
    BY <1>2, <1>3 DEF One
  <2>5. /\ mail'[e] + One(Owes(p, e)') + slips[e] <= mail[e] + One(Owes(p, e)) + slips'[e]
    BY <1>1, <1>3, <2>2, <2>4 DEF One
  <2>6. Writes(p, e) => mail'[e] + One(Owes(p, e)') + slips[e] + 1 <= mail[e] + One(Owes(p, e)) + slips'[e]
    BY <1>1, <1>3, <2>2, <2>3, <2>4 DEF One
  <2> QED  BY <1>1, <1>5, <1>6, <2>5, <2>6, PaidStep
<1> QED  BY <1>5, <1>6, <1>7, PhaseLater

\* So does a crash.
LEMMA Crashed ==
  ASSUME PhaseInv, NEW p \in PhProc, PhCrash(p)
  PROVE  PhaseInv'
<1>1. UNCHANGED <<phlease, noted, mail>> /\ pass' = [pass EXCEPT ![p] = Resting("summaries")]
  BY DEF PhCrash
<1>2. slips' = [e \in Emails |-> IF e \in (IF PhAt(p, "record") THEN {EmailOf(p)} ELSE {})
                                THEN slips[e] + 1 ELSE slips[e]]
  BY DEF PhCrash, Slip
<1>3. \A e \in Emails : mail[e] \in Nat /\ slips[e] \in Nat
  BY DEF PhaseInv, PhaseTypes
<1>4. Resting("summaries") \in Passing /\ Resting("summaries").pc = "idle"
  BY DEF Resting, Passing, Phase
<1>5. /\ pass' \in [PhProc -> Passing] /\ pass'[p].pc = "idle"
      /\ \A q \in PhProc \ {p} : pass'[q] = pass[q]
  BY <1>1, <1>4 DEF PhaseInv, PhaseTypes
<1>6. OnlyMoves(p)
  BY <1>1, <1>5 DEF OnlyMoves, Fenced
<1>7. PhaseTypes' /\ InHand(p)'
  <2>1. slips' \in [Emails -> Nat]
    BY <1>2, <1>3
  <2> QED  BY <1>1, <1>5, <2>1 DEF PhaseInv, PhaseTypes, InHand
<1>8. ASSUME NEW e \in Emails PROVE Paid(e)'
  <2>1. ~ Writes(p, e)' /\ ~ Sends(p, e)' /\ ~ Owes(p, e)'
    BY <1>5 DEF Writes, Sends, PhAt, Owes, Loose
  <2>2. slips'[e] >= slips[e] /\ slips'[e] \in Nat
    BY <1>2, <1>3
  <2>3. Writes(p, e) => slips'[e] = slips[e] + 1
    BY <1>2, <1>3 DEF Writes
  <2>4. mail'[e] + One(Owes(p, e)') + slips[e] <= mail[e] + One(Owes(p, e)) + slips'[e]
    BY <1>1, <1>3, <2>1, <2>2 DEF One
  <2>5. Writes(p, e) => mail'[e] + One(Owes(p, e)') + slips[e] + 1 <= mail[e] + One(Owes(p, e)) + slips'[e]
    BY <1>1, <1>3, <2>1, <2>3 DEF One, Owes
  <2> QED  BY <1>1, <1>6, <1>7, <2>1, <2>4, <2>5, PaidStep
<1> QED  BY <1>6, <1>7, <1>8, PhaseLater

\* The lease of a process that is not in the phase protects no email.
LEMMA LeaseExpires ==
  ASSUME PhaseInv, NEW p \in PhProc, NEW f \in Phase, ExpireLease(p, f)
  PROVE  PhaseInv'
<1>1. /\ phlease[f] = {p}
      /\ pass[p].pc = "idle" \/ pass[p].phase # f
      /\ phlease' = [phlease EXCEPT ![f] = {}] /\ UNCHANGED <<pass, noted, mail, slips>>
  BY DEF ExpireLease, PhAt
<1>2. \A q \in PhProc : pass[q].phase \in Phase
  BY InHandLoose DEF Passing
<1>3. phlease \in [Phase -> Holders] /\ {} \in Holders
  BY DEF PhaseInv, PhaseTypes, Holders
<1>4. OnlyMoves(p)
  <2>1. ASSUME NEW q \in PhProc \ {p} PROVE Fenced(q)' <=> Fenced(q)
    <3>1. CASE pass[q].phase = f
      <4>1. phlease[f] # {q} /\ phlease'[f] # {q}
        BY <1>1, <1>3
      <4> QED  BY <1>1, <3>1, <4>1 DEF Fenced
    <3>2. CASE pass[q].phase # f
      BY <1>1, <1>2, <1>3, <3>2 DEF Fenced
    <3> QED  BY <3>1, <3>2
  <2> QED  BY <1>1, <2>1 DEF OnlyMoves
<1>5. PhaseTypes' /\ InHand(p)'
  BY <1>1, <1>3 DEF PhaseInv, PhaseTypes, InHand
<1>6. pass[p].pc = "idle" \/ (Fenced(p)' <=> Fenced(p))
  BY <1>1, <1>2, <1>3 DEF Fenced
<1>7. ASSUME NEW e \in Emails PROVE Paid(e)'
  <2>1. (Writes(p, e)' <=> Writes(p, e)) /\ (Sends(p, e)' <=> Sends(p, e)) /\ Loose(p)' = Loose(p)
    BY <1>1 DEF Writes, Sends, PhAt, EmailOf, KindOf, Loose
  <2>2. pass[p].pc = "idle" => Loose(p) = {} /\ ~ Writes(p, e) /\ ~ Sends(p, e)
    BY DEF Loose, Writes, Sends, PhAt
  <2>3. Owes(p, e)' <=> Owes(p, e)
    BY <1>6, <2>1, <2>2 DEF Owes
  <2>4. mail[e] \in Nat /\ slips[e] \in Nat
    BY DEF PhaseInv, PhaseTypes
  <2>5. mail'[e] + One(Owes(p, e)') + slips[e] <= mail[e] + One(Owes(p, e)) + slips'[e]
    BY <1>1, <2>3, <2>4 DEF One
  <2> QED  BY <1>1, <1>4, <1>5, <1>6, <2>1, <2>2, <2>5, PaidStep
<1> QED  BY <1>4, <1>5, <1>7, PhaseLater

\* Every step keeps the invariant.
LEMMA PhaseNext == PhaseInv /\ [PhNext]_phVars => PhaseInv'
<1> SUFFICES ASSUME PhaseInv, [PhNext]_phVars PROVE PhaseInv'
  OBVIOUS
<1>1. ASSUME NEW p \in PhProc, PhWork(p) PROVE PhaseInv'
  BY <1>1, BetweenOrgs, Checked, Delivered, Noted DEF PhWork
<1>2. ASSUME NEW p \in PhProc, DeliverFails(p) \/ LoseLease(p) \/ StopGoing(p) \/ PhCrash(p) PROVE PhaseInv'
  BY <1>2, BetweenOrgs, Noted, LeaseLost, Crashed
<1>3. CASE PhExpiry
  BY <1>3, LeaseExpires DEF PhExpiry
<1>4. CASE UNCHANGED phVars
  <2>1. \A e : Owing(e)' = Owing(e)
    BY <1>4 DEF phVars, Owing, Owes, Fenced, Loose, Writes, PhAt, EmailOf, KindOf
  <2>2. \A e \in Emails : Paid(e)'
    BY <1>4, <2>1 DEF phVars, PhaseInv, Paid, SentDue, Fenced, Writes, Sends, PhAt, EmailOf, KindOf
  <2> QED  BY <1>4, <2>2 DEF phVars, PhaseInv, PhaseTypes, InHand
<1> QED  BY <1>1, <1>2, <1>3, <1>4 DEF PhNext

(***************************************************************************)
(* For any processes, organizations and phases, no organization gets an    *)
(* email of one kind twice in its period, but for the times a process lost *)
(* its lease or died between the check and the record of that very email   *)
(* (leader.py:190-199, 228; worker.py:159).                                *)
(***************************************************************************)
THEOREM OneOfAKind == PhSpec => []OncePerPeriod
<1>1. PhInit => PhaseInv
  BY PhaseInit
<1>2. PhaseInv /\ [PhNext]_phVars => PhaseInv'
  BY PhaseNext
<1>3. PhaseInv => OncePerPeriod
  <2> SUFFICES ASSUME PhaseInv, NEW e \in Emails PROVE mail[e] <= 1 + slips[e]
    BY DEF OncePerPeriod
  <2>1. mail[e] \in Nat /\ slips[e] \in Nat /\ Cardinality(Owing(e)) \in Nat
    BY FS_CardinalityType DEF PhaseInv, PhaseTypes, Paid
  <2>2. mail[e] + Cardinality(Owing(e)) <= slips[e] + 1
    BY DEF PhaseInv, Paid, SentDue
  <2> QED  BY <2>1, <2>2
<1> QED  BY <1>1, <1>2, <1>3, PTL DEF PhSpec

----------------------------------------------------------------------------
(***************************************************************************)
(* Monitor scans and their mails (Monitoring)                              *)
(***************************************************************************)

MNSteps == {"idle", "load", "fetch", "diff", "history", "alert", "notify", "send", "log", "complete"}
JobStates == {"none", "queued", "running", "done", "failed"}
ScanResults == Health \union {"none"}
Mailing == {"notify", "send", "log"}

\* The types, and the steps of a worker
MNTypes ==
  /\ mon \in [Monitors -> Health \union {"none"}] /\ snap \in [Monitors -> Health \union {"none"}]
  /\ alert \in [Monitors -> BOOLEAN] /\ log \subseteq Monitors \X Recipient
  /\ mjob \in [Monitors -> [state : JobStates, attempts : Nat, number : Nat]]
  /\ mw \in [Monitors -> [pc : MNSteps, prev : ScanResults, curr : ScanResults, todo : SUBSET Recipient]]
  /\ fresh \in [Monitors -> BOOLEAN] /\ hist \in [Monitors -> Nat]
  /\ saw \in [Monitors -> {"none", "monitor", "manual"}] /\ untold \subseteq Monitors
  /\ inbox \in [Monitors \X Recipient -> Nat] /\ mails \in Nat /\ mnfaults \in Nat /\ manual \in Nat
  /\ mncut \in [Monitors -> SUBSET {"alert", "change", "email"}]

\* What a job has done so far shows in its state and in that of its worker.
JobSteps(m) ==
  /\ mw[m].pc = "idle" <=> mjob[m].state # "running"
  /\ mjob[m].state = "running" => mjob[m].attempts > 0
  /\ hist[m] <= 1 /\ (hist[m] = 1 => fresh[m])
  /\ mjob[m].state = "queued" /\ mjob[m].attempts = 0 => hist[m] = 0
  /\ mw[m].pc \in {"load", "fetch", "diff", "history"} => hist[m] = 0
  /\ mw[m].pc \in Mailing \union {"alert", "complete"} => fresh[m]
  /\ mjob[m].state = "done" => fresh[m]
  /\ mw[m].pc \in {"diff", "history", "alert"} => mw[m].curr \in Health

\* What has been found and not told yet is in the worker's hand, or was lost with it.
Reported(m) ==
  /\ saw[m] = "none" <=> mon[m] # "bad"
  /\ saw[m] = "monitor" => alert[m] \/ "alert" \in mncut[m] \/ (mw[m].pc = "alert" /\ Critical(m))
  /\ m \in untold => "change" \in mncut[m] \/ mw[m].pc = "diff"

\* Every mail is logged, about to be, or was cut off from its record by a fault.
BeingLogged(m, u) == mw[m].pc = "log" /\ Turn(m) = u
MailsTold(m) ==
  /\ mw[m].pc \in {"send", "log"} => mw[m].todo # {} /\ <<m, Turn(m)>> \notin log
  /\ \A u \in Recipient :
       inbox[<<m, u>>] <= (IF "email" \in mncut[m] THEN mnfaults ELSE 0)
                            + (IF <<m, u>> \in log \/ BeingLogged(m, u) THEN 1 ELSE 0)

At(pcs) == {m \in Monitors : mw[m].pc \in pcs}
MailsCounted ==
  /\ mails <= Cardinality(log) + Cardinality(At({"log"})) + mnfaults
  /\ Cardinality(log) + Cardinality(At({"send", "log"})) <= EmailCap + Cardinality(Monitors) - 1

(***************************************************************************)
(* The inductive invariant of the monitors (runner.py,                     *)
(* run_scan_for_monitor; alerts.py, persist_alerts; notifications.py,      *)
(* notify_critical_alerts): how far the job of a scan is shows in its row  *)
(* and its worker, what was found and not told yet is in the worker's hand *)
(* or was lost with it, and every mail is in the log, about to be, or was  *)
(* cut off from its entry by a fault.                                      *)
(***************************************************************************)
MNInv == MNTypes /\ (\A m \in Monitors : JobSteps(m) /\ Reported(m) /\ MailsTold(m)) /\ MailsCounted

\* The workers at some of the steps are finitely many.
LEMMA AtFinite ==
  ASSUME NEW P
  PROVE  /\ IsFiniteSet(At(P)) /\ Cardinality(At(P)) \in Nat /\ Cardinality(At(P)) <= Cardinality(Monitors)
         /\ Cardinality(At(P)') \in Nat /\ Cardinality(At(P)') <= Cardinality(Monitors)
         /\ Cardinality(Monitors) \in Nat
<1>1. IsFiniteSet(Monitors) /\ At(P) \subseteq Monitors /\ At(P)' \subseteq Monitors  BY MonitoringAssumption DEF At
<1> QED  BY <1>1, FS_Subset, FS_CardinalityType

\* So are the entries of the log.
LEMMA LogFinite == ASSUME MNTypes PROVE IsFiniteSet(log) /\ Cardinality(log) \in Nat
<1>1. IsFiniteSet(Monitors \X Recipient)  BY FS_Product, MonitoringAssumption
<1>2. log \subseteq Monitors \X Recipient  BY DEF MNTypes
<1> QED  BY <1>1, <1>2, FS_Subset, FS_CardinalityType

\* How the number of workers at some steps changes when one worker moves.
LEMMA MNMove ==
  ASSUME NEW m \in Monitors, NEW P, \A n \in Monitors \ {m} : mw'[n] = mw[n]
  PROVE  /\ (mw[m].pc \in P <=> mw'[m].pc \in P) => At(P)' = At(P)
         /\ mw[m].pc \notin P /\ mw'[m].pc \in P => Cardinality(At(P)') = Cardinality(At(P)) + 1
         /\ mw[m].pc \in P /\ mw'[m].pc \notin P => Cardinality(At(P)') = Cardinality(At(P)) - 1
<1>1. (mw[m].pc \in P <=> mw'[m].pc \in P) => At(P)' = At(P)  BY DEF At
<1>2. ASSUME mw[m].pc \notin P, mw'[m].pc \in P PROVE Cardinality(At(P)') = Cardinality(At(P)) + 1
  <2>1. At(P)' = At(P) \union {m} /\ m \notin At(P)  BY <1>2 DEF At
  <2> QED  BY <2>1, AtFinite, FS_AddElement
<1>3. ASSUME mw[m].pc \in P, mw'[m].pc \notin P PROVE Cardinality(At(P)') = Cardinality(At(P)) - 1
  <2>1. At(P)' = At(P) \ {m} /\ m \in At(P)  BY <1>3 DEF At
  <2> QED  BY <2>1, AtFinite, FS_RemoveElement
<1> QED  BY <1>1, <1>2, <1>3

\* The recipient whose turn it is is one of those still to be told.
LEMMA TurnIsOne == ASSUME NEW m \in Monitors, MNTypes, mw[m].todo # {} PROVE Turn(m) \in mw[m].todo /\ Turn(m) \in Recipient
BY DEF Turn, MNTypes

\* The steps of one monitor
MNStep(m) ==
  \/ Due(m) \/ TakeJob(m) \/ CompleteScan(m)
  \/ LoadBaseline(m) \/ SaveSnapshot(m) \/ SaveChanges(m) \/ SaveHistory(m) \/ SaveAlerts(m)
  \/ CheckEmail(m) \/ SendEmail(m) \/ LogEmail(m)
  \/ ManualScan(m) \/ DieOrRaise(m) \/ NotifyFails(m)

\* A step of one monitor's scan leaves those of the others alone.
LEMMA MNFrame ==
  ASSUME MNTypes, NEW m \in Monitors, MNStep(m), NEW n \in Monitors, n # m
  PROVE  /\ mon'[n] = mon[n] /\ snap'[n] = snap[n] /\ alert'[n] = alert[n] /\ mjob'[n] = mjob[n] /\ mw'[n] = mw[n]
         /\ fresh'[n] = fresh[n] /\ hist'[n] = hist[n] /\ saw'[n] = saw[n] /\ (n \in untold' <=> n \in untold)
         /\ mncut'[n] = mncut[n] /\ mnfaults' >= mnfaults
         /\ \A u \in Recipient : inbox'[<<n, u>>] = inbox[<<n, u>>] /\ (<<n, u>> \in log' <=> <<n, u>> \in log)
<1> USE DEF MNTypes
<1>1. CASE Due(m)  BY <1>1 DEF Due
<1>2. CASE TakeJob(m)  BY <1>2 DEF TakeJob, MNGo
<1>3. CASE CompleteScan(m)  BY <1>3 DEF CompleteScan
<1>4. CASE LoadBaseline(m)  BY <1>4 DEF LoadBaseline
<1>5. CASE SaveSnapshot(m)  BY <1>5 DEF SaveSnapshot
<1>6. CASE SaveChanges(m)  BY <1>6 DEF SaveChanges, MNGo
<1>7. CASE SaveHistory(m)  BY <1>7 DEF SaveHistory, Latest, MNGo
<1>8. CASE SaveAlerts(m)  BY <1>8 DEF SaveAlerts
<1>9. CASE CheckEmail(m)  BY <1>9 DEF CheckEmail, NextTurn, MNGo
<1>10. CASE SendEmail(m)  BY <1>10 DEF SendEmail, NextTurn, MNGo
<1>11. CASE LogEmail(m)  BY <1>11 DEF LogEmail, NextTurn
<1>12. CASE ManualScan(m)  BY <1>12 DEF ManualScan, Latest
<1>13. CASE DieOrRaise(m)  BY <1>13 DEF DieOrRaise
<1>14. CASE NotifyFails(m)  BY <1>14 DEF NotifyFails, MNGo
<1> QED  BY <1>1, <1>2, <1>3, <1>4, <1>5, <1>6, <1>7, <1>8, <1>9, <1>10, <1>11, <1>12, <1>13, <1>14 DEF MNStep

\* What the worker of a monitor holds stays well typed, as does its job.
LEMMA WorkerTyped == ASSUME MNInv, NEW m \in Monitors, MNStep(m) PROVE mw' \in [Monitors -> [pc : MNSteps, prev : ScanResults, curr : ScanResults, todo : SUBSET Recipient]]
<1>0. /\ mw \in [Monitors -> [pc : MNSteps, prev : ScanResults, curr : ScanResults, todo : SUBSET Recipient]]
      /\ mon \in [Monitors -> ScanResults]
  BY DEF MNInv, MNTypes, ScanResults
<1> USE DEF MNSteps, ScanResults
<1>1. CASE Due(m)  BY <1>0, <1>1 DEF Due
<1>2. CASE TakeJob(m)  BY <1>0, <1>2 DEF TakeJob, MNGo
<1>3. CASE CompleteScan(m)  BY <1>0, <1>3 DEF CompleteScan, MNIdle
<1>4. CASE LoadBaseline(m)  BY <1>0, <1>4 DEF LoadBaseline
<1>5. CASE SaveSnapshot(m)
  <2>1. PICK h \in ScanResults : mw' = [mw EXCEPT ![m].pc = "diff", ![m].curr = h]  BY <1>5 DEF SaveSnapshot, Health
  <2> QED  BY <1>0, <2>1
<1>6. CASE SaveChanges(m)  BY <1>0, <1>6 DEF SaveChanges, MNGo
<1>7. CASE SaveHistory(m)  BY <1>0, <1>7 DEF SaveHistory, Latest, MNGo
<1>8. CASE SaveAlerts(m)
  <2>1. PICK pc \in MNSteps, todo \in SUBSET Recipient : mw' = [mw EXCEPT ![m].pc = pc, ![m].todo = todo]
    BY <1>8 DEF SaveAlerts
  <2> QED  BY <1>0, <2>1
<1>9. CASE CheckEmail(m)  BY <1>0, <1>9 DEF CheckEmail, NextTurn, MNGo
<1>10. CASE SendEmail(m)  BY <1>0, <1>10 DEF SendEmail, NextTurn, MNGo
<1>11. CASE LogEmail(m)  BY <1>0, <1>11 DEF LogEmail, NextTurn
<1>12. CASE ManualScan(m)  BY <1>0, <1>12 DEF ManualScan, Latest
<1>13. CASE DieOrRaise(m)  BY <1>0, <1>13 DEF DieOrRaise, MNIdle
<1>14. CASE NotifyFails(m)  BY <1>0, <1>14 DEF NotifyFails, MNGo
<1> QED  BY <1>1, <1>2, <1>3, <1>4, <1>5, <1>6, <1>7, <1>8, <1>9, <1>10, <1>11, <1>12, <1>13, <1>14 DEF MNStep

\* So does its job.
LEMMA JobTyped == ASSUME MNInv, NEW m \in Monitors, MNStep(m) PROVE mjob' \in [Monitors -> [state : JobStates, attempts : Nat, number : Nat]]
<1>0. mjob \in [Monitors -> [state : JobStates, attempts : Nat, number : Nat]]
  BY DEF MNInv, MNTypes
<1> USE DEF JobStates
<1>1. CASE Due(m)  BY <1>0, <1>1 DEF Due
<1>2. CASE TakeJob(m)  BY <1>0, <1>2 DEF TakeJob, MNGo
<1>3. CASE CompleteScan(m)  BY <1>0, <1>3 DEF CompleteScan, MNIdle
<1>4. CASE LoadBaseline(m)  BY <1>0, <1>4 DEF LoadBaseline
<1>5. CASE SaveSnapshot(m)  BY <1>0, <1>5 DEF SaveSnapshot
<1>6. CASE SaveChanges(m)  BY <1>0, <1>6 DEF SaveChanges, MNGo
<1>7. CASE SaveHistory(m)  BY <1>0, <1>7 DEF SaveHistory, Latest, MNGo
<1>8. CASE SaveAlerts(m)  BY <1>0, <1>8 DEF SaveAlerts
<1>9. CASE CheckEmail(m)  BY <1>0, <1>9 DEF CheckEmail, NextTurn, MNGo
<1>10. CASE SendEmail(m)  BY <1>0, <1>10 DEF SendEmail, NextTurn, MNGo
<1>11. CASE LogEmail(m)  BY <1>0, <1>11 DEF LogEmail, NextTurn
<1>12. CASE ManualScan(m)  BY <1>0, <1>12 DEF ManualScan, Latest
<1>13. CASE DieOrRaise(m)  BY <1>0, <1>13 DEF DieOrRaise, MNIdle
<1>14. CASE NotifyFails(m)  BY <1>0, <1>14 DEF NotifyFails, MNGo
<1> QED  BY <1>1, <1>2, <1>3, <1>4, <1>5, <1>6, <1>7, <1>8, <1>9, <1>10, <1>11, <1>12, <1>13, <1>14 DEF MNStep

\* Every step keeps the types.
LEMMA MNTypesKept == ASSUME MNInv, NEW m \in Monitors, MNStep(m) PROVE MNTypes'
<1> DEFINE Rest ==
      /\ mon \in [Monitors -> ScanResults] /\ snap \in [Monitors -> ScanResults]
      /\ alert \in [Monitors -> BOOLEAN] /\ log \subseteq Monitors \X Recipient
      /\ fresh \in [Monitors -> BOOLEAN] /\ hist \in [Monitors -> Nat]
      /\ saw \in [Monitors -> {"none", "monitor", "manual"}] /\ untold \subseteq Monitors
      /\ inbox \in [Monitors \X Recipient -> Nat] /\ mails \in Nat /\ mnfaults \in Nat /\ manual \in Nat
      /\ mncut \in [Monitors -> SUBSET {"alert", "change", "email"}]
<1>0. MNTypes /\ JobSteps(m) /\ MailsTold(m)  BY DEF MNInv
<1>a. Rest /\ mw[m].curr \in ScanResults  BY <1>0 DEF MNTypes, ScanResults
<1>b. mw[m].pc = "history" => mw[m].curr \in Health  BY <1>0 DEF JobSteps
<1>c. mw[m].pc \in {"send", "log"} => Turn(m) \in Recipient  BY <1>0, TurnIsOne DEF MailsTold
<1> SUFFICES Rest'  BY WorkerTyped, JobTyped DEF MNTypes, ScanResults
<1>1. CASE Due(m)  BY <1>a, <1>b, <1>c, <1>1 DEF Due
<1>2. CASE TakeJob(m)  BY <1>a, <1>b, <1>c, <1>2 DEF TakeJob, MNGo
<1>3. CASE CompleteScan(m)  BY <1>a, <1>b, <1>c, <1>3 DEF CompleteScan, MNIdle
<1>4. CASE LoadBaseline(m)  BY <1>a, <1>b, <1>c, <1>4 DEF LoadBaseline
<1>5. CASE SaveSnapshot(m)  BY <1>a, <1>b, <1>c, <1>5 DEF SaveSnapshot, Health, ScanResults
<1>6. CASE SaveChanges(m)  BY <1>a, <1>b, <1>c, <1>6 DEF SaveChanges, MNGo
<1>7. CASE SaveHistory(m)  BY <1>a, <1>b, <1>c, <1>7 DEF SaveHistory, Latest, MNGo, Health, ScanResults
<1>8. CASE SaveAlerts(m)  BY <1>a, <1>b, <1>c, <1>8 DEF SaveAlerts
<1>9. CASE CheckEmail(m)  BY <1>a, <1>b, <1>c, <1>9 DEF CheckEmail, NextTurn, MNGo
<1>10. CASE SendEmail(m)  BY <1>a, <1>b, <1>c, <1>10 DEF SendEmail, NextTurn, MNGo
<1>11. CASE LogEmail(m)  BY <1>a, <1>b, <1>c, <1>11 DEF LogEmail, NextTurn
<1>12. CASE ManualScan(m)  BY <1>a, <1>b, <1>c, <1>12 DEF ManualScan, Latest, Health, ScanResults
<1>13. CASE DieOrRaise(m)  BY <1>a, <1>b, <1>c, <1>13 DEF DieOrRaise, MNIdle, Cut
<1>14. CASE NotifyFails(m)  BY <1>a, <1>b, <1>c, <1>14 DEF NotifyFails, MNGo, Cut
<1> QED  BY <1>1, <1>2, <1>3, <1>4, <1>5, <1>6, <1>7, <1>8, <1>9, <1>10, <1>11, <1>12, <1>13, <1>14 DEF MNStep

\* Every step keeps the job and its worker together.
LEMMA JobStepsKept == ASSUME MNInv, NEW m \in Monitors, MNStep(m) PROVE JobSteps(m)'
<1> USE DEF JobSteps, Mailing, MNSteps
<1>0. MNTypes /\ JobSteps(m)  BY DEF MNInv
<1> USE DEF MNTypes
<1>1. CASE Due(m)  BY <1>0, <1>1 DEF Due
<1>2. CASE TakeJob(m)  BY <1>0, <1>2 DEF TakeJob, MNGo
<1>3. CASE CompleteScan(m)  BY <1>0, <1>3 DEF CompleteScan, MNIdle
<1>4. CASE LoadBaseline(m)  BY <1>0, <1>4 DEF LoadBaseline
<1>5. CASE SaveSnapshot(m)  BY <1>0, <1>5 DEF SaveSnapshot
<1>6. CASE SaveChanges(m)  BY <1>0, <1>6 DEF SaveChanges, MNGo
<1>7. CASE SaveHistory(m)  BY <1>0, <1>7 DEF SaveHistory, Latest, MNGo
<1>8. CASE SaveAlerts(m)  BY <1>0, <1>8 DEF SaveAlerts, Critical
<1>9. CASE CheckEmail(m)  BY <1>0, <1>9 DEF CheckEmail, NextTurn, MNGo
<1>10. CASE SendEmail(m)  BY <1>0, <1>10 DEF SendEmail, NextTurn, MNGo
<1>11. CASE LogEmail(m)  BY <1>0, <1>11 DEF LogEmail, NextTurn
<1>12. CASE ManualScan(m)  BY <1>0, <1>12 DEF ManualScan, Latest, Health
<1>13. CASE DieOrRaise(m)  BY <1>0, <1>13 DEF DieOrRaise, MNIdle, Cut
<1>14. CASE NotifyFails(m)  BY <1>0, <1>14 DEF NotifyFails, MNGo, Cut
<1> QED  BY <1>1, <1>2, <1>3, <1>4, <1>5, <1>6, <1>7, <1>8, <1>9, <1>10, <1>11, <1>12, <1>13, <1>14 DEF MNStep

\* Every step keeps what is found and not told with the worker, or counts it as lost.
LEMMA ReportedKept == ASSUME MNInv, NEW m \in Monitors, MNStep(m) PROVE Reported(m)'
<1> USE DEF Reported, Mailing, Critical
<1>0. MNTypes /\ JobSteps(m) /\ Reported(m)  BY DEF MNInv
<1> USE DEF MNTypes, JobSteps
<1>1. CASE Due(m)  BY <1>0, <1>1 DEF Due
<1>2. CASE TakeJob(m)  BY <1>0, <1>2 DEF TakeJob, MNGo
<1>3. CASE CompleteScan(m)  BY <1>0, <1>3 DEF CompleteScan, MNIdle
<1>4. CASE LoadBaseline(m)  BY <1>0, <1>4 DEF LoadBaseline
<1>5. CASE SaveSnapshot(m)  BY <1>0, <1>5 DEF SaveSnapshot
<1>6. CASE SaveChanges(m)  BY <1>0, <1>6 DEF SaveChanges, MNGo
<1>7. CASE SaveHistory(m)  BY <1>0, <1>7 DEF SaveHistory, Latest, MNGo, Health
<1>8. CASE SaveAlerts(m)  BY <1>0, <1>8 DEF SaveAlerts
<1>9. CASE CheckEmail(m)  BY <1>0, <1>9 DEF CheckEmail, NextTurn, MNGo
<1>10. CASE SendEmail(m)  BY <1>0, <1>10 DEF SendEmail, NextTurn, MNGo
<1>11. CASE LogEmail(m)  BY <1>0, <1>11 DEF LogEmail, NextTurn
<1>12. CASE ManualScan(m)  BY <1>0, <1>12 DEF ManualScan, Latest, Health
<1>13. CASE DieOrRaise(m)  BY <1>0, <1>13 DEF DieOrRaise, MNIdle, Cut
<1>14. CASE NotifyFails(m)  BY <1>0, <1>14 DEF NotifyFails, MNGo, Cut
<1> QED  BY <1>1, <1>2, <1>3, <1>4, <1>5, <1>6, <1>7, <1>8, <1>9, <1>10, <1>11, <1>12, <1>13, <1>14 DEF MNStep

\* Every step keeps the mails of one monitor logged, about to be, or cut off by a fault.
LEMMA MailsToldKept == ASSUME MNInv, NEW m \in Monitors, MNStep(m) PROVE MailsTold(m)'
<1>0. MNTypes /\ MailsTold(m)  BY DEF MNInv
<1> USE DEF MailsTold, BeingLogged, Turn, Mailing, MNTypes
<1>1. CASE Due(m)  BY <1>0, <1>1 DEF Due
<1>2. CASE TakeJob(m)  BY <1>0, <1>2 DEF TakeJob, MNGo
<1>3. CASE CompleteScan(m)  BY <1>0, <1>3 DEF CompleteScan, MNIdle
<1>4. CASE LoadBaseline(m)  BY <1>0, <1>4 DEF LoadBaseline
<1>5. CASE SaveSnapshot(m)  BY <1>0, <1>5 DEF SaveSnapshot
<1>6. CASE SaveChanges(m)  BY <1>0, <1>6 DEF SaveChanges, MNGo
<1>7. CASE SaveHistory(m)  BY <1>0, <1>7 DEF SaveHistory, Latest, MNGo
<1>8. CASE SaveAlerts(m)  BY <1>0, <1>8 DEF SaveAlerts
<1>9. CASE CheckEmail(m)
  <2>1. mw[m].pc = "notify" /\ log' = log /\ inbox' = inbox /\ mncut' = mncut /\ mnfaults' = mnfaults
    BY <1>9 DEF CheckEmail
  <2>2. CASE mw'[m].pc = "send"
    <3>1. mw'[m].todo = mw[m].todo /\ mw[m].todo # {} /\ <<m, Turn(m)>> \notin log
      BY <1>0, <1>9, <2>1, <2>2 DEF CheckEmail, NextTurn, MNGo, MayEmail
    <3> QED  BY <1>0, <2>1, <2>2, <3>1
  <2>3. CASE mw'[m].pc \notin {"send", "log"}  BY <1>0, <2>1, <2>3
  <2> QED  BY <1>0, <1>9, <2>2, <2>3 DEF CheckEmail, NextTurn, MNGo
<1>10. CASE SendEmail(m)
  <2>1. mw[m].pc = "send" /\ log' = log /\ mncut' = mncut /\ mnfaults' = mnfaults  BY <1>10 DEF SendEmail
  <2>2. mw[m].todo # {} /\ <<m, Turn(m)>> \notin log /\ Turn(m) \in Recipient  BY <1>0, <2>1, TurnIsOne
  <2>3. CASE mw'[m].pc = "log"
    <3>1. mw'[m].todo = mw[m].todo /\ inbox' = [inbox EXCEPT ![<<m, Turn(m)>>] = @ + 1]
      BY <1>0, <1>10, <2>3 DEF SendEmail, NextTurn, MNGo
    <3>2. inbox'[<<m, Turn(m)>>] = inbox[<<m, Turn(m)>>] + 1
          /\ \A u \in Recipient : u # Turn(m) => inbox'[<<m, u>>] = inbox[<<m, u>>]
      BY <1>0, <2>2, <3>1
    <3>3. Turn(m)' = Turn(m)  BY <3>1
    <3> HIDE DEF Turn
    <3>4. ASSUME NEW u \in Recipient
          PROVE  inbox'[<<m, u>>] <= (IF "email" \in mncut[m] THEN mnfaults ELSE 0)
                                       + (IF <<m, u>> \in log \/ u = Turn(m) THEN 1 ELSE 0)
      <4>1. inbox[<<m, u>>] \in Nat /\ mnfaults \in Nat  BY <1>0
      <4>2. inbox[<<m, u>>] <= (IF "email" \in mncut[m] THEN mnfaults ELSE 0)
                                 + (IF <<m, u>> \in log THEN 1 ELSE 0)
        BY <1>0, <2>1
      <4>3. CASE u = Turn(m)  BY <4>1, <4>2, <4>3, <2>2, <3>2
      <4>4. CASE u # Turn(m)  BY <4>1, <4>2, <4>4, <3>2
      <4> QED  BY <4>3, <4>4
    <3> QED  BY <2>1, <2>2, <2>3, <3>1, <3>3, <3>4
  <2>4. CASE mw'[m].pc = "notify" /\ inbox' = inbox  BY <1>0, <2>1, <2>4
  <2> QED  BY <1>0, <1>10, <2>3, <2>4 DEF SendEmail, NextTurn, MNGo
<1>11. CASE LogEmail(m)  BY <1>0, <1>11 DEF LogEmail, NextTurn
<1>12. CASE ManualScan(m)  BY <1>0, <1>12 DEF ManualScan
<1>13. CASE DieOrRaise(m)  BY <1>0, <1>13 DEF DieOrRaise, MNIdle, Cut
<1>14. CASE NotifyFails(m)  BY <1>0, <1>14 DEF NotifyFails, MNGo, Cut
<1> QED  BY <1>1, <1>2, <1>3, <1>4, <1>5, <1>6, <1>7, <1>8, <1>9, <1>10, <1>11, <1>12, <1>13, <1>14 DEF MNStep

\* Every step keeps the mails of the organization within what the log allows.
LEMMA MailsCountedKept == ASSUME MNInv, NEW m \in Monitors, MNStep(m) PROVE MailsCounted'
<1>0. MNTypes /\ MailsTold(m) /\ MailsCounted  BY DEF MNInv
<1>1. \A n \in Monitors \ {m} : mw'[n] = mw[n]  BY <1>0, MNFrame
<1>2. IsFiniteSet(log) /\ Cardinality(log) \in Nat  BY <1>0, LogFinite
<1>3. MNTypes'  BY MNTypesKept
<1> DEFINE logging == Cardinality(At({"log"}))
           busy == Cardinality(At({"send", "log"}))
<1>4. /\ logging \in Nat /\ busy \in Nat /\ busy <= Cardinality(Monitors)
      /\ logging' \in Nat /\ busy' \in Nat /\ busy' <= Cardinality(Monitors) /\ Cardinality(Monitors) \in Nat
  BY AtFinite, <1>3
<1>5. /\ mw[m].pc = "log" /\ mw'[m].pc # "log" => logging' = logging - 1
      /\ mw[m].pc # "log" /\ mw'[m].pc = "log" => logging' = logging + 1
      /\ (mw[m].pc = "log" <=> mw'[m].pc = "log") => logging' = logging
  BY <1>1, MNMove
<1>6. /\ mw[m].pc \in {"send", "log"} /\ mw'[m].pc \notin {"send", "log"} => busy' = busy - 1
      /\ mw[m].pc \notin {"send", "log"} /\ mw'[m].pc \in {"send", "log"} => busy' = busy + 1
      /\ (mw[m].pc \in {"send", "log"} <=> mw'[m].pc \in {"send", "log"}) => busy' = busy
  BY <1>1, MNMove
<1>7. EmailCap \in Nat /\ mails \in Nat /\ mnfaults \in Nat  BY <1>0, MonitoringAssumption DEF MNTypes
<1>8. /\ mails <= Cardinality(log) + logging + mnfaults
      /\ Cardinality(log) + busy <= EmailCap + Cardinality(Monitors) - 1
  BY <1>0 DEF MailsCounted
<1> HIDE DEF logging, busy
<1>9. SUFFICES /\ mails' <= Cardinality(log') + logging' + mnfaults'
               /\ Cardinality(log') + busy' <= EmailCap + Cardinality(Monitors) - 1
  BY DEF MailsCounted, logging, busy
<1>10. CASE log' = log /\ mails' = mails /\ mnfaults' = mnfaults /\ mw'[m].pc \notin {"send", "log"}
            /\ mw[m].pc # "log"
  BY <1>2, <1>4, <1>5, <1>6, <1>7, <1>8, <1>10
<1>11. CASE SendEmail(m)
  <2>1. mw[m].pc = "send" /\ mw' = [mw EXCEPT ![m] = mw'[m]] /\ log' = log /\ mnfaults' = mnfaults
    BY <1>0, <1>11 DEF SendEmail, NextTurn, MNGo, MNTypes
  <2>2. \/ mails' = mails + 1 /\ mw'[m].pc = "log"
        \/ mails' = mails /\ mw'[m].pc = "notify"
    BY <1>0, <1>11 DEF SendEmail, NextTurn, MNGo, MNTypes
  <2> QED  BY <2>1, <2>2, <1>2, <1>4, <1>5, <1>6, <1>7, <1>8
<1>12. CASE LogEmail(m)
  <2>1. mw[m].pc = "log" /\ mw'[m].pc = "notify" /\ log' = log \union {<<m, Turn(m)>>} /\ mails' = mails /\ mnfaults' = mnfaults
    BY <1>0, <1>12 DEF LogEmail, NextTurn, MNTypes
  <2>2. <<m, Turn(m)>> \notin log  BY <1>0, <2>1 DEF MailsTold
  <2>3. Cardinality(log') = Cardinality(log) + 1  BY <2>1, <2>2, <1>2, FS_AddElement
  <2> QED  BY <2>1, <2>3, <1>2, <1>4, <1>5, <1>6, <1>7, <1>8
<1>13. CASE mnfaults' = mnfaults + 1 /\ log' = log /\ mails' = mails /\ mw'[m].pc \notin {"send", "log"}
  BY <1>2, <1>4, <1>5, <1>6, <1>7, <1>8, <1>13
<1>14. CASE CheckEmail(m) /\ mw'[m].pc = "send"
  <2>1. mw[m].pc = "notify" /\ Cardinality(log) < EmailCap /\ log' = log /\ mails' = mails /\ mnfaults' = mnfaults
    BY <1>0, <1>14 DEF CheckEmail, NextTurn, MNGo, MayEmail, MNTypes
  <2> QED  BY <2>1, <1>14, <1>2, <1>4, <1>5, <1>6, <1>7, <1>8
<1>15. CASE ManualScan(m)
  BY <1>15, <1>2, <1>4, <1>5, <1>6, <1>7, <1>8 DEF ManualScan
<1>16. CASE Due(m)
  BY <1>16, <1>2, <1>4, <1>5, <1>6, <1>7, <1>8 DEF Due
<1>17. CASE TakeJob(m) \/ CompleteScan(m) \/ LoadBaseline(m) \/ SaveSnapshot(m) \/ SaveChanges(m) \/ SaveHistory(m) \/ SaveAlerts(m)
  BY <1>0, <1>10, <1>17 DEF TakeJob, CompleteScan, LoadBaseline, SaveSnapshot, SaveChanges, SaveHistory, SaveAlerts, MNGo, MNIdle, MNTypes
<1>18. CASE CheckEmail(m) /\ mw'[m].pc # "send"
  BY <1>0, <1>10, <1>18 DEF CheckEmail, NextTurn, MNGo, MNTypes
<1>19. CASE DieOrRaise(m) \/ NotifyFails(m)
  BY <1>0, <1>13, <1>19 DEF DieOrRaise, NotifyFails, MNGo, MNIdle, MNTypes
<1> QED  BY <1>11, <1>12, <1>14, <1>15, <1>16, <1>17, <1>18, <1>19 DEF MNStep

\* The invariant holds at the start, is kept by every step, and so holds always.
LEMMA MNInvInit == MNInit => MNInv
<1> SUFFICES ASSUME MNInit PROVE MNInv  OBVIOUS
<1>1. MNTypes  BY DEF MNInit, MNTypes, MNIdle, MNSteps, ScanResults, JobStates
<1>2. \A m \in Monitors : JobSteps(m) /\ Reported(m)
  BY DEF MNInit, JobSteps, Reported, MNIdle, Mailing, Critical
<1>3. \A m \in Monitors : MailsTold(m)  BY DEF MNInit, MailsTold, MNIdle, BeingLogged
<1>4. log = {} /\ At({"log"}) = {} /\ At({"send", "log"}) = {} /\ mails = 0 /\ mnfaults = 0
  BY DEF MNInit, At, MNIdle
<1>5. MailsCounted  BY <1>4, FS_EmptySet, AtFinite, MonitoringAssumption DEF MailsCounted
<1> QED  BY <1>1, <1>2, <1>3, <1>5 DEF MNInv

\* Every step keeps the invariant.
LEMMA MNInvNext == MNInv /\ [MNNext]_mnVars => MNInv'
<1> SUFFICES ASSUME MNInv, [MNNext]_mnVars PROVE MNInv'  OBVIOUS
<1>1. CASE UNCHANGED mnVars
  BY <1>1 DEF MNInv, mnVars, MNTypes, JobSteps, Reported, MailsTold, MailsCounted, At, BeingLogged, Turn, Critical
<1>2. CASE MNNext
  <2>1. PICK m \in Monitors : MNStep(m)  BY <1>2 DEF MNNext, MNStep
  <2>2. MNTypes' /\ MailsCounted'  BY <2>1, MNTypesKept, MailsCountedKept
  <2>3. JobSteps(m)' /\ Reported(m)' /\ MailsTold(m)'  BY <2>1, JobStepsKept, ReportedKept, MailsToldKept
  <2>4. ASSUME NEW n \in Monitors, n # m PROVE JobSteps(n)' /\ Reported(n)' /\ MailsTold(n)'
    <3>1. MNTypes /\ JobSteps(n) /\ Reported(n) /\ MailsTold(n)  BY DEF MNInv
    <3>2. /\ mon'[n] = mon[n] /\ alert'[n] = alert[n] /\ mjob'[n] = mjob[n] /\ mw'[n] = mw[n]
          /\ fresh'[n] = fresh[n] /\ hist'[n] = hist[n] /\ saw'[n] = saw[n] /\ (n \in untold' <=> n \in untold)
          /\ mncut'[n] = mncut[n] /\ mnfaults' >= mnfaults
          /\ \A u \in Recipient : inbox'[<<n, u>>] = inbox[<<n, u>>] /\ (<<n, u>> \in log' <=> <<n, u>> \in log)
      BY <2>1, <2>4, <3>1, MNFrame
    <3>3. JobSteps(n)'  BY <3>1, <3>2 DEF JobSteps
    <3>4. Reported(n)'  BY <3>1, <3>2 DEF Reported, Critical
    <3>5. Turn(n)' = Turn(n)  BY <3>2 DEF Turn
    <3>6. mw[n].todo # {} => Turn(n) \in Recipient  BY <3>1, TurnIsOne
    <3>7. mnfaults \in Nat /\ mnfaults' \in Nat /\ \A u \in Recipient : inbox[<<n, u>>] \in Nat  BY <3>1, <2>2 DEF MNTypes
    <3>8. MailsTold(n)'  BY <3>1, <3>2, <3>5, <3>6, <3>7 DEF MailsTold, BeingLogged
    <3> QED  BY <3>3, <3>4, <3>8
  <2> QED  BY <2>2, <2>3, <2>4 DEF MNInv
<1> QED  BY <1>1, <1>2

\* The invariant holds always.
LEMMA MNAlways == MNSpec => []MNInv
BY MNInvInit, MNInvNext, PTL DEF MNSpec

(***************************************************************************)
(* For any monitors and any retries, crashes and manual scans among them,  *)
(* a scheduled scan that has been handed to its worker records its history *)
(* at most once, and is done only with a fresh result (runner.py,          *)
(* run_scan_for_monitor: a retry is skipped when the site has been scanned *)
(* since the job was created).                                             *)
(***************************************************************************)
THEOREM ScansOnce == MNSpec => []ScannedOnce
<1>1. MNInv => ScannedOnce  BY DEF MNInv, JobSteps, ScannedOnce
<1> QED  BY <1>1, MNAlways, PTL

(***************************************************************************)
(* Whatever fails or dies in between, a monitor that went bad under a      *)
(* scheduled scan has an alert or a worker that is about to write it,      *)
(* unless a fault hit between exactly those two commits; nobody is mailed  *)
(* twice about a monitor but by a fault between the sending and its log    *)
(* entry; and an organization gets no more mails than its cap, one for     *)
(* each worker that had passed the check meanwhile, and one per fault.     *)
(***************************************************************************)
THEOREM Alerts == MNSpec => []AlertsSound
<1>1. ASSUME MNInv PROVE NothingUnreported
  BY <1>1 DEF MNInv, JobSteps, Reported, NothingUnreported
<1>2. ASSUME MNInv PROVE EmailsBounded
  <2>1. MNTypes /\ MailsCounted /\ \A m \in Monitors : MailsTold(m)  BY <1>2 DEF MNInv
  <2>2. \A m \in Monitors, u \in Recipient : inbox[<<m, u>>] <= IF "email" \in mncut[m] THEN 1 + mnfaults ELSE 1
    <3> SUFFICES ASSUME NEW m \in Monitors, NEW u \in Recipient
                 PROVE  inbox[<<m, u>>] <= IF "email" \in mncut[m] THEN 1 + mnfaults ELSE 1  OBVIOUS
    <3>1. inbox[<<m, u>>] \in Nat /\ mnfaults \in Nat  BY <2>1 DEF MNTypes
    <3>2. inbox[<<m, u>>] <= (IF "email" \in mncut[m] THEN mnfaults ELSE 0)
                               + (IF <<m, u>> \in log \/ BeingLogged(m, u) THEN 1 ELSE 0)
      BY <2>1 DEF MailsTold
    <3> QED  BY <3>1, <3>2
  <2>3. At({"log"}) \subseteq At({"send", "log"}) /\ IsFiniteSet(At({"send", "log"}))  BY AtFinite DEF At
  <2>4. Cardinality(At({"log"})) <= Cardinality(At({"send", "log"}))  BY <2>3, FS_Subset
  <2>5. mails <= EmailCap + Cardinality(Monitors) - 1 + mnfaults
    BY <2>1, <2>4, AtFinite, LogFinite, MonitoringAssumption DEF MailsCounted, MNTypes
  <2> QED  BY <2>2, <2>5 DEF EmailsBounded
<1> QED  BY <1>1, <1>2, MNAlways, PTL DEF AlertsSound

----------------------------------------------------------------------------
(***************************************************************************)
(* Monitors and prompts of an organization (Watchlist)                     *)
(***************************************************************************)

\* The rows, and what a request may have in hand
WLAskOps == {"none", "create", "update", "first", "prompt", "add"}
MonitorRows == [here : BOOLEAN, active : BOOLEAN, freq : {"manual", "weekly"}, next : {"none", "later", "due"}, plan : {"free", "pro"}]
Asks == [op : WLAskOps, site : Site \union {"none"}, list : Nat, row : MonitorRows]
Lists == [site : Site \union {"none"}, here : BOOLEAN]
Prompts == [list : Nat, site : Site \union {"none"}, here : BOOLEAN]

WLTypes ==
  /\ watched \in [Site -> MonitorRows] /\ queued \subseteq Site
  /\ lists \in Seq(Lists) /\ prompts \in Seq(Prompts)
  /\ pro \in BOOLEAN /\ wask \in [WLCaller -> Asks] /\ legacy \subseteq Site

\* The steps of a request, of a monitored site and of a prompt list
CallerStep(c) ==
  \/ AskMonitor(c) \/ CreateMonitor(c) \/ UpdateMonitor(c)
  \/ MakeList(c) \/ CountPrompts(c) \/ AddPrompt(c)
  \/ \E m \in Site : LoadUpdate(c, m) \/ OpenList(c, m)
  \/ \E l \in DOMAIN lists : OpenSet(c, l)
SiteStep(m) == AdminPause(m) \/ AdminResume(m) \/ DeleteMonitor(m) \/ TakeUp(m) \/ RunNow(m) \/ EndJob(m) \/ BecomesDue(m)
ListStep == 
  \/ \E m \in Site \union {"none"} : CreateSet(m)
  \/ \E l \in DOMAIN lists : DeleteSet(l) \/ \E m \in Site : MoveSet(l, m)
  \/ \E p \in DOMAIN prompts : DeletePrompt(p)
  \/ ChangePlan

\* Every step is one of a request, of a site or of a list.
LEMMA WLSteps == WLNext <=> (\E c \in WLCaller : CallerStep(c)) \/ (\E m \in Site : SiteStep(m)) \/ ListStep
BY DEF WLNext, CallerStep, SiteStep, ListStep

Under == {p \in Nat \X Nat : p[1] < p[2]}

\* A nonempty set of numbers has a least one, and Min is it.
LEMMA UnderIsWellFounded == IsWellFoundedOn(Under, Nat)
BY NatLessThanWellFounded DEF OpToRel, Under

\* Min of a nonempty set of numbers is in it.
LEMMA MinExists ==
  ASSUME NEW S \in SUBSET Nat, S # {}
  PROVE  Min(S) \in S /\ \A y \in S : Min(S) <= y
<1>0. S \subseteq Nat  OBVIOUS
<1>1. \E x \in S : \A y \in S : ~ (<<y, x>> \in Under)  BY <1>0, UnderIsWellFounded, WFMin, Zenon
<1>3. PICK x \in S : \A y \in S : ~ (<<y, x>> \in Under)  BY <1>1
<1>2. ASSUME NEW y \in S PROVE x <= y
  <2>1. x \in Nat /\ y \in Nat /\ <<y, x>> \notin Under  BY <1>0, <1>3
  <2>2. y < x => <<y, x>> \in Under  BY <2>1 DEF Under
  <2> QED  BY <2>1, <2>2
<1> QED  BY <1>2 DEF Min

\* The rows of what is not there are well typed.
LEMMA AbsentTyped == Absent \in MonitorRows /\ NoWask \in Asks /\ NoWask.op = "none"
BY DEF Absent, MonitorRows, NoWask, Asks, WLAskOps

\* The types hold at the start.
LEMMA WLTypesInit == WLInit => WLTypes
<1>1. <<>> \in Seq(Lists) /\ <<>> \in Seq(Prompts)  OBVIOUS
<1>2. WLInit => watched \in [Site -> MonitorRows] /\ wask \in [WLCaller -> Asks]  BY AbsentTyped DEF WLInit
<1> QED  BY <1>1, <1>2 DEF WLInit, WLTypes

\* Every step keeps the types: the requests, the monitors, the lists and the prompts.
LEMMA AskTyped == ASSUME WLTypes, NEW c \in WLCaller, CallerStep(c) PROVE wask' \in [WLCaller -> Asks]
<1>0. wask \in [WLCaller -> Asks] /\ watched \in [Site -> MonitorRows]  BY DEF WLTypes
<1>a. ASSUME NEW ask \in Asks, wask' = [wask EXCEPT ![c] = ask] PROVE wask' \in [WLCaller -> Asks]  BY <1>0, <1>a
<1>1. CASE AskMonitor(c)
  <2>1. [NoWask EXCEPT !.op = "create", !.row.plan = IF pro THEN "pro" ELSE "free"] \in Asks
    BY DEF Asks, MonitorRows, NoWask, Absent, WLAskOps
  <2> QED  BY <1>1, <2>1, <1>a DEF AskMonitor, Begin
<1>2. CASE CreateMonitor(c)  BY <1>2, <1>a, AbsentTyped DEF CreateMonitor, Finish
<1>3. CASE UpdateMonitor(c)  BY <1>3, <1>a, AbsentTyped DEF UpdateMonitor, Finish
<1>4. CASE MakeList(c)
  <2>1. Len(lists) + 1 \in Nat  BY DEF WLTypes
  <2>2. [wask[c] EXCEPT !.op = "prompt", !.list = Len(lists) + 1] \in Asks  BY <1>0, <2>1 DEF Asks, WLAskOps
  <2>3. wask' = [wask EXCEPT ![c] = [wask[c] EXCEPT !.op = "prompt", !.list = Len(lists) + 1]]  BY <1>0, <1>4 DEF MakeList, Asks
  <2> QED  BY <2>2, <2>3, <1>a
<1>5. CASE CountPrompts(c)
  <2>1. [wask[c] EXCEPT !.op = "add"] \in Asks  BY <1>0 DEF Asks, WLAskOps
  <2> QED  BY <1>5, <2>1, <1>a, AbsentTyped DEF CountPrompts
<1>6. CASE AddPrompt(c)  BY <1>6, <1>a, AbsentTyped DEF AddPrompt, Finish
<1>7. ASSUME NEW m \in Site, LoadUpdate(c, m) PROVE wask' \in [WLCaller -> Asks]
  <2>1. [NoWask EXCEPT !.op = "update", !.site = m, !.row = watched[m]] \in Asks
    BY <1>0 DEF Asks, NoWask, WLAskOps
  <2> QED  BY <1>7, <2>1, <1>a DEF LoadUpdate, Begin
<1>8. ASSUME NEW m \in Site, OpenList(c, m) PROVE wask' \in [WLCaller -> Asks]
  <2>1. ListOf(m) \in Nat
    <3>1. {l \in DOMAIN lists : lists[l].here /\ lists[l].site = m} \in SUBSET Nat  BY DEF WLTypes
    <3> QED  BY <3>1, MinExists DEF ListOf
  <2>2. \A op \in {"first", "prompt"} : [NoWask EXCEPT !.op = op, !.site = m, !.list = ListOf(m)] \in Asks
    BY <2>1, AbsentTyped DEF Asks, NoWask, WLAskOps
  <2> QED  BY <1>8, <2>2, <1>a DEF OpenList, Begin
<1>9. ASSUME NEW l \in DOMAIN lists, OpenSet(c, l) PROVE wask' \in [WLCaller -> Asks]
  <2>1. l \in Nat  BY DEF WLTypes
  <2>2. [NoWask EXCEPT !.op = "prompt", !.list = l] \in Asks  BY <2>1, AbsentTyped DEF Asks, NoWask, WLAskOps
  <2> QED  BY <1>9, <2>2, <1>a DEF OpenSet, Begin
<1> QED  BY <1>1, <1>2, <1>3, <1>4, <1>5, <1>6, <1>7, <1>8, <1>9 DEF CallerStep

\* What an update writes over the row it has loaded
LEMMA UpdateWrites ==
  ASSUME WLTypes, NEW c \in WLCaller, UpdateMonitor(c)
  PROVE  /\ wask[c].site \in Here
         /\ \E freq \in {"manual", "weekly"}, active \in BOOLEAN, next \in {"none", "later", "due"} :
              watched' = [watched EXCEPT ![wask[c].site].freq = freq, ![wask[c].site].active = active, ![wask[c].site].next = next]
<1>0. watched \in [Site -> MonitorRows] /\ wask \in [WLCaller -> Asks]  BY DEF WLTypes
<1> DEFINE m == wask[c].site
           old == wask[c].row
<1>1. PICK f \in {"keep", "manual", "weekly"}, status \in {"keep", "active", "paused"} :
        watched' = [watched EXCEPT
          ![m].freq = IF Updated(old, f, status).freq = old.freq THEN @ ELSE Updated(old, f, status).freq,
          ![m].active = IF Updated(old, f, status).active = old.active THEN @ ELSE Updated(old, f, status).active,
          ![m].next = IF Updated(old, f, status).next = old.next /\ (f = "keep" \/ Updated(old, f, status).next = "none")
                        THEN @ ELSE Updated(old, f, status).next]
  BY DEF UpdateMonitor
<1>2. old \in MonitorRows /\ m \in Site  BY <1>0 DEF UpdateMonitor, Asks, Here
<1>3. Updated(old, f, status) \in MonitorRows  BY <1>2 DEF Updated, MonitorRows
<1>4. PICK new \in MonitorRows : new = Updated(old, f, status)  BY <1>3
<1>5. watched[m] \in MonitorRows /\ watched[m].freq \in {"manual", "weekly"} /\ watched[m].active \in BOOLEAN
        /\ watched[m].next \in {"none", "later", "due"}
  BY <1>0, <1>2 DEF MonitorRows
<1>6. \E freq \in {"manual", "weekly"}, active \in BOOLEAN, next \in {"none", "later", "due"} :
        watched' = [watched EXCEPT ![m].freq = freq, ![m].active = active, ![m].next = next]
  <2>1. new.freq \in {"manual", "weekly"} /\ new.active \in BOOLEAN /\ new.next \in {"none", "later", "due"}  BY DEF MonitorRows
  <2>2. watched' = [watched EXCEPT
          ![m].freq = IF new.freq = old.freq THEN watched[m].freq ELSE new.freq,
          ![m].active = IF new.active = old.active THEN watched[m].active ELSE new.active,
          ![m].next = IF new.next = old.next /\ (f = "keep" \/ new.next = "none") THEN watched[m].next ELSE new.next]
    BY <1>0, <1>1, <1>2, <1>4
  <2> HIDE DEF m, old
  <2> QED  BY <1>5, <2>1, <2>2
<1> QED  BY <1>6 DEF UpdateMonitor

\* The monitors stay well typed.
LEMMA WatchedTyped == ASSUME WLTypes, WLNext PROVE watched' \in [Site -> MonitorRows]
<1>0. watched \in [Site -> MonitorRows] /\ wask \in [WLCaller -> Asks]  BY DEF WLTypes
<1>a. ASSUME NEW m \in Site, NEW row \in MonitorRows, watched' = [watched EXCEPT ![m] = row] PROVE watched' \in [Site -> MonitorRows]  BY <1>0, <1>a
<1>1. ASSUME NEW c \in WLCaller, CreateMonitor(c) PROVE watched' \in [Site -> MonitorRows]
  <2>1. PICK m \in Site, f \in {"manual", "weekly"} :
          watched' = [watched EXCEPT ![m] =
            [here |-> TRUE, active |-> TRUE, freq |-> f, plan |-> wask[c].row.plan,
             next |-> IF f = "manual" THEN "none" ELSE "due"]]
    BY <1>1 DEF CreateMonitor
  <2>2. wask[c].row.plan \in {"free", "pro"}  BY <1>0 DEF Asks, MonitorRows
  <2> QED  BY <2>1, <2>2, <1>a DEF MonitorRows
<1>2. ASSUME NEW c \in WLCaller, UpdateMonitor(c) PROVE watched' \in [Site -> MonitorRows]
  <2>1. wask[c].site \in Site  BY <1>2 DEF UpdateMonitor, Here
  <2>2. PICK freq \in {"manual", "weekly"}, active \in BOOLEAN, next \in {"none", "later", "due"} :
          watched' = [watched EXCEPT ![wask[c].site].freq = freq, ![wask[c].site].active = active, ![wask[c].site].next = next]
    BY <1>2, UpdateWrites
  <2> QED  BY <1>0, <2>1, <2>2 DEF MonitorRows
<1>3. ASSUME NEW m \in Site, SiteStep(m) PROVE watched' \in [Site -> MonitorRows]
  <2>1. CASE AdminPause(m)  BY <1>0, <2>1 DEF AdminPause, MonitorRows
  <2>2. CASE AdminResume(m)  BY <1>0, <2>2 DEF AdminResume, MonitorRows
  <2>3. CASE DeleteMonitor(m)  BY <1>0, <2>3, AbsentTyped DEF DeleteMonitor
  <2>4. CASE TakeUp(m)  BY <1>0, <2>4 DEF TakeUp, MonitorRows
  <2>5. CASE RunNow(m)  BY <1>0, <2>5 DEF RunNow
  <2>6. CASE EndJob(m)  BY <1>0, <2>6 DEF EndJob, MonitorRows
  <2>7. CASE BecomesDue(m)  BY <1>0, <2>7 DEF BecomesDue, MonitorRows
  <2> QED  BY <1>3, <2>1, <2>2, <2>3, <2>4, <2>5, <2>6, <2>7 DEF SiteStep
<1>4. ASSUME UNCHANGED watched PROVE watched' \in [Site -> MonitorRows]  BY <1>0, <1>4
<1>5. CASE ListStep  BY <1>4, <1>5 DEF ListStep, CreateSet, DeleteSet, MoveSet, DeletePrompt, ChangePlan
<1>6. ASSUME NEW c \in WLCaller, CallerStep(c) PROVE watched' \in [Site -> MonitorRows]
  BY <1>1, <1>2, <1>4, <1>6 DEF CallerStep, AskMonitor, MakeList, CountPrompts, AddPrompt, LoadUpdate, OpenList, OpenSet
<1> QED  BY <1>3, <1>5, <1>6, WLSteps

\* The rows of a table, one by one
LEMMA Elements ==
  ASSUME WLTypes
  PROVE  /\ Len(lists) \in Nat /\ DOMAIN lists = 1 .. Len(lists) /\ lists \in [1 .. Len(lists) -> Lists]
         /\ Len(prompts) \in Nat /\ DOMAIN prompts = 1 .. Len(prompts) /\ prompts \in [1 .. Len(prompts) -> Prompts]
         /\ \A l \in DOMAIN lists : lists[l] \in Lists /\ lists[l].here \in BOOLEAN /\ lists[l].site \in Site \union {"none"}
         /\ \A p \in DOMAIN prompts : prompts[p] \in Prompts /\ prompts[p].here \in BOOLEAN /\ prompts[p].list \in Nat
                                        /\ prompts[p].site \in Site \union {"none"}
<1>1. lists \in Seq(Lists) /\ prompts \in Seq(Prompts)  BY DEF WLTypes
<1>2. /\ Len(lists) \in Nat /\ DOMAIN lists = 1 .. Len(lists) /\ lists \in [1 .. Len(lists) -> Lists]
      /\ Len(prompts) \in Nat /\ DOMAIN prompts = 1 .. Len(prompts) /\ prompts \in [1 .. Len(prompts) -> Prompts]
  BY <1>1
<1>3. \A r \in Lists : r.here \in BOOLEAN /\ r.site \in Site \union {"none"}  BY DEF Lists
<1>4. \A r \in Prompts : r.here \in BOOLEAN /\ r.list \in Nat /\ r.site \in Site \union {"none"}  BY DEF Prompts
<1> QED  BY <1>2, <1>3, <1>4

\* A row of a table replaced by another of its kind
LEMMA RowReplaced ==
  ASSUME NEW S, NEW n \in Nat, NEW s \in [1 .. n -> S], NEW i \in 1 .. n, NEW x \in S
  PROVE  [s EXCEPT ![i] = x] \in Seq(S)
OBVIOUS

\* The lists stay well typed.
LEMMA ListsTyped == ASSUME WLTypes, WLNext PROVE lists' \in Seq(Lists)
<1>0. lists \in Seq(Lists) /\ wask \in [WLCaller -> Asks]  BY DEF WLTypes
<1>1. ASSUME NEW c \in WLCaller, MakeList(c) PROVE lists' \in Seq(Lists)
  <2>1. [site |-> wask[c].site, here |-> TRUE] \in Lists  BY <1>0 DEF Asks, Lists
  <2> QED  BY <1>0, <1>1, <2>1 DEF MakeList
<1>2. ASSUME NEW m \in Site, DeleteMonitor(m) PROVE lists' \in Seq(Lists)
  <2>1. \A l \in DOMAIN lists : [lists[l] EXCEPT !.site = "none"] \in Lists /\ lists[l] \in Lists
    <3>1. \A r \in Lists : [r EXCEPT !.site = "none"] \in Lists  BY DEF Lists
    <3> QED  BY <3>1, Elements
  <2>2. lists' = [l \in 1 .. Len(lists) |-> IF lists[l].site = m THEN [lists[l] EXCEPT !.site = "none"] ELSE lists[l]]
    BY <1>0, <1>2 DEF DeleteMonitor
  <2>3. lists' \in [1 .. Len(lists) -> Lists]  BY <1>0, <2>1, <2>2
  <2> QED  BY <1>0, <2>3
<1>3. ASSUME NEW m \in Site \union {"none"}, CreateSet(m) PROVE lists' \in Seq(Lists)
  <2>1. [site |-> m, here |-> TRUE] \in Lists  BY DEF Lists
  <2> QED  BY <1>0, <1>3, <2>1 DEF CreateSet
<1>4. ASSUME NEW l \in DOMAIN lists, NEW m \in Site, MoveSet(l, m) PROVE lists' \in Seq(Lists)
  <2>1. [lists[l] EXCEPT !.site = m] \in Lists
    <3>1. \A r \in Lists : [r EXCEPT !.site = m] \in Lists  BY DEF Lists
    <3> QED  BY <3>1, Elements
  <2>2. lists' = [lists EXCEPT ![l] = [lists[l] EXCEPT !.site = m]]  BY <1>4, Elements DEF MoveSet
  <2> QED  BY <2>1, <2>2, Elements, RowReplaced
<1>5. ASSUME NEW l \in DOMAIN lists, DeleteSet(l) PROVE lists' \in Seq(Lists)
  <2>1. [lists[l] EXCEPT !.here = FALSE] \in Lists
    <3>1. \A r \in Lists : [r EXCEPT !.here = FALSE] \in Lists  BY DEF Lists
    <3> QED  BY <3>1, Elements
  <2>2. lists' = [lists EXCEPT ![l] = [lists[l] EXCEPT !.here = FALSE]]  BY <1>5, Elements DEF DeleteSet
  <2> QED  BY <2>1, <2>2, Elements, RowReplaced
<1>6. ASSUME NEW c \in WLCaller, CallerStep(c) PROVE lists' \in Seq(Lists)
  BY <1>0, <1>1, <1>6 DEF CallerStep, AskMonitor, CreateMonitor, UpdateMonitor, CountPrompts, AddPrompt, LoadUpdate, OpenList, OpenSet
<1>7. ASSUME NEW m \in Site, SiteStep(m) PROVE lists' \in Seq(Lists)
  BY <1>0, <1>2, <1>7 DEF SiteStep, AdminPause, AdminResume, TakeUp, RunNow, EndJob, BecomesDue
<1>8. CASE ListStep
  BY <1>0, <1>3, <1>4, <1>5, <1>8 DEF ListStep, DeletePrompt, ChangePlan
<1> QED  BY <1>6, <1>7, <1>8, WLSteps

\* The prompts stay well typed.
LEMMA PromptsTyped == ASSUME WLTypes, WLNext PROVE prompts' \in Seq(Prompts)
<1>0. prompts \in Seq(Prompts) /\ wask \in [WLCaller -> Asks]  BY DEF WLTypes
<1>1. ASSUME NEW c \in WLCaller, AddPrompt(c) PROVE prompts' \in Seq(Prompts)
  <2>1. [list |-> wask[c].list, site |-> wask[c].site, here |-> TRUE] \in Prompts  BY <1>0 DEF Asks, Prompts
  <2> QED  BY <1>0, <1>1, <2>1 DEF AddPrompt
<1>2. ASSUME NEW m \in Site, DeleteMonitor(m) PROVE prompts' \in Seq(Prompts)
  <2>1. \A p \in DOMAIN prompts : [prompts[p] EXCEPT !.site = "none"] \in Prompts /\ prompts[p] \in Prompts
    <3>1. \A r \in Prompts : [r EXCEPT !.site = "none"] \in Prompts  BY DEF Prompts
    <3> QED  BY <3>1, Elements
  <2>2. prompts' = [p \in 1 .. Len(prompts) |-> IF prompts[p].site = m THEN [prompts[p] EXCEPT !.site = "none"] ELSE prompts[p]]
    BY <1>0, <1>2 DEF DeleteMonitor
  <2>3. prompts' \in [1 .. Len(prompts) -> Prompts]  BY <1>0, <2>1, <2>2
  <2> QED  BY <1>0, <2>3
<1>3. ASSUME NEW l \in DOMAIN lists, DeleteSet(l) PROVE prompts' \in Seq(Prompts)
  <2>1. \A r \in Prompts, b \in BOOLEAN : [r EXCEPT !.here = b] \in Prompts  BY DEF Prompts
  <2>2. \A p \in DOMAIN prompts : [prompts[p] EXCEPT !.here = @ /\ prompts[p].list # l] \in Prompts
    <3>1. \A p \in DOMAIN prompts : (prompts[p].here /\ prompts[p].list # l) \in BOOLEAN  BY Elements
    <3> QED  BY <2>1, <3>1, Elements, Zenon
  <2>3. prompts' = [p \in 1 .. Len(prompts) |-> [prompts[p] EXCEPT !.here = @ /\ prompts[p].list # l]]
    BY <1>0, <1>3 DEF DeleteSet
  <2>4. prompts' \in [1 .. Len(prompts) -> Prompts]  BY <1>0, <2>2, <2>3
  <2> QED  BY <1>0, <2>4
<1>4. ASSUME NEW p \in DOMAIN prompts, DeletePrompt(p) PROVE prompts' \in Seq(Prompts)
  <2>1. [prompts[p] EXCEPT !.here = FALSE] \in Prompts
    <3>1. \A r \in Prompts : [r EXCEPT !.here = FALSE] \in Prompts  BY DEF Prompts
    <3> QED  BY <3>1, Elements
  <2>2. prompts' = [prompts EXCEPT ![p] = [prompts[p] EXCEPT !.here = FALSE]]  BY <1>4, Elements DEF DeletePrompt
  <2> QED  BY <2>1, <2>2, Elements, RowReplaced
<1>6. ASSUME NEW c \in WLCaller, CallerStep(c) PROVE prompts' \in Seq(Prompts)
  BY <1>0, <1>1, <1>6 DEF CallerStep, AskMonitor, CreateMonitor, UpdateMonitor, CountPrompts, MakeList, LoadUpdate, OpenList, OpenSet
<1>7. ASSUME NEW m \in Site, SiteStep(m) PROVE prompts' \in Seq(Prompts)
  BY <1>0, <1>2, <1>7 DEF SiteStep, AdminPause, AdminResume, TakeUp, RunNow, EndJob, BecomesDue
<1>8. CASE ListStep
  BY <1>0, <1>3, <1>4, <1>8 DEF ListStep, CreateSet, MoveSet, ChangePlan
<1> QED  BY <1>6, <1>7, <1>8, WLSteps

\* Every step keeps the types.
LEMMA WLTypesKept == ASSUME WLTypes, WLNext PROVE WLTypes'
<1>1. queued' \subseteq Site /\ pro' \in BOOLEAN /\ legacy' \subseteq Site
  <2>1. ASSUME NEW c \in WLCaller, CallerStep(c) PROVE UNCHANGED <<queued, pro, legacy>>
    BY <2>1 DEF CallerStep, AskMonitor, CreateMonitor, UpdateMonitor, CountPrompts, MakeList, AddPrompt, LoadUpdate, OpenList, OpenSet
  <2>2. ASSUME NEW m \in Site, SiteStep(m) PROVE queued' \subseteq Site /\ pro' = pro /\ legacy' \subseteq legacy
    BY <2>2 DEF WLTypes, SiteStep, AdminPause, AdminResume, DeleteMonitor, TakeUp, RunNow, EndJob, BecomesDue
  <2>3. ASSUME ListStep PROVE queued' = queued /\ pro' \in BOOLEAN /\ legacy' \subseteq Site
    <3>1. \A m \in Site \union {"none"} : CreateSet(m) => queued' = queued /\ pro' = pro /\ legacy' \subseteq Site
      BY DEF WLTypes, CreateSet
    <3>2. \A l \in DOMAIN lists, m \in Site : MoveSet(l, m) => queued' = queued /\ pro' = pro /\ legacy' \subseteq Site
      <4>1. \A l \in DOMAIN lists : lists[l].site \in Site \union {"none"}  BY Elements
      <4> QED  BY <4>1 DEF WLTypes, MoveSet
    <3>3. \A l \in DOMAIN lists : DeleteSet(l) => UNCHANGED <<queued, pro, legacy>>  BY DEF DeleteSet
    <3>4. \A p \in DOMAIN prompts : DeletePrompt(p) => UNCHANGED <<queued, pro, legacy>>  BY DEF DeletePrompt
    <3>5. ChangePlan => queued' = queued /\ pro' \in BOOLEAN /\ legacy' = legacy  BY DEF ChangePlan
    <3> QED  BY <2>3, <3>1, <3>2, <3>3, <3>4, <3>5 DEF ListStep, WLTypes
  <2> QED  BY <2>1, <2>2, <2>3, WLSteps DEF WLTypes
<1>2. wask' \in [WLCaller -> Asks]
  <2>1. \A m \in Site : SiteStep(m) => wask' = wask
    BY DEF SiteStep, AdminPause, AdminResume, DeleteMonitor, TakeUp, RunNow, EndJob, BecomesDue, Whole
  <2>2. ListStep => wask' = wask  BY DEF ListStep, CreateSet, DeleteSet, MoveSet, DeletePrompt, ChangePlan, Whole
  <2> QED  BY <2>1, <2>2, AskTyped, WLSteps DEF WLTypes
<1> QED  BY <1>1, <1>2, WatchedTyped, ListsTyped, PromptsTyped DEF WLTypes

\* Requests of these kinds do not overlap.
WatchesApart == {{"update"}, {"update", "admin"}} \subseteq WLApart
ListsApart == {{"first"}, {"prompt", "list"}, {"add", "list"}, {"first", "list"}, {"first", "admin"},
               {"prompt", "admin"}, {"add", "admin"}} \subseteq WLApart

\* No request of a kind that must keep apart is under way.
LEMMA NotBeside ==
  ASSUME NEW a, NEW b, {a, b} \in WLApart, Beside(a), NEW d \in WLCaller
  PROVE  wask[d].op # b
BY DEF Beside

\* The columns of a monitor's row
LEMMA SitesFields ==
  ASSUME WLTypes, NEW m \in Site
  PROVE  /\ watched[m].here \in BOOLEAN /\ watched[m].active \in BOOLEAN /\ watched[m].freq \in {"manual", "weekly"}
         /\ watched[m].next \in {"none", "later", "due"} /\ watched[m].plan \in {"free", "pro"}
BY DEF WLTypes, MonitorRows

\* An update has loaded a row that was scheduled, and only its next scan has moved since.
Waits(row) == row.active /\ row.freq # "manual" => row.next # "none"
LoadedRow(c) ==
  wask[c].op = "update" =>
    LET m == wask[c].site
        row == wask[c].row IN
    /\ m \in Here /\ Waits(row)
    /\ watched[m].freq = row.freq /\ watched[m].active = row.active
    /\ row.next # "none" => watched[m].next # "none"
(***************************************************************************)
(* The inductive invariant of the schedule (routes_monitors.py,            *)
(* update_monitor): an active weekly monitor has a next scan, and what an  *)
(* update goes on from is still so but for the scan that has run           *)
(* meanwhile.                                                              *)
(***************************************************************************)
ScheduledInv ==
  /\ WLTypes
  /\ \A m \in Here : Waits(watched[m])
  /\ \A c \in WLCaller : LoadedRow(c)
  /\ \A c, d \in WLCaller : wask[c].op = "update" /\ wask[d].op = "update" => c = d

\* An update leaves the monitor scheduled.
LEMMA UpdateWaits ==
  ASSUME WatchesApart, ScheduledInv, NEW c \in WLCaller, UpdateMonitor(c)
  PROVE  /\ Waits(watched'[wask[c].site]) /\ \A n \in Site : watched'[n].here = watched[n].here
         /\ \A n \in Site \ {wask[c].site} : watched'[n] = watched[n]
<1> DEFINE m == wask[c].site
           old == wask[c].row
<1>1. PICK f \in {"keep", "manual", "weekly"}, status \in {"keep", "active", "paused"} :
        watched' = [watched EXCEPT
          ![m].freq = IF Updated(old, f, status).freq = old.freq THEN @ ELSE Updated(old, f, status).freq,
          ![m].active = IF Updated(old, f, status).active = old.active THEN @ ELSE Updated(old, f, status).active,
          ![m].next = IF Updated(old, f, status).next = old.next /\ (f = "keep" \/ Updated(old, f, status).next = "none")
                        THEN @ ELSE Updated(old, f, status).next]
  BY DEF UpdateMonitor
<1>2. old \in MonitorRows /\ m \in Site /\ watched \in [Site -> MonitorRows]  BY DEF UpdateMonitor, Asks, Here, ScheduledInv, WLTypes
<1>3. Waits(old) /\ watched[m].freq = old.freq /\ watched[m].active = old.active
      /\ (old.next # "none" => watched[m].next # "none")
  BY DEF UpdateMonitor, Finish, ScheduledInv, LoadedRow
<1>4. Updated(old, f, status) \in MonitorRows  BY <1>2 DEF Updated, MonitorRows
<1>5. PICK new \in MonitorRows : new = Updated(old, f, status)  BY <1>4
<1>6. /\ new.freq = IF f = "keep" THEN old.freq ELSE f
      /\ new.active = IF status = "keep" THEN old.active ELSE status = "active"
      /\ new.next = LET then == IF f = "keep" THEN old.next
                                ELSE IF f = "manual" \/ ~old.active THEN "none" ELSE "later" IN
                    IF status = "paused" THEN "none"
                    ELSE IF status = "active" /\ then = "none" /\ new.freq # "manual" THEN "due" ELSE then
  BY <1>2, <1>5 DEF Updated, MonitorRows
<1> DEFINE next == IF new.next = old.next /\ (f = "keep" \/ new.next = "none") THEN watched[m].next ELSE new.next
<1>7. watched' = [watched EXCEPT ![m].freq = new.freq, ![m].active = new.active, ![m].next = next]
  <2>1. watched' = [watched EXCEPT
          ![m].freq = IF new.freq = old.freq THEN watched[m].freq ELSE new.freq,
          ![m].active = IF new.active = old.active THEN watched[m].active ELSE new.active,
          ![m].next = next]
    BY <1>1, <1>2, <1>5
  <2> HIDE DEF m, old, next
  <2> QED  BY <2>1, <1>3
<1>8. Waits(new)
  BY <1>2, <1>3, <1>6 DEF Waits, MonitorRows
<1>9. new.next # "none" => next # "none"  BY <1>3
<1> HIDE DEF m, old, next
<1>10. /\ watched'[m].freq = new.freq /\ watched'[m].active = new.active /\ watched'[m].next = next
       /\ watched'[m].here = watched[m].here /\ \A n \in Site \ {m} : watched'[n] = watched[n]
  BY <1>2, <1>7 DEF MonitorRows
<1> QED  BY <1>2, <1>8, <1>9, <1>10 DEF Waits, m

\* The schedule is sound at the start.
LEMMA ScheduledInit == WLInit => ScheduledInv
<1>1. WLInit => Here = {} /\ \A c \in WLCaller : wask[c].op = "none"  BY AbsentTyped DEF WLInit, Here, Absent
<1> QED  BY <1>1, WLTypesInit DEF ScheduledInv, LoadedRow

\* What a step that updates nothing does to the rows that are watched.
LEMMA SitesKept ==
  ASSUME WatchesApart, ScheduledInv, WLNext, \A c \in WLCaller : ~UpdateMonitor(c), NEW n \in Site
  PROVE  /\ n \in Here' => Waits(watched'[n])
         /\ n \in Here /\ (\E c \in WLCaller : wask[c].op = "update" /\ wask[c].site = n) =>
              /\ n \in Here' /\ watched'[n].freq = watched[n].freq /\ watched'[n].active = watched[n].active
              /\ watched[n].next # "none" => watched'[n].next # "none"
<1> DEFINE Kept == /\ n \in Here' => Waits(watched'[n])
                   /\ n \in Here /\ (\E c \in WLCaller : wask[c].op = "update" /\ wask[c].site = n) =>
                        /\ n \in Here' /\ watched'[n].freq = watched[n].freq /\ watched'[n].active = watched[n].active
                        /\ watched[n].next # "none" => watched'[n].next # "none"
<1>0. /\ watched \in [Site -> MonitorRows] /\ (n \in Here => Waits(watched[n]))
      /\ n \in Here <=> watched[n].here
      /\ n \in Here' <=> watched'[n].here
  BY DEF ScheduledInv, WLTypes, Here
<1>a. ASSUME watched'[n] = watched[n] PROVE Kept  BY <1>0, <1>a
<1>1. ASSUME NEW c \in WLCaller, CreateMonitor(c) PROVE Kept
  <2>1. PICK m \in Site \ Here, f \in {"manual", "weekly"} :
          watched' = [watched EXCEPT ![m] =
            [here |-> TRUE, active |-> TRUE, freq |-> f, plan |-> wask[c].row.plan,
             next |-> IF f = "manual" THEN "none" ELSE "due"]]
    BY <1>1 DEF CreateMonitor
  <2> QED  BY <1>0, <1>a, <2>1 DEF Waits
<1>2. ASSUME NEW m \in Site, SiteStep(m) PROVE Kept
  <2>b. \/ AdminPause(m) \/ AdminResume(m) \/ DeleteMonitor(m) => ~ \E c \in WLCaller : wask[c].op = "update"
    BY NotBeside DEF AdminPause, AdminResume, DeleteMonitor, Whole, WatchesApart
  <2>1. CASE AdminPause(m)  BY <1>0, <2>b, <2>1 DEF AdminPause, MonitorRows, Waits
  <2>2. CASE AdminResume(m)  BY <1>0, <2>b, <2>2 DEF AdminResume, MonitorRows, Waits
  <2>3. CASE DeleteMonitor(m)  BY <1>0, <2>b, <2>3, AbsentTyped DEF DeleteMonitor, Absent, Waits
  <2>4. CASE TakeUp(m)  BY <1>0, <2>4 DEF TakeUp, MonitorRows, Waits
  <2>5. CASE RunNow(m)  BY <1>a, <2>5 DEF RunNow
  <2>6. CASE EndJob(m)  BY <1>0, <1>a, <2>6 DEF EndJob, MonitorRows, Waits
  <2>7. CASE BecomesDue(m)  BY <1>0, <2>7 DEF BecomesDue, MonitorRows, Waits
  <2> QED  BY <1>2, <2>1, <2>2, <2>3, <2>4, <2>5, <2>6, <2>7 DEF SiteStep
<1>3. CASE ListStep  BY <1>a, <1>3 DEF ListStep, CreateSet, DeleteSet, MoveSet, DeletePrompt, ChangePlan
<1>4. ASSUME NEW c \in WLCaller, CallerStep(c) PROVE Kept
  BY <1>a, <1>1, <1>4 DEF CallerStep, AskMonitor, MakeList, CountPrompts, AddPrompt, LoadUpdate, OpenList, OpenSet
<1> QED  BY <1>2, <1>3, <1>4, WLSteps

\* One update is in hand at a time, with the row it loaded.
LEMMA UpdatesOnce ==
  ASSUME WatchesApart, ScheduledInv, WLNext
  PROVE  /\ \A c, d \in WLCaller : wask'[c].op = "update" /\ wask'[d].op = "update" => c = d
         /\ \A c \in WLCaller : wask'[c].op = "update" =>
              \/ wask'[c] = wask[c]
              \/ \E m \in Here : wask'[c].site = m /\ wask'[c].row = watched[m] /\ UNCHANGED watched
<1>0. wask \in [WLCaller -> Asks] /\ \A c, d \in WLCaller : wask[c].op = "update" /\ wask[d].op = "update" => c = d
  BY DEF ScheduledInv, WLTypes
<1> DEFINE Loaded(c) == \E m \in Here : wask'[c].site = m /\ wask'[c].row = watched[m] /\ UNCHANGED watched
<1>1. ASSUME NEW c \in WLCaller, NEW m \in Site, LoadUpdate(c, m)
      PROVE  /\ \A d \in WLCaller : wask[d].op # "update"
             /\ Loaded(c) /\ \A d \in WLCaller \ {c} : wask'[d] = wask[d]
  <2>1. wask' = [wask EXCEPT ![c] = [NoWask EXCEPT !.op = "update", !.site = m, !.row = watched[m]]]
    BY <1>1 DEF LoadUpdate, Begin
  <2>2. Loaded(c)  BY <1>0, <1>1, <2>1 DEF LoadUpdate, NoWask
  <2>3. Beside("update") /\ {"update", "update"} \in WLApart
    BY <1>1 DEF LoadUpdate, Begin, WatchesApart, NoWask
  <2>4. \A d \in WLCaller : wask[d].op # "update"  BY <2>3, NotBeside
  <2> QED  BY <1>0, <2>1, <2>2, <2>4
<1>2. ASSUME NEW c \in WLCaller, CallerStep(c), \A m \in Site : ~LoadUpdate(c, m)
      PROVE  wask'[c].op # "update" /\ \A d \in WLCaller \ {c} : wask'[d] = wask[d]
  <2>1. CASE AskMonitor(c)  BY <1>0, <2>1 DEF AskMonitor, Begin, NoWask
  <2>2. CASE CreateMonitor(c)  BY <1>0, <2>2, AbsentTyped DEF CreateMonitor, Finish
  <2>3. CASE UpdateMonitor(c)  BY <1>0, <2>3, AbsentTyped DEF UpdateMonitor, Finish
  <2>4. CASE MakeList(c)  BY <1>0, <2>4 DEF MakeList, Asks
  <2>5. CASE CountPrompts(c)  BY <1>0, <2>5, AbsentTyped DEF CountPrompts, Asks
  <2>6. CASE AddPrompt(c)  BY <1>0, <2>6, AbsentTyped DEF AddPrompt, Finish
  <2>7. CASE \E m \in Site : OpenList(c, m)  BY <1>0, <2>7 DEF OpenList, Begin, NoWask
  <2>8. CASE \E l \in DOMAIN lists : OpenSet(c, l)  BY <1>0, <2>8 DEF OpenSet, Begin, NoWask
  <2> QED  BY <1>2, <2>1, <2>2, <2>3, <2>4, <2>5, <2>6, <2>7, <2>8 DEF CallerStep
<1>3. \A m \in Site : SiteStep(m) => wask' = wask
  BY DEF SiteStep, AdminPause, AdminResume, DeleteMonitor, TakeUp, RunNow, EndJob, BecomesDue, Whole
<1>4. ListStep => wask' = wask  BY DEF ListStep, CreateSet, DeleteSet, MoveSet, DeletePrompt, ChangePlan, Whole
<1>5. CASE wask' = wask  BY <1>0, <1>5
<1>6. ASSUME NEW c \in WLCaller, CallerStep(c)
      PROVE  /\ \A d, e \in WLCaller : wask'[d].op = "update" /\ wask'[e].op = "update" => d = e
             /\ \A d \in WLCaller : wask'[d].op = "update" => wask'[d] = wask[d] \/ Loaded(d)
  <2>1. CASE \E m \in Site : LoadUpdate(c, m)  BY <1>1, <2>1
  <2>2. CASE \A m \in Site : ~LoadUpdate(c, m)  BY <1>0, <1>2, <1>6, <2>2
  <2> QED  BY <2>1, <2>2
<1> QED  BY <1>3, <1>4, <1>5, <1>6, WLSteps

\* Every step keeps the schedule sound.
LEMMA ScheduledNext == ASSUME WatchesApart, ScheduledInv, WLNext PROVE ScheduledInv'
<1>1. WLTypes' /\ WLTypes  BY WLTypesKept DEF ScheduledInv
<1>2. \A c, d \in WLCaller : wask'[c].op = "update" /\ wask'[d].op = "update" => c = d  BY UpdatesOnce
<1>3. CASE \E c \in WLCaller : UpdateMonitor(c)
  <2>1. PICK c \in WLCaller : UpdateMonitor(c)  BY <1>3
  <2>2. /\ Waits(watched'[wask[c].site]) /\ \A n \in Site : watched'[n].here = watched[n].here
        /\ \A n \in Site \ {wask[c].site} : watched'[n] = watched[n]
    BY <2>1, UpdateWaits
  <2>3. Here' = Here  BY <2>2 DEF Here
  <2>4. \A n \in Here' : Waits(watched'[n])  BY <2>2, <2>3 DEF ScheduledInv, Here
  <2>5. \A d \in WLCaller : wask'[d].op # "update"
    BY <1>1, <2>1, AbsentTyped DEF UpdateMonitor, Finish, ScheduledInv, WLTypes
  <2> QED  BY <1>1, <1>2, <2>4, <2>5 DEF ScheduledInv, LoadedRow, Waits
<1>4. CASE \A c \in WLCaller : ~UpdateMonitor(c)
  <2>1. \A n \in Here' : Waits(watched'[n])  BY <1>4, SitesKept DEF Here
  <2>2. ASSUME NEW c \in WLCaller, wask'[c].op = "update" PROVE LoadedRow(c)'
    <3>1. CASE wask'[c] = wask[c]
      <4>1. LoadedRow(c) /\ wask[c].op = "update"  BY <2>2, <3>1 DEF ScheduledInv
      <4>2. wask[c].site \in Site /\ wask[c].site \in Here  BY <4>1 DEF LoadedRow, Here
      <4>3. /\ wask[c].site \in Here' /\ watched'[wask[c].site].freq = watched[wask[c].site].freq
            /\ watched'[wask[c].site].active = watched[wask[c].site].active
            /\ watched[wask[c].site].next # "none" => watched'[wask[c].site].next # "none"
        BY <1>4, <4>1, <4>2, SitesKept
      <4> QED  BY <3>1, <4>1, <4>3 DEF LoadedRow, Waits
    <3>2. CASE \E m \in Here : wask'[c].site = m /\ wask'[c].row = watched[m] /\ UNCHANGED watched
      <4>1. Here' = Here  BY <3>2 DEF Here
      <4> QED  BY <3>2, <4>1 DEF LoadedRow, Waits, ScheduledInv
    <3> QED  BY <2>2, <3>1, <3>2, UpdatesOnce
  <2>3. \A c \in WLCaller : LoadedRow(c)'  BY <2>2 DEF LoadedRow
  <2> QED  BY <1>1, <1>2, <2>1, <2>3 DEF ScheduledInv, Waits
<1> QED  BY <1>3, <1>4

----------------------------------------------------------------------------
\* The requests that have passed a limit and the rows it counts
Creating == {c \in WLCaller : wask[c].op = "create"}
CreatingFree == {c \in WLCaller : wask[c].op = "create" /\ wask[c].row.plan = "free"}
Adding(l) == {c \in WLCaller : wask[c].op = "add" /\ wask[c].list = l}
FreeHere == {m \in Here : watched[m].plan = "free"}
InList(l) == {p \in DOMAIN prompts : prompts[p].here /\ prompts[p].list = l}

(***************************************************************************)
(* The inductive invariant of the limits (routes_monitors.py,              *)
(* create_monitor; routes_answer_tracking.py, monitor_add_prompt): the     *)
(* rows and the requests that have passed the count exceed the limit by no *)
(* more than the other callers.                                            *)
(***************************************************************************)
LimitsInv ==
  LET beside == Cardinality(WLCaller) - 1 IN
  /\ WLTypes
  /\ Cardinality(FreeHere) + Cardinality(CreatingFree) <= FreeMonitors + beside
  /\ Cardinality(Here) + Cardinality(Creating) <= ProMonitors + beside
  /\ \A l \in Nat : Cardinality(InList(l)) + Cardinality(Adding(l)) <= MaxPrompts + beside

\* The sets the limits count are finite.
LEMMA CallersFinite ==
  /\ IsFiniteSet(WLCaller) /\ Cardinality(WLCaller) \in Nat
  /\ \A S : S \subseteq WLCaller => IsFiniteSet(S) /\ Cardinality(S) \in Nat /\ Cardinality(S) <= Cardinality(WLCaller)
BY WatchlistAssumption, FS_Subset, FS_CardinalityType

\* So are the monitored sites.
LEMMA SitesFinite ==
  /\ IsFiniteSet(Site) /\ Cardinality(Site) \in Nat
  /\ \A S : S \subseteq Site => IsFiniteSet(S) /\ Cardinality(S) \in Nat
BY WatchlistAssumption, FS_Subset, FS_CardinalityType

\* So are the prompts.
LEMMA PromptsFinite ==
  ASSUME NEW n \in Nat
  PROVE  \A S : S \subseteq 1 .. n => IsFiniteSet(S) /\ Cardinality(S) \in Nat
<1>1. IsFiniteSet(1 .. n)  BY FS_Interval, 1 \in Int, n \in Int
<1> QED  BY <1>1, FS_Subset, FS_CardinalityType

\* Of the callers in a state c is the only one that a step of c can put there or take away.
LEMMA CallerCount ==
  ASSUME NEW S, NEW T, S \subseteq WLCaller, T \subseteq WLCaller, NEW c \in WLCaller, S \ {c} = T \ {c}
  PROVE  /\ c \in S /\ c \notin T => Cardinality(T) = Cardinality(S) - 1
         /\ c \notin S /\ c \in T => Cardinality(T) = Cardinality(S) + 1
         /\ (c \in S <=> c \in T) => Cardinality(T) = Cardinality(S)
<1>1. IsFiniteSet(S) /\ IsFiniteSet(T) /\ Cardinality(S) \in Nat /\ Cardinality(T) \in Nat  BY CallersFinite
<1>2. ASSUME c \in S, c \notin T PROVE Cardinality(T) = Cardinality(S) - 1
  <2>1. T = S \ {c}  BY <1>2
  <2> QED  BY <1>1, <1>2, <2>1, FS_RemoveElement
<1>3. ASSUME c \notin S, c \in T PROVE Cardinality(T) = Cardinality(S) + 1
  <2>1. T = S \union {c}  BY <1>3
  <2> QED  BY <1>1, <1>3, <2>1, FS_AddElement
<1>4. ASSUME c \in S <=> c \in T PROVE Cardinality(T) = Cardinality(S)
  <2>1. T = S  BY <1>4
  <2> QED  BY <2>1
<1> QED  BY <1>2, <1>3, <1>4

\* The limits hold at the start.
LEMMA LimitsInit == WLInit => LimitsInv
<1> SUFFICES ASSUME WLInit PROVE LimitsInv  OBVIOUS
<1>1. Here = {} /\ \A c \in WLCaller : wask[c].op = "none"  BY AbsentTyped DEF WLInit, Here, Absent
<1>2. FreeHere = {} /\ Creating = {} /\ CreatingFree = {}  BY <1>1 DEF FreeHere, Creating, CreatingFree
<1>3. \A l \in Nat : Adding(l) = {} /\ InList(l) = {}  BY <1>1 DEF Adding, InList, WLInit
<1>4. Cardinality({}) = 0  BY FS_EmptySet
<1>5. /\ FreeMonitors \in Nat \ {0} /\ ProMonitors \in Nat \ {0} /\ MaxPrompts \in Nat \ {0}
      /\ Cardinality(WLCaller) \in Nat
  BY CallersFinite, WatchlistAssumption
<1>6. \A l \in Nat : Cardinality(InList(l)) + Cardinality(Adding(l)) <= MaxPrompts + (Cardinality(WLCaller) - 1)
  <2>1. \A l \in Nat : Cardinality(InList(l)) = 0 /\ Cardinality(Adding(l)) = 0  BY <1>3, <1>4
  <2> QED  BY <1>5, <2>1
<1>7. /\ Cardinality(FreeHere) + Cardinality(CreatingFree) <= FreeMonitors + (Cardinality(WLCaller) - 1)
      /\ Cardinality(Here) + Cardinality(Creating) <= ProMonitors + (Cardinality(WLCaller) - 1)
  BY <1>1, <1>2, <1>4, <1>5
<1> QED  BY <1>6, <1>7, WLTypesInit DEF LimitsInv

\* The monitors and the requests that may add one.
LEMMA MonitorsLimited ==
  ASSUME LimitsInv, WLNext
  PROVE  LET beside == Cardinality(WLCaller) - 1 IN
         /\ Cardinality(FreeHere') + Cardinality(CreatingFree') <= FreeMonitors + beside
         /\ Cardinality(Here') + Cardinality(Creating') <= ProMonitors + beside
<1> DEFINE beside == Cardinality(WLCaller) - 1
           Kept == /\ Cardinality(FreeHere') + Cardinality(CreatingFree') <= FreeMonitors + beside
                   /\ Cardinality(Here') + Cardinality(Creating') <= ProMonitors + beside
<1>0. /\ Cardinality(FreeHere) + Cardinality(CreatingFree) <= FreeMonitors + beside
      /\ Cardinality(Here) + Cardinality(Creating) <= ProMonitors + beside
      /\ WLTypes /\ WLTypes' /\ watched \in [Site -> MonitorRows] /\ wask \in [WLCaller -> Asks]
      /\ watched' \in [Site -> MonitorRows] /\ wask' \in [WLCaller -> Asks]
  BY WLTypesKept DEF LimitsInv, WLTypes
<1>1. /\ Here \subseteq Site /\ Here' \subseteq Site /\ FreeHere \subseteq Here /\ FreeHere' \subseteq Here'
      /\ Creating \subseteq WLCaller /\ Creating' \subseteq WLCaller
      /\ CreatingFree \subseteq Creating /\ CreatingFree' \subseteq Creating'
  BY DEF Here, FreeHere, Creating, CreatingFree
<1>2. /\ \A S \in {Here, Here', FreeHere, FreeHere', Creating, Creating', CreatingFree, CreatingFree'} :
           IsFiniteSet(S) /\ Cardinality(S) \in Nat
      /\ FreeMonitors \in Nat /\ ProMonitors \in Nat /\ FreeMonitors <= ProMonitors /\ Cardinality(WLCaller) \in Nat
  BY <1>1, SitesFinite, CallersFinite, WatchlistAssumption
<1>3. Cardinality(Creating') <= Cardinality(WLCaller) /\ Cardinality(CreatingFree') <= Cardinality(WLCaller)
      /\ Cardinality(FreeHere) <= Cardinality(Here)
  BY <1>1, <1>2, CallersFinite, FS_Subset
<1>b. ASSUME Here' \subseteq Here, FreeHere' \subseteq FreeHere, Creating' \subseteq Creating, CreatingFree' \subseteq CreatingFree
      PROVE  Kept
  <2>1. /\ Cardinality(Here') <= Cardinality(Here) /\ Cardinality(FreeHere') <= Cardinality(FreeHere)
        /\ Cardinality(Creating') <= Cardinality(Creating) /\ Cardinality(CreatingFree') <= Cardinality(CreatingFree)
    BY <1>2, <1>b, FS_Subset
  <2> HIDE DEF beside
  <2>2. beside \in Int  BY <1>2 DEF beside
  <2> QED  BY <1>0, <1>2, <2>1, <2>2
<1>4. ASSUME NEW c \in WLCaller, AskMonitor(c) PROVE Kept
  <2>1. /\ Here' = Here /\ FreeHere' = FreeHere
        /\ Cardinality(Here) < (IF pro THEN ProMonitors ELSE FreeMonitors)
    BY <1>4 DEF AskMonitor, MayWatch, Here, FreeHere
  <2>2. CASE pro
    <3>1. wask' = [wask EXCEPT ![c] = [NoWask EXCEPT !.op = "create", !.row.plan = "pro"]]
      BY <1>4, <2>2 DEF AskMonitor, Begin
    <3>6. [NoWask EXCEPT !.op = "create", !.row.plan = "pro"].row.plan = "pro"  BY DEF NoWask, Absent
    <3>2. wask'[c].row.plan = "pro" /\ wask[c].op = "none"
      <4>1. wask'[c] = [NoWask EXCEPT !.op = "create", !.row.plan = "pro"]  BY <1>0, <3>1
      <4> QED  BY <1>4, <3>6, <4>1 DEF AskMonitor, Begin
    <3>3. CreatingFree' \subseteq CreatingFree  BY <1>0, <3>1, <3>2 DEF CreatingFree
    <3>4. Cardinality(CreatingFree') <= Cardinality(CreatingFree)  BY <1>2, <3>3, FS_Subset
    <3> HIDE DEF beside
    <3>5. beside \in Int /\ Cardinality(Creating') <= beside + 1  BY <1>2, <1>3 DEF beside
    <3> QED  BY <1>0, <1>2, <2>1, <2>2, <3>4, <3>5
  <2>3. CASE ~pro
    <3>5. beside \in Int /\ Cardinality(Creating') <= beside + 1 /\ Cardinality(CreatingFree') <= beside + 1
      BY <1>2, <1>3
    <3> HIDE DEF beside
    <3> QED  BY <1>2, <1>3, <2>1, <2>3, <3>5
  <2> QED  BY <2>2, <2>3
<1>5. ASSUME NEW c \in WLCaller, CreateMonitor(c) PROVE Kept
  <2>1. PICK m \in Site \ Here, f \in {"manual", "weekly"} :
          watched' = [watched EXCEPT ![m] =
            [here |-> TRUE, active |-> TRUE, freq |-> f, plan |-> wask[c].row.plan,
             next |-> IF f = "manual" THEN "none" ELSE "due"]]
    BY <1>5 DEF CreateMonitor
  <2>2. wask[c].op = "create" /\ wask' = [wask EXCEPT ![c] = NoWask]  BY <1>5 DEF CreateMonitor, Finish
  <2>3. Here' = Here \union {m}  BY <1>0, <2>1 DEF Here
  <2>4. Cardinality(Here') = Cardinality(Here) + 1  BY <1>2, <2>1, <2>3, FS_AddElement
  <2>5. c \in Creating /\ c \notin Creating' /\ Creating \ {c} = Creating' \ {c}
    BY <1>0, <2>2, AbsentTyped DEF Creating
  <2>6. Cardinality(Creating') = Cardinality(Creating) - 1  BY <1>1, <2>5, CallerCount
  <2>7. Cardinality(FreeHere') + Cardinality(CreatingFree') = Cardinality(FreeHere) + Cardinality(CreatingFree)
    <3>1. CreatingFree \ {c} = CreatingFree' \ {c} /\ c \notin CreatingFree'
      BY <1>0, <2>2, AbsentTyped DEF CreatingFree
    <3>2. CASE wask[c].row.plan = "free"
      <4>1. FreeHere' = FreeHere \union {m} /\ m \notin FreeHere  BY <1>0, <2>1, <2>3, <3>2 DEF FreeHere, Here
      <4>2. Cardinality(FreeHere') = Cardinality(FreeHere) + 1  BY <1>2, <4>1, FS_AddElement
      <4>3. c \in CreatingFree  BY <2>2, <3>2 DEF CreatingFree
      <4>4. Cardinality(CreatingFree') = Cardinality(CreatingFree) - 1  BY <1>1, <3>1, <4>3, CallerCount
      <4> QED  BY <1>2, <4>2, <4>4
    <3>3. CASE wask[c].row.plan # "free"
      <4>1. FreeHere' = FreeHere  BY <1>0, <2>1, <2>3, <3>3 DEF FreeHere, Here
      <4>2. c \notin CreatingFree  BY <3>3 DEF CreatingFree
      <4>3. CreatingFree' = CreatingFree  BY <3>1, <4>2
      <4> QED  BY <4>1, <4>3
    <3> QED  BY <3>2, <3>3
  <2> HIDE DEF beside
  <2>8. beside \in Int  BY <1>2 DEF beside
  <2> QED  BY <1>0, <1>2, <2>4, <2>6, <2>7, <2>8
<1>6. ASSUME NEW c \in WLCaller, UpdateMonitor(c) PROVE Kept
  <2>1. \A n \in Site : watched'[n].here = watched[n].here /\ watched'[n].plan = watched[n].plan
    <3>1. wask[c].site \in Site  BY <1>6 DEF UpdateMonitor, Here
    <3>2. PICK freq \in {"manual", "weekly"}, active \in BOOLEAN, next \in {"none", "later", "due"} :
            watched' = [watched EXCEPT ![wask[c].site].freq = freq, ![wask[c].site].active = active, ![wask[c].site].next = next]
      BY <1>0, <1>6, UpdateWrites
    <3> QED  BY <1>0, <3>1, <3>2 DEF MonitorRows
  <2>2. wask' = [wask EXCEPT ![c] = NoWask]  BY <1>6 DEF UpdateMonitor, Finish
  <2>3. Creating' \subseteq Creating /\ CreatingFree' \subseteq CreatingFree
    BY <1>0, <2>2, AbsentTyped DEF Creating, CreatingFree
  <2>4. Here' = Here /\ FreeHere' = FreeHere  BY <2>1 DEF Here, FreeHere
  <2> QED  BY <1>b, <2>3, <2>4
<1>7. ASSUME UNCHANGED watched, NEW c \in WLCaller, \A d \in WLCaller \ {c} : wask'[d] = wask[d], wask'[c].op # "create" PROVE Kept
  <2>1. Here' = Here /\ FreeHere' = FreeHere  BY <1>7 DEF Here, FreeHere
  <2>2. Creating' \subseteq Creating /\ CreatingFree' \subseteq CreatingFree  BY <1>7 DEF Creating, CreatingFree
  <2> QED  BY <1>b, <2>1, <2>2
<1>8. ASSUME UNCHANGED <<watched, wask>> PROVE Kept
  <2>1. Here' = Here /\ FreeHere' = FreeHere /\ Creating' = Creating /\ CreatingFree' = CreatingFree
    BY <1>8 DEF Here, FreeHere, Creating, CreatingFree
  <2> QED  BY <1>b, <2>1
<1>9. ASSUME NEW c \in WLCaller, CallerStep(c) PROVE Kept
  <2>1. CASE MakeList(c)  BY <1>0, <1>7, <2>1 DEF MakeList, Asks
  <2>2. CASE CountPrompts(c)  BY <1>0, <1>7, <2>2, AbsentTyped DEF CountPrompts, Asks
  <2>3. CASE AddPrompt(c)  BY <1>0, <1>7, <2>3, AbsentTyped DEF AddPrompt, Finish
  <2>4. CASE \E m \in Site : OpenList(c, m)  BY <1>0, <1>7, <2>4 DEF OpenList, Begin, NoWask
  <2>5. CASE \E l \in DOMAIN lists : OpenSet(c, l)  BY <1>0, <1>7, <2>5 DEF OpenSet, Begin, NoWask
  <2>6. CASE \E m \in Site : LoadUpdate(c, m)  BY <1>0, <1>7, <2>6 DEF LoadUpdate, Begin, NoWask
  <2> QED  BY <1>4, <1>5, <1>6, <1>9, <2>1, <2>2, <2>3, <2>4, <2>5, <2>6 DEF CallerStep
<1>10. ASSUME NEW m \in Site, SiteStep(m) PROVE Kept
  <2>1. wask' = wask  BY <1>10 DEF SiteStep, AdminPause, AdminResume, DeleteMonitor, TakeUp, RunNow, EndJob, BecomesDue, Whole
  <2>2. \A n \in Site : /\ watched'[n].here => watched[n].here
                        /\ watched'[n].here => watched'[n].plan = watched[n].plan
    <3>0. watched \in [Site -> MonitorRows]  BY <1>0
    <3>1. CASE AdminPause(m)  BY <3>0, <3>1 DEF AdminPause, MonitorRows
    <3>2. CASE AdminResume(m)  BY <3>0, <3>2 DEF AdminResume, MonitorRows
    <3>3. CASE DeleteMonitor(m)  BY <3>0, <3>3 DEF DeleteMonitor, Absent
    <3>4. CASE TakeUp(m)  BY <3>0, <3>4 DEF TakeUp, MonitorRows
    <3>5. CASE RunNow(m)  BY <3>0, <3>5 DEF RunNow
    <3>6. CASE EndJob(m)  BY <3>0, <3>6 DEF EndJob, MonitorRows
    <3>7. CASE BecomesDue(m)  BY <3>0, <3>7 DEF BecomesDue, MonitorRows
    <3> QED  BY <1>10, <3>1, <3>2, <3>3, <3>4, <3>5, <3>6, <3>7 DEF SiteStep
  <2>3. Here' \subseteq Here /\ FreeHere' \subseteq FreeHere  BY <2>2 DEF Here, FreeHere
  <2>4. Creating' = Creating /\ CreatingFree' = CreatingFree  BY <2>1 DEF Creating, CreatingFree
  <2> QED  BY <1>b, <2>3, <2>4
<1>11. CASE ListStep
  BY <1>8, <1>11 DEF ListStep, CreateSet, DeleteSet, MoveSet, DeletePrompt, ChangePlan, Whole
<1> QED  BY <1>9, <1>10, <1>11, WLSteps

\* The prompts of a list and the requests that may add one
LEMMA PromptsLimited ==
  ASSUME LimitsInv, WLNext, NEW l \in Nat
  PROVE  Cardinality(InList(l)') + Cardinality(Adding(l)') <= MaxPrompts + (Cardinality(WLCaller) - 1)
<1> DEFINE limit == MaxPrompts + (Cardinality(WLCaller) - 1)
           Kept == Cardinality(InList(l)') + Cardinality(Adding(l)') <= limit
<1>0. /\ Cardinality(InList(l)) + Cardinality(Adding(l)) <= limit
      /\ WLTypes /\ WLTypes' /\ wask \in [WLCaller -> Asks]
      /\ Len(prompts) \in Nat /\ DOMAIN prompts = 1 .. Len(prompts)
      /\ Len(prompts') \in Nat /\ DOMAIN prompts' = 1 .. Len(prompts')
  <2>1. WLTypes /\ WLTypes'  BY WLTypesKept DEF LimitsInv
  <2>2. prompts \in Seq(Prompts) /\ prompts' \in Seq(Prompts)  BY <2>1 DEF WLTypes
  <2> QED  BY <2>1, <2>2 DEF LimitsInv, WLTypes
<1>1. /\ InList(l) \subseteq 1 .. Len(prompts) /\ InList(l)' \subseteq 1 .. Len(prompts')
      /\ Adding(l) \subseteq WLCaller /\ Adding(l)' \subseteq WLCaller
  BY <1>0 DEF InList, Adding
<1>2. /\ \A S \in {InList(l), InList(l)', Adding(l), Adding(l)'} : IsFiniteSet(S) /\ Cardinality(S) \in Nat
      /\ Cardinality(Adding(l)') <= Cardinality(WLCaller) /\ Cardinality(WLCaller) \in Nat /\ MaxPrompts \in Nat
  BY <1>0, <1>1, PromptsFinite, CallersFinite, WatchlistAssumption
<1>b. ASSUME InList(l)' \subseteq InList(l), Adding(l)' \subseteq Adding(l) PROVE Kept
  <2>1. Cardinality(InList(l)') <= Cardinality(InList(l)) /\ Cardinality(Adding(l)') <= Cardinality(Adding(l))
    BY <1>2, <1>b, FS_Subset
  <2>2. limit \in Int  BY <1>2
  <2> HIDE DEF limit
  <2> QED  BY <1>0, <1>2, <2>1, <2>2
<1>c. ASSUME UNCHANGED prompts, NEW c \in WLCaller, \A d \in WLCaller \ {c} : wask'[d] = wask[d], wask'[c].op # "add" PROVE Kept
  <2>1. InList(l)' = InList(l)  BY <1>c DEF InList
  <2>2. Adding(l)' \subseteq Adding(l)  BY <1>c DEF Adding
  <2> QED  BY <1>b, <2>1, <2>2
<1>3. ASSUME NEW c \in WLCaller, CountPrompts(c) PROVE Kept
  <2>1. CASE wask[c].list = l /\ PromptCount(l) < MaxPrompts
    <3>1. InList(l)' = InList(l) /\ Cardinality(InList(l)) < MaxPrompts  BY <1>3, <2>1 DEF CountPrompts, InList, PromptCount
    <3>2. Cardinality(Adding(l)') <= Cardinality(WLCaller)  BY <1>2
    <3> QED  BY <1>2, <3>1, <3>2
  <2>2. CASE ~(wask[c].list = l /\ PromptCount(l) < MaxPrompts)
    <3>1. InList(l)' = InList(l)  BY <1>3 DEF CountPrompts, InList
    <3>2. \A d \in WLCaller \ {c} : wask'[d] = wask[d]  BY <1>0, <1>3 DEF CountPrompts
    <3>3. wask'[c] = IF PromptCount(wask[c].list) < MaxPrompts THEN [wask[c] EXCEPT !.op = "add"] ELSE NoWask
      BY <1>0, <1>3 DEF CountPrompts
    <3>4. wask'[c].op = "add" => wask'[c].list # l  BY <1>0, <2>2, <3>3, AbsentTyped DEF Asks
    <3>5. Adding(l)' \subseteq Adding(l)  BY <3>2, <3>4 DEF Adding
    <3> QED  BY <1>b, <3>1, <3>5
  <2> QED  BY <2>1, <2>2
<1>4. ASSUME NEW c \in WLCaller, AddPrompt(c) PROVE Kept
  <2>1. wask[c].op = "add" /\ wask' = [wask EXCEPT ![c] = NoWask]
        /\ prompts' = Append(prompts, [list |-> wask[c].list, site |-> wask[c].site, here |-> TRUE])
    BY <1>4 DEF AddPrompt, Finish
  <2>2. /\ Len(prompts') = Len(prompts) + 1 /\ \A p \in 1 .. Len(prompts) : prompts'[p] = prompts[p]
        /\ prompts'[Len(prompts) + 1].here /\ prompts'[Len(prompts) + 1].list = wask[c].list
    <3>1. prompts \in Seq(Prompts)  BY <1>0 DEF WLTypes
    <3> QED  BY <2>1, <3>1
  <2>3. Adding(l) \ {c} = Adding(l)' \ {c} /\ c \notin Adding(l)'  BY <1>0, <2>1, AbsentTyped DEF Adding
  <2>4. CASE wask[c].list = l
    <3>1. InList(l)' = InList(l) \union {Len(prompts) + 1} /\ Len(prompts) + 1 \notin InList(l)
      <4>1. DOMAIN prompts' = DOMAIN prompts \union {Len(prompts) + 1} /\ Len(prompts) + 1 \notin DOMAIN prompts
        BY <1>0, <2>2
      <4> QED  BY <1>0, <2>2, <2>4, <4>1 DEF InList
    <3>2. Cardinality(InList(l)') = Cardinality(InList(l)) + 1  BY <1>2, <3>1, FS_AddElement
    <3>3. c \in Adding(l)  BY <2>1, <2>4 DEF Adding
    <3>4. Cardinality(Adding(l)') = Cardinality(Adding(l)) - 1  BY <1>1, <2>3, <3>3, CallerCount
    <3>5. limit \in Int  BY <1>2
    <3> HIDE DEF limit
    <3> QED  BY <1>0, <1>2, <3>2, <3>4, <3>5
  <2>5. CASE wask[c].list # l
    <3>1. InList(l)' \subseteq InList(l)
      <4>1. DOMAIN prompts' = DOMAIN prompts \union {Len(prompts) + 1}  BY <1>0, <2>2
      <4> QED  BY <1>0, <2>2, <2>5, <4>1 DEF InList
    <3>2. Adding(l)' \subseteq Adding(l)  BY <2>3
    <3> QED  BY <1>b, <3>1, <3>2
  <2> QED  BY <2>4, <2>5
<1>5. ASSUME NEW c \in WLCaller, CallerStep(c) PROVE Kept
  <2>1. CASE MakeList(c)  BY <1>0, <1>c, <2>1 DEF MakeList, Asks
  <2>2. CASE AskMonitor(c)  BY <1>0, <1>c, <2>2 DEF AskMonitor, Begin, NoWask
  <2>3. CASE CreateMonitor(c)  BY <1>0, <1>c, <2>3, AbsentTyped DEF CreateMonitor, Finish
  <2>4. CASE \E m \in Site : OpenList(c, m)  BY <1>0, <1>c, <2>4 DEF OpenList, Begin, NoWask
  <2>5. CASE \E k \in DOMAIN lists : OpenSet(c, k)  BY <1>0, <1>c, <2>5 DEF OpenSet, Begin, NoWask
  <2>6. CASE \E m \in Site : LoadUpdate(c, m)  BY <1>0, <1>c, <2>6 DEF LoadUpdate, Begin, NoWask
  <2>7. CASE UpdateMonitor(c)  BY <1>0, <1>c, <2>7, AbsentTyped DEF UpdateMonitor, Finish
  <2> QED  BY <1>3, <1>4, <1>5, <2>1, <2>2, <2>3, <2>4, <2>5, <2>6, <2>7 DEF CallerStep
<1>6. ASSUME wask' = wask, \A p \in DOMAIN prompts' : p \in DOMAIN prompts /\ (prompts'[p].here => prompts[p].here)
                                                        /\ prompts'[p].list = prompts[p].list PROVE Kept
  <2>1. InList(l)' \subseteq InList(l)  BY <1>6 DEF InList
  <2>2. Adding(l)' = Adding(l)  BY <1>6 DEF Adding
  <2> QED  BY <1>b, <2>1, <2>2
<1>7. ASSUME NEW m \in Site, DeleteMonitor(m) PROVE Kept
  <2>1. \A p \in DOMAIN prompts : prompts[p] \in Prompts  BY <1>0, Elements
  <2>2. \A r \in Prompts : [r EXCEPT !.site = "none"].here = r.here /\ [r EXCEPT !.site = "none"].list = r.list  BY DEF Prompts
  <2>3. \A p \in DOMAIN prompts' : p \in DOMAIN prompts /\ prompts'[p].here = prompts[p].here /\ prompts'[p].list = prompts[p].list
    BY <1>7, <2>1, <2>2 DEF DeleteMonitor
  <2> QED  BY <1>6, <1>7, <2>3 DEF DeleteMonitor, Whole
<1>8. ASSUME NEW k \in DOMAIN lists, DeleteSet(k) PROVE Kept
  <2>1. \A p \in DOMAIN prompts : prompts[p] \in Prompts  BY <1>0, Elements
  <2>2. \A r \in Prompts : [r EXCEPT !.here = @ /\ r.list # k].here = (r.here /\ r.list # k) /\ [r EXCEPT !.here = @ /\ r.list # k].list = r.list
    BY DEF Prompts
  <2>3. \A p \in DOMAIN prompts' : p \in DOMAIN prompts /\ prompts'[p] = [prompts[p] EXCEPT !.here = @ /\ prompts[p].list # k]
    BY <1>8 DEF DeleteSet
  <2>4. \A p \in DOMAIN prompts' : p \in DOMAIN prompts /\ (prompts'[p].here => prompts[p].here) /\ prompts'[p].list = prompts[p].list
    BY <2>1, <2>2, <2>3
  <2> QED  BY <1>6, <1>8, <2>4 DEF DeleteSet, Whole
<1>9. ASSUME NEW q \in DOMAIN prompts, DeletePrompt(q) PROVE Kept
  <2>1. \A p \in DOMAIN prompts : prompts[p] \in Prompts  BY <1>0, Elements
  <2>2. prompts' = [prompts EXCEPT ![q] = [prompts[q] EXCEPT !.here = FALSE]]  BY <1>9, <1>0, Elements DEF DeletePrompt
  <2>3. \A r \in Prompts : ~[r EXCEPT !.here = FALSE].here /\ [r EXCEPT !.here = FALSE].list = r.list  BY DEF Prompts
  <2>4. \A p \in DOMAIN prompts' : p \in DOMAIN prompts /\ (prompts'[p].here => prompts[p].here) /\ prompts'[p].list = prompts[p].list
    BY <2>1, <2>2, <2>3
  <2> QED  BY <1>6, <1>9, <2>4 DEF DeletePrompt, Whole
<1>d. ASSUME UNCHANGED <<prompts, wask>> PROVE Kept  BY <1>6, <1>d
<1>10. ASSUME NEW m \in Site, SiteStep(m) PROVE Kept
  BY <1>7, <1>d, <1>10 DEF SiteStep, AdminPause, AdminResume, TakeUp, RunNow, EndJob, BecomesDue, Whole
<1>11. CASE ListStep
  BY <1>8, <1>9, <1>d, <1>11 DEF ListStep, CreateSet, MoveSet, ChangePlan, Whole
<1> QED  BY <1>5, <1>10, <1>11, WLSteps

\* Every step keeps the limits.
LEMMA LimitsNext == ASSUME LimitsInv, WLNext PROVE LimitsInv'
<1>1. WLTypes'  BY WLTypesKept DEF LimitsInv
<1>2. \A l \in Nat : Cardinality(InList(l)') + Cardinality(Adding(l)') <= MaxPrompts + (Cardinality(WLCaller) - 1)
  BY PromptsLimited
<1> QED  BY <1>1, <1>2, MonitorsLimited DEF LimitsInv, InList, Adding

\* The invariant keeps what the rows of a plan may be.
LEMMA LimitsKeep == LimitsInv => WatchesLimited
<1> SUFFICES ASSUME LimitsInv PROVE WatchesLimited  OBVIOUS
<1> DEFINE beside == Cardinality(WLCaller) - 1
<1>1. /\ WLTypes /\ Cardinality(FreeHere) + Cardinality(CreatingFree) <= FreeMonitors + beside
      /\ Cardinality(Here) + Cardinality(Creating) <= ProMonitors + beside
      /\ \A l \in Nat : Cardinality(InList(l)) + Cardinality(Adding(l)) <= MaxPrompts + beside
  BY DEF LimitsInv
<1>2. /\ Cardinality(Here) \in Nat /\ Cardinality(FreeHere) \in Nat /\ Cardinality(Creating) \in Nat /\ Cardinality(CreatingFree) \in Nat
      /\ beside \in Int /\ FreeMonitors \in Nat /\ ProMonitors \in Nat /\ MaxPrompts \in Nat
  BY SitesFinite, CallersFinite, WatchlistAssumption DEF Here, FreeHere, Creating, CreatingFree
<1>3. \A l \in DOMAIN lists : l \in Nat /\ Cardinality(InList(l)) \in Nat /\ Cardinality(Adding(l)) \in Nat
  BY <1>1, Elements, PromptsFinite, CallersFinite DEF InList, Adding
<1>4. \A l : PromptCount(l) = Cardinality(InList(l))  BY DEF PromptCount, InList
<1> HIDE DEF beside
<1>5. Cardinality(FreeHere) <= FreeMonitors + beside /\ Cardinality(Here) <= ProMonitors + beside  BY <1>1, <1>2
<1>6. \A l \in DOMAIN lists : PromptCount(l) <= MaxPrompts + beside
  <2>1. ASSUME NEW l \in DOMAIN lists PROVE PromptCount(l) <= MaxPrompts + beside
    <3>1. l \in Nat /\ Cardinality(InList(l)) \in Nat /\ Cardinality(Adding(l)) \in Nat  BY <1>3
    <3>2. Cardinality(InList(l)) + Cardinality(Adding(l)) <= MaxPrompts + beside  BY <1>1, <3>1
    <3> QED  BY <1>2, <1>4, <3>1, <3>2
  <2> QED  BY <2>1
<1> QED  BY <1>5, <1>6 DEF WatchesLimited, beside, FreeHere

----------------------------------------------------------------------------
\* The request has read the list its prompts go to.
Choosing(c) == wask[c].op \in {"prompt", "add"}

SetsOf(m) == {l \in DOMAIN lists : lists[l].here /\ lists[l].site = m}

(***************************************************************************)
(* The inductive invariant of the prompt lists (routes_answer_tracking.py; *)
(* service.py, prompt_set_for_monitor): a monitored website has one list,  *)
(* the one its prompts are in, and what a request has read of the lists    *)
(* still stands.                                                           *)
(***************************************************************************)
ShownInv ==
  /\ WLTypes
  /\ \A l \in DOMAIN lists : lists[l].site \in Here \union {"none"}
  /\ \A p \in DOMAIN prompts : prompts[p].site \in Here \union {"none"}
  \* A website has one set, the one its prompts are in.
  /\ \A k, l \in DOMAIN lists : lists[k].here /\ lists[l].here /\ lists[k].site = lists[l].site /\ lists[k].site \in Here \ legacy => k = l
  /\ \A p \in DOMAIN prompts : prompts[p].here =>
       /\ prompts[p].list \in DOMAIN lists /\ lists[prompts[p].list].here
       /\ prompts[p].site \in Here \ legacy => lists[prompts[p].list].site = prompts[p].site
  \* What a request has loaded still stands.
  /\ \A c \in WLCaller : Choosing(c) =>
       /\ wask[c].site \in Here \union {"none"}
       /\ wask[c].list \in DOMAIN lists /\ lists[wask[c].list].here
       /\ wask[c].site \in Here \ legacy => lists[wask[c].list].site = wask[c].site
  /\ \A c \in WLCaller : wask[c].op = "first" =>
       wask[c].site \in Here /\ \A l \in DOMAIN lists : lists[l].here => lists[l].site # wask[c].site
  /\ \A c, d \in WLCaller : wask[c].op = "first" /\ wask[d].op = "first" => c = d

\* The list a website shows is one of its lists.
LEMMA ListOfIsSet ==
  ASSUME WLTypes, NEW m
  PROVE  /\ SetsOf(m) = {} => ListOf(m) = 0
         /\ SetsOf(m) # {} => ListOf(m) \in SetsOf(m) /\ ListOf(m) # 0
<1>1. SetsOf(m) \in SUBSET Nat /\ 0 \notin SetsOf(m)  BY Elements DEF SetsOf
<1>2. ListOf(m) = IF SetsOf(m) = {} THEN 0 ELSE Min(SetsOf(m))  BY DEF ListOf, SetsOf
<1> QED  BY <1>1, <1>2, MinExists

\* The prompts are where they belong at the start.
LEMMA ShownInit == WLInit => ShownInv
<1>1. WLInit => \A c \in WLCaller : wask[c].op = "none"  BY AbsentTyped DEF WLInit
<1> QED  BY <1>1, WLTypesInit DEF ShownInv, Choosing, WLInit

\* The invariant keeps every prompt shown.
LEMMA ShownKeep == ShownInv => PromptsShown
<1> SUFFICES ASSUME ShownInv, NEW p \in DOMAIN prompts, prompts[p].here
             PROVE  /\ lists[prompts[p].list].here
                    /\ prompts[p].site \in Here \ legacy => prompts[p].list = ListOf(prompts[p].site)
  BY DEF PromptsShown
<1>1. /\ prompts[p].list \in DOMAIN lists /\ lists[prompts[p].list].here
      /\ prompts[p].site \in Here \ legacy => lists[prompts[p].list].site = prompts[p].site
  BY DEF ShownInv
<1>2. ASSUME prompts[p].site \in Here \ legacy PROVE prompts[p].list = ListOf(prompts[p].site)
  <2>1. prompts[p].list \in SetsOf(prompts[p].site)  BY <1>1, <1>2 DEF SetsOf
  <2>2. ListOf(prompts[p].site) \in SetsOf(prompts[p].site)  BY <2>1, ListOfIsSet DEF ShownInv
  <2>3. \A k, l \in SetsOf(prompts[p].site) : k = l  BY <1>2 DEF ShownInv, SetsOf
  <2> QED  BY <2>1, <2>2, <2>3
<1> QED  BY <1>1, <1>2

\* A website that is taken on has no set and no prompt yet.
LEMMA HereGrows ==
  ASSUME ShownInv, NEW m \in Site \ Here
  PROVE  /\ \A l \in DOMAIN lists : lists[l].site # m
         /\ \A p \in DOMAIN prompts : prompts[p].site # m
         /\ \A c \in WLCaller : Choosing(c) \/ wask[c].op = "first" => wask[c].site # m
BY WatchlistAssumption DEF ShownInv

\* Steps that leave the lists and the prompts alone, and of the requests change one that has none in hand.
LEMMA ShownFrame ==
  ASSUME ShownInv, WLTypes', Here \subseteq Here', UNCHANGED <<lists, prompts, legacy>>,
         \A c \in WLCaller : Choosing(c)' \/ wask'[c].op = "first" => wask'[c] = wask[c]
  PROVE  ShownInv'
<1> USE DEF ShownInv
<1>1. \A m \in Here' \ Here : m \in Site  BY DEF Here
<1>2. \A l \in DOMAIN lists : lists[l].site \in Here' => lists[l].site \in Here
  BY <1>1, HereGrows
<1>3. \A p \in DOMAIN prompts : prompts[p].site \in Here' => prompts[p].site \in Here
  BY <1>1, HereGrows
<1>4. \A c \in WLCaller : Choosing(c) /\ wask[c].site \in Here' => wask[c].site \in Here
  BY <1>1, HereGrows
<1>5. \A l \in DOMAIN lists' : lists'[l].site \in Here' \union {"none"}  OBVIOUS
<1>6. \A p \in DOMAIN prompts' : prompts'[p].site \in Here' \union {"none"}  OBVIOUS
<1>7. \A k, l \in DOMAIN lists' : lists'[k].here /\ lists'[l].here /\ lists'[k].site = lists'[l].site /\ lists'[k].site \in Here' \ legacy' => k = l
  BY <1>2
<1>8. \A p \in DOMAIN prompts' : prompts'[p].here =>
       /\ prompts'[p].list \in DOMAIN lists' /\ lists'[prompts'[p].list].here
       /\ prompts'[p].site \in Here' \ legacy' => lists'[prompts'[p].list].site = prompts'[p].site
  BY <1>3
<1>9. \A c \in WLCaller : Choosing(c)' =>
       /\ wask'[c].site \in Here' \union {"none"}
       /\ wask'[c].list \in DOMAIN lists' /\ lists'[wask'[c].list].here
       /\ wask'[c].site \in Here' \ legacy' => lists'[wask'[c].list].site = wask'[c].site
  BY <1>4 DEF Choosing
<1>10. \A c \in WLCaller : wask'[c].op = "first" =>
         wask'[c].site \in Here' /\ \A l \in DOMAIN lists' : lists'[l].here => lists'[l].site # wask'[c].site
  OBVIOUS
<1>11. \A c, d \in WLCaller : wask'[c].op = "first" /\ wask'[d].op = "first" => c = d  OBVIOUS
<1> QED  BY <1>5, <1>6, <1>7, <1>8, <1>9, <1>10, <1>11

\* Every step keeps the prompts in the list their website shows.
LEMMA ShownNext == ASSUME ListsApart, ShownInv, WLNext PROVE ShownInv'
<1>0. WLTypes /\ WLTypes' /\ wask \in [WLCaller -> Asks] /\ watched \in [Site -> MonitorRows] /\ Len(lists) \in Nat
      /\ DOMAIN lists = 1 .. Len(lists) /\ DOMAIN prompts = 1 .. Len(prompts) /\ Len(prompts) \in Nat
  BY WLTypesKept, Elements DEF ShownInv, WLTypes
<1>a. ASSUME UNCHANGED <<watched, lists, prompts, legacy>>, NEW c \in WLCaller, \A d \in WLCaller \ {c} : wask'[d] = wask[d],
             wask'[c].op \notin {"first", "prompt", "add"}
      PROVE ShownInv'
  <2>1. \A d \in WLCaller : Choosing(d)' \/ wask'[d].op = "first" => wask'[d] = wask[d]  BY <1>a DEF Choosing
  <2>2. Here' = Here  BY <1>a DEF Here
  <2> QED  BY <1>0, <1>a, <2>1, <2>2, ShownFrame
<1>b. ASSUME UNCHANGED <<lists, prompts, legacy, wask>>, \A n \in Site : watched'[n].here = watched[n].here
      PROVE ShownInv'
  <2>2. Here' = Here  BY <1>b DEF Here
  <2> QED  BY <1>0, <1>b, <2>2, ShownFrame
\* The requests about monitors.
<1>1. ASSUME NEW c \in WLCaller, AskMonitor(c) \/ CreateMonitor(c) \/ UpdateMonitor(c) \/ \E m \in Site : LoadUpdate(c, m) PROVE ShownInv'
  <2>1. CASE AskMonitor(c)
    <3>1. [NoWask EXCEPT !.op = "create", !.row.plan = IF pro THEN "pro" ELSE "free"].op = "create"  BY DEF NoWask
    <3> QED  BY <1>0, <1>a, <2>1, <3>1 DEF AskMonitor, Begin
  <2>2. CASE CreateMonitor(c)
    <3>1. \A d \in WLCaller : Choosing(d)' \/ wask'[d].op = "first" => wask'[d] = wask[d]
      BY <1>0, <2>2, AbsentTyped DEF CreateMonitor, Finish, Choosing
    <3>2. \E m \in Site, row \in MonitorRows : watched' = [watched EXCEPT ![m] = row] /\ row.here
      <4>1. PICK m \in Site \ Here, f \in {"manual", "weekly"} :
              watched' = [watched EXCEPT ![m] =
                [here |-> TRUE, active |-> TRUE, freq |-> f, plan |-> wask[c].row.plan,
                 next |-> IF f = "manual" THEN "none" ELSE "due"]]
        BY <2>2 DEF CreateMonitor
      <4>2. wask[c].row.plan \in {"free", "pro"}  BY <1>0 DEF Asks, MonitorRows
      <4> DEFINE new == [here |-> TRUE, active |-> TRUE, freq |-> f, plan |-> wask[c].row.plan,
                         next |-> IF f = "manual" THEN "none" ELSE "due"]
      <4>3. new \in MonitorRows /\ new.here  BY <4>2 DEF MonitorRows
      <4>4. watched' = [watched EXCEPT ![m] = new]  BY <4>1
      <4> HIDE DEF new
      <4> QED  BY <4>3, <4>4
    <3>3. Here \subseteq Here'  BY <1>0, <3>2 DEF Here
    <3> QED  BY <1>0, <2>2, <3>1, <3>3, ShownFrame DEF CreateMonitor
  <2>3. CASE UpdateMonitor(c)
    <3>1. wask[c].site \in Site  BY <2>3 DEF UpdateMonitor, Here
    <3>2. PICK freq \in {"manual", "weekly"}, active \in BOOLEAN, next \in {"none", "later", "due"} :
            watched' = [watched EXCEPT ![wask[c].site].freq = freq, ![wask[c].site].active = active, ![wask[c].site].next = next]
      BY <1>0, <2>3, UpdateWrites
    <3>3. \A n \in Site : watched'[n].here = watched[n].here  BY <1>0, <3>1, <3>2 DEF MonitorRows
    <3>4. Here' = Here  BY <3>3 DEF Here
    <3>5. \A d \in WLCaller : Choosing(d)' \/ wask'[d].op = "first" => wask'[d] = wask[d]
      BY <1>0, <2>3, AbsentTyped DEF UpdateMonitor, Finish, Choosing
    <3> QED  BY <1>0, <2>3, <3>4, <3>5, ShownFrame DEF UpdateMonitor
  <2>4. CASE \E m \in Site : LoadUpdate(c, m)  BY <1>0, <1>a, <2>4 DEF LoadUpdate, Begin, NoWask
  <2> QED  BY <1>1, <2>1, <2>2, <2>3, <2>4
\* A website is let go of with its sets and prompts: nobody has one of them in hand.
<1>2. ASSUME NEW m \in Site, DeleteMonitor(m) PROVE ShownInv'
  <2>1. \A c \in WLCaller : ~Choosing(c) /\ wask[c].op # "first"
    <3>1. Beside("admin") /\ {{"admin", "first"}, {"admin", "prompt"}, {"admin", "add"}} \subseteq WLApart
      BY <1>2 DEF DeleteMonitor, Whole, ListsApart
    <3> QED  BY <3>1, NotBeside DEF Choosing
  <2>2. wask' = wask /\ legacy' = legacy \ {m} /\ Here' = Here \ {m}
    BY <1>0, <1>2, AbsentTyped DEF DeleteMonitor, Whole, Here, Absent
  <2>3. \A l \in DOMAIN lists' : /\ l \in DOMAIN lists /\ lists'[l].here = lists[l].here
                                 /\ lists'[l].site = IF lists[l].site = m THEN "none" ELSE lists[l].site
    <3>1. \A r \in Lists : [r EXCEPT !.site = "none"].here = r.here /\ [r EXCEPT !.site = "none"].site = "none"  BY DEF Lists
    <3>2. \A l \in DOMAIN lists : lists[l] \in Lists  BY <1>0, Elements
    <3> QED  BY <1>2, <3>1, <3>2 DEF DeleteMonitor
  <2>4. \A p \in DOMAIN prompts' : /\ p \in DOMAIN prompts /\ prompts'[p].here = prompts[p].here /\ prompts'[p].list = prompts[p].list
                                   /\ prompts'[p].site = IF prompts[p].site = m THEN "none" ELSE prompts[p].site
    <3>1. \A r \in Prompts : /\ [r EXCEPT !.site = "none"].here = r.here /\ [r EXCEPT !.site = "none"].list = r.list
                             /\ [r EXCEPT !.site = "none"].site = "none"
      BY DEF Prompts
    <3>2. \A p \in DOMAIN prompts : prompts[p] \in Prompts  BY <1>0, Elements
    <3> QED  BY <1>2, <3>1, <3>2 DEF DeleteMonitor
  <2>5. DOMAIN lists' = DOMAIN lists  BY <1>2 DEF DeleteMonitor
  <2>6. "none" \notin Here  BY WatchlistAssumption DEF Here
  <2> USE <1>0, <2>1, <2>2, <2>3, <2>4, <2>5, <2>6 DEF ShownInv
  <2>7. \A l \in DOMAIN lists' : lists'[l].site \in Here' \union {"none"}  OBVIOUS
  <2>8. \A p \in DOMAIN prompts' : prompts'[p].site \in Here' \union {"none"}  OBVIOUS
  <2>9. \A k, l \in DOMAIN lists' : lists'[k].here /\ lists'[l].here /\ lists'[k].site = lists'[l].site /\ lists'[k].site \in Here' \ legacy' => k = l
    OBVIOUS
  <2>10. \A p \in DOMAIN prompts' : prompts'[p].here =>
         /\ prompts'[p].list \in DOMAIN lists' /\ lists'[prompts'[p].list].here
         /\ prompts'[p].site \in Here' \ legacy' => lists'[prompts'[p].list].site = prompts'[p].site
    OBVIOUS
  <2>11. \A c \in WLCaller : ~Choosing(c)' /\ wask'[c].op # "first"  BY DEF Choosing
  <2> QED  BY <2>7, <2>8, <2>9, <2>10, <2>11
<1>3. ASSUME NEW m \in Site, SiteStep(m), ~DeleteMonitor(m) PROVE ShownInv'
  <2>1. /\ UNCHANGED <<lists, prompts, legacy, wask>>
    BY <1>3 DEF SiteStep, AdminPause, AdminResume, TakeUp, RunNow, EndJob, BecomesDue, Whole
  <2>2. \A n \in Site : watched'[n].here = watched[n].here
    <3>0. watched \in [Site -> MonitorRows]  BY <1>0
    <3>1. CASE AdminPause(m)  BY <3>0, <3>1 DEF AdminPause, MonitorRows
    <3>2. CASE AdminResume(m)  BY <3>0, <3>2 DEF AdminResume, MonitorRows
    <3>4. CASE TakeUp(m)  BY <3>0, <3>4 DEF TakeUp, MonitorRows
    <3>5. CASE RunNow(m)  BY <3>0, <3>5 DEF RunNow
    <3>6. CASE EndJob(m)  BY <3>0, <3>6 DEF EndJob, MonitorRows
    <3>7. CASE BecomesDue(m)  BY <3>0, <3>7 DEF BecomesDue, MonitorRows
    <3> QED  BY <1>3, <3>1, <3>2, <3>4, <3>5, <3>6, <3>7 DEF SiteStep
  <2> QED  BY <1>b, <2>1, <2>2
\* Requests that take a set in hand, and let go of it.
<1>4. ASSUME NEW c \in WLCaller, NEW m \in Site, OpenList(c, m) PROVE ShownInv'
  <2>0. /\ m \in Here /\ UNCHANGED <<watched, lists, prompts, legacy>> /\ wask[c].op = "none"
        /\ Beside(IF ListOf(m) = 0 THEN "first" ELSE "prompt")
        /\ wask'[c].op = (IF ListOf(m) = 0 THEN "first" ELSE "prompt") /\ wask'[c].site = m /\ wask'[c].list = ListOf(m)
        /\ \A d \in WLCaller \ {c} : wask'[d] = wask[d]
    BY <1>0, <1>4 DEF OpenList, Begin, NoWask
  <2>1. Here' = Here  BY <2>0 DEF Here
  <2>2. CASE ListOf(m) = 0
    <3>1. SetsOf(m) = {}  BY <1>0, <2>2, ListOfIsSet
    <3>2. \A d \in WLCaller : wask[d].op # "first"
      <4>1. {"first", "first"} \in WLApart  BY DEF ListsApart
      <4> QED  BY <2>0, <2>2, <4>1, NotBeside
    <3>3. \A d \in WLCaller : Choosing(d)' => d # c /\ Choosing(d) /\ wask'[d] = wask[d]  BY <2>0, <2>2 DEF Choosing
    <3>4. \A d \in WLCaller : wask'[d].op = "first" => d = c  BY <2>0, <3>2
    <3>5. \A l \in DOMAIN lists' : lists'[l].here => lists'[l].site # m  BY <2>0, <3>1 DEF SetsOf
    <3> QED  BY <1>0, <2>0, <2>1, <3>3, <3>4, <3>5 DEF ShownInv
  <2>3. CASE ListOf(m) # 0
    <3>1. ListOf(m) \in SetsOf(m)  BY <1>0, <2>3, ListOfIsSet
    <3>2. ListOf(m) \in DOMAIN lists /\ lists[ListOf(m)].here /\ lists[ListOf(m)].site = m  BY <3>1 DEF SetsOf
    <3>3. \A d \in WLCaller : wask'[d].op = "first" => d # c /\ wask'[d] = wask[d]  BY <2>0, <2>3
    <3>4. \A d \in WLCaller : Choosing(d)' => d = c \/ (Choosing(d) /\ wask'[d] = wask[d])  BY <2>0 DEF Choosing
    <3> QED  BY <1>0, <2>0, <2>1, <3>2, <3>3, <3>4 DEF ShownInv
  <2> QED  BY <2>2, <2>3
<1>5. ASSUME NEW c \in WLCaller, NEW l \in DOMAIN lists, OpenSet(c, l) PROVE ShownInv'
  <2>0. /\ lists[l].here /\ UNCHANGED <<watched, lists, prompts, legacy>>
        /\ wask'[c].op = "prompt" /\ wask'[c].site = "none" /\ wask'[c].list = l
        /\ \A d \in WLCaller \ {c} : wask'[d] = wask[d]
    BY <1>0, <1>5 DEF OpenSet, Begin, NoWask
  <2>1. Here' = Here /\ "none" \notin Here  BY <2>0, WatchlistAssumption DEF Here
  <2>3. \A d \in WLCaller : wask'[d].op = "first" => d # c /\ wask'[d] = wask[d]  BY <2>0
  <2>4. \A d \in WLCaller : Choosing(d)' => d = c \/ (Choosing(d) /\ wask'[d] = wask[d])  BY <2>0 DEF Choosing
  <2> QED  BY <1>0, <2>0, <2>1, <2>3, <2>4 DEF ShownInv
<1>6. ASSUME NEW c \in WLCaller, MakeList(c) PROVE ShownInv'
  <2> DEFINE n == Len(lists) + 1
             m == wask[c].site
  <2>0. /\ wask[c].op = "first" /\ UNCHANGED <<watched, prompts, legacy>>
        /\ wask'[c].op = "prompt" /\ wask'[c].site = m /\ wask'[c].list = n
        /\ \A d \in WLCaller \ {c} : wask'[d] = wask[d]
    BY <1>0, <1>6 DEF MakeList, Asks
  <2>1. /\ DOMAIN lists' = DOMAIN lists \union {n} /\ n \notin DOMAIN lists /\ \A l \in DOMAIN lists : lists'[l] = lists[l]
        /\ lists'[n].here /\ lists'[n].site = m
    <3>1. lists \in Seq(Lists)  BY <1>0 DEF WLTypes
    <3> QED  BY <1>0, <1>6, <3>1 DEF MakeList
  <2>2. m \in Here /\ \A l \in DOMAIN lists : lists[l].here => lists[l].site # m  BY <2>0 DEF ShownInv
  <2>3. Here' = Here  BY <2>0 DEF Here
  <2>4. \A d \in WLCaller : wask'[d].op # "first"  BY <2>0 DEF ShownInv
  <2>5. \A d \in WLCaller : Choosing(d)' => d = c \/ (Choosing(d) /\ wask'[d] = wask[d])  BY <2>0 DEF Choosing
  <2> HIDE DEF n, m
  <2> USE <2>0, <2>1, <2>2, <2>3 DEF ShownInv
  <2>7. \A l \in DOMAIN lists' : lists'[l].site \in Here' \union {"none"}  OBVIOUS
  <2>8. \A p \in DOMAIN prompts' : prompts'[p].site \in Here' \union {"none"}  OBVIOUS
  <2>9. \A k, l \in DOMAIN lists' : lists'[k].here /\ lists'[l].here /\ lists'[k].site = lists'[l].site /\ lists'[k].site \in Here' \ legacy' => k = l
    OBVIOUS
  <2>10. \A p \in DOMAIN prompts' : prompts'[p].here =>
         /\ prompts'[p].list \in DOMAIN lists' /\ lists'[prompts'[p].list].here
         /\ prompts'[p].site \in Here' \ legacy' => lists'[prompts'[p].list].site = prompts'[p].site
    OBVIOUS
  <2>11. \A d \in WLCaller : Choosing(d)' =>
       /\ wask'[d].site \in Here' \union {"none"}
       /\ wask'[d].list \in DOMAIN lists' /\ lists'[wask'[d].list].here
       /\ wask'[d].site \in Here' \ legacy' => lists'[wask'[d].list].site = wask'[d].site
    BY <2>5
  <2> QED  BY <1>0, <2>4, <2>7, <2>8, <2>9, <2>10, <2>11
<1>7. ASSUME NEW c \in WLCaller, CountPrompts(c) PROVE ShownInv'
  <2>0. wask[c].op = "prompt" /\ UNCHANGED <<watched, lists, prompts, legacy>> /\ \A d \in WLCaller \ {c} : wask'[d] = wask[d]
    BY <1>0, <1>7 DEF CountPrompts
  <2>1. CASE wask'[c] = NoWask  BY <1>a, <2>0, <2>1, AbsentTyped
  <2>2. CASE wask'[c] = [wask[c] EXCEPT !.op = "add"]
    <3>1. wask'[c].op = "add" /\ wask'[c].site = wask[c].site /\ wask'[c].list = wask[c].list  BY <1>0, <2>2 DEF Asks
    <3>2. Here' = Here  BY <2>0 DEF Here
    <3>3. \A d \in WLCaller : wask'[d].op = "first" => wask'[d] = wask[d]  BY <2>0, <3>1
    <3>4. \A d \in WLCaller : Choosing(d)' => Choosing(d) /\ wask'[d].site = wask[d].site /\ wask'[d].list = wask[d].list
      BY <2>0, <3>1 DEF Choosing
    <3> QED  BY <1>0, <2>0, <3>2, <3>3, <3>4 DEF ShownInv
  <2> QED  BY <1>0, <1>7, <2>1, <2>2 DEF CountPrompts
<1>8. ASSUME NEW c \in WLCaller, AddPrompt(c) PROVE ShownInv'
  <2> DEFINE n == Len(prompts) + 1
  <2>0. /\ wask[c].op = "add" /\ UNCHANGED <<watched, lists, legacy>> /\ wask'[c].op = "none"
        /\ \A d \in WLCaller \ {c} : wask'[d] = wask[d]
    BY <1>0, <1>8, AbsentTyped DEF AddPrompt, Finish
  <2>1. /\ DOMAIN prompts' = DOMAIN prompts \union {n} /\ \A p \in DOMAIN prompts : prompts'[p] = prompts[p]
        /\ prompts'[n].here /\ prompts'[n].site = wask[c].site /\ prompts'[n].list = wask[c].list /\ n \notin DOMAIN prompts
    <3>1. prompts \in Seq(Prompts)  BY <1>0 DEF WLTypes
    <3> QED  BY <1>0, <1>8, <3>1 DEF AddPrompt
  <2>2. /\ wask[c].site \in Here \union {"none"}
        /\ wask[c].list \in DOMAIN lists /\ lists[wask[c].list].here
        /\ wask[c].site \in Here \ legacy => lists[wask[c].list].site = wask[c].site
    BY <2>0 DEF ShownInv, Choosing
  <2>3. Here' = Here  BY <2>0 DEF Here
  <2>4. \A d \in WLCaller : Choosing(d)' \/ wask'[d].op = "first" => wask'[d] = wask[d]  BY <2>0 DEF Choosing
  <2> HIDE DEF n
  <2> QED  BY <1>0, <2>0, <2>1, <2>2, <2>3, <2>4 DEF ShownInv, Choosing
\* Sets are made, moved and deleted beside nobody who has one in hand.
<1>c. ASSUME Beside("list") PROVE \A c \in WLCaller : ~Choosing(c) /\ wask[c].op # "first"
  <2>1. {{"list", "first"}, {"list", "prompt"}, {"list", "add"}} \subseteq WLApart  BY DEF ListsApart
  <2> QED  BY <1>c, <2>1, NotBeside DEF Choosing
<1>9. ASSUME NEW m \in Site \union {"none"}, CreateSet(m) PROVE ShownInv'
  <2> DEFINE n == Len(lists) + 1
  <2>0. /\ UNCHANGED <<watched, prompts, wask>> /\ \A c \in WLCaller : ~Choosing(c) /\ wask[c].op # "first"
        /\ m \in Here \union {"none"} /\ legacy' = legacy \union ({m} \ {"none"})
    BY <1>9, <1>c DEF CreateSet, Whole
  <2>1. /\ DOMAIN lists' = DOMAIN lists \union {n} /\ n \notin DOMAIN lists /\ \A l \in DOMAIN lists : lists'[l] = lists[l]
        /\ lists'[n].site = m
    <3>1. lists \in Seq(Lists)  BY <1>0 DEF WLTypes
    <3> QED  BY <1>0, <1>9, <3>1 DEF CreateSet
  <2>2. Here' = Here /\ "none" \notin Here  BY <2>0, WatchlistAssumption DEF Here
  <2>3. \A d \in WLCaller : ~Choosing(d)' /\ wask'[d].op # "first"  BY <2>0 DEF Choosing
  <2> HIDE DEF n
  <2> QED  BY <1>0, <2>0, <2>1, <2>2, <2>3 DEF ShownInv
<1>10. ASSUME NEW k \in DOMAIN lists, NEW m \in Site, MoveSet(k, m) PROVE ShownInv'
  <2>0. /\ UNCHANGED <<watched, prompts, wask>> /\ \A c \in WLCaller : ~Choosing(c) /\ wask[c].op # "first"
        /\ m \in Here /\ legacy' = legacy \union ({m, lists[k].site} \ {"none"})
    BY <1>10, <1>c DEF MoveSet, Whole
  <2>1. /\ DOMAIN lists' = DOMAIN lists /\ \A l \in DOMAIN lists : lists'[l].here = lists[l].here
        /\ \A l \in DOMAIN lists \ {k} : lists'[l].site = lists[l].site
        /\ lists'[k].site = m
    <3>1. \A r \in Lists : [r EXCEPT !.site = m].here = r.here /\ [r EXCEPT !.site = m].site = m  BY DEF Lists
    <3>2. \A l \in DOMAIN lists : lists[l] \in Lists  BY <1>0, Elements
    <3>3. lists' = [lists EXCEPT ![k] = [lists[k] EXCEPT !.site = m]]  BY <1>10 DEF MoveSet
    <3> QED  BY <3>1, <3>2, <3>3
  <2>2. Here' = Here /\ "none" \notin Here  BY <2>0, WatchlistAssumption DEF Here
  <2>3. \A d \in WLCaller : ~Choosing(d)' /\ wask'[d].op # "first"  BY <2>0 DEF Choosing
  <2> QED  BY <1>0, <2>0, <2>1, <2>2, <2>3 DEF ShownInv
<1>11. ASSUME NEW k \in DOMAIN lists, DeleteSet(k) PROVE ShownInv'
  <2>0. /\ UNCHANGED <<watched, wask, legacy>> /\ \A c \in WLCaller : ~Choosing(c) /\ wask[c].op # "first"
    BY <1>11, <1>c DEF DeleteSet, Whole
  <2>1. /\ DOMAIN lists' = DOMAIN lists /\ \A l \in DOMAIN lists : lists'[l].site = lists[l].site
        /\ \A l \in DOMAIN lists \ {k} : lists'[l].here = lists[l].here
        /\ ~lists'[k].here
    <3>1. \A r \in Lists : ~[r EXCEPT !.here = FALSE].here /\ [r EXCEPT !.here = FALSE].site = r.site  BY DEF Lists
    <3>2. \A l \in DOMAIN lists : lists[l] \in Lists  BY <1>0, Elements
    <3>3. lists' = [lists EXCEPT ![k] = [lists[k] EXCEPT !.here = FALSE]]  BY <1>11 DEF DeleteSet
    <3> QED  BY <3>1, <3>2, <3>3
  <2>4. /\ DOMAIN prompts' = DOMAIN prompts
        /\ \A p \in DOMAIN prompts : /\ prompts'[p].site = prompts[p].site /\ prompts'[p].list = prompts[p].list
                                     /\ prompts'[p].here => prompts[p].here /\ prompts[p].list # k
    <3>1. \A p \in DOMAIN prompts : prompts[p] \in Prompts  BY <1>0, Elements
    <3>2. \A r \in Prompts, b \in BOOLEAN : /\ [r EXCEPT !.here = b].here = b /\ [r EXCEPT !.here = b].list = r.list
                                            /\ [r EXCEPT !.here = b].site = r.site
      BY DEF Prompts
    <3>3. \A p \in DOMAIN prompts : (prompts[p].here /\ prompts[p].list # k) \in BOOLEAN  OBVIOUS
    <3>4. DOMAIN prompts' = DOMAIN prompts
          /\ \A p \in DOMAIN prompts : prompts'[p] = [prompts[p] EXCEPT !.here = (prompts[p].here /\ prompts[p].list # k)]
      BY <1>11 DEF DeleteSet
    <3> QED  BY <3>1, <3>2, <3>3, <3>4
  <2>2. Here' = Here  BY <2>0 DEF Here
  <2>3. \A d \in WLCaller : ~Choosing(d)' /\ wask'[d].op # "first"  BY <2>0 DEF Choosing
  <2> QED  BY <1>0, <2>0, <2>1, <2>2, <2>3, <2>4 DEF ShownInv
<1>12. ASSUME NEW q \in DOMAIN prompts, DeletePrompt(q) PROVE ShownInv'
  <2>1. \A p \in DOMAIN prompts : prompts[p] \in Prompts  BY <1>0, Elements
  <2>2. prompts' = [prompts EXCEPT ![q] = [prompts[q] EXCEPT !.here = FALSE]] /\ UNCHANGED <<watched, lists, wask, legacy>>
    BY <1>12 DEF DeletePrompt, Whole
  <2>3. \A r \in Prompts : /\ ~[r EXCEPT !.here = FALSE].here /\ [r EXCEPT !.here = FALSE].list = r.list
                           /\ [r EXCEPT !.here = FALSE].site = r.site
    BY DEF Prompts
  <2>4. /\ DOMAIN prompts' = DOMAIN prompts
        /\ \A p \in DOMAIN prompts : /\ prompts'[p].site = prompts[p].site /\ prompts'[p].list = prompts[p].list
                                     /\ prompts'[p].here => prompts[p].here
    BY <2>1, <2>2, <2>3
  <2>5. Here' = Here  BY <2>2 DEF Here
  <2> QED  BY <1>0, <2>2, <2>4, <2>5 DEF ShownInv, Choosing
<1>13. CASE ChangePlan  BY <1>b, <1>13 DEF ChangePlan, Whole
<1>14. ASSUME NEW c \in WLCaller, CallerStep(c) PROVE ShownInv'
  BY <1>1, <1>4, <1>5, <1>6, <1>7, <1>8, <1>14 DEF CallerStep
<1>15. CASE ListStep  BY <1>9, <1>10, <1>11, <1>12, <1>13, <1>15 DEF ListStep
<1> QED  BY <1>2, <1>3, <1>14, <1>15, WLSteps

(***************************************************************************)
(* However many requests overlap, an organization exceeds the number of    *)
(* monitors and of prompts of its plan by fewer than the callers that ask  *)
(* at once, for any number of callers, sites and limits: every request     *)
(* counts before it inserts and nothing is locked between the two          *)
(* (routes_monitors.py, create_monitor; routes_answer_tracking.py,         *)
(* monitor_add_prompt).                                                    *)
(***************************************************************************)
THEOREM WatchLimits == WLSpec => []WatchesLimited
<1>1. LimitsInv /\ UNCHANGED wlVars => LimitsInv'
  BY DEF LimitsInv, WLTypes, wlVars, FreeHere, Here, Creating, CreatingFree, InList, Adding
<1>2. LimitsInv /\ [WLNext]_wlVars => LimitsInv'  BY <1>1, LimitsNext
<1> QED  BY <1>2, LimitsInit, LimitsKeep, PTL DEF WLSpec

(***************************************************************************)
(* While updates of a monitor overlap neither each other nor an            *)
(* administrator's pause, an active weekly monitor always has a next scan  *)
(* (routes_monitors.py, update_monitor, writes the columns it was asked to *)
(* change over a row it loaded before).                                    *)
(***************************************************************************)
THEOREM ScansKept == ASSUME WatchesApart PROVE WLSpec => []ActiveScheduled
<1>1. ScheduledInv /\ UNCHANGED wlVars => ScheduledInv'
  BY DEF ScheduledInv, WLTypes, wlVars, LoadedRow, Waits, Here
<1>2. ScheduledInv /\ [WLNext]_wlVars => ScheduledInv'  BY <1>1, ScheduledNext
<1>3. ScheduledInv => ActiveScheduled  BY DEF ScheduledInv, ActiveScheduled, Waits
<1> QED  BY <1>2, <1>3, ScheduledInit, PTL DEF WLSpec

(***************************************************************************)
(* While the requests that touch the lists of a website keep apart in the  *)
(* seven ways of ListsApart, a prompt that exists is in an existing list,  *)
(* and in the very list its website shows, unless other lists were given   *)
(* to that website (routes_answer_tracking.py, create_prompt_set and       *)
(* monitor_add_prompt; service.py, prompt_set_for_monitor).                *)
(***************************************************************************)
THEOREM PromptsKept == ASSUME ListsApart PROVE WLSpec => []PromptsShown
<1>1. ShownInv /\ UNCHANGED wlVars => ShownInv'
  BY DEF ShownInv, WLTypes, wlVars, Choosing, Here
<1>2. ShownInv /\ [WLNext]_wlVars => ShownInv'  BY <1>1, ShownNext
<1> QED  BY <1>2, ShownInit, ShownKeep, PTL DEF WLSpec

(***************************************************************************)
(* All three promises of the watch list together, under both conditions.   *)
(***************************************************************************)
THEOREM WatchedSoundly == ASSUME WatchesApart, ListsApart PROVE WLSpec => []WatchlistSound
<1>1. WLSpec => []WatchesLimited /\ []ActiveScheduled /\ []PromptsShown  BY WatchLimits, ScansKept, PromptsKept
<1> QED  BY <1>1, PTL DEF WatchlistSound

----------------------------------------------------------------------------
(***************************************************************************)
(* Runs and their analyses (AnswerTracking)                                *)
(***************************************************************************)

\* The rows of the runs, and the steps of their actors
RunStatuses == {"none", "pending", "running"} \union RunTerminal
Answering == {"begin", "calls", "simulate"}
Clearing == {"extract", "clear", "llm"}
Analysis == Clearing \union {"gapclear", "gap"}
ATSteps == {"idle", "create", "guard"} \union Answering \union Analysis

RunRows == [mode : {"provider_tracking", "simulator"}, status : RunStatuses, auto : {"yes", "no"}, started : 0 .. ATHorizon, done : 0 .. ATHorizon,
            ext : {"pending", "running", "complete", "failed"}]

ATTypes ==
  /\ arun \in [ARun -> RunRows] /\ rows \in [ARun -> Nat] /\ gaps \in [ARun -> Nat]
  /\ aw \in [Actor -> [pc : ATSteps, run : Nat]] /\ day \in 0 .. ATHorizon /\ atfaults \in 0 .. ATFaults

\* The invariant's types are those of the model.
LEMMA ATTyped == ATTypes => ATTypeOK
BY DEF ATTypes, ATTypeOK, RunRows, RunStatuses

\* An actor's run exists; only people and the runner create any.
RunHeld(a) ==
  /\ aw[a].pc \in {"idle", "create", "guard"} => aw[a].run = 0
  /\ aw[a].run # 0 => aw[a].run \in ARun /\ Exists(aw[a].run)
  /\ aw[a].pc \in Answering \union Analysis => aw[a].run # 0
  /\ aw[a].pc = "create" => a # "extractor"

\* The runs the monthly limit counts, and the actors that have passed it
Counted == {r \in ARun : Exists(r) /\ ~ IsSimulated(r)}
CreatingRun == {a \in Actor : aw[a].pc = "create"}
\* The inductive invariant of the types and of the monthly limit
RunsInv ==
  /\ ATTypes /\ \A a \in Actor : RunHeld(a)
  /\ Cardinality(Counted) + Cardinality(CreatingRun) <= MonthlyLimit + Cardinality(ATUser)

\* The steps of one actor
ActorStep(a) ==
  \/ CreateARun(a) \/ BeginARun(a) \/ EndARun(a)
  \/ BeginAnalysis(a) \/ ClearRows(a) \/ NoProvider(a) \/ StoreRows(a) \/ ClearGaps(a) \/ StoreGaps(a)
  \/ Raises(a) \/ ATDies(a)
  \/ (a = "runner" /\ (ListDue \/ GuardScheduled))
  \/ (a = "extractor" /\ \E r \in ARun : ListPending(r))
  \/ (a \in ATUser /\ (AskRun(a) \/ Simulate(a) \/ EndSimulation(a) \/ \E r \in ARun : AskAnalysis(a, r)))

\* Every step is one of an actor, or a new day.
LEMMA ATActors == ATNext => NextDay \/ \E a \in Actor : ActorStep(a)
BY DEF ATNext, ATWork, ATPhases, ActorStep, Actor

\* What the steps write in the row of a run, and what the actor does next.
Wrote(r, row) == arun' = [arun EXCEPT ![r] = row]
Goes(a, pc, r) == aw' = [aw EXCEPT ![a] = [pc |-> pc, run |-> r]]

\* A step moves one actor to another step and another run, and no other actor.
LEMMA RunStep ==
  ASSUME ATTypes, NEW a \in Actor, RunHeld(a), ActorStep(a)
  PROVE  /\ \E pc \in ATSteps, r \in Nat : Goes(a, pc, r)
         /\ \/ arun' = arun
            \/ \E r \in ARun, row \in RunRows : Wrote(r, row)
<1>0. arun \in [ARun -> RunRows] /\ aw \in [Actor -> [pc : ATSteps, run : Nat]] /\ day \in 0 .. ATHorizon /\ ARun \subseteq Nat
  BY DEF ATTypes, ARun
<1> DEFINE r == aw[a].run
<1>1. r \in Nat /\ (aw[a].pc \in Answering \union Analysis => r \in ARun) /\ (r # 0 => r \in ARun)
  BY <1>0 DEF RunHeld
<1>2. \A s \in ARun : arun[s] \in RunRows  BY <1>0
<1>3. \A row \in RunRows, s \in RunStatuses, d \in 0 .. ATHorizon, e \in 0 .. ATHorizon :
        /\ [row EXCEPT !.status = s, !.started = d] \in RunRows
        /\ [row EXCEPT !.status = s, !.done = d] \in RunRows
        /\ [row EXCEPT !.status = s, !.started = d, !.done = e, !.ext = "complete"] \in RunRows
  BY DEF RunRows
<1>4. \A row \in RunRows, e \in {"pending", "running", "complete", "failed"} : [row EXCEPT !.ext = e] \in RunRows  BY DEF RunRows
<1>z. 0 \in 0 .. ATHorizon  BY AnswerTrackingAssumption
<1>5. /\ \A y \in {"yes", "no"} : [NewRun EXCEPT !.status = "pending", !.auto = y] \in RunRows
      /\ [NewRun EXCEPT !.mode = "simulator", !.status = "pending"] \in RunRows
  BY <1>z DEF RunRows, NewRun, RunStatuses
<1>6. /\ {"pending", "running", "completed", "failed"} \subseteq RunStatuses /\ RunTerminal \subseteq RunStatuses
      /\ {"idle", "create", "guard", "begin", "calls", "simulate", "extract", "clear", "llm", "gapclear", "gap"} \subseteq ATSteps
  BY DEF RunStatuses, RunTerminal, Consuming, ATSteps, Answering, Analysis, Clearing
<1> DEFINE G == \E pc \in ATSteps, s \in Nat : Goes(a, pc, s)
           W == arun' = arun \/ \E s \in ARun, row \in RunRows : Wrote(s, row)
<1> HIDE DEF r
<1>7. CASE CreateARun(a)
  <2>1. PICK s \in ARun : /\ arun' = [arun EXCEPT ![s] = [NewRun EXCEPT !.status = "pending", !.auto = IF a = "runner" THEN "yes" ELSE "no"]]
                          /\ AGo(a, "begin", s)
    BY <1>7 DEF CreateARun
  <2> QED  BY <1>0, <1>5, <1>6, <2>1 DEF Wrote, Goes, AGo
<1>8. CASE BeginARun(a)
  <2>1. r \in ARun /\ arun' = [arun EXCEPT ![r] = [arun[r] EXCEPT !.status = "running", !.started = day]] /\ AGo(a, "calls", r)
    BY <1>0, <1>1, <1>8 DEF BeginARun, AAt, Answering, r
  <2> QED  BY <1>0, <1>2, <1>3, <1>6, <2>1 DEF Wrote, Goes, AGo
<1>9. CASE EndARun(a)
  <2>1. PICK s \in RunTerminal : r \in ARun /\ arun' = [arun EXCEPT ![r] = [arun[r] EXCEPT !.status = s, !.done = day]] /\ AGo(a, "idle", 0)
    BY <1>0, <1>1, <1>9 DEF EndARun, AAt, Answering, r
  <2> QED  BY <1>0, <1>2, <1>3, <1>6, <2>1 DEF Wrote, Goes, AGo
<1>10. CASE BeginAnalysis(a) \/ NoProvider(a) \/ StoreRows(a)
  <2>1. \E e \in {"pending", "running", "complete", "failed"}, pc \in ATSteps :
          r \in ARun /\ arun' = [arun EXCEPT ![r] = [arun[r] EXCEPT !.ext = e]] /\ AGo(a, pc, r)
    BY <1>0, <1>1, <1>6, <1>10 DEF BeginAnalysis, NoProvider, StoreRows, AAt, Analysis, Clearing, r
  <2> QED  BY <1>0, <1>2, <1>4, <2>1 DEF Wrote, Goes, AGo
<1>11. CASE ClearRows(a) \/ ClearGaps(a) \/ StoreGaps(a) \/ ATDies(a)
  BY <1>0, <1>1, <1>6, <1>11 DEF ClearRows, ClearGaps, StoreGaps, ATDies, AGo, Goes, r
<1>12. CASE Raises(a)
  <2>1. r \in ARun /\ AGo(a, "idle", 0)  BY <1>1, <1>12 DEF Raises, r
  <2>2. \/ arun' = [arun EXCEPT ![r] = [arun[r] EXCEPT !.status = "failed", !.done = day]]
        \/ arun' = [arun EXCEPT ![r] = [arun[r] EXCEPT !.ext = "failed"]]
        \/ arun' = [arun EXCEPT ![r] = arun[r]]
    BY <1>0, <1>12, <2>1 DEF Raises, r
  <2>3. W  BY <1>0, <1>2, <1>3, <1>4, <1>6, <2>1, <2>2 DEF Wrote
  <2> QED  BY <1>0, <1>6, <2>1, <2>3 DEF AGo, Goes
<1>13. CASE a = "runner" /\ (ListDue \/ GuardScheduled)
  BY <1>0, <1>6, <1>13 DEF ListDue, GuardScheduled, AGo, Goes
<1>14. CASE a = "extractor" /\ \E s \in ARun : ListPending(s)
  BY <1>0, <1>6, <1>14 DEF ListPending, AGo, Goes
<1>15. CASE AskRun(a)  BY <1>0, <1>6, <1>15 DEF AskRun, AGo, Goes
<1>16. CASE Simulate(a)
  <2>1. PICK s \in ARun : arun' = [arun EXCEPT ![s] = [NewRun EXCEPT !.mode = "simulator", !.status = "pending"]] /\ AGo(a, "simulate", s)
    BY <1>16 DEF Simulate
  <2> QED  BY <1>0, <1>5, <1>6, <2>1 DEF Wrote, Goes, AGo
<1>17. CASE EndSimulation(a)
  <2>1. r \in ARun /\ AGo(a, "idle", 0)
        /\ arun' = [arun EXCEPT ![r] = [arun[r] EXCEPT !.status = "completed", !.started = day, !.done = day, !.ext = "complete"]]
    BY <1>0, <1>1, <1>17 DEF EndSimulation, AAt, Answering, r
  <2> QED  BY <1>0, <1>2, <1>3, <1>6, <2>1 DEF Wrote, Goes, AGo
<1>18. ASSUME NEW s \in ARun, AskAnalysis(a, s) PROVE G /\ W
  <2>1. arun' = [arun EXCEPT ![s] = [arun[s] EXCEPT !.ext = "pending"]] /\ AGo(a, "extract", s)  BY <1>0, <1>18 DEF AskAnalysis
  <2> QED  BY <1>0, <1>2, <1>4, <1>6, <2>1 DEF Wrote, Goes, AGo
<1> QED  BY <1>7, <1>8, <1>9, <1>10, <1>11, <1>12, <1>13, <1>14, <1>15, <1>16, <1>17, <1>18 DEF ActorStep

\* Every step keeps the types and the runs in hand.
LEMMA ATTypesKept == ASSUME ATTypes, \A a \in Actor : RunHeld(a), ATNext PROVE ATTypes'
<1>0. arun \in [ARun -> RunRows] /\ aw \in [Actor -> [pc : ATSteps, run : Nat]] /\ day \in 0 .. ATHorizon
      /\ rows \in [ARun -> Nat] /\ gaps \in [ARun -> Nat]
      /\ atfaults \in 0 .. ATFaults /\ ATFaults \in Nat /\ ATHorizon \in Nat
  BY AnswerTrackingAssumption DEF ATTypes
<1>1. CASE NextDay  BY <1>0, <1>1 DEF NextDay, ATTypes
<1>2. ASSUME NEW a \in Actor, ActorStep(a) PROVE ATTypes'
  <2>1. aw' \in [Actor -> [pc : ATSteps, run : Nat]] /\ arun' \in [ARun -> RunRows]
    BY <1>0, <1>2, RunStep DEF Goes, Wrote
  <2>2. day' = day /\ rows' \in [ARun -> Nat] /\ gaps' \in [ARun -> Nat] /\ atfaults' \in 0 .. ATFaults
    <3>1. CASE CreateARun(a) \/ BeginARun(a) \/ EndARun(a) \/ BeginAnalysis(a) \/ NoProvider(a)
      BY <1>0, <3>1 DEF CreateARun, BeginARun, EndARun, BeginAnalysis, NoProvider
    <3>6. CASE Raises(a) \/ ATDies(a)  BY <1>0, <3>6 DEF Raises, ATDies, ATFault
    <3>2. CASE ClearRows(a) \/ StoreRows(a) \/ ClearGaps(a) \/ StoreGaps(a) \/ EndSimulation(a)
      BY <1>0, <3>2 DEF ClearRows, StoreRows, ClearGaps, StoreGaps, EndSimulation
    <3>3. CASE a = "runner" /\ (ListDue \/ GuardScheduled)  BY <1>0, <3>3 DEF ListDue, GuardScheduled
    <3>4. CASE a = "extractor" /\ \E s \in ARun : ListPending(s)  BY <1>0, <3>4 DEF ListPending
    <3>5. CASE AskRun(a) \/ Simulate(a) \/ \E r \in ARun : AskAnalysis(a, r)  BY <1>0, <3>5 DEF AskRun, Simulate, AskAnalysis
    <3> QED  BY <1>2, <3>1, <3>2, <3>3, <3>4, <3>5, <3>6 DEF ActorStep
  <2> QED  BY <1>0, <2>1, <2>2 DEF ATTypes
<1> QED  BY <1>1, <1>2, ATActors

\* The types hold at the start.
LEMMA ATInitTypes == ATInit => ATTypes /\ (\A a \in Actor : RunHeld(a) /\ aw[a].pc = "idle" /\ aw[a].run = 0)
                               /\ \A r \in ARun : arun[r] = NewRun /\ rows[r] = 0 /\ gaps[r] = 0
<1>1. NewRun \in RunRows  BY AnswerTrackingAssumption DEF RunRows, NewRun, RunStatuses
<1>2. ATIdle \in [pc : ATSteps, run : Nat] /\ ATIdle.pc = "idle" /\ ATIdle.run = 0  BY DEF ATIdle, ATSteps
<1>3. "idle" \notin Answering \union Analysis /\ "idle" # "create"  BY DEF Answering, Analysis, Clearing
<1> QED  BY <1>1, <1>2, <1>3, AnswerTrackingAssumption DEF ATInit, ATTypes, RunHeld

\* A run that exists goes on existing, in its mode.
LEMMA RunsKept ==
  ASSUME ATTypes, NEW a \in Actor, RunHeld(a), ActorStep(a), NEW r \in ARun
  PROVE  /\ Exists(r) => Exists(r)' /\ arun'[r].mode = arun[r].mode
         /\ ~Exists(r) /\ Exists(r)' /\ aw[a].pc # "create" => IsSimulated(r)'
<1>0. arun \in [ARun -> RunRows] /\ aw \in [Actor -> [pc : ATSteps, run : Nat]]
  BY DEF ATTypes
<1> DEFINE h == aw[a].run
           K == /\ Exists(r) => Exists(r)' /\ arun'[r].mode = arun[r].mode
                /\ ~Exists(r) /\ Exists(r)' /\ aw[a].pc # "create" => IsSimulated(r)'
<1>1. aw[a].pc \in Answering \union Analysis => h \in ARun /\ Exists(h)  BY DEF RunHeld
<1>2. arun[r] \in RunRows  BY <1>0
<1>3. \A row \in RunRows : \A s, d, e :
        /\ [row EXCEPT !.status = s, !.started = d].mode = row.mode /\ [row EXCEPT !.status = s, !.started = d].status = s
        /\ [row EXCEPT !.status = s, !.done = d].mode = row.mode /\ [row EXCEPT !.status = s, !.done = d].status = s
        /\ [row EXCEPT !.status = s, !.started = d, !.done = e, !.ext = "complete"].mode = row.mode
        /\ [row EXCEPT !.status = s, !.started = d, !.done = e, !.ext = "complete"].status = s
        /\ [row EXCEPT !.ext = e].mode = row.mode /\ [row EXCEPT !.ext = e].status = row.status
  BY DEF RunRows
<1> HIDE DEF h
<1>4. CASE arun' = arun  BY <1>4 DEF Exists
<1>5. ASSUME h \in ARun, Exists(h), NEW row, arun' = [arun EXCEPT ![h] = row], row.mode = arun[h].mode,
             (row.status # "none" \/ row.status = arun[h].status)
      PROVE  K
  BY <1>0, <1>1, <1>5 DEF Exists
<1>6. CASE CreateARun(a)
  <2>1. PICK s \in ARun : ~Exists(s) /\ arun' = [arun EXCEPT ![s] = [NewRun EXCEPT !.status = "pending", !.auto = IF a = "runner" THEN "yes" ELSE "no"]]
    BY <1>6 DEF CreateARun, NextRow
  <2> QED  BY <1>0, <1>6, <2>1 DEF Exists, CreateARun, AAt
<1>7. CASE Simulate(a)
  <2>1. PICK s \in ARun : ~Exists(s) /\ arun' = [arun EXCEPT ![s] = [NewRun EXCEPT !.mode = "simulator", !.status = "pending"]]
    BY <1>7 DEF Simulate, NextRow
  <2> QED  BY <1>0, <2>1 DEF Exists, IsSimulated, NewRun
<1>8. CASE BeginARun(a)
  <2>1. h \in ARun /\ aw[a].pc \in Answering /\ arun' = [arun EXCEPT ![h] = [arun[h] EXCEPT !.status = "running", !.started = day]]
    BY <1>0, <1>1, <1>8 DEF BeginARun, AAt, Answering, h
  <2> DEFINE row == [arun[h] EXCEPT !.status = "running", !.started = day]
  <2>3. row.mode = arun[h].mode /\ row.status = "running"  BY <1>0, <1>3, <2>1
  <2> HIDE DEF row
  <2> QED  BY <1>1, <1>5, <2>1, <2>3 DEF row
<1>9. CASE EndARun(a)
  <2>1. PICK s \in RunTerminal : h \in ARun /\ aw[a].pc \in Answering /\ arun' = [arun EXCEPT ![h] = [arun[h] EXCEPT !.status = s, !.done = day]]
    BY <1>0, <1>1, <1>9 DEF EndARun, AAt, Answering, h
  <2>2. s # "none"  BY DEF RunTerminal, Consuming
  <2> DEFINE row == [arun[h] EXCEPT !.status = s, !.done = day]
  <2>3. row.mode = arun[h].mode /\ row.status = s  BY <1>0, <1>3, <2>1
  <2> HIDE DEF row
  <2> QED  BY <1>1, <1>5, <2>1, <2>2, <2>3 DEF row
<1>10. CASE BeginAnalysis(a) \/ NoProvider(a) \/ StoreRows(a)
  <2>1. PICK e \in {"running", "failed", "complete"} : h \in ARun /\ aw[a].pc \in Analysis /\ arun' = [arun EXCEPT ![h] = [arun[h] EXCEPT !.ext = e]]
    BY <1>0, <1>1, <1>10 DEF BeginAnalysis, NoProvider, StoreRows, AAt, Analysis, Clearing, h
  <2> DEFINE row == [arun[h] EXCEPT !.ext = e]
  <2>3. row.mode = arun[h].mode /\ row.status = arun[h].status  BY <1>0, <1>3, <2>1
  <2> HIDE DEF row
  <2> QED  BY <1>1, <1>5, <2>1, <2>3 DEF row
<1>11. CASE Raises(a)
  <2>1. h \in ARun /\ Exists(h)  BY <1>11 DEF Raises, RunHeld, h
  <2>2. \/ arun' = [arun EXCEPT ![h] = [arun[h] EXCEPT !.status = "failed", !.done = day]]
        \/ arun' = [arun EXCEPT ![h] = [arun[h] EXCEPT !.ext = "failed"]]
        \/ arun' = [arun EXCEPT ![h] = arun[h]]
    BY <1>0, <1>11, <2>1 DEF Raises, h
  <2>3. \E row : /\ arun' = [arun EXCEPT ![h] = row] /\ row.mode = arun[h].mode
                 /\ row.status # "none" \/ row.status = arun[h].status
    <3>1. arun[h] \in RunRows  BY <1>0, <2>1
    <3>2. CASE arun' = [arun EXCEPT ![h] = [arun[h] EXCEPT !.status = "failed", !.done = day]]
      <4>1. /\ [arun[h] EXCEPT !.status = "failed", !.done = day].mode = arun[h].mode
            /\ [arun[h] EXCEPT !.status = "failed", !.done = day].status = "failed"
        BY <1>3, <3>1
      <4> QED  BY <3>2, <4>1
    <3>3. CASE arun' = [arun EXCEPT ![h] = [arun[h] EXCEPT !.ext = "failed"]]
      <4>1. /\ [arun[h] EXCEPT !.ext = "failed"].mode = arun[h].mode
            /\ [arun[h] EXCEPT !.ext = "failed"].status = arun[h].status
        BY <3>1 DEF RunRows
      <4> QED  BY <3>3, <4>1
    <3>4. CASE arun' = [arun EXCEPT ![h] = arun[h]]  BY <3>4
    <3> QED  BY <2>2, <3>2, <3>3, <3>4
  <2> QED  BY <1>1, <1>5, <2>1, <2>3
<1>12. CASE EndSimulation(a)
  <2>1. h \in ARun /\ aw[a].pc \in Answering
        /\ arun' = [arun EXCEPT ![h] = [arun[h] EXCEPT !.status = "completed", !.started = day, !.done = day, !.ext = "complete"]]
    BY <1>0, <1>1, <1>12 DEF EndSimulation, AAt, Answering, h
  <2> DEFINE row == [arun[h] EXCEPT !.status = "completed", !.started = day, !.done = day, !.ext = "complete"]
  <2>3. row.mode = arun[h].mode /\ row.status = "completed"  BY <1>0, <1>3, <2>1
  <2> HIDE DEF row
  <2> QED  BY <1>1, <1>5, <2>1, <2>3 DEF row
<1>13. ASSUME NEW s \in ARun, AskAnalysis(a, s) PROVE K
  <2>1. arun' = [arun EXCEPT ![s] = [arun[s] EXCEPT !.ext = "pending"]]  BY <1>0, <1>13 DEF AskAnalysis
  <2> QED  BY <1>0, <1>3, <2>1 DEF Exists
<1>14. ClearRows(a) \/ ClearGaps(a) \/ StoreGaps(a) \/ ATDies(a) \/ ListDue \/ GuardScheduled \/ AskRun(a) \/ (\E s \in ARun : ListPending(s)) => arun' = arun
  BY DEF ClearRows, ClearGaps, StoreGaps, ATDies, ListDue, GuardScheduled, AskRun, ListPending
<1> QED  BY <1>4, <1>6, <1>7, <1>8, <1>9, <1>10, <1>11, <1>12, <1>13, <1>14 DEF ActorStep

\* What an actor has in hand exists.
LEMMA HeldKept ==
  ASSUME ATTypes, NEW a \in Actor, \A b \in Actor : RunHeld(b), ActorStep(a)
  PROVE  \A b \in Actor : RunHeld(b)'
<1>0. arun \in [ARun -> RunRows] /\ aw \in [Actor -> [pc : ATSteps, run : Nat]] /\ RunHeld(a)
  BY DEF ATTypes
<1>1. \A r \in ARun : Exists(r) => Exists(r)'  BY <1>0, RunsKept
<1>a. ASSUME NEW pc, NEW r, Goes(a, pc, r), pc \in {"idle", "create"} \union Answering \union Analysis \union {"guard"},
             (pc \in {"idle", "create", "guard"} => r = 0), (pc \in Answering \union Analysis => r \in ARun /\ Exists(r)'),
             (pc = "create" => a # "extractor")
      PROVE  \A b \in Actor : RunHeld(b)'
  <2>1. aw'[a].pc = pc /\ aw'[a].run = r /\ \A b \in Actor \ {a} : aw'[b] = aw[b]  BY <1>0, <1>a DEF Goes
  <2>2. 0 \notin ARun  BY DEF ARun
  <2>3. {"idle", "create", "guard"} \intersect (Answering \union Analysis) = {}  BY DEF Answering, Analysis, Clearing
  <2>4. RunHeld(a)'  BY <1>a, <2>1, <2>2, <2>3 DEF RunHeld
  <2>5. ASSUME NEW b \in Actor \ {a} PROVE RunHeld(b)'
    <3>1. RunHeld(b) /\ aw'[b] = aw[b]  BY <2>1
    <3> QED  BY <1>1, <3>1 DEF RunHeld
  <2> QED  BY <2>4, <2>5
<1>2. ASSUME aw[a].pc \in Answering \union Analysis PROVE \E r \in ARun : r = aw[a].run /\ Exists(r)'
  <2>1. aw[a].run \in ARun /\ Exists(aw[a].run)  BY <1>0, <1>2 DEF RunHeld
  <2>2. PICK r \in ARun : r = aw[a].run  BY <2>1
  <2> QED  BY <1>1, <2>1, <2>2
<1>3. /\ {"begin", "calls", "simulate"} \subseteq Answering /\ {"extract", "clear", "llm", "gapclear", "gap"} \subseteq Analysis
      /\ \A pc \in {"idle", "create", "guard"} : pc \notin Answering \union Analysis
  BY DEF Answering, Analysis, Clearing
<1>4. ASSUME AGo(a, "idle", 0) PROVE \A b \in Actor : RunHeld(b)'
  <2>1. Goes(a, "idle", 0)  BY <1>4 DEF AGo, Goes
  <2> QED  BY <1>3, <1>a, <2>1
<1>5. ASSUME NEW pc \in Answering \union Analysis, NEW r \in ARun, Exists(r)', AGo(a, pc, r) PROVE \A b \in Actor : RunHeld(b)'
  BY <1>3, <1>5, <1>a DEF AGo, Goes
<1>6. CASE CreateARun(a)
  <2>1. PICK s \in ARun : /\ arun' = [arun EXCEPT ![s] = [NewRun EXCEPT !.status = "pending", !.auto = IF a = "runner" THEN "yes" ELSE "no"]]
                          /\ AGo(a, "begin", s)
    BY <1>6 DEF CreateARun
  <2>2. Exists(s)'  BY <1>0, <2>1 DEF Exists, NewRun
  <2> QED  BY <1>3, <1>5, <2>1, <2>2
<1>7. CASE Simulate(a)
  <2>1. PICK s \in ARun : arun' = [arun EXCEPT ![s] = [NewRun EXCEPT !.mode = "simulator", !.status = "pending"]] /\ AGo(a, "simulate", s)
    BY <1>7 DEF Simulate
  <2>2. Exists(s)'  BY <1>0, <2>1 DEF Exists, NewRun
  <2> QED  BY <1>3, <1>5, <2>1, <2>2
<1>8. CASE BeginARun(a)  BY <1>2, <1>3, <1>5, <1>8 DEF BeginARun, AAt
<1>9. CASE EndARun(a) \/ StoreGaps(a) \/ Raises(a) \/ ATDies(a) \/ EndSimulation(a)
  BY <1>4, <1>9 DEF EndARun, StoreGaps, Raises, ATDies, EndSimulation
<1>10. CASE BeginAnalysis(a)  BY <1>2, <1>3, <1>5, <1>10 DEF BeginAnalysis, AAt
<1>11. CASE ClearRows(a)  BY <1>2, <1>3, <1>5, <1>11 DEF ClearRows, AAt
<1>12. CASE NoProvider(a)  BY <1>2, <1>3, <1>5, <1>12 DEF NoProvider, AAt
<1>13. CASE StoreRows(a)  BY <1>2, <1>3, <1>5, <1>13 DEF StoreRows, AAt
<1>14. CASE ClearGaps(a)  BY <1>2, <1>3, <1>5, <1>14 DEF ClearGaps, AAt
<1>15. CASE a = "runner" /\ (ListDue \/ GuardScheduled)
  <2>1. \E pc \in {"idle", "create", "guard"} : AGo(a, pc, 0)  BY <1>15 DEF ListDue, GuardScheduled
  <2> QED  BY <1>3, <1>15, <1>a, <2>1 DEF AGo, Goes
<1>16. CASE a = "extractor" /\ \E s \in ARun : ListPending(s)
  <2>1. PICK s \in ARun : ListPending(s)  BY <1>16
  <2>2. Exists(s)  BY <2>1 DEF ListPending, Exists, RunTerminal, Consuming
  <2> QED  BY <1>1, <1>3, <1>5, <1>16, <2>1, <2>2 DEF ListPending
<1>17. CASE a \in ATUser /\ AskRun(a)
  BY <1>3, <1>17, <1>a, AnswerTrackingAssumption DEF AskRun, AGo, Goes
<1>18. ASSUME NEW s \in ARun, AskAnalysis(a, s) PROVE \A b \in Actor : RunHeld(b)'
  BY <1>1, <1>3, <1>5, <1>18 DEF AskAnalysis
<1> QED  BY <1>6, <1>7, <1>8, <1>9, <1>10, <1>11, <1>12, <1>13, <1>14, <1>15, <1>16, <1>17, <1>18 DEF ActorStep

\* Every step keeps the monthly limit.
LEMMA RunsInvNext == ASSUME RunsInv, ATNext PROVE RunsInv'
<1>0. ATTypes /\ ATTypes' /\ arun \in [ARun -> RunRows] /\ aw \in [Actor -> [pc : ATSteps, run : Nat]]
      /\ \A a \in Actor : RunHeld(a)
      /\ Cardinality(Counted) + Cardinality(CreatingRun) <= MonthlyLimit + Cardinality(ATUser)
  BY ATTypesKept DEF RunsInv, ATTypes
<1>f. /\ IsFiniteSet(ARun) /\ MonthlyLimit \in Nat /\ Cardinality(ATUser) \in Nat /\ IsFiniteSet(ATUser \union {"runner"})
      /\ Cardinality(ATUser \union {"runner"}) = Cardinality(ATUser) + 1
  <2>1. ATRuns \in Nat /\ "runner" \notin ATUser /\ IsFiniteSet(ATUser)  BY AnswerTrackingAssumption
  <2> QED  BY <2>1, FS_Interval, 1 \in Int, ATRuns \in Int, FS_AddElement, FS_CardinalityType, AnswerTrackingAssumption DEF ARun
<1>g. /\ CreatingRun \subseteq ATUser \union {"runner"} /\ Counted \subseteq ARun /\ Counted' \subseteq ARun
      /\ (\A a \in Actor : RunHeld(a)') => CreatingRun' \subseteq ATUser \union {"runner"}
  BY <1>0 DEF CreatingRun, RunHeld, Actor, Counted
<1>1. CASE NextDay
  <2>1. (\A a \in Actor : RunHeld(a)') /\ Counted' = Counted /\ CreatingRun' = CreatingRun
    BY <1>0, <1>1 DEF NextDay, RunHeld, Counted, CreatingRun, Exists, IsSimulated
  <2> QED  BY <1>0, <2>1 DEF RunsInv
<1>2. ASSUME NEW a \in Actor, ActorStep(a) PROVE RunsInv'
  <2>1. \A b \in Actor : RunHeld(b)'  BY <1>0, <1>2, HeldKept
  <2>2. /\ IsFiniteSet(CreatingRun) /\ IsFiniteSet(CreatingRun') /\ IsFiniteSet(Counted) /\ IsFiniteSet(Counted')
        /\ Cardinality(CreatingRun) \in Nat /\ Cardinality(CreatingRun') \in Nat /\ Cardinality(Counted) \in Nat /\ Cardinality(Counted') \in Nat
        /\ Cardinality(CreatingRun') <= Cardinality(ATUser) + 1
    BY <1>f, <1>g, <2>1, FS_Subset, FS_CardinalityType
  <2>3. PICK pc \in ATSteps, r \in Nat : Goes(a, pc, r)  BY <1>0, <1>2, RunStep
  <2>4. aw'[a].pc = pc /\ \A b \in Actor \ {a} : aw'[b] = aw[b]  BY <1>0, <2>3 DEF Goes
  <2>5. CASE CreateARun(a)
    <3>1. PICK s \in ARun : /\ ~Exists(s) /\ arun' = [arun EXCEPT ![s] = [NewRun EXCEPT !.status = "pending", !.auto = IF a = "runner" THEN "yes" ELSE "no"]]
      BY <2>5 DEF CreateARun, NextRow
    <3>2. Counted' = Counted \union {s} /\ s \notin Counted
      BY <1>0, <3>1 DEF Counted, Exists, IsSimulated, NewRun
    <3>3. aw[a].pc = "create" /\ aw'[a].pc = "begin"  BY <1>0, <2>5 DEF CreateARun, AAt, AGo
    <3>4. CreatingRun' = CreatingRun \ {a} /\ a \in CreatingRun  BY <2>4, <3>3 DEF CreatingRun
    <3>5. Cardinality(Counted') = Cardinality(Counted) + 1 /\ Cardinality(CreatingRun') = Cardinality(CreatingRun) - 1
      BY <2>2, <3>2, <3>4, FS_AddElement, FS_RemoveElement
    <3> QED  BY <1>0, <1>f, <2>1, <2>2, <3>5 DEF RunsInv
  <2>6. ASSUME ~CreateARun(a) PROVE Counted' = Counted
    <3>1. ASSUME NEW s \in ARun PROVE s \in Counted' <=> s \in Counted
      <4>1. Exists(s) => Exists(s)' /\ arun'[s].mode = arun[s].mode  BY <1>0, <1>2, RunsKept
      <4>2. ~Exists(s) /\ Exists(s)' => IsSimulated(s)'
        <5>1. CASE aw[a].pc = "create"
          <6>1. arun' = arun \/ \E q \in ARun : Exists(q) /\ \E x : arun' = [arun EXCEPT ![q] = x]
            BY <1>0, <1>2, <2>6, <5>1 DEF ActorStep, BeginARun, EndARun, BeginAnalysis, ClearRows, NoProvider, StoreRows,
              ClearGaps, StoreGaps, Raises, ATDies, ListDue, GuardScheduled, ListPending, AskRun, Simulate, EndSimulation, AskAnalysis, AAt, RunHeld
          <6> QED  BY <1>0, <6>1 DEF Exists
        <5>2. CASE aw[a].pc # "create"  BY <1>0, <1>2, <5>2, RunsKept
        <5> QED  BY <5>1, <5>2
      <4> QED  BY <4>1, <4>2 DEF Counted, IsSimulated
    <3> QED  BY <3>1 DEF Counted
  <2>7. CASE ~CreateARun(a) /\ pc # "create"
    <3>1. CreatingRun' \subseteq CreatingRun  BY <2>4, <2>7 DEF CreatingRun
    <3>2. Cardinality(CreatingRun') <= Cardinality(CreatingRun)  BY <2>2, <3>1, FS_Subset
    <3> QED  BY <1>0, <1>f, <2>1, <2>2, <2>6, <2>7, <3>2 DEF RunsInv
  <2>8. CASE ~CreateARun(a) /\ pc = "create"
    <3>1. RunsThisMonth < MonthlyLimit
      <4>1. AskRun(a) \/ (GuardScheduled /\ a = "runner")
        <5>1. \A p1, r1 : AGo(a, p1, r1) => p1 = "create"  BY <1>0, <2>4, <2>8 DEF AGo
        <5>2. ~(BeginARun(a) \/ EndARun(a) \/ BeginAnalysis(a) \/ ClearRows(a) \/ NoProvider(a))
          BY <5>1 DEF BeginARun, EndARun, BeginAnalysis, ClearRows, NoProvider
        <5>3. ~(StoreRows(a) \/ ClearGaps(a) \/ StoreGaps(a) \/ Raises(a) \/ ATDies(a))
          BY <5>1 DEF StoreRows, ClearGaps, StoreGaps, Raises, ATDies
        <5>4. ~(Simulate(a) \/ EndSimulation(a) \/ \E r1 \in ARun : AskAnalysis(a, r1))
          BY <5>1 DEF Simulate, EndSimulation, AskAnalysis
        <5>5. a = "extractor" => ~ \E r1 \in ARun : ListPending(r1)  BY <5>1 DEF ListPending
        <5>6. a = "runner" => ~ ListDue  BY <5>1 DEF ListDue
        <5> QED  BY <1>2, <2>8, <5>2, <5>3, <5>4, <5>5, <5>6 DEF ActorStep
      <4>2. ~(RunsThisMonth >= MonthlyLimit)
        BY <1>0, <2>4, <2>8, <4>1 DEF AskRun, GuardScheduled, Refused, AGo
      <4>3. RunsThisMonth \in Nat
        BY <1>f, FS_Subset, FS_CardinalityType DEF RunsThisMonth
      <4> QED  BY <1>f, <4>2, <4>3
    <3>2. Cardinality(Counted) <= RunsThisMonth /\ RunsThisMonth \in Nat
      <4>1. Counted \subseteq {r1 \in ARun : Exists(r1)} /\ IsFiniteSet({r1 \in ARun : Exists(r1)})
        BY <1>f, FS_Subset DEF Counted
      <4> QED  BY <4>1, FS_Subset, FS_CardinalityType DEF RunsThisMonth
    <3> QED  BY <1>0, <1>f, <2>1, <2>2, <2>6, <2>8, <3>1, <3>2 DEF RunsInv
  <2> QED  BY <2>5, <2>7, <2>8
<1> QED  BY <1>1, <1>2, <1>0, ATActors

----------------------------------------------------------------------------
\* What a run's row says of its analyses, and what an actor knows of the run it has in hand.
RowOK(row, n, g) ==
  /\ n <= 1 /\ g <= 1
  /\ row.status \notin RunTerminal => n = 0 /\ g = 0 /\ row.ext # "complete"
  /\ row.ext = "complete" /\ row.status \in RunTerminal => (n = 1 <=> row.status \in Consuming)
HandOK(a, pc, row, n, g) ==
  /\ pc \in Answering => row.status \notin RunTerminal
  /\ pc \in Analysis => row.status \in RunTerminal /\ a # "runner"
  /\ pc \in Clearing => row.ext # "complete"
  /\ pc = "llm" => n = 0
  /\ pc = "gap" => g = 0

(***************************************************************************)
(* The inductive invariant of the analyses (extraction.py and              *)
(* services/answer_tracking): a run is in the hand of one actor; its rows  *)
(* are stored once, when it has ended with answers; and an actor that is   *)
(* about to store has cleared the rows before.                             *)
(***************************************************************************)
OnceInv ==
  /\ ATTypes /\ \A a \in Actor : RunHeld(a)
  /\ \A a, b \in Actor : aw[a].run = aw[b].run /\ aw[a].run # 0 => a = b
  /\ \A r \in ARun : RowOK(arun[r], rows[r], gaps[r])
  /\ \A a \in Actor, r \in ARun : aw[a].run = r => HandOK(a, aw[a].pc, arun[r], rows[r], gaps[r])

\* A step that changes one run and one actor keeps the invariant when it does of those two.
LEMMA OnceCombine ==
  ASSUME OnceInv, ATTypes', \A b \in Actor : RunHeld(b)', NEW a \in Actor, NEW h \in ARun, NEW pc, NEW x \in {0, h}, Goes(a, pc, x),
         \A r \in ARun \ {h} : arun'[r] = arun[r] /\ rows'[r] = rows[r] /\ gaps'[r] = gaps[r],
         RowOK(arun'[h], rows'[h], gaps'[h]), x = h => HandOK(a, pc, arun'[h], rows'[h], gaps'[h]),
         \A b \in Actor \ {a} : aw[b].run # h
  PROVE  OnceInv'
<1>1. aw \in [Actor -> [pc : ATSteps, run : Nat]]  BY DEF OnceInv, ATTypes
<1>2. aw'[a].pc = pc /\ aw'[a].run = x /\ \A b \in Actor \ {a} : aw'[b] = aw[b]  BY <1>1 DEF Goes
<1>3. 0 \notin ARun  BY DEF ARun
<1>4. \A b, c \in Actor : aw'[b].run = aw'[c].run /\ aw'[b].run # 0 => b = c  BY <1>2 DEF OnceInv
<1>5. \A r \in ARun : RowOK(arun'[r], rows'[r], gaps'[r])
  <2>1. ASSUME NEW r \in ARun PROVE RowOK(arun'[r], rows'[r], gaps'[r])
    <3>1. CASE r = h  BY <3>1
    <3>2. CASE r # h  BY <3>2 DEF OnceInv
    <3> QED  BY <3>1, <3>2
  <2> QED  BY <2>1
<1>6. ASSUME NEW b \in Actor, NEW r \in ARun, aw'[b].run = r PROVE HandOK(b, aw'[b].pc, arun'[r], rows'[r], gaps'[r])
  <2>1. CASE b = a  BY <1>2, <1>3, <1>6, <2>1
  <2>2. CASE b # a
    <3>1. aw'[b] = aw[b] /\ r # h  BY <1>2, <1>6, <2>2
    <3> QED  BY <1>6, <3>1 DEF OnceInv
  <2> QED  BY <2>1, <2>2
<1> QED  BY <1>4, <1>5, <1>6 DEF OnceInv, RowOK, HandOK

\* The analyses are sound at the start.
LEMMA OnceInit == ATInit => OnceInv
<1>1. ATInit => \A r \in ARun : arun[r].status = "none" /\ arun[r].ext = "pending" /\ rows[r] = 0 /\ gaps[r] = 0
  BY ATInitTypes DEF NewRun
<1>2. "none" \notin RunTerminal /\ 0 \notin ARun  BY DEF RunTerminal, Consuming, ARun
<1> QED  BY <1>1, <1>2, ATInitTypes DEF OnceInv, RowOK

\* Every step keeps the analyses.
LEMMA OnceNext == ASSUME "reanalyse" \in ATTimely, OnceInv, ATNext PROVE OnceInv'
<1>0. /\ ATTypes /\ ATTypes' /\ arun \in [ARun -> RunRows] /\ aw \in [Actor -> [pc : ATSteps, run : Nat]]
      /\ rows \in [ARun -> Nat] /\ gaps \in [ARun -> Nat] /\ \A a \in Actor : RunHeld(a)
  BY ATTypesKept DEF OnceInv, ATTypes
<1>1. CASE NextDay
  BY <1>0, <1>1 DEF NextDay, OnceInv, RunHeld, Exists
<1>2. ASSUME NEW a \in Actor, ActorStep(a) PROVE OnceInv'
  <2>0. \A b \in Actor : RunHeld(b)'  BY <1>0, <1>2, HeldKept
  <2> DEFINE h == aw[a].run
  <2>s. /\ {"begin", "calls", "simulate"} \subseteq Answering /\ {"extract", "clear", "llm"} \subseteq Clearing
        /\ {"extract", "clear", "llm", "gapclear", "gap"} \subseteq Analysis /\ Clearing \subseteq Analysis
        /\ \A pc \in {"idle", "create", "guard"} : pc \notin Answering \union Analysis
        /\ \A pc \in Answering : pc \notin Analysis \union {"llm", "gap"}
        /\ {"gapclear", "gap"} \intersect Clearing = {}
        /\ RunTerminal = {"completed", "partial", "failed"} /\ Consuming = {"completed", "partial"}
    BY DEF Answering, Analysis, Clearing, RunTerminal, Consuming
  <2>1. aw[a].pc \in Answering \union Analysis =>
          /\ h \in ARun /\ \A b \in Actor \ {a} : aw[b].run # h
          /\ RowOK(arun[h], rows[h], gaps[h]) /\ HandOK(a, aw[a].pc, arun[h], rows[h], gaps[h])
    BY <1>0 DEF OnceInv, RunHeld
  <2>2. \A r \in ARun : ~Exists(r) => (\A b \in Actor : aw[b].run # r) /\ arun[r].status \notin RunTerminal
    BY <1>0, <2>s DEF RunHeld, Exists, ARun
  <2>3. \A r \in ARun : arun[r].status \in RunTerminal /\ ~Analysing(r) => \A b \in Actor : aw[b].run # r
    <3>1. ASSUME NEW r \in ARun, arun[r].status \in RunTerminal, ~Analysing(r), NEW b \in Actor PROVE aw[b].run # r
      <4>1. r # 0  BY DEF ARun
      <4>2. aw[b].run = r => aw[b].pc \in Answering \union Analysis  BY <1>0, <4>1 DEF RunHeld, ATSteps
      <4>3. aw[b].run = r => aw[b].pc \notin Answering  BY <3>1 DEF OnceInv, HandOK
      <4>4. aw[b].run = r => aw[b].pc \notin Analysis  BY <3>1 DEF Analysing, Analysis, Clearing
      <4> QED  BY <4>2, <4>3, <4>4
    <3> QED  BY <3>1
  <2>4. \A r \in ARun : arun[r] \in RunRows /\ rows[r] \in Nat /\ gaps[r] \in Nat  BY <1>0
  \* A step that lets go of its run, or has none, and writes nothing.
  <2>5. ASSUME AGo(a, "idle", 0) \/ AGo(a, "create", 0) \/ AGo(a, "guard", 0), UNCHANGED <<arun, rows, gaps>> PROVE OnceInv'
    <3>1. PICK pc \in {"idle", "create", "guard"} : Goes(a, pc, 0)  BY <2>5 DEF AGo, Goes
    <3>2. aw'[a].run = 0 /\ \A b \in Actor \ {a} : aw'[b] = aw[b]  BY <1>0, <3>1 DEF Goes
    <3>3. 0 \notin ARun  BY DEF ARun
    <3> QED  BY <1>0, <2>0, <2>5, <3>2, <3>3 DEF OnceInv
  <2>6. CASE CreateARun(a)
    <3>1. PICK s \in ARun : /\ ~Exists(s) /\ AGo(a, "begin", s) /\ UNCHANGED <<rows, gaps>>
                            /\ arun' = [arun EXCEPT ![s] = [NewRun EXCEPT !.status = "pending", !.auto = IF a = "runner" THEN "yes" ELSE "no"]]
      BY <2>6 DEF CreateARun, NextRow
    <3>2. arun'[s].status = "pending" /\ arun'[s].ext = "pending" /\ \A r \in ARun \ {s} : arun'[r] = arun[r]
      BY <1>0, <3>1 DEF NewRun
    <3>3. rows[s] = 0 /\ gaps[s] = 0  BY <2>2, <3>1 DEF OnceInv, RowOK
    <3>4. Goes(a, "begin", s)  BY <3>1 DEF AGo, Goes
    <3>5. RowOK(arun'[s], rows'[s], gaps'[s]) /\ HandOK(a, "begin", arun'[s], rows'[s], gaps'[s])
      BY <2>s, <3>1, <3>2, <3>3 DEF RowOK, HandOK
    <3> QED  BY <1>0, <2>0, <2>2, <3>1, <3>2, <3>4, <3>5, OnceCombine
  <2>7. CASE Simulate(a)
    <3>1. PICK s \in ARun : /\ ~Exists(s) /\ AGo(a, "simulate", s) /\ UNCHANGED <<rows, gaps>>
                            /\ arun' = [arun EXCEPT ![s] = [NewRun EXCEPT !.mode = "simulator", !.status = "pending"]]
      BY <2>7 DEF Simulate, NextRow
    <3>2. arun'[s].status = "pending" /\ arun'[s].ext = "pending" /\ \A r \in ARun \ {s} : arun'[r] = arun[r]
      BY <1>0, <3>1 DEF NewRun
    <3>3. rows[s] = 0 /\ gaps[s] = 0  BY <2>2, <3>1 DEF OnceInv, RowOK
    <3>4. Goes(a, "simulate", s)  BY <3>1 DEF AGo, Goes
    <3>5. RowOK(arun'[s], rows'[s], gaps'[s]) /\ HandOK(a, "simulate", arun'[s], rows'[s], gaps'[s])
      BY <2>s, <3>1, <3>2, <3>3 DEF RowOK, HandOK
    <3> QED  BY <1>0, <2>0, <2>2, <3>1, <3>2, <3>4, <3>5, OnceCombine
  \* A step that works on the run in hand.
  <2>8. ASSUME aw[a].pc \in Answering \union Analysis, NEW pc, NEW x \in {0, h}, Goes(a, pc, x),
               \A r \in ARun \ {h} : arun'[r] = arun[r] /\ rows'[r] = rows[r] /\ gaps'[r] = gaps[r],
               RowOK(arun'[h], rows'[h], gaps'[h]), x = h => HandOK(a, pc, arun'[h], rows'[h], gaps'[h])
        PROVE  OnceInv'
    BY <1>0, <2>0, <2>1, <2>8, OnceCombine
  <2> HIDE DEF h
  <2>9. CASE BeginARun(a)
    <3>1. /\ aw[a].pc \in Answering /\ h \in ARun /\ Goes(a, "calls", h) /\ UNCHANGED <<rows, gaps>>
          /\ arun' = [arun EXCEPT ![h] = [arun[h] EXCEPT !.status = "running", !.started = day]]
      BY <1>0, <2>s, <2>1, <2>9 DEF BeginARun, AAt, AGo, Goes, h
    <3>2. arun'[h].status = "running" /\ arun'[h].ext = arun[h].ext  BY <1>0, <2>4, <3>1 DEF RunRows
    <3>3. RowOK(arun'[h], rows'[h], gaps'[h]) /\ HandOK(a, "calls", arun'[h], rows'[h], gaps'[h])
      BY <2>s, <2>1, <3>1, <3>2 DEF RowOK, HandOK
    <3>4. \A r \in ARun \ {h} : arun'[r] = arun[r] /\ rows'[r] = rows[r] /\ gaps'[r] = gaps[r]  BY <1>0, <3>1
    <3> QED  BY <2>8, <3>1, <3>3, <3>4
  <2>10. CASE EndARun(a)
    <3>1. PICK t \in RunTerminal : /\ aw[a].pc \in Answering /\ h \in ARun /\ Goes(a, "idle", 0) /\ UNCHANGED <<rows, gaps>>
          /\ arun' = [arun EXCEPT ![h] = [arun[h] EXCEPT !.status = t, !.done = day]]
      BY <1>0, <2>s, <2>1, <2>10 DEF EndARun, AAt, AGo, Goes, h
    <3>2. arun'[h].status = t /\ arun'[h].ext = arun[h].ext  BY <1>0, <2>4, <3>1 DEF RunRows
    <3>3. RowOK(arun'[h], rows'[h], gaps'[h])
      BY <2>s, <2>1, <3>1, <3>2 DEF RowOK, HandOK
    <3>4. \A r \in ARun \ {h} : arun'[r] = arun[r] /\ rows'[r] = rows[r] /\ gaps'[r] = gaps[r]  BY <1>0, <3>1
    <3>5. 0 # h  BY <3>1 DEF ARun
    <3> QED  BY <2>8, <3>1, <3>3, <3>4, <3>5
  <2>11. CASE EndSimulation(a)
    <3>1. /\ aw[a].pc \in Answering /\ h \in ARun /\ Goes(a, "idle", 0) /\ UNCHANGED gaps
          /\ arun' = [arun EXCEPT ![h] = [arun[h] EXCEPT !.status = "completed", !.started = day, !.done = day, !.ext = "complete"]]
          /\ rows' = [rows EXCEPT ![h] = rows[h] + 1]
      BY <1>0, <2>s, <2>1, <2>11 DEF EndSimulation, AAt, AGo, Goes, h
    <3>2. arun'[h].status = "completed" /\ rows'[h] = rows[h] + 1  BY <1>0, <2>4, <3>1 DEF RunRows
    <3>3. RowOK(arun'[h], rows'[h], gaps'[h])
      BY <2>s, <2>1, <3>1, <3>2 DEF RowOK, HandOK
    <3>4. \A r \in ARun \ {h} : arun'[r] = arun[r] /\ rows'[r] = rows[r] /\ gaps'[r] = gaps[r]  BY <1>0, <3>1
    <3>5. 0 # h  BY <3>1 DEF ARun
    <3> QED  BY <2>8, <3>1, <3>3, <3>4, <3>5
  <2>12. CASE BeginAnalysis(a)
    <3>1. /\ aw[a].pc = "extract" /\ h \in ARun /\ Goes(a, "clear", h) /\ UNCHANGED <<rows, gaps>>
          /\ arun' = [arun EXCEPT ![h] = [arun[h] EXCEPT !.ext = "running"]]
      BY <1>0, <2>s, <2>1, <2>12 DEF BeginAnalysis, AAt, AGo, Goes, h
    <3>2. arun'[h].status = arun[h].status /\ arun'[h].ext = "running"  BY <1>0, <2>4, <3>1 DEF RunRows
    <3>3. RowOK(arun'[h], rows'[h], gaps'[h]) /\ HandOK(a, "clear", arun'[h], rows'[h], gaps'[h])
      BY <2>s, <2>1, <3>1, <3>2 DEF RowOK, HandOK
    <3>4. \A r \in ARun \ {h} : arun'[r] = arun[r] /\ rows'[r] = rows[r] /\ gaps'[r] = gaps[r]  BY <1>0, <3>1
    <3> QED  BY <2>s, <2>8, <3>1, <3>3, <3>4
  <2>13. CASE ClearRows(a)
    <3>1. /\ aw[a].pc = "clear" /\ h \in ARun /\ Goes(a, "llm", h) /\ UNCHANGED <<arun, gaps>>
          /\ rows' = [rows EXCEPT ![h] = 0]
      BY <1>0, <2>s, <2>1, <2>13 DEF ClearRows, AAt, AGo, Goes, h
    <3>2. rows'[h] = 0  BY <1>0, <3>1
    <3>3. RowOK(arun'[h], rows'[h], gaps'[h]) /\ HandOK(a, "llm", arun'[h], rows'[h], gaps'[h])
      BY <2>s, <2>1, <3>1, <3>2 DEF RowOK, HandOK
    <3>4. \A r \in ARun \ {h} : arun'[r] = arun[r] /\ rows'[r] = rows[r] /\ gaps'[r] = gaps[r]  BY <1>0, <3>1
    <3> QED  BY <2>s, <2>8, <3>1, <3>3, <3>4
  <2>14. CASE NoProvider(a)
    <3>1. /\ aw[a].pc = "llm" /\ h \in ARun /\ Goes(a, "gapclear", h) /\ UNCHANGED <<rows, gaps>>
          /\ arun' = [arun EXCEPT ![h] = [arun[h] EXCEPT !.ext = "failed"]]
      BY <1>0, <2>s, <2>1, <2>14 DEF NoProvider, AAt, AGo, Goes, h
    <3>2. arun'[h].status = arun[h].status /\ arun'[h].ext = "failed"  BY <1>0, <2>4, <3>1 DEF RunRows
    <3>3. RowOK(arun'[h], rows'[h], gaps'[h]) /\ HandOK(a, "gapclear", arun'[h], rows'[h], gaps'[h])
      BY <2>s, <2>1, <3>1, <3>2 DEF RowOK, HandOK
    <3>4. \A r \in ARun \ {h} : arun'[r] = arun[r] /\ rows'[r] = rows[r] /\ gaps'[r] = gaps[r]  BY <1>0, <3>1
    <3> QED  BY <2>s, <2>8, <3>1, <3>3, <3>4
  <2>15. CASE StoreRows(a)
    <3>1. /\ aw[a].pc = "llm" /\ h \in ARun /\ Goes(a, "gapclear", h) /\ UNCHANGED gaps
          /\ arun' = [arun EXCEPT ![h] = [arun[h] EXCEPT !.ext = "complete"]]
          /\ rows' = [rows EXCEPT ![h] = IF arun[h].status \in Consuming THEN rows[h] + 1 ELSE rows[h]]
      BY <1>0, <2>s, <2>1, <2>15 DEF StoreRows, Answered, AAt, AGo, Goes, h
    <3>2. /\ arun'[h].status = arun[h].status /\ arun'[h].ext = "complete" /\ rows[h] = 0
          /\ rows'[h] = IF arun[h].status \in Consuming THEN 1 ELSE 0
      BY <1>0, <2>s, <2>1, <2>4, <3>1 DEF RunRows, HandOK
    <3>3. RowOK(arun'[h], rows'[h], gaps'[h]) /\ HandOK(a, "gapclear", arun'[h], rows'[h], gaps'[h])
      BY <2>s, <2>1, <3>1, <3>2 DEF RowOK, HandOK
    <3>4. \A r \in ARun \ {h} : arun'[r] = arun[r] /\ rows'[r] = rows[r] /\ gaps'[r] = gaps[r]  BY <1>0, <3>1
    <3> QED  BY <2>s, <2>8, <3>1, <3>3, <3>4
  <2>16. CASE ClearGaps(a)
    <3>1. /\ aw[a].pc = "gapclear" /\ h \in ARun /\ Goes(a, "gap", h) /\ UNCHANGED <<arun, rows>>
          /\ gaps' = [gaps EXCEPT ![h] = 0]
      BY <1>0, <2>s, <2>1, <2>16 DEF ClearGaps, AAt, AGo, Goes, h
    <3>2. gaps'[h] = 0  BY <1>0, <3>1
    <3>3. RowOK(arun'[h], rows'[h], gaps'[h]) /\ HandOK(a, "gap", arun'[h], rows'[h], gaps'[h])
      BY <2>s, <2>1, <3>1, <3>2 DEF RowOK, HandOK
    <3>4. \A r \in ARun \ {h} : arun'[r] = arun[r] /\ rows'[r] = rows[r] /\ gaps'[r] = gaps[r]  BY <1>0, <3>1
    <3> QED  BY <2>s, <2>8, <3>1, <3>3, <3>4
  <2>17. CASE StoreGaps(a)
    <3>1. PICK n \in {0, 1} : /\ aw[a].pc = "gap" /\ h \in ARun /\ Goes(a, "idle", 0) /\ UNCHANGED <<arun, rows>>
          /\ gaps' = [gaps EXCEPT ![h] = gaps[h] + n]
      <4>1. {0, IF rows[aw[a].run] > 0 THEN 1 ELSE 0} \subseteq {0, 1}  OBVIOUS
      <4> QED  BY <1>0, <2>s, <2>1, <2>17, <4>1 DEF StoreGaps, AAt, AGo, Goes, h
    <3>2. gaps'[h] \in {0, 1}  BY <1>0, <2>1, <2>s, <3>1 DEF HandOK
    <3>3. RowOK(arun'[h], rows'[h], gaps'[h])
      BY <2>s, <2>1, <3>1, <3>2 DEF RowOK, HandOK
    <3>4. \A r \in ARun \ {h} : arun'[r] = arun[r] /\ rows'[r] = rows[r] /\ gaps'[r] = gaps[r]  BY <1>0, <3>1
    <3>5. 0 # h  BY <3>1 DEF ARun
    <3> QED  BY <2>s, <2>8, <3>1, <3>3, <3>4, <3>5
  <2>18. CASE Raises(a)
    <3>1. h # 0 /\ Goes(a, "idle", 0) /\ UNCHANGED <<rows, gaps>>  BY <2>18 DEF Raises, AGo, Goes, h
    <3>2. aw[a].pc \in Answering \union Analysis  BY <1>0, <3>1 DEF RunHeld, ATSteps, h
    <3>3. arun' = [arun EXCEPT ![h] = IF a = "runner" THEN [arun[h] EXCEPT !.status = "failed", !.done = day]
                                      ELSE IF a = "extractor" THEN [arun[h] EXCEPT !.ext = "failed"] ELSE arun[h]]
      BY <1>0, <2>1, <2>18, <3>2 DEF Raises, h
    <3>4. RowOK(arun'[h], rows'[h], gaps'[h])
      <4>1. CASE a = "runner"
        <5>1. arun'[h].status = "failed" /\ arun'[h].ext = arun[h].ext  BY <1>0, <2>1, <2>4, <3>2, <3>3, <4>1 DEF RunRows
        <5>2. arun[h].status \notin RunTerminal  BY <2>1, <3>2, <4>1 DEF HandOK
        <5> QED  BY <2>s, <2>1, <3>1, <3>2, <5>1, <5>2 DEF RowOK
      <4>2. CASE a = "extractor"
        <5>1. arun'[h].status = arun[h].status /\ arun'[h].ext = "failed"  BY <1>0, <2>1, <2>4, <3>2, <3>3, <4>2 DEF RunRows
        <5> QED  BY <2>s, <2>1, <3>1, <3>2, <5>1 DEF RowOK
      <4>3. CASE a \notin {"runner", "extractor"}
        <5>1. arun'[h] = arun[h]  BY <1>0, <2>1, <3>2, <3>3, <4>3
        <5> QED  BY <2>1, <3>1, <3>2, <5>1
      <4> QED  BY <4>1, <4>2, <4>3
    <3>5. \A r \in ARun \ {h} : arun'[r] = arun[r] /\ rows'[r] = rows[r] /\ gaps'[r] = gaps[r]  BY <1>0, <3>1, <3>3
    <3> QED  BY <2>8, <3>1, <3>2, <3>4, <3>5
  <2>19. CASE ATDies(a) \/ AskRun(a) \/ (a = "runner" /\ (ListDue \/ GuardScheduled))
    BY <2>5, <2>19 DEF ATDies, AskRun, ListDue, GuardScheduled
  <2>20. ASSUME NEW s \in ARun, a = "extractor", ListPending(s) PROVE OnceInv'
    <3>1. /\ Goes(a, "extract", s) /\ UNCHANGED <<arun, rows, gaps>> /\ arun[s].ext = "pending" /\ arun[s].status \in RunTerminal
          /\ ~Analysing(s)
      BY <2>20 DEF ListPending, AGo, Goes, Undisturbed
    <3>2. RowOK(arun'[s], rows'[s], gaps'[s]) /\ HandOK(a, "extract", arun'[s], rows'[s], gaps'[s])
      BY <2>s, <2>20, <3>1 DEF OnceInv, RowOK, HandOK
    <3> QED  BY <1>0, <2>0, <2>3, <3>1, <3>2, OnceCombine
  <2>21. ASSUME NEW s \in ARun, a \in ATUser, AskAnalysis(a, s) PROVE OnceInv'
    <3>1. /\ Goes(a, "extract", s) /\ UNCHANGED <<rows, gaps>> /\ arun[s].status \in RunTerminal /\ ~Analysing(s)
          /\ arun' = [arun EXCEPT ![s] = [arun[s] EXCEPT !.ext = "pending"]]
      BY <1>0, <2>21 DEF AskAnalysis, AGo, Goes, Undisturbed
    <3>2. arun'[s].status = arun[s].status /\ arun'[s].ext = "pending"  BY <1>0, <2>4, <3>1 DEF RunRows
    <3>3. a # "runner"  BY <2>21, AnswerTrackingAssumption
    <3>4. RowOK(arun'[s], rows'[s], gaps'[s]) /\ HandOK(a, "extract", arun'[s], rows'[s], gaps'[s])
      BY <2>s, <3>1, <3>2, <3>3 DEF OnceInv, RowOK, HandOK
    <3>5. \A r \in ARun \ {s} : arun'[r] = arun[r] /\ rows'[r] = rows[r] /\ gaps'[r] = gaps[r]  BY <1>0, <3>1
    <3> QED  BY <1>0, <2>0, <2>3, <3>1, <3>4, <3>5, OnceCombine
  <2> QED
    BY <1>2, <2>6, <2>7, <2>9, <2>10, <2>11, <2>12, <2>13, <2>14, <2>15, <2>16, <2>17, <2>18, <2>19, <2>20, <2>21 DEF ActorStep
<1> QED  BY <1>1, <1>2, ATActors

\* The types and the monthly limit hold always.
LEMMA RunsAlways == ATSpec => []RunsInv
<1>1. ATInit => RunsInv
  <2> SUFFICES ASSUME ATInit PROVE RunsInv  OBVIOUS
  <2>1. Counted = {} /\ CreatingRun = {}  BY ATInitTypes DEF Counted, CreatingRun, Exists, NewRun
  <2>2. Cardinality({}) = 0 /\ Cardinality(ATUser) \in Nat /\ MonthlyLimit \in Nat
    BY FS_EmptySet, FS_CardinalityType, AnswerTrackingAssumption
  <2> QED  BY <2>1, <2>2, ATInitTypes DEF RunsInv
<1>2. RunsInv /\ UNCHANGED atVars => RunsInv'
  BY DEF RunsInv, atVars, ATTypes, RunHeld, Counted, CreatingRun, Exists, IsSimulated
<1> QED  BY <1>1, <1>2, RunsInvNext, PTL DEF ATSpec

(***************************************************************************)
(* The states of the runs, their workers and their analyses are well       *)
(* typed, whatever fails or is retried.                                    *)
(***************************************************************************)
THEOREM AnswerTypes == ATSpec => []ATTypeOK
<1>1. RunsInv => ATTypeOK  BY ATTyped DEF RunsInv
<1> QED  BY <1>1, RunsAlways, PTL

(***************************************************************************)
(* However many runs are asked for at once, an organization starts no more *)
(* in a month than its limit and one for each other user who passed the    *)
(* check meanwhile; the scheduled runs are counted like those asked for    *)
(* (answer tracking's monthly guard reads the count before the insert).    *)
(***************************************************************************)
THEOREM RunsPaid == ATSpec => []RunsLimited
<1>1. RunsInv => RunsLimited
  <2>1. IsFiniteSet(CreatingRun) /\ IsFiniteSet(Counted) /\ Cardinality(ATUser) \in Nat /\ MonthlyLimit \in Nat
    <3>1. IsFiniteSet(Actor)
      <4>1. IsFiniteSet(ATUser \union {"runner"})  BY AnswerTrackingAssumption, FS_AddElement
      <4>2. IsFiniteSet((ATUser \union {"runner"}) \union {"extractor"})  BY <4>1, FS_AddElement
      <4>3. Actor = (ATUser \union {"runner"}) \union {"extractor"}  BY DEF Actor
      <4> QED  BY <4>2, <4>3
    <3>2. IsFiniteSet(ARun)  BY AnswerTrackingAssumption, FS_Interval, 1 \in Int, ATRuns \in Int DEF ARun
    <3>3. CreatingRun \subseteq Actor /\ Counted \subseteq ARun  BY DEF CreatingRun, Counted
    <3> QED  BY <3>1, <3>2, <3>3, FS_Subset, FS_CardinalityType, AnswerTrackingAssumption
  <2>2. Cardinality(CreatingRun) \in Nat /\ Cardinality(Counted) \in Nat  BY <2>1, FS_CardinalityType
  <2> QED  BY <2>1, <2>2 DEF RunsInv, RunsLimited, Counted
<1> QED  BY <1>1, RunsAlways, PTL

(***************************************************************************)
(* While nobody asks for an analysis of a run whose analysis is under way, *)
(* an analysed run has exactly one set of rows if it was answered and none *)
(* otherwise, whatever worker died or failed meanwhile and however often   *)
(* its analysis was begun again (extraction.py clears what is there before *)
(* it stores).                                                             *)
(***************************************************************************)
THEOREM AnswersOnce == ASSUME "reanalyse" \in ATTimely PROVE ATSpec => []AnalysedOnce
<1>1. OnceInv /\ UNCHANGED atVars => OnceInv'
  BY DEF OnceInv, atVars, ATTypes, RunHeld, Exists
<1>2. OnceInv => AnalysedOnce  BY DEF OnceInv, AnalysedOnce, RowOK, Answered
<1> QED  BY <1>1, <1>2, OnceInit, OnceNext, PTL DEF ATSpec

(***************************************************************************)
(* Both promises of the answer runs, under that condition.                 *)
(***************************************************************************)
THEOREM AnswerRuns == ASSUME "reanalyse" \in ATTimely PROVE ATSpec => []AnswerRunsSound
<1>1. ATSpec => []RunsLimited /\ []AnalysedOnce  BY RunsPaid, AnswersOnce
<1> QED  BY <1>1, PTL DEF AnswerRunsSound
=============================================================================
