----------------------------- MODULE MCTracking -----------------------------
(* What a website is watched with: either the scans of its monitors, or the  *)
(* runs of its prompts, or the lists of monitors and prompts move.           *)
EXTENDS Monitoring, AnswerTracking, Watchlist

VARIABLE part

(* Bounds: with a simulated run among them the runs are one fewer, only the  *)
(* simulated one is analysed again, and an actor fails only at it.           *)
AnswersStep == ATNext /\ \A r \in ARun : ~ IsSimulated(r)'
SimulatorStep ==
  /\ ATNext /\ ~ Exists(ATRuns)'
  /\ \A r \in ARun : (\E a \in Actor : aw'[a] = [pc |-> "extract", run |-> r]) => IsSimulated(r)
  /\ atfaults' # atfaults => \E u \in ATUser : AAt(u, "simulate")

Init == part \in {"monitors", "answers", "simulator", "lists"} /\ MNInit /\ ATInit /\ WLInit
Next ==
  \/ part = "monitors" /\ MNNext /\ UNCHANGED <<part, atVars, wlVars>>
  \/ part = "answers" /\ AnswersStep /\ UNCHANGED <<part, mnVars, wlVars>>
  \/ part = "simulator" /\ SimulatorStep /\ UNCHANGED <<part, mnVars, wlVars>>
  \/ part = "lists" /\ WLNext /\ UNCHANGED <<part, mnVars, atVars>>
Spec == Init /\ [][Next]_<<part, mnVars, atVars, wlVars>>
=============================================================================
