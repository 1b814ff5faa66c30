----------------------------- MODULE MCRequests -----------------------------
(* What is asked of the API: either its limits, or scans, or the team of an   *)
(* organization, or a Google connection, or the collected events of a site,   *)
(* or an account.                                                            *)
EXTENDS Scanning, Teams, GoogleSync, Ingest, Accounts, Limits, TLC

VARIABLE part

\* Bound: with all the invitations made, one operation fewer.
TeamStep == TMNext /\ (tmops' < TMOps \/ invite'[MaxInvites].status = "none")

Init == /\ part \in {"scans", "team", "google", "events", "account", "limits"}
        /\ ScInit /\ TMInit /\ GSInit /\ IGInit /\ ACInit /\ LMInit
        /\ part = "google" \/ kind = "ga4"
Next ==
  \/ part = "scans" /\ ScNext /\ UNCHANGED <<part, tmVars, gsVars, igVars, acVars, lmVars>>
  \/ part = "team" /\ TeamStep /\ UNCHANGED <<part, scVars, gsVars, igVars, acVars, lmVars>>
  \/ part = "google" /\ GSNext /\ UNCHANGED <<part, scVars, tmVars, igVars, acVars, lmVars>>
  \/ part = "events" /\ IGNext /\ UNCHANGED <<part, scVars, tmVars, gsVars, acVars, lmVars>>
  \/ part = "account" /\ ACNext /\ UNCHANGED <<part, scVars, tmVars, gsVars, igVars, lmVars>>
  \/ part = "limits" /\ LMNext /\ UNCHANGED <<part, scVars, tmVars, gsVars, igVars, acVars>>
Spec == Init /\ [][Next]_<<part, scVars, tmVars, gsVars, igVars, acVars, lmVars>>
Symmetry == Permutations(Caller)
=============================================================================
