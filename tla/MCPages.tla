------------------------------- MODULE MCPages -------------------------------
(* The pages of a website: either they are fetched, or scored by runs, or the *)
(* findings about them are decided, or one of them is fixed, or the reports   *)
(* of the scans move.                                                        *)
EXTENDS PageValue, Fixes, Reports, Fetching, Findings

VARIABLE part

Init == /\ part \in {"runs", "fixes", "reports", "fetches", "findings"}
        /\ PVInit /\ FxInit /\ RPInit /\ FTInit /\ FNInit
        /\ part = "fixes" \/ method = "page_check"
Next ==
  \/ part = "runs" /\ PVNext /\ UNCHANGED <<part, fxVars, rpVars, ftVars, fnVars>>
  \/ part = "fixes" /\ FxNext /\ UNCHANGED <<part, pvVars, rpVars, ftVars, fnVars>>
  \/ part = "reports" /\ RPNext /\ UNCHANGED <<part, pvVars, fxVars, ftVars, fnVars>>
  \/ part = "fetches" /\ FTNext /\ UNCHANGED <<part, pvVars, fxVars, rpVars, fnVars>>
  \/ part = "findings" /\ FNNext /\ UNCHANGED <<part, pvVars, fxVars, rpVars, ftVars>>
Spec == Init /\ [][Next]_<<part, pvVars, fxVars, rpVars, ftVars, fnVars>>
=============================================================================
