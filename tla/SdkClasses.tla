------------------------------ MODULE SdkClasses ------------------------------
(***************************************************************************)
(* The classes of the SDK as an application uses them on their own: proofs   *)
(* and reports of what was verified, or assessments.  These share no state,  *)
(* so that a behaviour has one of the two.                                  *)
(***************************************************************************)
EXTENDS Evidence, Assessment

VARIABLE purpose        \* what the classes are used for

vars == <<evidenceVars, assessmentVars, purpose>>

Init ==
    /\ EvidenceInit
    /\ AssessmentInit
    /\ purpose \in {"evidence", "assessment"}

Next ==
    \/ purpose = "evidence" /\ EvidenceNext /\ UNCHANGED <<assessmentVars, purpose>>
    \/ purpose = "assessment" /\ AssessmentNext /\ UNCHANGED <<evidenceVars, purpose>>

Spec == Init /\ [][Next]_vars
=============================================================================
