--------------------------- MODULE MCPolicyManager ---------------------------
(* PolicyManager with the default thresholds and scores around every number   *)
(* that the policies, the levels and the escalation path compare with.        *)
EXTENDS PolicyManager

MCThresholds == [critical |-> 90, high |-> 75, medium |-> 50, low |-> 25]

MCScores == {0, 24, 25, 49, 50, 59, 60, 74, 75, 79, 80, 84, 85, 89, 90, 94, 95, 100}
=============================================================================
