SPECIFICATION Spec
CONSTANTS
    Thresholds <- MCThresholds
    Scores <- MCScores
INVARIANTS
    RevocationStands
    TreatmentInOrder
    LevelPolicyApplies
    MoreEvidenceMatchesMore
