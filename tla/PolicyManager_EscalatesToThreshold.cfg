SPECIFICATION Spec
CONSTANTS
    Thresholds <- MCThresholds
    Scores <- MCScores
INVARIANT
    EscalatesToThreshold
