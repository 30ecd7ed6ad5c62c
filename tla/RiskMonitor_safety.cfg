SPECIFICATION Spec
CONSTANTS
    Wallets = {w1}
    Keys = {k1, k2}
    Profiles <- TwoProfiles
    ActionsFor <- TwoActionsFor
    Loops = {l1, l2}
    Callers = {c1}
    Admins = {a1}
    None = None
SYMMETRY Symmetry
INVARIANTS
    EvaluationsExclude
    ActsOnCachedProfile
    IndInv
    RunningIsMonitored
PROPERTIES
    StatusChangesAreExplained
    UnregisterIsQuiet
