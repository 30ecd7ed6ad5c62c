SPECIFICATION FairSpec
CONSTANTS
    Wallets = {w1}
    Keys = {k1}
    Profiles <- TwoProfiles
    ActionsFor <- TwoActionsFor
    Loops = {l1, l2}
    Callers = {}
    Admins = {a1}
    None = None
PROPERTIES
    StopEndsLoops
    ChainFollowsProviders
