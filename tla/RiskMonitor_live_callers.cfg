SPECIFICATION FairSpec
CONSTANTS
    Wallets = {w1}
    Keys = {k1}
    Profiles <- ThreeProfiles
    ActionsFor <- ThreeActionsFor
    Loops = {l1}
    Callers = {c1}
    Admins = {a1}
    None = None
PROPERTIES
    UnregisterReturns
    ForcedCheckReturns
