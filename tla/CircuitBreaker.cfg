SPECIFICATION Spec
CONSTANTS
    a = a
    b = b
    c = c
    d = d
    DefaultKey = DefaultKey
    Accounts = {a, b, c, d, DefaultKey}
    Configs <- MCConfigs
    U8Max = 5
INVARIANTS
    QuorumIsFrozen
    BreakerInv
PROPERTIES
    FreezeIsApproved
    ThawIsApproved
