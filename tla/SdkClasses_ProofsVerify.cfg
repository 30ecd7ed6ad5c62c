SPECIFICATION Spec
CONSTANTS
    w1 = w1
    w2 = w2
    AnyWallet = AnyWallet
    Missing = Missing
    Depth = 2
    Values <- MCValues
    Wallets = {w1, w2}
    Events <- MCEvents
    Clock = {0, 1, 2}
    MaxEvents = 1
    Today <- MCToday
    Profiles <- MCProfiles
    Users <- MCUsers
    CustomRules <- MCRules
    CustomIds <- MCCustomIds
    Thresholds <- MCThresholds
INVARIANT
    ProofsVerify
