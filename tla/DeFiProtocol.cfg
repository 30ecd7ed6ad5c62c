SPECIFICATION Spec
CONSTANTS
    Oracle = Oracle
    None = None
    AnyWallet = AnyWallet
    Wallets = {w1, w2}
    SessionIds = {s1, s2}
    CredentialIds = {k1, k2}
    Calls = {c1, c2}
    Registrations = {c1}
INVARIANTS
    MembersAccountedFor
    AuditMatchesResults
PROPERTIES
    SessionsSettle
