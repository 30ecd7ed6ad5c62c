------------------------------ MODULE SolanaSDK ------------------------------
(***************************************************************************)
(* The SDK of sdk.ts: verifyIdentity over a provider, the identity manager, *)
(* the proof generator and the compliance reporter. An action is what runs  *)
(* between two awaits, so that concurrent calls interleave where the code   *)
(* lets them. The provider may also be used by the application directly,    *)
(* and the application revokes and clears through getIdentityManager.       *)
(***************************************************************************)
EXTENDS KycProvider, IdentityManager, ComplianceReporter

CONSTANT Calls      \* the calls of verifyIdentity, each made at most once

VARIABLES
    config,         \* identityProvider, enableMLRiskAssessment, enableAutoReporting
    anchorClient,   \* whether the Anchor client was created
    reporter,       \* whether complianceReporter was created
    initialized,    \* initialized
    calls           \* for each call where it awaits, its wallet, session and credential

sdkVars == <<config, anchorClient, reporter, initialized>>

sdkState == <<providerVars, identityVars, auditLog, sdkVars, calls>>

Configs == [provider : Kinds, ml : BOOLEAN, reporting : BOOLEAN]

Steps == {"idle", "initialize", "session", "risk", "proof", "verified", "rejected"}

NoCall == [at |-> "idle", wallet |-> None, session |-> None, credential |-> None]

TypeOK ==
    /\ ProviderTypeOK
    /\ IdentityTypeOK
    /\ config \in Configs
    /\ {anchorClient, reporter, initialized} \subseteq BOOLEAN
    /\ calls \in [Calls -> [at : Steps, wallet : Wallets \cup {None},
                            session : SessionIds \cup {None},
                            credential : CredentialIds \cup {None}]]

SdkInit ==
    /\ ProviderInit
    /\ IdentityInit
    /\ ReporterInit
    /\ config \in Configs
    /\ anchorClient = FALSE
    /\ reporter = FALSE
    /\ initialized = FALSE
    /\ calls = [c \in Calls |-> NoCall]

\* initialize has no await of its own: it runs to its end at once. The provider is
\* created without a client secret, so Google throws when the Anchor client already is.
Initialize ==
    /\ anchorClient' = TRUE
    /\ IF config.provider = "none" \/ CanCreate(config.provider, FALSE)
       THEN /\ kind' = IF config.provider = "none" THEN kind ELSE config.provider
            /\ reporter' = config.reporting
            /\ auditLog' = <<>>
            /\ initialized' = TRUE
       ELSE UNCHANGED <<kind, reporter, auditLog, initialized>>
    /\ UNCHANGED <<config, sessions, timers, identityVars>>

\* Mutant: the early return is gone.
InitializeAgain ==
    /\ Initialize
    /\ UNCHANGED calls

\* Called by the application: an initialized SDK returns at once.
InitializeSDK ==
    /\ ~initialized
    /\ Initialize
    /\ UNCHANGED calls

\* The hash of a wallet is 32 bits wide and padded to sixteen digits, so that the eight
\* that are looked at are zeros.
HashPrefix(w) == 0

\* The Anchor client's mock of the chain: an entry for every third hash.
CheckComplianceStatus(w) ==
    IF HashPrefix(w) % 3 = 0
    THEN {[level |-> "BASIC", status |-> "VERIFIED", expired |-> FALSE]}
    ELSE {}

\* What getVerificationStatus answers of a wallet, once the SDK is initialized.
GetVerificationStatus(w) ==
    LET entries == IF anchorClient THEN CheckComplianceStatus(w) ELSE {}
        Answer(compliant, level, status) ==
            [isCompliant |-> compliant, level |-> level, verificationStatus |-> status]
    IN  IF entries = {} THEN Answer(FALSE, "BASIC", "PENDING")
        ELSE LET entry == CHOOSE e \in entries : TRUE
             IN  Answer(~entry.expired /\ entry.status = "VERIFIED", entry.level, entry.status)

\* The SDK first initializes itself, and may reject.
CheckCompliance ==
    /\ ~initialized
    /\ Initialize
    /\ UNCHANGED calls

Moves(c, step) == calls' = [calls EXCEPT ![c].at = step]

\* The DID and the credential. generateProof looks for the wallet among the leaves of
\* a tree to which nothing was added, so it rejects and nothing is registered on chain.
Issue(c, w, session) ==
    /\ CreateDID(w)
    /\ \E id \in CredentialIds :
          /\ IssueCredential(id, w)
          /\ calls' = [calls EXCEPT ![c] =
                [at |-> "proof", wallet |-> w, session |-> session, credential |-> id]]
    /\ UNCHANGED <<providerVars, auditLog, sdkVars>>

AfterSession(c, w, session) ==
    \/ /\ config.ml
       /\ calls' = [calls EXCEPT ![c] =
             [at |-> "risk", wallet |-> w, session |-> session, credential |-> None]]
       /\ UNCHANGED <<providerVars, identityVars, auditLog, sdkVars>>
    \/ ~config.ml /\ Issue(c, w, session)

\* Without a provider a mock session stands in and nothing is awaited.
OpenSession(c, w) ==
    \/ config.provider = "none" /\ AfterSession(c, w, None)
    \/ /\ config.provider # "none"
       /\ \E id \in SessionIds :
             /\ InitiateVerification(id, w)
             /\ calls' = [calls EXCEPT ![c] =
                   [at |-> "session", wallet |-> w, session |-> id, credential |-> None]]
       /\ UNCHANGED <<identityVars, auditLog, sdkVars>>

\* The call up to its first await.
VerifyIdentity(c, w) ==
    /\ calls[c].at = "idle"
    /\ \/ initialized /\ OpenSession(c, w)
       \/ /\ ~initialized
          /\ Initialize
          /\ calls' = [calls EXCEPT ![c] =
                [at |-> IF initialized' THEN "initialize" ELSE "rejected", wallet |-> w,
                 session |-> None, credential |-> None]]

Initialized(c) == calls[c].at = "initialize" /\ OpenSession(c, calls[c].wallet)

SessionOpened(c) ==
    calls[c].at = "session" /\ AfterSession(c, calls[c].wallet, calls[c].session)

RiskAssessed(c) ==
    calls[c].at = "risk" /\ Issue(c, calls[c].wallet, calls[c].session)

\* The rejected proof is only warned about: the result is VERIFIED, and audited.
ProofFailed(c) ==
    /\ calls[c].at = "proof"
    /\ IF reporter
       THEN LogAuditEvent([type |-> "VERIFICATION_COMPLETE", wallet |-> calls[c].wallet,
                           status |-> "VERIFIED", level |-> "none", score |-> 0,
                           amount |-> 0, at |-> Len(auditLog)])
       ELSE UNCHANGED auditLog
    /\ Moves(c, "verified")
    /\ UNCHANGED <<providerVars, identityVars, sdkVars>>

Advance(c) == Initialized(c) \/ SessionOpened(c) \/ RiskAssessed(c) \/ ProofFailed(c)

\* The application's own provider, next to an SDK that has none.
CreateProvider ==
    /\ config.provider = "none" /\ kind = "none"
    /\ CanCreate("google", TRUE)
    /\ kind' = "google"
    /\ UNCHANGED <<sessions, timers, identityVars, auditLog, sdkVars, calls>>

Timeout(id) == Timer(id) /\ UNCHANGED <<identityVars, auditLog, sdkVars, calls>>

Provider ==
    /\ \/ \E id \in SessionIds, w \in Wallets : GoogleInitiate(id, w)
       \/ \E outcome \in {"completed", "rejected"} : HandleWebhook(outcome)
    /\ UNCHANGED <<identityVars, auditLog, sdkVars, calls>>

\* What an earlier run exported, if anything, is the issuer's DID.
Identity ==
    /\ \/ \E id \in CredentialIds : VerifyCredential(id)
       \/ \E id \in CredentialIds : RevokeCredential(id)
       \/ ImportDIDs({Oracle})
       \/ Clear
    /\ UNCHANGED <<providerVars, auditLog, sdkVars, calls>>

\* What happens around the calls of verifyIdentity.
Surroundings ==
    \/ InitializeSDK
    \/ CheckCompliance
    \/ CreateProvider
    \/ Provider
    \/ \E id \in SessionIds : Timeout(id)
    \/ Identity

------------------------------------------------------------------------------
Issued(c) == calls[c].at \in {"proof", "verified"}

\* Every result has a credential of its own, issued to the wallet of the call; the
\* registry holds a credential under the subject it was issued to or not at all, and
\* whoever is the subject of a registered credential has a DID: verifyIdentity creates
\* both between two awaits, and clear drops both.
CredentialsAccountedFor ==
    /\ \A c \in Calls : Issued(c) =>
          /\ calls[c].credential # None
          /\ issued[calls[c].credential] = calls[c].wallet
    /\ \A c, d \in Calls :
          Issued(c) /\ Issued(d) /\ c # d => calls[c].credential # calls[d].credential
    /\ \A id \in CredentialIds :
          credentials[id] # None => credentials[id] = issued[id] /\ issued[id] \in dids

\* With auto-reporting the audit trail of a wallet has one event for each result
\* returned for it, and the KYC summary counts exactly the results: no call logs twice
\* or into a reporter that is dropped, however the calls overlap with initialize.
AuditMatchesResults ==
    LET Results(S) == {c \in Calls : calls[c].at = "verified" /\ calls[c].wallet \in S}
        everything == GetAuditEvents(AnyWallet, [from |-> 0, to |-> Len(auditLog)])
        summary    == GenerateReport("KYC_SUMMARY", everything)
    IN  config.reporting =>
          /\ \A w \in Wallets : Len(GetAuditTrail(w)) = Cardinality(Results({w}))
          /\ summary.total = Cardinality(Results(Wallets))
          /\ summary.approved = summary.total
          /\ summary.rejected + summary.pending = 0
          /\ GenerateReport("AUDIT", everything).verifications = summary.total
=============================================================================
