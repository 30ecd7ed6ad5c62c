-------------------------- MODULE DeFiProtocol_proofs --------------------------
(* The credentials of the SDK and the whitelist of the protocol, for any       *)
(* number of wallets, calls, sessions and credentials: what verifyIdentity      *)
(* returned is accounted for, and so is every member.                         *)
EXTENDS DeFiProtocol, Arrays_proofs

USE NoneIsNoWallet, NoneIsNoCredential

\* The shape of a call: it awaits for a wallet, or has not begun.
IsCall(x) ==
    /\ x = [at |-> x.at, wallet |-> x.wallet, session |-> x.session, credential |-> x.credential]
    /\ x.at \in Steps
    /\ x.at # "idle" => x.wallet \in Wallets
    /\ x.at \in {"proof", "verified"} => x.credential \in CredentialIds

Members ==
    \A w \in whitelist :
        \E c \in Registrations : calls[c].at = "verified" /\ issued[calls[c].credential] = w

\* The mock of the chain finds everyone compliant, once there is a client to ask it.
IInv ==
    /\ calls = [c \in Calls |-> calls[c]]
    /\ \A c \in Calls : IsCall(calls[c])
    /\ credentials \in [CredentialIds -> Wallets \cup {None}]
    /\ issued \in [CredentialIds -> Wallets \cup {None}]
    /\ whitelist # {} => anchorClient
    /\ Members
    /\ CredentialsAccountedFor

\* What getVerificationStatus answers does not depend on the wallet (program.ts:70-73).
LEMMA Compliance ==
    ASSUME NEW w
    PROVE  /\ GetVerificationStatus(w).isCompliant => anchorClient
           /\ anchorClient => /\ GetVerificationStatus(w).isCompliant
                              /\ GetVerificationStatus(w).level = "BASIC"
<1> DEFINE entry == [level |-> "BASIC", status |-> "VERIFIED", expired |-> FALSE]
<1>1. CheckComplianceStatus(w) = {entry}
  BY DEF CheckComplianceStatus, HashPrefix
<1>2. CASE ~anchorClient
  BY <1>2 DEF GetVerificationStatus
<1>3. CASE anchorClient
  <2>1. (CHOOSE e \in {entry} : TRUE) = entry
    OBVIOUS
  <2>2. {entry} # {}
    OBVIOUS
  <2>3. GetVerificationStatus(w) =
           [isCompliant |-> ~entry.expired /\ entry.status = "VERIFIED",
            level |-> entry.level, verificationStatus |-> entry.status]
    <3> HIDE DEF entry
    <3>1. (IF anchorClient THEN CheckComplianceStatus(w) ELSE {}) = {entry}
      BY <1>1, <1>3
    <3>2. ((IF anchorClient THEN CheckComplianceStatus(w) ELSE {}) = {}) = FALSE
      BY <2>2, <3>1
    <3> QED
      BY <2>1, <3>1, <3>2 DEF GetVerificationStatus
  <2>4. (~entry.expired /\ entry.status = "VERIFIED") = TRUE /\ entry.level = "BASIC"
    OBVIOUS
  <2>5. GetVerificationStatus(w) =
           [isCompliant |-> TRUE, level |-> "BASIC", verificationStatus |-> entry.status]
    BY <2>3, <2>4
  <2> QED
    BY <1>3, <2>5
<1> QED
  BY <1>2, <1>3

\* Nothing was verified yet.
LEMMA Initially == Init => IInv
<1> SUFFICES ASSUME Init PROVE IInv
  OBVIOUS
<1>1. /\ calls = [c \in Calls |-> NoCall] /\ whitelist = {}
      /\ credentials = [id \in CredentialIds |-> None] /\ issued = credentials
  BY DEF Init, SdkInit, IdentityInit
<1>2. \A c \in Calls : IsCall(calls[c]) /\ calls[c].at = "idle"
  BY <1>1 DEF IsCall, NoCall, Steps
<1> QED
  BY <1>1, <1>2 DEF IInv, Members, CredentialsAccountedFor, Issued

\* A step before or after the credential of a call, which leaves the registries alone.
LEMMA AwaitInv ==
    ASSUME IInv, UNCHANGED <<identityVars, whitelist>>, anchorClient => anchorClient',
           NEW c \in Calls, NEW x, calls' = [calls EXCEPT ![c] = x], IsCall(x),
           \/ ~Issued(c) /\ x.at \notin {"proof", "verified"}
           \/ /\ calls[c].at = "proof" /\ x.wallet = calls[c].wallet
              /\ x.credential = calls[c].credential
    PROVE  IInv'
<1>1. /\ calls' = [d \in Calls |-> calls'[d]]
      /\ \A d \in Calls : d # c => calls'[d] = calls[d]
      /\ calls'[c] = x
      /\ credentials' = credentials /\ issued' = issued /\ dids' = dids /\ whitelist' = whitelist
  BY DEF IInv, identityVars
<1>2. \A d \in Calls : IsCall(calls'[d])
  BY <1>1 DEF IInv
<1>3. \A d \in Calls : Issued(d)' =>
         /\ Issued(d) /\ calls'[d].wallet = calls[d].wallet
         /\ calls'[d].credential = calls[d].credential
  BY <1>1 DEF Issued
<1>4. CredentialsAccountedFor'
  BY <1>1, <1>3 DEF IInv, CredentialsAccountedFor
<1>5. Members'
  <2>1. \A d \in Calls : calls[d].at = "verified" =>
           calls'[d].at = "verified" /\ calls'[d].credential = calls[d].credential
    BY <1>1 DEF Issued
  <2> QED
    BY <1>1, <2>1, RegistrationsAreCalls DEF IInv, Members
<1> QED
  BY <1>1, <1>2, <1>4, <1>5 DEF IInv, IsCall

\* A credential is issued to the wallet of a call, together with its DID.
LEMMA IssueInv ==
    ASSUME IInv, NEW c \in Calls, NEW w \in Wallets, NEW session, Issue(c, w, session),
           ~Issued(c), UNCHANGED whitelist
    PROVE  IInv'
<1>1. PICK id \in CredentialIds :
         /\ IssueCredential(id, w)
         /\ calls' = [calls EXCEPT ![c] =
               [at |-> "proof", wallet |-> w, session |-> session, credential |-> id]]
  BY DEF Issue
<1>2. /\ issued[id] = None
      /\ credentials' = [credentials EXCEPT ![id] = w]
      /\ issued' = [issued EXCEPT ![id] = w]
      /\ dids' = dids \cup {w} /\ anchorClient' = anchorClient
  BY <1>1 DEF IssueCredential, Issue, CreateDID, sdkVars
<1>3. /\ calls' = [d \in Calls |-> calls'[d]]
      /\ \A d \in Calls : d # c => calls'[d] = calls[d]
      /\ calls'[c] = [at |-> "proof", wallet |-> w, session |-> session, credential |-> id]
  BY <1>1 DEF IInv
<1>4. \A d \in Calls : IsCall(calls'[d])
  BY <1>3 DEF IInv, IsCall, Steps
<1>5. /\ issued' \in [CredentialIds -> Wallets \cup {None}]
      /\ credentials' \in [CredentialIds -> Wallets \cup {None}]
      /\ issued'[id] = w /\ credentials'[id] = w
      /\ \A k \in CredentialIds : k # id => issued'[k] = issued[k] /\ credentials'[k] = credentials[k]
  BY <1>2 DEF IInv
<1>6. \A d \in Calls : Issued(d) =>
         /\ d # c /\ calls[d].credential \in CredentialIds /\ calls[d].credential # id
         /\ calls'[d] = calls[d]
  <2> SUFFICES ASSUME NEW d \in Calls, Issued(d)
               PROVE  /\ d # c /\ calls[d].credential \in CredentialIds
                      /\ calls[d].credential # id /\ calls'[d] = calls[d]
    OBVIOUS
  <2>1. IsCall(calls[d]) /\ issued[calls[d].credential] = calls[d].wallet
    BY DEF IInv, CredentialsAccountedFor
  <2>2. calls[d].wallet \in Wallets /\ calls[d].credential \in CredentialIds
    BY <2>1 DEF IsCall, Issued
  <2> QED
    BY <1>2, <1>3, <2>1, <2>2
<1>7. \A d \in Calls : Issued(d)' => d = c \/ Issued(d)
  BY <1>3 DEF Issued
<1>8. CredentialsAccountedFor'
  <2>1. \A d \in Calls : Issued(d)' =>
           calls'[d].credential # None /\ issued'[calls'[d].credential] = calls'[d].wallet
    BY <1>3, <1>5, <1>6, <1>7 DEF IInv, CredentialsAccountedFor
  <2>2. \A d, e \in Calls : Issued(d)' /\ Issued(e)' /\ d # e =>
           calls'[d].credential # calls'[e].credential
    BY <1>3, <1>6, <1>7 DEF IInv, CredentialsAccountedFor
  <2>3. \A k \in CredentialIds : credentials'[k] # None =>
           credentials'[k] = issued'[k] /\ issued'[k] \in dids'
    BY <1>2, <1>5 DEF IInv, CredentialsAccountedFor
  <2> QED
    BY <2>1, <2>2, <2>3 DEF CredentialsAccountedFor
<1>9. Members'
  <2>1. \A d \in Calls : calls[d].at = "verified" =>
           calls'[d] = calls[d] /\ issued'[calls[d].credential] = issued[calls[d].credential]
    BY <1>5, <1>6 DEF Issued
  <2> QED
    BY <2>1, RegistrationsAreCalls DEF IInv, Members
<1> QED
  BY <1>2, <1>3, <1>4, <1>5, <1>8, <1>9 DEF IInv

\* What the application does to the registries drops credentials, or adds DIDs.
LEMMA IdentityInv ==
    ASSUME IInv, Identity, UNCHANGED whitelist
    PROVE  IInv'
<1>1. /\ issued' = issued /\ calls' = calls /\ anchorClient' = anchorClient
      /\ credentials' \in [CredentialIds -> Wallets \cup {None}]
      /\ \A id \in CredentialIds : credentials'[id] # None =>
            credentials'[id] = credentials[id] /\ dids \subseteq dids'
  <2>1. /\ calls' = calls /\ anchorClient' = anchorClient
        /\ \/ \E id \in CredentialIds : VerifyCredential(id)
           \/ \E id \in CredentialIds : RevokeCredential(id)
           \/ ImportDIDs({Oracle})
           \/ Clear
    BY DEF Identity, sdkVars
  <2>2. CASE \E id \in CredentialIds : VerifyCredential(id)
    BY <2>1, <2>2 DEF VerifyCredential, ResolveDID, CreateDID, IInv
  <2>3. CASE \E id \in CredentialIds : RevokeCredential(id)
    BY <2>1, <2>3 DEF RevokeCredential, IInv
  <2>4. CASE ImportDIDs({Oracle}) \/ Clear
    BY <2>1, <2>4 DEF ImportDIDs, Clear, IInv
  <2> QED
    BY <2>1, <2>2, <2>3, <2>4
<1>2. CredentialsAccountedFor'
  BY <1>1 DEF IInv, CredentialsAccountedFor, Issued
<1> QED
  BY <1>1, <1>2 DEF IInv, IsCall, Members

\* A call opens a session, or goes on without one.
LEMMA SessionInv ==
    ASSUME IInv, NEW c \in Calls, NEW w \in Wallets, NEW session, ~Issued(c), UNCHANGED whitelist,
           AfterSession(c, w, session) \/ OpenSession(c, w)
    PROVE  IInv'
<1>1. ASSUME NEW s, AfterSession(c, w, s) PROVE IInv'
  <2>1. CASE Issue(c, w, s)
    BY <2>1, IssueInv
  <2>2. CASE /\ calls' = [calls EXCEPT ![c] =
                   [at |-> "risk", wallet |-> w, session |-> s, credential |-> None]]
             /\ UNCHANGED <<providerVars, identityVars, auditLog, sdkVars>>
    BY <2>2, AwaitInv DEF IsCall, Steps, sdkVars
  <2> QED
    BY <1>1, <2>1, <2>2 DEF AfterSession
<1>2. ASSUME NEW s \in SessionIds,
             calls' = [calls EXCEPT ![c] =
                   [at |-> "session", wallet |-> w, session |-> s, credential |-> None]],
             UNCHANGED <<identityVars, auditLog, sdkVars>>
      PROVE  IInv'
  BY <1>2, AwaitInv DEF IsCall, Steps, sdkVars
<1> QED
  BY <1>1, <1>2 DEF OpenSession

\* A call of verifyIdentity begins, and may initialize the SDK.
LEMMA VerifyInv ==
    ASSUME IInv, NEW c \in Calls, NEW w \in Wallets, VerifyIdentity(c, w), UNCHANGED whitelist
    PROVE  IInv'
<1>1. calls[c].at = "idle" /\ ~Issued(c)
  BY DEF VerifyIdentity, Issued
<1>2. CASE OpenSession(c, w)
  BY <1>1, <1>2, SessionInv
<1>3. ASSUME NEW at \in {"initialize", "rejected"}, Initialize,
             calls' = [calls EXCEPT ![c] =
                   [at |-> at, wallet |-> w, session |-> None, credential |-> None]]
      PROVE  IInv'
  <2> DEFINE x == [at |-> at, wallet |-> w, session |-> None, credential |-> None]
  <2>1. IsCall(x) /\ x.at = at
    BY DEF IsCall, Steps
  <2>3. calls' = [calls EXCEPT ![c] = x]
    BY <1>3
  <2> HIDE DEF x
  <2>2. UNCHANGED identityVars /\ anchorClient'
    BY <1>3 DEF Initialize
  <2> QED
    BY <1>1, <2>1, <2>2, <2>3, AwaitInv
<1> QED
  BY <1>2, <1>3 DEF VerifyIdentity

\* A call goes on after an await.
LEMMA AdvanceInv ==
    ASSUME IInv, NEW c \in Calls, Advance(c), UNCHANGED whitelist
    PROVE  IInv'
<1>1. IsCall(calls[c])
  BY DEF IInv
<1>2. CASE Initialized(c) \/ SessionOpened(c)
  <2>1. calls[c].wallet \in Wallets /\ ~Issued(c)
    BY <1>1, <1>2 DEF Initialized, SessionOpened, IsCall, Issued
  <2> QED
    BY <1>2, <2>1, SessionInv DEF Initialized, SessionOpened
<1>3. CASE RiskAssessed(c)
  <2>1. calls[c].wallet \in Wallets /\ ~Issued(c)
    BY <1>1, <1>3 DEF RiskAssessed, IsCall, Issued
  <2> QED
    BY <1>3, <2>1, IssueInv DEF RiskAssessed
<1>4. CASE ProofFailed(c)
  <2> DEFINE x == [calls[c] EXCEPT !.at = "verified"]
  <2>1. /\ calls' = [calls EXCEPT ![c] = x] /\ calls[c].at = "proof"
        /\ UNCHANGED <<identityVars, sdkVars>>
    BY <1>4 DEF ProofFailed, Moves, IInv
  <2>2. IsCall(x) /\ x.wallet = calls[c].wallet /\ x.credential = calls[c].credential
    BY <1>1, <2>1 DEF IsCall, Steps
  <2> HIDE DEF x
  <2> QED
    BY <2>1, <2>2, AwaitInv DEF sdkVars
<1> QED
  BY <1>2, <1>3, <1>4 DEF Advance

\* A wallet is put on the list by the registration that verified it.
LEMMA RegisteredInv ==
    ASSUME IInv, NEW c \in Calls, Registered(c)
    PROVE  IInv'
<1>1. /\ c \in Registrations /\ calls[c].at = "verified"
      /\ whitelist' = whitelist \cup {calls[c].wallet} /\ UNCHANGED sdkState
      /\ anchorClient
  BY Compliance DEF Registered
<1>2. UNCHANGED <<calls, credentials, issued, dids, anchorClient>>
  BY <1>1 DEF sdkState, identityVars, sdkVars
<1>3. issued[calls[c].credential] = calls[c].wallet
  BY <1>1 DEF IInv, CredentialsAccountedFor, Issued
<1> QED
  BY <1>1, <1>2, <1>3 DEF IInv, IsCall, Members, CredentialsAccountedFor, Issued

\* Whatever leaves calls, registries and list alone.
LEMMA StayInv ==
    ASSUME IInv, UNCHANGED <<calls, identityVars, whitelist>>, anchorClient => anchorClient'
    PROVE  IInv'
  BY DEF IInv, IsCall, Members, CredentialsAccountedFor, Issued, identityVars

\* Each step keeps what is known of calls, credentials and members.
LEMMA Step == IInv /\ [Next]_vars => IInv'
<1> SUFFICES ASSUME IInv, [Next]_vars PROVE IInv'
  OBVIOUS
<1>1. ASSUME NEW c \in Calls, NEW w \in Wallets, RegisterUser(c, w) \/ VerifyElsewhere(c, w)
      PROVE  IInv'
  BY <1>1, VerifyInv DEF RegisterUser, VerifyElsewhere
<1>2. CASE Surroundings /\ UNCHANGED whitelist
  <2>1. CASE InitializeSDK \/ CheckCompliance
    <3>1. UNCHANGED <<calls, identityVars>> /\ anchorClient' = TRUE
      BY <2>1 DEF InitializeSDK, CheckCompliance, Initialize
    <3> QED
      BY <1>2, <3>1, StayInv
  <2>2. CASE CreateProvider \/ Provider \/ \E id \in SessionIds : Timeout(id)
    <3>1. UNCHANGED <<calls, identityVars, sdkVars>>
      BY <2>2 DEF CreateProvider, Provider, Timeout
    <3>2. anchorClient' = anchorClient
      BY <3>1 DEF sdkVars
    <3> QED
      BY <1>2, <3>1, <3>2, StayInv
  <2>3. CASE Identity
    BY <1>2, <2>3, IdentityInv
  <2> QED
    BY <1>2, <2>1, <2>2, <2>3 DEF Surroundings
<1>3. CASE UNCHANGED vars
  BY <1>3, StayInv DEF vars, sdkState, sdkVars
<1> QED
  BY <1>1, <1>2, <1>3, AdvanceInv, RegisteredInv DEF Next

\* Every result of verifyIdentity has a credential of its own, and every member of the
\* protocol a registration that got one (sdk.ts:130-240, defi-integration.ts:24-84).
THEOREM MembersAccounted == Spec => []MembersAccountedFor
<1>1. IInv => MembersAccountedFor
  <2> SUFFICES ASSUME IInv PROVE MembersAccountedFor
    OBVIOUS
  <2>1. \A w \in whitelist : CheckAccess(w).hasAccess /\ GetTieredAccess(w).trade
    BY Compliance DEF IInv, CheckAccess, GetTieredAccess, Tiers
  <2> QED
    BY <2>1 DEF IInv, Members, MembersAccountedFor
<1> QED
  BY <1>1, Initially, Step, PTL DEF Spec
------------------------------------------------------------------------------
(* The audit log                                                             *)

Verified == {c \in Calls : calls[c].at = "verified"}

\* What proofFailed logs.
Results == [type : {"VERIFICATION_COMPLETE"}, wallet : Wallets, status : {"VERIFIED"},
            level : {"none"}, score : {0}, amount : {0}, at : Nat]

\* Each event is of a call of its own that returned a result for the wallet.
LogsOne(who) ==
    /\ who \in Bijection(DOMAIN auditLog, Verified)
    /\ \A i \in DOMAIN auditLog : auditLog[i].wallet = calls[who[i]].wallet

\* No call returns before initialize created the reporter, which it does once.
AuditInv ==
    /\ config \in Configs
    /\ ~initialized =>
          /\ auditLog = <<>>
          /\ \A c \in Calls : calls[c].at \in {"idle", "rejected"}
    /\ config.reporting =>
          /\ reporter <=> initialized
          /\ auditLog \in Seq(Results)
          /\ \A i \in DOMAIN auditLog : auditLog[i].at = i - 1
          /\ \E who : LogsOne(who)

\* An empty log is of no calls.
LEMMA NothingLogged ==
    ASSUME auditLog = <<>>, \A c \in Calls : calls[c].at # "verified"
    PROVE  auditLog \in Seq(Results) /\ DOMAIN auditLog = {} /\ \E who : LogsOne(who)
<1> DEFINE who == [c \in {} |-> c]
<1>1. auditLog \in Seq(Results) /\ DOMAIN auditLog = {} /\ Verified = {}
  BY DEF Verified
<1>2. who \in Bijection(DOMAIN auditLog, Verified)
  BY <1>1 DEF Bijection, Injection, Surjection, IsInjective
<1> QED
  BY <1>1, <1>2 DEF LogsOne

LEMMA AuditInitially == Init => AuditInv
<1> SUFFICES ASSUME Init PROVE AuditInv
  OBVIOUS
<1>1. /\ calls = [c \in Calls |-> NoCall] /\ auditLog = <<>> /\ config \in Configs
      /\ initialized = FALSE /\ reporter = FALSE
  BY DEF Init, SdkInit, ReporterInit
<1>2. \A c \in Calls : calls[c].at = "idle"
  BY <1>1 DEF NoCall
<1> QED
  BY <1>1, <1>2, NothingLogged DEF AuditInv

\* initialize, of the application or at the beginning of a call.
LEMMA AuditInitialize ==
    ASSUME AuditInv, ~initialized, Initialize,
           \A c \in Calls : \/ calls'[c].at = calls[c].at
                            \/ calls'[c].at = IF initialized' THEN "initialize" ELSE "rejected"
    PROVE  AuditInv'
<1>1. /\ auditLog = <<>> /\ config \in Configs /\ config' = config
      /\ \A c \in Calls : calls[c].at \in {"idle", "rejected"}
  BY DEF AuditInv, Initialize
<1>2. /\ auditLog' = <<>> /\ \A c \in Calls : calls'[c].at # "verified"
      /\ \/ initialized' = TRUE /\ reporter' = config.reporting
         \/ initialized' = initialized /\ reporter' = reporter
  BY <1>1 DEF Initialize
<1>3. auditLog' \in Seq(Results) /\ DOMAIN auditLog' = {} /\ \E who : LogsOne(who)'
  <2> DEFINE who == [c \in {} |-> c]
  <2>1. auditLog' \in Seq(Results) /\ DOMAIN auditLog' = {} /\ Verified' = {}
    BY <1>2 DEF Verified
  <2>2. who \in Bijection(DOMAIN auditLog', Verified')
    BY <2>1 DEF Bijection, Injection, Surjection, IsInjective
  <2> QED
    BY <2>1, <2>2 DEF LogsOne
<1>4. ~initialized' => \A c \in Calls : calls'[c].at \in {"idle", "rejected"}
  BY <1>1
<1>5. config.reporting => (reporter' <=> initialized')
  BY <1>1, <1>2 DEF AuditInv
<1> QED
  BY <1>1, <1>2, <1>3, <1>4, <1>5 DEF AuditInv

\* A step that returns no result.
LEMMA AuditStay ==
    ASSUME AuditInv, UNCHANGED <<auditLog, sdkVars>>,
           \/ UNCHANGED calls
           \/ /\ initialized
              /\ \A c \in Calls : \/ calls'[c] = calls[c]
                                  \/ calls[c].at # "verified" /\ calls'[c].at # "verified"
    PROVE  AuditInv'
<1>1. /\ auditLog' = auditLog /\ config' = config /\ initialized' = initialized
      /\ reporter' = reporter
  BY DEF sdkVars
<1>2. Verified' = Verified /\ \A c \in Verified : calls'[c] = calls[c]
  BY DEF Verified
<1>3. ASSUME NEW who, LogsOne(who) PROVE LogsOne(who)'
  <2>1. who \in Bijection(DOMAIN auditLog', Verified')
    BY <1>1, <1>2, <1>3 DEF LogsOne
  <2>2. \A i \in DOMAIN auditLog : who[i] \in Verified
    BY <1>3 DEF LogsOne, Bijection, Injection
  <2> QED
    BY <1>1, <1>2, <1>3, <2>1, <2>2 DEF LogsOne
<1>4. ~initialized => calls' = calls
  OBVIOUS
<1> QED
  BY <1>1, <1>3, <1>4 DEF AuditInv

\* A call returns its result and logs it.
LEMMA AuditResult ==
    ASSUME IInv, AuditInv, NEW c \in Calls, ProofFailed(c)
    PROVE  AuditInv'
<1>1. /\ calls[c].at = "proof" /\ calls[c].wallet \in Wallets
      /\ calls' = [calls EXCEPT ![c].at = "verified"]
      /\ config' = config /\ initialized' = initialized /\ reporter' = reporter
  BY DEF ProofFailed, Moves, IInv, IsCall, sdkVars
<1>2. initialized /\ config \in Configs
  BY <1>1 DEF AuditInv
<1>3. CASE ~config.reporting
  BY <1>1, <1>2, <1>3 DEF AuditInv
<1>4. CASE config.reporting
  <2> DEFINE e == [type |-> "VERIFICATION_COMPLETE", wallet |-> calls[c].wallet,
                   status |-> "VERIFIED", level |-> "none", score |-> 0, amount |-> 0,
                   at |-> Len(auditLog)]
             n == Len(auditLog)
  <2>1. auditLog \in Seq(Results) /\ n \in Nat /\ DOMAIN auditLog = 1 .. n
    BY <1>4 DEF AuditInv
  <2>2. auditLog' = Append(auditLog, e) /\ e \in Results /\ e.wallet = calls[c].wallet /\ e.at = n
    BY <1>1, <1>2, <1>4, <2>1 DEF ProofFailed, LogAuditEvent, AuditInv, Results
  <2> HIDE DEF e
  <2>3. /\ auditLog' \in Seq(Results) /\ Len(auditLog') = n + 1 /\ DOMAIN auditLog' = 1 .. n + 1
        /\ \A i \in 1 .. n : auditLog'[i] = auditLog[i]
        /\ auditLog'[n + 1] = e
    BY <2>1, <2>2, AppendProperties
  <2> HIDE DEF n
  <2>4. PICK who : LogsOne(who)
    BY <1>4 DEF AuditInv
  <2> DEFINE also == [i \in 1 .. n + 1 |-> IF i = n + 1 THEN c ELSE who[i]]
  <2>5. /\ Verified' = Verified \cup {c} /\ c \notin Verified
        /\ \A d \in Calls : calls'[d].wallet = calls[d].wallet
    BY <1>1 DEF Verified, IInv
  <2>6. /\ who \in [1 .. n -> Verified] /\ \A v \in Verified : \E i \in 1 .. n : who[i] = v
        /\ \A i, j \in 1 .. n : who[i] = who[j] => i = j
    BY <2>1, <2>4 DEF LogsOne, Bijection, Injection, Surjection, IsInjective
  <2>7. also \in Bijection(1 .. n + 1, Verified')
    <3>1. also \in [1 .. n + 1 -> Verified']
      BY <2>1, <2>5, <2>6
    <3>2. \A i, j \in 1 .. n + 1 : also[i] = also[j] => i = j
      BY <2>1, <2>5, <2>6
    <3>3. \A v \in Verified' : \E i \in 1 .. n + 1 : also[i] = v
      <4>1. also[n + 1] = c /\ n + 1 \in 1 .. n + 1
        BY <2>1
      <4>2. \A i \in 1 .. n : also[i] = who[i] /\ i \in 1 .. n + 1
        BY <2>1
      <4> QED
        BY <2>5, <2>6, <4>1, <4>2
    <3> QED
      BY <3>1, <3>2, <3>3 DEF Bijection, Injection, Surjection, IsInjective
  <2>8. \A i \in 1 .. n + 1 : auditLog'[i].wallet = calls'[also[i]].wallet
    <3>1. \A i \in 1 .. n : auditLog'[i].wallet = calls'[who[i]].wallet
      BY <2>1, <2>3, <2>4, <2>5, <2>6 DEF LogsOne, Verified
    <3> QED
      BY <2>1, <2>2, <2>3, <2>5, <3>1
  <2>9. ASSUME NEW f, f = also PROVE LogsOne(f)'
    <3> HIDE DEF also
    <3>1. f \in Bijection(DOMAIN auditLog', Verified')
      BY <2>3, <2>7, <2>9, Zenon
    <3>2. \A i \in DOMAIN auditLog' : auditLog'[i].wallet = calls'[f[i]].wallet
      BY <2>3, <2>8, <2>9
    <3> QED
      BY <3>1, <3>2 DEF LogsOne
  <2>10. \A i \in DOMAIN auditLog' : auditLog'[i].at = i - 1
    BY <1>4, <2>1, <2>2, <2>3 DEF AuditInv
  <2>11. reporter' <=> initialized'
    BY <1>1, <1>4 DEF AuditInv
  <2> HIDE DEF also
  <2> QED
    BY <1>1, <1>2, <2>3, <2>9, <2>10, <2>11 DEF AuditInv
<1> QED
  BY <1>3, <1>4

\* Each step logs the result it returns, if any.
LEMMA AuditStep == IInv /\ AuditInv /\ [Next]_vars => AuditInv'
<1> SUFFICES ASSUME IInv, AuditInv, [Next]_vars PROVE AuditInv'
  OBVIOUS
<1>1. ASSUME NEW c \in Calls, NEW w, initialized, calls[c].at # "verified", OpenSession(c, w)
      PROVE  AuditInv'
  <2>1. UNCHANGED <<auditLog, sdkVars>>
    BY <1>1 DEF OpenSession, AfterSession, Issue
  <2>2. \E x : calls' = [calls EXCEPT ![c] = x] /\ x.at # "verified"
    BY <1>1 DEF OpenSession, AfterSession, Issue
  <2>3. \A d \in Calls : \/ calls'[d] = calls[d]
                         \/ calls[d].at # "verified" /\ calls'[d].at # "verified"
    BY <1>1, <2>2 DEF IInv
  <2> QED
    BY <1>1, <2>1, <2>3, AuditStay
<1>2. ASSUME NEW c \in Calls, NEW w, VerifyIdentity(c, w) PROVE AuditInv'
  <2>1. CASE initialized /\ OpenSession(c, w)
    BY <1>1, <1>2, <2>1 DEF VerifyIdentity
  <2>2. CASE ~initialized
    <3> DEFINE at == IF initialized' THEN "initialize" ELSE "rejected"
    <3>1. /\ Initialize
          /\ calls' = [calls EXCEPT ![c] =
                [at |-> at, wallet |-> w, session |-> None, credential |-> None]]
      BY <1>2, <2>2 DEF VerifyIdentity
    <3> HIDE DEF at
    <3>2. \A d \in Calls : calls'[d].at = calls[d].at \/ calls'[d].at = at
      BY <3>1 DEF IInv
    <3> QED
      BY <2>2, <3>1, <3>2, AuditInitialize DEF at
  <2> QED
    BY <1>2, <2>1, <2>2 DEF VerifyIdentity
<1>3. ASSUME NEW c \in Calls, Advance(c) PROVE AuditInv'
  <2>1. CASE Initialized(c)
    <3>1. initialized /\ calls[c].at # "verified"
      BY <2>1 DEF Initialized, AuditInv
    <3> QED
      BY <1>1, <2>1, <3>1 DEF Initialized
  <2>2. CASE SessionOpened(c) \/ RiskAssessed(c)
    <3>1. initialized /\ calls[c].at # "verified"
      BY <2>2 DEF SessionOpened, RiskAssessed, AuditInv
    <3>2. UNCHANGED <<auditLog, sdkVars>>
      BY <2>2 DEF SessionOpened, RiskAssessed, AfterSession, Issue
    <3>3. \E x : calls' = [calls EXCEPT ![c] = x] /\ x.at # "verified"
      BY <2>2 DEF SessionOpened, RiskAssessed, AfterSession, Issue
    <3>4. \A d \in Calls : \/ calls'[d] = calls[d]
                           \/ calls[d].at # "verified" /\ calls'[d].at # "verified"
      BY <3>1, <3>3 DEF IInv
    <3> QED
      BY <3>1, <3>2, <3>4, AuditStay
  <2> QED
    BY <1>3, <2>1, <2>2, AuditResult DEF Advance
<1>4. CASE Surroundings
  <2>1. CASE InitializeSDK \/ CheckCompliance
    BY <2>1, AuditInitialize DEF InitializeSDK, CheckCompliance
  <2>2. CASE CreateProvider \/ Provider \/ (\E id \in SessionIds : Timeout(id)) \/ Identity
    <3>1. UNCHANGED <<auditLog, sdkVars>> /\ UNCHANGED calls
      BY <2>2 DEF CreateProvider, Provider, Timeout, Identity
    <3> QED
      BY <3>1, AuditStay
  <2> QED
    BY <1>4, <2>1, <2>2 DEF Surroundings
<1>5. CASE (\E c \in Calls : Registered(c)) \/ UNCHANGED vars
  <2>1. UNCHANGED <<auditLog, sdkVars>> /\ UNCHANGED calls
    BY <1>5 DEF Registered, vars, sdkState
  <2> QED
    BY <2>1, AuditStay
<1> QED
  BY <1>2, <1>3, <1>4, <1>5 DEF Next, RegisterUser, VerifyElsewhere

\* With auto-reporting the trail of a wallet has one event for each result returned for
\* it, and the reports count the results (sdk.ts:225-236, reporter.ts:60-145).
THEOREM AuditMatches == Spec => []AuditMatchesResults
<1>1. ASSUME IInv, AuditInv, config.reporting PROVE AuditMatchesResults
  <2> DEFINE n == Len(auditLog)
             ResultsOf(S) == {c \in Calls : calls[c].at = "verified" /\ calls[c].wallet \in S}
             everything == GetAuditEvents(AnyWallet, [from |-> 0, to |-> n])
             key == [i \in DOMAIN auditLog |-> auditLog[i].at]
  <2>1. /\ auditLog \in Seq(Results) /\ n \in Nat /\ DOMAIN auditLog = 1 .. n
        /\ \A i \in 1 .. n : auditLog[i] \in Results /\ auditLog[i].at = i - 1
    BY <1>1 DEF AuditInv
  <2>2. \A i \in 1 .. n : /\ auditLog[i].type = "VERIFICATION_COMPLETE"
                          /\ auditLog[i].status = "VERIFIED"
    BY <2>1 DEF Results
  <2> HIDE DEF n
  <2>3. IsFiniteSet(1 .. n) /\ Cardinality(1 .. n) = n
    BY <2>1, Intervals
  <2>4. \A i \in 1 .. n : key[i] \in Int
    BY <2>1
  <2>5. PICK who : LogsOne(who)
    BY <1>1 DEF AuditInv
  <2>6. /\ who \in [1 .. n -> Verified] /\ \A v \in Verified : \E i \in 1 .. n : who[i] = v
        /\ \A i, j \in 1 .. n : who[i] = who[j] => i = j
        /\ \A i \in 1 .. n : auditLog[i].wallet = calls[who[i]].wallet
    BY <2>1, <2>5 DEF LogsOne, Bijection, Injection, Surjection, IsInjective
  <2>7. ASSUME NEW w \in Wallets PROVE Len(GetAuditTrail(w)) = Cardinality(ResultsOf({w}))
    <3> DEFINE kept == {i \in DOMAIN auditLog : auditLog[i].wallet = w}
               put == [i \in kept |-> who[i]]
    <3>1. put \in Bijection(kept, ResultsOf({w}))
      <4>1. put \in [kept -> ResultsOf({w})]
        <5>1. \A i \in kept : who[i] \in Verified /\ calls[who[i]].wallet = w
          BY <2>1, <2>6
        <5>2. \A i \in kept : who[i] \in ResultsOf({w})
          BY <5>1 DEF Verified
        <5> HIDE DEF kept, ResultsOf
        <5> QED
          BY <5>2
      <4>2. \A i, j \in kept : put[i] = put[j] => i = j
        BY <2>1, <2>6
      <4>3. ASSUME NEW c \in ResultsOf({w}) PROVE \E i \in kept : put[i] = c
        <5>1. c \in Verified /\ calls[c].wallet = w
          BY DEF Verified
        <5>2. PICK i \in 1 .. n : who[i] = c
          BY <2>6, <5>1
        <5>3. i \in kept
          BY <2>1, <2>6, <5>1, <5>2
        <5> QED
          BY <5>2, <5>3
      <4> HIDE DEF kept, put, ResultsOf
      <4> QED
        BY <4>1, <4>2, <4>3 DEF Bijection, Injection, Surjection, IsInjective
    <3>2. kept \in SUBSET (1 .. n) /\ kept \in SUBSET Nat
      BY <2>1
    <3>3. GetAuditTrail(w) = Sorted(auditLog, kept, key)
      BY DEF GetAuditTrail, ByTimestamp
    <3> HIDE DEF kept, ResultsOf, key
    <3>4. IsFiniteSet(kept)
      BY <2>3, <3>2, FS_Subset
    <3>5. Cardinality(ResultsOf({w})) = Cardinality(kept)
      BY <3>1, <3>4, FS_Bijection DEF ExistsBijection
    <3>6. Keys(key, kept)
      BY <2>4, <3>2 DEF Keys
    <3> QED
      BY <3>2, <3>3, <3>4, <3>5, <3>6, SortedAre
  <2>8. /\ Len(everything) = n /\ DOMAIN everything = 1 .. n
        /\ \A m \in 1 .. n : /\ everything[m].type = "VERIFICATION_COMPLETE"
                             /\ everything[m].status = "VERIFIED"
    <3> DEFINE kept == {i \in DOMAIN auditLog :
                           /\ AnyWallet \in {AnyWallet, auditLog[i].wallet}
                           /\ 0 <= auditLog[i].at /\ auditLog[i].at <= n}
               list == InOrder(kept, ByKey(kept, key))
    <3>1. everything = Sorted(auditLog, kept, key)
      BY DEF GetAuditEvents, ByTimestamp
    <3>2. kept = 1 .. n
      BY <2>1
    <3> HIDE DEF kept, key
    <3>3. kept \in SUBSET Nat /\ IsFiniteSet(kept) /\ Cardinality(kept) = n
          /\ Keys(key, kept)
      BY <2>3, <2>4, <3>2 DEF Keys
    <3> HIDE DEF everything, list
    <3>4. /\ Lists(list, kept, ByKey(kept, key))
          /\ DOMAIN everything = DOMAIN list /\ Len(everything) = Cardinality(kept)
          /\ \A m \in DOMAIN list : everything[m] = auditLog[list[m]]
      BY <3>1, <3>3, SortedAre DEF list
    <3>5. DOMAIN list = 1 .. n /\ \A m \in 1 .. n : list[m] \in 1 .. n
      BY <3>2, <3>3, <3>4 DEF Lists
    <3> QED
      BY <2>2, <3>3, <3>4, <3>5
  <2>9. Cardinality(ResultsOf(Wallets)) = n
    <3>1. ResultsOf(Wallets) = Verified
      BY <1>1 DEF Verified, IInv, IsCall
    <3>2. who \in Bijection(1 .. n, Verified)
      BY <2>1, <2>5, Zenon DEF LogsOne
    <3> HIDE DEF ResultsOf
    <3>3. Cardinality(Verified) = n
      BY <2>3, <3>2, FS_Bijection DEF ExistsBijection
    <3> QED
      BY <3>1, <3>3, Zenon
  <2> HIDE DEF everything
  <2>10. /\ KYCSummaryReport(everything).total = n
         /\ KYCSummaryReport(everything).approved = n
         /\ KYCSummaryReport(everything).rejected = 0
         /\ KYCSummaryReport(everything).pending = 0
         /\ AuditReport(everything).verifications = n
    <3> DEFINE all == {m \in DOMAIN everything : everything[m].type = "VERIFICATION_COMPLETE"}
               good == {m \in DOMAIN everything : /\ everything[m].type = "VERIFICATION_COMPLETE"
                                                  /\ everything[m].status = "VERIFIED"}
               bad == {m \in DOMAIN everything : everything[m].status = "REJECTED"}
               begun == {m \in DOMAIN everything : everything[m].type = "VERIFICATION_STARTED"}
               seen == {m \in DOMAIN everything : everything[m].type \in
                                   {"VERIFICATION_STARTED", "VERIFICATION_COMPLETE"}}
    <3>1. all = 1 .. n /\ good = 1 .. n /\ seen = 1 .. n /\ bad = {} /\ begun = {}
      BY <2>8
    <3>2. /\ KYCSummaryReport(everything).total = Cardinality(all)
          /\ KYCSummaryReport(everything).approved = Cardinality(good)
          /\ KYCSummaryReport(everything).rejected = Cardinality(bad)
          /\ KYCSummaryReport(everything).pending = Cardinality(begun)
          /\ AuditReport(everything).verifications = Cardinality(seen)
      BY DEF KYCSummaryReport, AuditReport, Count
    <3> HIDE DEF all, good, bad, begun, seen
    <3>3. /\ Cardinality(all) = n /\ Cardinality(good) = n /\ Cardinality(seen) = n
          /\ Cardinality(bad) = 0 /\ Cardinality(begun) = 0
      BY <2>3, <3>1, FS_EmptySet, Zenon
    <3> QED
      BY <3>2, <3>3
  <2>11. /\ GenerateReport("KYC_SUMMARY", everything) = KYCSummaryReport(everything)
         /\ GenerateReport("AUDIT", everything) = AuditReport(everything)
    BY DEF GenerateReport
  <2>12. AuditMatchesResults <=>
           (config.reporting =>
              /\ \A w \in Wallets : Len(GetAuditTrail(w)) = Cardinality(ResultsOf({w}))
              /\ GenerateReport("KYC_SUMMARY", everything).total = Cardinality(ResultsOf(Wallets))
              /\ GenerateReport("KYC_SUMMARY", everything).approved
                    = GenerateReport("KYC_SUMMARY", everything).total
              /\ GenerateReport("KYC_SUMMARY", everything).rejected
                    + GenerateReport("KYC_SUMMARY", everything).pending = 0
              /\ GenerateReport("AUDIT", everything).verifications
                    = GenerateReport("KYC_SUMMARY", everything).total)
    BY DEF AuditMatchesResults, everything, n
  <2> HIDE DEF ResultsOf
  <2> QED
    BY <2>7, <2>9, <2>10, <2>11, <2>12
<1>2. IInv /\ AuditInv => AuditMatchesResults
  <2>1. ASSUME IInv, AuditInv, ~config.reporting PROVE AuditMatchesResults
    BY <2>1 DEF AuditMatchesResults
  <2> QED
    BY <1>1, <2>1
<1> QED
  BY <1>2, Initially, Step, AuditInitially, AuditStep, PTL DEF Spec
=============================================================================
