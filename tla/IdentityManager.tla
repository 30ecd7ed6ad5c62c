--------------------------- MODULE IdentityManager ---------------------------
(***************************************************************************)
(* The identity manager of manager.ts: a registry of DIDs and one of        *)
(* credentials. A DID is the method and the identifier parseDID splits it   *)
(* into; a credential is its id, its issuer and its subject. Credentials    *)
(* are held by their subjects too, so a credential that left the registry    *)
(* may still be presented.                                                 *)
(***************************************************************************)
EXTENDS SdkAccounts

CONSTANTS
    Oracle,         \* the oracle that issues the SDK's credentials
    CredentialIds   \* the ids generateUUID may draw

ASSUME NoneIsNoCredential == None \notin CredentialIds

VARIABLES
    dids,           \* didRegistry: the identifiers of the registered did:solana DIDs
    credentials,    \* credentialRegistry: the subject of each registered credential
    issued          \* the subject of each credential ever issued, as its holder keeps it

identityVars == <<dids, credentials, issued>>

Identifiers == Wallets \cup {Oracle}

IdentityTypeOK ==
    /\ dids \subseteq Identifiers
    /\ credentials \in [CredentialIds -> Wallets \cup {None}]
    /\ issued \in [CredentialIds -> Wallets \cup {None}]

IdentityInit ==
    /\ dids = {}
    /\ credentials = [id \in CredentialIds |-> None]
    /\ issued = credentials

CreateDID(identifier) == dids' = dids \cup {identifier}

\* A well-formed DID that is not registered is constructed on the way.
ResolveDID(identifier) == IF identifier \in dids THEN UNCHANGED dids ELSE CreateDID(identifier)

IssueCredential(id, subject) ==
    /\ issued[id] = None
    /\ credentials' = [credentials EXCEPT ![id] = subject]
    /\ issued' = [issued EXCEPT ![id] = subject]

\* The registry of credentials is not looked at: the holder's copy is valid until it
\* expires. Only then is the issuer resolved; an expired one is refused before that.
VerifyCredential(id) ==
    /\ issued[id] # None
    /\ ResolveDID(Oracle)
    /\ UNCHANGED <<credentials, issued>>

RevokeCredential(id) ==
    /\ credentials[id] # None
    /\ credentials' = [credentials EXCEPT ![id] = None]
    /\ UNCHANGED <<dids, issued>>

CredentialsForSubject(subject) == {id \in CredentialIds : credentials[id] = subject}

\* importDIDs adds to what is registered, as exportDIDs wrote it earlier.
ImportDIDs(exported) ==
    /\ dids' = dids \cup exported
    /\ UNCHANGED <<credentials, issued>>

Clear ==
    /\ dids' = {}
    /\ credentials' = [id \in CredentialIds |-> None]
    /\ UNCHANGED issued
=============================================================================
