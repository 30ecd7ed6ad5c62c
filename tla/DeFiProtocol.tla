----------------------------- MODULE DeFiProtocol -----------------------------
(***************************************************************************)
(* The protocol of defi-integration.ts over the SDK of sdk.ts: some of the  *)
(* calls of verifyIdentity are made by registerUser, which then asks the    *)
(* SDK for the compliance of the wallet and puts it on its whitelist.        *)
(***************************************************************************)
EXTENDS SolanaSDK

CONSTANT Registrations      \* the calls of verifyIdentity that registerUser makes

ASSUME RegistrationsAreCalls == Registrations \subseteq Calls

VARIABLE whitelist          \* whitelistedUsers

vars == <<sdkState, whitelist>>

Init == SdkInit /\ whitelist = {}

\* Who is on the whitelist is answered at once, as a member.
RegisterUser(c, w) ==
    /\ c \in Registrations
    /\ w \notin whitelist
    /\ VerifyIdentity(c, w)
    /\ UNCHANGED whitelist

\* Mutant: the answer of checkCompliance alone decides.
RegisteredUnverified(c) ==
    LET w == calls[c].wallet IN
    /\ c \in Registrations /\ initialized
    /\ w # None /\ w \notin whitelist
    /\ GetVerificationStatus(w).isCompliant
    /\ whitelist' = whitelist \cup {w}
    /\ UNCHANGED sdkState

\* The identity is verified and the SDK finds the wallet compliant. One that is on the
\* list already, by another registration, stays there: nothing takes a wallet off it.
Registered(c) ==
    LET w == calls[c].wallet IN
    /\ c \in Registrations
    /\ calls[c].at = "verified"
    /\ w \notin whitelist
    /\ GetVerificationStatus(w).isCompliant
    /\ whitelist' = whitelist \cup {w}
    /\ UNCHANGED sdkState

\* Other parts of the application verify identities too.
VerifyElsewhere(c, w) ==
    /\ c \notin Registrations
    /\ VerifyIdentity(c, w)
    /\ UNCHANGED whitelist

CheckAccess(w) ==
    [hasAccess |-> GetVerificationStatus(w).isCompliant,
     level     |-> GetVerificationStatus(w).level]

\* A level without a tier of its own has that of BASIC.
Tiers ==
    [BASIC               |-> [trade |-> TRUE, borrow |-> FALSE, stake |-> FALSE],
     ENHANCED            |-> [trade |-> TRUE, borrow |-> TRUE, stake |-> TRUE],
     ACCREDITED_INVESTOR |-> [trade |-> TRUE, borrow |-> TRUE, stake |-> TRUE]]

GetTieredAccess(w) ==
    LET level == GetVerificationStatus(w).level
    IN  IF level \in DOMAIN Tiers THEN Tiers[level] ELSE Tiers.BASIC

Next ==
    \/ \E c \in Calls, w \in Wallets : RegisterUser(c, w) \/ VerifyElsewhere(c, w)
    \/ \E c \in Calls : Advance(c) /\ UNCHANGED whitelist
    \/ \E c \in Calls : Registered(c)
    \/ Surroundings /\ UNCHANGED whitelist

\* The event loop fires timeouts as long as there are any, in any order; nothing is
\* assumed of what else it runs.
Spec ==
    /\ Init /\ [][Next]_vars
    /\ WF_vars((\E id \in SessionIds : Timeout(id)) /\ UNCHANGED whitelist)

------------------------------------------------------------------------------
\* However registrations and other calls overlap with each other and with revocations:
\* what verifyIdentity returned is accounted for, and a wallet is on the whitelist only
\* after a registration of its own got it a credential. What registerUser let in,
\* checkAccess lets in and getTieredAccess lets trade.
MembersAccountedFor ==
    /\ CredentialsAccountedFor
    /\ \A w \in whitelist :
          /\ \E c \in Registrations :
                calls[c].at = "verified" /\ issued[calls[c].credential] = w
          /\ CheckAccess(w).hasAccess
          /\ GetTieredAccess(w).trade

\* checkStatus answers IN_PROGRESS, or PENDING of a session no webhook has declined, only for
\* a while: in the end every session opened is VERIFIED or declined. Of a declined session
\* nothing is promised: checkStatus answers it PENDING, for ever if no completion comes, and a
\* completion that comes late makes it VERIFIED.
SessionsSettle ==
    \A id \in SessionIds :
        id \in Opened ~> (CheckStatus(id) = "VERIFIED" \/ sessions[id].status = "declined")
=============================================================================
