------------------------------ MODULE KycLedger ------------------------------
(***************************************************************************)
(* The accounts of the chain that the TypeScript clients read and write, as  *)
(* the clients' calls and their tests use them, and the two programs of the  *)
(* repository that a mint may have as its transfer hook.  A transaction lands*)
(* or is refused; the caller may see an error either way.                   *)
(***************************************************************************)
EXTENDS SdkAccounts

VARIABLES
    kyc,        \* the kyc_status account of each wallet
    breaker,    \* circuitBreakerActive of the compliance registry
    verified,   \* wallets that have a verified-address account
    hook,       \* the transfer hook program of the mint: whose it is, and which
    funded      \* wallets that have a token account of the mint

ledgerVars == <<kyc, breaker, verified, hook, funded>>

\* compliance_registry/src/processor.rs, and transfer_hook/src/lib.rs, which looks at
\* attestations: the clients set the one that is deployed under the address they have.
OurHooks == {"registry", "attestations"}

Hooks == OurHooks \union {"no mint", "other"}

KycStatus == {"Unverified", "Verified", "Frozen"}     \* Unverified: no account

LedgerTypeOK ==
    /\ kyc \in [Wallets -> KycStatus]
    /\ breaker \in BOOLEAN
    /\ verified \subseteq Wallets
    /\ hook \in Hooks
    /\ funded \subseteq Wallets

LedgerInit ==
    /\ kyc = [w \in Wallets |-> "Unverified"]
    /\ breaker = FALSE
    /\ verified = {}
    /\ hook = "no mint"
    /\ funded = {}

Cleared(source, destination) == kyc[source] = "Verified" /\ kyc[destination] = "Verified"

\* Constraints on the status accounts of both ends.
RegistryAnswers(source, destination) == {Cleared(source, destination)}

\* The attestation of the receiver is optional; the jurisdiction, the blacklist and the
\* velocity of the sender may forbid what the attestations allow.
AttestationAnswers(source) == {kyc[source] = "Verified", FALSE}

\* Whether the hook may allow a transfer now, or refuse it. Neither program of the
\* repository writes a line that the clients look for; another program decides as it likes.
HookAnswers(source, destination) ==
    CASE hook = "registry"     -> RegistryAnswers(source, destination)
      [] hook = "attestations" -> AttestationAnswers(source)
      [] hook = "other"        -> BOOLEAN
      [] hook = "no mint"      -> {FALSE}
=============================================================================
