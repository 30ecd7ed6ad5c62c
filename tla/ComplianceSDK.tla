---------------------------- MODULE ComplianceSDK ----------------------------
(***************************************************************************)
(* compliance-sdk.ts: the administrator's transactions, and approveTransfer, *)
(* which reads the status of the source and then, in a second request, that  *)
(* of the destination.  Before it, errors.ts: the error codes by the        *)
(* category of their message, which of them may be retried, and how the      *)
(* failure of a transaction becomes one of them.                            *)
(***************************************************************************)
EXTENDS KycLedger, Naturals, Sequences

GeneralErrors ==
    {"UNKNOWN_ERROR", "INVALID_PARAMETERS", "UNAUTHORIZED", "ACCOUNT_NOT_FOUND",
     "INSUFFICIENT_FUNDS"}

KycErrors ==
    {"WALLET_NOT_REGISTERED", "KYC_EXPIRED", "WALLET_FROZEN", "SANCTIONED",
     "AMOUNT_EXCEEDS_MAXIMUM", "VELOCITY_LIMIT_EXCEEDED", "INVALID_EXTRA_ACCOUNT_META",
     "CIRCUIT_BREAKER_ACTIVE", "INVALID_AUTHORITY", "ZKP_VERIFICATION_FAILED",
     "RECEIVER_NOT_VERIFIED", "SENDER_NOT_VERIFIED"}

RegistryErrors == {"REGISTRY_FULL", "DUPLICATE_REGISTRATION", "INVALID_COUNTRY_CODE"}

HookErrors == {"TRANSFER_HOOK_NOT_INITIALIZED", "INVALID_MINT", "HOOK_PROGRAM_MISMATCH"}

SdkErrors ==
    {"REGISTRATION_FAILED", "STATUS_CHECK_FAILED", "TRANSFER_APPROVAL_FAILED",
     "MINT_CREATION_FAILED", "HOOK_UPDATE_FAILED", "HOOK_FETCH_FAILED",
     "REGISTRY_FETCH_FAILED", "FREEZE_FAILED", "UNFREEZE_FAILED", "CIRCUIT_BREAKER_FAILED",
     "NETWORK_ERROR", "TIMEOUT_ERROR"}

ArithmeticErrors == {"OVERFLOW", "UNDERFLOW", "DIVISION_BY_ZERO"}

ErrorCode ==
    UNION {GeneralErrors, KycErrors, RegistryErrors, HookErrors, SdkErrors, ArithmeticErrors}

GetCategory(code) ==
    CASE code \in GeneralErrors    -> "General"
      [] code \in KycErrors        -> "KYC"
      [] code \in RegistryErrors   -> "Registry"
      [] code \in HookErrors       -> "Transfer Hook"
      [] code \in SdkErrors        -> "SDK"
      [] code \in ArithmeticErrors -> "Arithmetic"

IsRetryable(code) == code \in {"NETWORK_ERROR", "TIMEOUT_ERROR", "INSUFFICIENT_FUNDS"}

\* The errors of the programs that the SDK has a code for, under the same name.
ErrorCodeMap == KycErrors \union ArithmeticErrors

------------------------------------------------------------------------------
\* A log of a failed transaction is a sequence of lines: an AnchorError with its code, the
\* "failed" of a program, or another. A line with a code the SDK does not know is another.
Tells(line) == line = "failed" \/ line \in ErrorCodeMap

CodeOfLine(line) == IF line \in ErrorCodeMap THEN line ELSE "UNKNOWN_ERROR"

\* createErrorFromTransactionFailure: the first line that tells anything decides.
CreateErrorFromTransactionFailure(logs) ==
    LET told == {i \in DOMAIN logs : Tells(logs[i])}
    IN IF told = {} THEN "UNKNOWN_ERROR"
       ELSE CodeOfLine(logs[CHOOSE i \in told : \A j \in told : i <= j])

\* parseAnchorError: of an error object with no code, or one unknown, only the message stays.
ParseAnchorError(name) == CodeOfLine(name)

------------------------------------------------------------------------------
VARIABLES
    approval,   \* the call of approveTransfer in progress, or answered
    moved       \* history: the status of one of its wallets changed since it began

approvalVars == <<approval, moved>>

Approvals == [at : {"idle", "source", "destination", "approved", "denied"},
              source : Wallets \cup {None}, destination : Wallets \cup {None}]

NoApproval == [at |-> "idle", source |-> None, destination |-> None]

ApprovalTypeOK == approval \in Approvals /\ moved \in BOOLEAN

ApprovalInit == approval = NoApproval /\ moved = FALSE

------------------------------------------------------------------------------
\* Each method sends one transaction and wraps its error; the chain's part is external.
SetStatus(w, from, to) ==
    /\ kyc[w] = from
    /\ kyc' = [kyc EXCEPT ![w] = to]
    /\ moved' = (moved \/ w \in {approval.source, approval.destination})
    /\ UNCHANGED <<breaker, verified, hook, funded, approval>>

RegisterUser(w) == SetStatus(w, "Unverified", "Verified")

FreezeWallet(w) == SetStatus(w, "Verified", "Frozen")

UnfreezeWallet(w) == SetStatus(w, "Frozen", "Verified")

ActivateCircuitBreaker ==
    /\ breaker' = TRUE
    /\ UNCHANGED <<kyc, verified, hook, funded, approvalVars>>

DeactivateCircuitBreaker ==
    /\ breaker' = FALSE
    /\ UNCHANGED <<kyc, verified, hook, funded, approvalVars>>

\* The answers a request for the status may get: an error of any kind reads as Unverified.
CheckComplianceStatus(w) == {kyc[w], "Unverified"}

------------------------------------------------------------------------------
\* No guard: neither the breaker nor the pause flag of getRegistryInfo is consulted.
ApproveTransfer(source, destination) ==
    /\ approval.at \in {"idle", "approved", "denied"}
    /\ approval' = [at |-> "source", source |-> source, destination |-> destination]
    /\ moved' = FALSE
    /\ UNCHANGED ledgerVars

ReadSource ==
    /\ approval.at = "source"
    /\ \E status \in CheckComplianceStatus(approval.source) :
          approval' = [approval EXCEPT !.at =
                          IF status = "Verified" THEN "destination" ELSE "denied"]
    /\ UNCHANGED <<ledgerVars, moved>>

\* Mutant: the source is asked for twice.
ReadDestinationAsSource ==
    /\ approval.at = "destination"
    /\ \E status \in CheckComplianceStatus(approval.source) :
          approval' = [approval EXCEPT !.at =
                          IF status = "Verified" THEN "approved" ELSE "denied"]
    /\ UNCHANGED <<ledgerVars, moved>>

ReadDestination ==
    /\ approval.at = "destination"
    /\ \E status \in CheckComplianceStatus(approval.destination) :
          approval' = [approval EXCEPT !.at =
                          IF status = "Verified" THEN "approved" ELSE "denied"]
    /\ UNCHANGED <<ledgerVars, moved>>

AdministerWallets ==
    \E w \in Wallets : RegisterUser(w) \/ FreezeWallet(w) \/ UnfreezeWallet(w)

Administer ==
    \/ AdministerWallets
    \/ ActivateCircuitBreaker
    \/ DeactivateCircuitBreaker

Approve ==
    \/ \E source, destination \in Wallets : ApproveTransfer(source, destination)
    \/ ReadSource
    \/ ReadDestination
=============================================================================
