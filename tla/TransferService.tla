--------------------------- MODULE TransferService ---------------------------
(***************************************************************************)
(* Mints with a transfer hook (transfer-hook-service.ts, tokenManager.ts)    *)
(* and the transfers of such a mint by the service layer of the SDK: the     *)
(* balance check, the transaction, and the polls of its status, whose hook   *)
(* validation is read from the logs of the transaction.                     *)
(***************************************************************************)
EXTENDS ComplianceSDK, Naturals

CONSTANT Amounts        \* the amounts of transfers

VARIABLES
    service,    \* which of the two services the application has
    transfer,   \* the call of executeCompliantTransfer
    landed,     \* its transaction: commitment, whether it failed, and its logs
    ran,        \* history: the hook and the verified wallets when the transaction ran
    report      \* the last answer of getTransferStatus

transferVars == <<service, transfer, landed, ran, report>>

Services == {"service layer", "sdk"}

NoTransfer == [at |-> "idle", source |-> None, destination |-> None]
NotLanded  == [commitment |-> "none", err |-> FALSE, logs |-> {}]
NotRun     == [hook |-> "no mint", verified |-> {}]
NoReport   == [status |-> "none", error |-> FALSE, checks |-> {}, passed |-> FALSE]

Commitments == {"none", "processed", "confirmed", "finalized"}
Logs        == {"KYC verified", "KYC failed", "Balance check", "Balance check failed"}

TransferTypeOK ==
    /\ service \in Services
    /\ transfer \in [at : {"idle", "checked", "simulated", "insufficient", "sent", "denied", "error"},
                     source : Wallets \cup {None}, destination : Wallets \cup {None}]
    /\ landed \in [commitment : Commitments, err : BOOLEAN, logs : SUBSET Logs]
    /\ ran \in [hook : Hooks, verified : SUBSET Wallets]
    /\ report \in [status : {"none", "pending", "confirmed"}, error : BOOLEAN,
                   checks : SUBSET Logs, passed : BOOLEAN]

TransferInit ==
    /\ service \in Services
    /\ transfer = NoTransfer
    /\ landed = NotLanded
    /\ ran = NotRun
    /\ report = NoReport

\* A call of executeCompliantTransfer is in progress.
Sending == transfer.at \in {"checked", "simulated"}

------------------------------------------------------------------------------
\* A new mint, with the hook program that the clients have the address of: the application
\* goes on with it.
NewMint ==
    /\ hook' \in OurHooks
    /\ UNCHANGED <<kyc, breaker, verified, funded, approvalVars, service>>

CreateMintWithTransferHook == NewMint /\ UNCHANGED <<transfer, landed, ran, report>>

\* tokenManager.ts initializes the hook before the mint, but no extra accounts.
CreateCompliantMintByManager == NewMint /\ UNCHANGED <<transfer, landed, ran, report>>

\* The caller is given a signature, whose status it asks for, or an error.
Answered(at, transaction) ==
    /\ transfer' = [NoTransfer EXCEPT !.at = at]
    /\ landed' = transaction
    /\ ran' = NotRun
    /\ report' = NoReport

\* A transaction whose logs the service does not know.
Quiet == [commitment |-> "processed", err |-> FALSE, logs |-> {}]

\* One instruction of the hook program, with a provider that the code names.
CreateCompliantMintByService ==
    /\ service = "service layer"
    /\ NewMint
    /\ \E at \in {"sent", "error"} : Answered(at, Quiet)

\* The service of sdk/src sends a transaction without instructions: there is no mint.
CreateCompliantMintBySdk ==
    /\ service = "sdk"
    /\ \E at \in {"sent", "error"} : Answered(at, Quiet)
    /\ UNCHANGED <<ledgerVars, approvalVars, service>>

\* Without a payer, or when the service throws, the SDK throws an error of its own.
InitializeCompliantMint ==
    /\ ~Sending
    /\ \/ CreateCompliantMintByService
       \/ CreateCompliantMintBySdk
       \/ /\ Answered("error", NotLanded)
          /\ UNCHANGED <<ledgerVars, approvalVars, service>>

\* A mint is created elsewhere, with another hook program.
OtherMint ==
    /\ hook = "no mint"
    /\ hook' = "other"
    /\ UNCHANGED <<kyc, breaker, verified, funded, approvalVars, transferVars>>

\* The mint must exist. The instruction is that of a new mint: the chain takes it or not.
UpdateTransferHookProgramId ==
    /\ hook # "no mint"
    /\ hook' \in OurHooks
    /\ UNCHANGED <<kyc, breaker, verified, funded, approvalVars, transferVars>>

\* The token account is created in the transaction that mints, unless it exists.
MintToWallet(w) ==
    /\ hook # "no mint"
    /\ funded' = funded \union {w}
    /\ UNCHANGED <<kyc, breaker, verified, hook, approvalVars, transferVars>>

------------------------------------------------------------------------------
\* Mocks of a balance: the service of sdk/src answers 0 for every account.
GetTokenBalance(w) == IF w \in funded THEN 1000 ELSE 0

SdkTokenBalance(w) == 0

SdkPreconditions(source, amount) == SdkTokenBalance(source) >= amount

ValidateTransferPreconditions(source, amount) ==
    IF service = "sdk" THEN SdkPreconditions(source, amount)
    ELSE GetTokenBalance(source) >= amount

ExecuteCompliantTransfer(source, destination, amount) ==
    /\ ~Sending
    /\ transfer' = [at |-> IF ValidateTransferPreconditions(source, amount) THEN "checked"
                           ELSE "insufficient",
                    source |-> source, destination |-> destination]
    /\ landed' = NotLanded
    /\ ran' = NotRun
    /\ report' = NoReport
    /\ UNCHANGED <<ledgerVars, approvalVars, service>>

\* The transaction of the sdk/src service is empty: no hook runs, nothing is moved.
SendNothing ==
    /\ transfer.at = "checked" /\ service = "sdk"
    /\ \/ landed' = Quiet /\ transfer' \in {[transfer EXCEPT !.at = a] : a \in {"sent", "error"}}
       \/ UNCHANGED landed /\ transfer' = [transfer EXCEPT !.at = "error"]
    /\ UNCHANGED <<ledgerVars, approvalVars, service, ran, report>>

\* sendAndConfirmTransaction simulates the transaction first: what the hook refuses then is
\* not sent. The service tells a refusal by the name TransferHookError in the message, which
\* the errors of the programs of the repository do not have.
Preflight ==
    /\ transfer.at = "checked" /\ service = "service layer"
    /\ LET answers == HookAnswers(transfer.source, transfer.destination) IN
       \E at \in {"simulated", "denied", "error"} :
          /\ at = "simulated" => TRUE \in answers
          /\ at = "denied" => hook = "other" /\ FALSE \in answers
          /\ transfer' = [transfer EXCEPT !.at = at]
    /\ UNCHANGED <<ledgerVars, approvalVars, service, landed, ran, report>>

\* The transaction runs with the hook and the status that the wallets have then. It may
\* fail there all the same, and the error tells the number of an error but no hook; it may
\* not arrive, or its confirmation may be lost.
RunTransfer ==
    /\ transfer.at = "simulated"
    /\ \/ \E err \in BOOLEAN, logs \in IF hook = "other" THEN SUBSET Logs ELSE {{}} :
             /\ err \/ TRUE \in HookAnswers(transfer.source, transfer.destination)
             /\ landed' = [commitment |-> "processed", err |-> err, logs |-> logs]
             /\ ran' = [hook |-> hook, verified |-> {w \in Wallets : kyc[w] = "Verified"}]
             /\ \E at \in {"sent", "error"} :
                   (err => at = "error") /\ transfer' = [transfer EXCEPT !.at = at]
       \/ UNCHANGED <<landed, ran>> /\ transfer' = [transfer EXCEPT !.at = "error"]
    /\ UNCHANGED <<ledgerVars, approvalVars, service, report>>

\* The cluster votes on the block of the transaction.
Advance ==
    /\ \/ landed.commitment = "processed" /\ landed' = [landed EXCEPT !.commitment = "confirmed"]
       \/ landed.commitment = "confirmed" /\ landed' = [landed EXCEPT !.commitment = "finalized"]
    /\ UNCHANGED <<ledgerVars, approvalVars, service, transfer, ran, report>>

------------------------------------------------------------------------------
\* A transaction without logs of the hook passes, with no checks; so does one whose
\* balance check failed.
ParseHookValidation(logs) == [checks |-> logs, passed |-> "KYC failed" \notin logs]

\* The service of sdk/src looks for the KYC lines alone.
SdkParseHookValidation(logs) ==
    [checks |-> logs \intersect {"KYC verified", "KYC failed"}, passed |-> "KYC failed" \notin logs]

\* What is reported of the transaction as the node knows it; tells: the error is told.
Report(known, found, tells) ==
    LET parsed == IF service = "sdk" THEN SdkParseHookValidation(landed.logs)
                  ELSE ParseHookValidation(landed.logs)
        confirmed == known /\ landed.commitment = "confirmed"
    IN [status |-> IF confirmed THEN "confirmed" ELSE "pending",
        error  |-> known /\ landed.err /\ tells,
        checks |-> IF confirmed /\ found THEN parsed.checks ELSE {},
        passed |-> confirmed /\ found /\ parsed.passed]

\* Mutant: a transaction that is confirmed is reported without its error.
GetStatusOfConfirmed ==
    /\ transfer.at \in {"sent", "error"}
    /\ \E known, found \in BOOLEAN :
          report' = Report(known, found, landed.commitment # "confirmed")
    /\ UNCHANGED <<ledgerVars, approvalVars, service, transfer, landed, ran>>

\* Only the commitment "confirmed" is reported as such; a finalized one is pending again,
\* like one the node does not remember. It may have the status but not the transaction.
\* The signature of a transaction that was sent is known from the answer or the error.
GetTransferStatus ==
    /\ transfer.at \in {"sent", "error"}
    /\ \E known, found \in BOOLEAN : report' = Report(known, found, TRUE)
    /\ UNCHANGED <<ledgerVars, approvalVars, service, transfer, landed, ran>>

Transfers ==
    \/ hook = "no mint" /\ (CreateMintWithTransferHook \/ CreateCompliantMintByManager)
    \/ hook = "no mint" /\ InitializeCompliantMint
    \/ OtherMint \/ UpdateTransferHookProgramId
    \/ \E w \in Wallets : MintToWallet(w)
    \/ \E source, destination \in Wallets, amount \in Amounts :
          source # destination /\ ExecuteCompliantTransfer(source, destination, amount)
    \/ Preflight
    \/ RunTransfer
    \/ SendNothing
    \/ Advance
    \/ GetTransferStatus
=============================================================================
