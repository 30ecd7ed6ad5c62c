------------------------- MODULE Applications_proofs -------------------------
(* What holds in every run of the applications and tools, for any number of   *)
(* wallets, requests, items, programs and clusters.  A step belongs to one     *)
(* component and leaves the variables of the others, so that each invariant is *)
(* proved for the actions of its component alone.  First the approvals, the    *)
(* service layer and the console; then the adapter, the pages and the offline  *)
(* queue; then the tools.                                                      *)
EXTENDS Applications, Arrays_proofs

USE NoneIsNoWallet

------------------------------------------------------------------------------
(* approveTransfer                                                           *)

\* Between its two reads, an approval knows that its source is verified.
ApprovalInv ==
    /\ kyc \in [Wallets -> KycStatus]
    /\ approval \in Approvals
    /\ moved \in BOOLEAN
    /\ approval.at # "idle" => approval.source \in Wallets /\ approval.destination \in Wallets
    /\ app # "approvals" => approval.at = "idle"
    /\ approval.at = "destination" /\ ~moved => kyc[approval.source] = "Verified"
    /\ QuietApprovalHolds

\* No call was made yet (compliance-sdk.ts:205).
LEMMA ApprovalInitially == Init => ApprovalInv
<1> SUFFICES ASSUME LedgerInit, ApprovalInit PROVE ApprovalInv
  BY DEF Init, ClientsInit
<1>1. /\ approval.at = "idle" /\ approval \in Approvals /\ moved = FALSE
      /\ kyc \in [Wallets -> KycStatus]
  BY DEF LedgerInit, ApprovalInit, Approvals, NoApproval, KycStatus
<1> QED
  BY <1>1 DEF ApprovalInv, QuietApprovalHolds

\* A wallet's status changes, and the call that names it is told so by the history.
LEMMA StatusInv ==
    ASSUME ApprovalInv, NEW w, NEW from \in KycStatus, NEW to \in KycStatus,
           SetStatus(w, from, to), UNCHANGED app
    PROVE  ApprovalInv'
<1>1. /\ kyc' = [kyc EXCEPT ![w] = to] /\ approval' = approval
      /\ moved' = (moved \/ w \in {approval.source, approval.destination})
  BY DEF SetStatus
<1>2. (moved \/ w \in {approval.source, approval.destination}) \in BOOLEAN
  OBVIOUS
<1>3. moved' \in BOOLEAN
  BY <1>1, <1>2
<1>4. ~moved' => ~moved /\ w # approval.source /\ w # approval.destination
  BY <1>1
<1>5. kyc' \in [Wallets -> KycStatus] /\ \A v \in Wallets : v # w => kyc'[v] = kyc[v]
  BY <1>1 DEF ApprovalInv
<1> QED
  BY <1>1, <1>3, <1>4, <1>5 DEF ApprovalInv, QuietApprovalHolds, Cleared

\* Whatever leaves approvals and statuses alone.
LEMMA ApprovalStays ==
    ASSUME ApprovalInv, UNCHANGED <<kyc, approval, moved, app>>
    PROVE  ApprovalInv'
  BY DEF ApprovalInv, QuietApprovalHolds, Cleared

\* One transaction of an administrator.
LEMMA TransactionInv ==
    ASSUME ApprovalInv, UNCHANGED app, NEW w,
           \/ RegisterUser(w) \/ FreezeWallet(w) \/ UnfreezeWallet(w)
           \/ ActivateCircuitBreaker \/ DeactivateCircuitBreaker
    PROVE  ApprovalInv'
<1>1. CASE RegisterUser(w) \/ FreezeWallet(w) \/ UnfreezeWallet(w)
  BY <1>1, StatusInv DEF RegisterUser, FreezeWallet, UnfreezeWallet, KycStatus
<1>2. CASE ActivateCircuitBreaker \/ DeactivateCircuitBreaker
  BY <1>2, ApprovalStays DEF ActivateCircuitBreaker, DeactivateCircuitBreaker, approvalVars
<1> QED
  BY <1>1, <1>2

\* A transfer leaves approvals and statuses alone.
LEMMA TransferLeaves == Transfers => UNCHANGED <<kyc, approval, moved>>
  BY DEF Transfers, CreateMintWithTransferHook, CreateCompliantMintByManager, NewMint,
         InitializeCompliantMint, CreateCompliantMintByService, CreateCompliantMintBySdk,
         OtherMint, UpdateTransferHookProgramId, MintToWallet, ExecuteCompliantTransfer,
         SendNothing, Preflight, RunTransfer, Advance, GetTransferStatus,
         ledgerVars, approvalVars

\* The console sends a transaction, or leaves them alone.
LEMMA ConsoleInv ==
    ASSUME ApprovalInv, Console, UNCHANGED app
    PROVE  ApprovalInv'
<1>1. ASSUME NEW m, NEW w, Lands(m, w) PROVE ApprovalInv'
  <2>1. \/ RegisterUser(w) \/ FreezeWallet(w) \/ UnfreezeWallet(w)
        \/ ActivateCircuitBreaker \/ DeactivateCircuitBreaker
        \/ UNCHANGED <<kyc, approval, moved>>
    BY <1>1 DEF Lands, CreateCompliantMint, UpdateTransferHook, CreateMintWithTransferHook,
                NewMint, UpdateTransferHookProgramId, approvalVars
  <2> QED
    BY <2>1, TransactionInv, ApprovalStays
<1>2. CASE OthersAct
  BY <1>2, TransactionInv, ApprovalStays
     DEF OthersAct, Administer, AdministerWallets, OtherMint, approvalVars
<1>3. CASE Succeeds \/ Fails
  BY <1>1, <1>3, ApprovalStays DEF Succeeds, Fails, ledgerVars, approvalVars
<1>4. CASE Wakes \/ Ask
  BY <1>4, ApprovalStays DEF Wakes, Ask, ledgerVars, approvalVars
<1>5. ASSUME NEW m \in Methods, NEW w \in Wallets, NEW left \in {0, Retries}, Begin(m, w, left)
      PROVE  ApprovalInv'
  BY <1>5, ApprovalStays DEF Begin, ledgerVars, approvalVars
<1> QED
  BY <1>2, <1>3, <1>4, <1>5 DEF Console

\* A call of approveTransfer begins, or reads one of its wallets.
LEMMA ApproveInv ==
    ASSUME ApprovalInv, Approve, app = "approvals", UNCHANGED app
    PROVE  ApprovalInv'
<1>1. ASSUME NEW source \in Wallets, NEW destination \in Wallets,
             ApproveTransfer(source, destination)
      PROVE  ApprovalInv'
  BY <1>1 DEF ApproveTransfer, ledgerVars, ApprovalInv, Approvals, QuietApprovalHolds
<1>2. CASE ReadSource
  <2>1. PICK status \in {kyc[approval.source], "Unverified"} :
           approval' = [approval EXCEPT !.at =
                           IF status = "Verified" THEN "destination" ELSE "denied"]
    BY <1>2 DEF ReadSource, CheckComplianceStatus
  <2>2. approval.at = "source" /\ UNCHANGED <<kyc, moved>>
    BY <1>2 DEF ReadSource, ledgerVars
  <2> QED
    BY <2>1, <2>2 DEF ApprovalInv, Approvals, QuietApprovalHolds
<1>3. CASE ReadDestination
  <2>1. PICK status \in {kyc[approval.destination], "Unverified"} :
           approval' = [approval EXCEPT !.at =
                           IF status = "Verified" THEN "approved" ELSE "denied"]
    BY <1>3 DEF ReadDestination, CheckComplianceStatus
  <2>2. approval.at = "destination" /\ UNCHANGED <<kyc, moved>>
    BY <1>3 DEF ReadDestination, ledgerVars
  <2> QED
    BY <2>1, <2>2 DEF ApprovalInv, Approvals, QuietApprovalHolds, Cleared
<1> QED
  BY <1>1, <1>2, <1>3 DEF Approve

\* Each read of an approval, and each change of a status, wherever it comes from.
LEMMA ApprovalStep == ApprovalInv /\ [Next]_vars => ApprovalInv'
<1> SUFFICES ASSUME ApprovalInv, [Next]_vars PROVE ApprovalInv'
  OBVIOUS
<1>1. CASE UNCHANGED clientVars
  BY <1>1, ApprovalStays DEF clientVars, ledgerVars, approvalVars
<1>2. CASE ClientsNext
  <2> UNCHANGED app
    BY <1>2 DEF ClientsNext, Others
  <2>1. CASE Administer
    BY <2>1, TransactionInv DEF Administer, AdministerWallets
  <2>2. CASE AdministerWallets
    BY <2>2, TransactionInv DEF AdministerWallets
  <2>3. CASE app = "approvals" /\ Approve
    BY <2>3, ApproveInv
  <2>4. CASE Transfers
    BY <2>4, TransferLeaves, ApprovalStays
  <2>5. CASE Console
    BY <2>5, ConsoleInv
  <2>6. CASE Adapter /\ UNCHANGED ledgerVars /\ Others({"adapter"})
    BY <2>6, ApprovalStays DEF Others, ledgerVars, approvalVars
  <2>7. CASE Queue /\ UNCHANGED ledgerVars /\ Others({"offline"})
    BY <2>7, ApprovalStays DEF Others, ledgerVars, approvalVars
  <2>8. CASE (Gate \/ Desk) /\ Others({"pages"})
    <3>1. UNCHANGED kyc
      BY <2>8 DEF Gate, SelectWallet, EffectRuns, Disconnect, Recheck, Verdict, VerdictFails, Desk,
                  VerifyAddress, RevokeAddress, GetRecord, Confirmed, Refused, Fetched,
                  OtherAuthority, ledgerVars
    <3> QED
      BY <2>8, <3>1, ApprovalStays DEF Others, approvalVars
  <2> QED
    BY <1>2, <2>1, <2>2, <2>3, <2>4, <2>5, <2>6, <2>7, <2>8, Zenon DEF ClientsNext
<1> QED
  BY <1>1, <1>2 DEF Next, vars

\* An approved transfer is between two verified wallets, unless the status of one changed
\* between the two reads (compliance-sdk.ts:205-241).
THEOREM ApprovalHolds == Spec => []QuietApprovalHolds
<1>1. ApprovalInv => QuietApprovalHolds
  BY DEF ApprovalInv
<1> QED
  BY <1>1, ApprovalInitially, ApprovalStep, PTL DEF Spec
------------------------------------------------------------------------------
(* The service layer                                                         *)

Landings == [commitment : Commitments, err : BOOLEAN, logs : SUBSET Logs]

Reports == [status : {"none", "pending", "confirmed"}, error : BOOLEAN, checks : SUBSET Logs,
            passed : BOOLEAN]

\* Whoever the hook had to clear was verified when the transaction ran.
RanCleared ==
    service = "service layer" /\ transfer.source # None =>
        /\ ran.hook = "registry" => {transfer.source, transfer.destination} \subseteq ran.verified
        /\ ran.hook = "attestations" => transfer.source \in ran.verified

\* Nothing lands before the run, what ran without an error was cleared, and an answer is
\* made of what the node knows of the transaction.
ReportInv ==
    /\ transfer = [at |-> transfer.at, source |-> transfer.source,
                   destination |-> transfer.destination]
    /\ transfer.source # None => transfer.source \in Wallets /\ transfer.destination \in Wallets
    /\ landed \in Landings
    /\ report \in Reports
    /\ transfer.at \notin {"sent", "error"} => landed = NotLanded /\ report = NoReport
    /\ transfer.at = "sent" => ~landed.err
    /\ landed.commitment # "none" /\ ~landed.err => RanCleared
    /\ landed.logs # {} => ran.hook = "other"
    /\ report.status = "confirmed" => landed.commitment \in {"confirmed", "finalized"}
    /\ report.status = "confirmed" => (report.error <=> landed.err)
    /\ report.error => landed.err
    /\ report.checks # {} => landed.logs # {}

\* Nothing is known of a transaction that was not sent, or that no hook logged for.
LEMMA NothingKnown ==
    /\ NoReport \in Reports /\ NoReport.status = "none" /\ NoReport.error = FALSE
    /\ NoReport.checks = {}
    /\ NotLanded \in Landings /\ NotLanded.logs = {} /\ NotLanded.err = FALSE
    /\ NotLanded.commitment = "none"
    /\ Quiet \in Landings /\ Quiet.logs = {} /\ Quiet.err = FALSE
  BY DEF NoReport, Reports, NotLanded, Quiet, Landings, Commitments, Logs

\* Nothing was sent yet.
LEMMA ReportInitially == Init => ReportInv
<1> SUFFICES ASSUME TransferInit PROVE ReportInv
  BY DEF Init, ClientsInit
<1>1. /\ transfer = NoTransfer /\ transfer.at = "idle" /\ transfer.source = None
      /\ landed = NotLanded /\ report = NoReport
  BY DEF TransferInit, NoTransfer
<1> QED
  BY <1>1, NothingKnown DEF ReportInv, NoTransfer

\* The steps of the service layer that touch what is reported.
Reporting ==
    \/ InitializeCompliantMint
    \/ \E source, destination \in Wallets, amount \in Amounts :
          ExecuteCompliantTransfer(source, destination, amount)
    \/ SendNothing \/ Preflight \/ RunTransfer \/ Advance \/ GetTransferStatus

\* Everything else leaves it alone.
LEMMA ReportSteps == [Next]_vars => Reporting \/ UNCHANGED transferVars
<1>1. Transfers => Reporting \/ UNCHANGED transferVars
  BY DEF Transfers, Reporting, CreateMintWithTransferHook, CreateCompliantMintByManager,
         NewMint, OtherMint, UpdateTransferHookProgramId, MintToWallet, transferVars
<1>2. Console => UNCHANGED transferVars
  BY DEF Console, Begin, Succeeds, Fails, Wakes, Ask, OthersAct, Lands, CreateCompliantMint,
         UpdateTransferHook, CreateMintWithTransferHook, NewMint, OtherMint,
         UpdateTransferHookProgramId, transferVars
<1>3. ASSUME NEW used, "transfers" \notin used, Others(used) PROVE UNCHANGED transferVars
  BY <1>3 DEF Others
<1>4. UNCHANGED clientVars => UNCHANGED transferVars
  BY DEF clientVars
<1>5. ClientsNext => Transfers \/ Console \/ \E used : "transfers" \notin used /\ Others(used)
  BY DEF ClientsNext
<1> QED
  BY <1>1, <1>2, <1>3, <1>4, <1>5 DEF Next, vars

\* What parseHookValidation makes of the logs of a transaction (both services).
LEMMA ParsedAre ==
    ASSUME NEW logs \in SUBSET Logs,
           NEW parsed \in {ParseHookValidation(logs), SdkParseHookValidation(logs)}
    PROVE  parsed.checks \in SUBSET Logs /\ parsed.checks \subseteq logs /\ parsed.passed \in BOOLEAN
<1>1. ("KYC failed" \notin logs) \in BOOLEAN
  OBVIOUS
<1>2. CASE parsed = ParseHookValidation(logs)
  BY <1>1, <1>2 DEF ParseHookValidation
<1>3. CASE parsed = SdkParseHookValidation(logs)
  BY <1>1, <1>3 DEF SdkParseHookValidation
<1> QED
  BY <1>2, <1>3

\* An answer for a transaction, or an error, of the creation of a mint.
LEMMA AnsweredInv ==
    ASSUME ReportInv, NEW at \in {"sent", "error"}, NEW transaction \in {Quiet, NotLanded},
           Answered(at, transaction)
    PROVE  ReportInv'
<1>1. /\ transfer' = [at |-> at, source |-> None, destination |-> None]
      /\ landed' = transaction /\ report' = NoReport
  BY DEF Answered, NoTransfer
<1> QED
  BY <1>1, NothingKnown DEF ReportInv, RanCleared

\* A hook that may allow a transfer finds those verified that it asks for (processor.rs:40,
\* 50; lib.rs:23-26).
LEMMA HookClears ==
    ASSUME NEW source, NEW destination, TRUE \in HookAnswers(source, destination)
    PROVE  /\ hook = "registry" => kyc[source] = "Verified" /\ kyc[destination] = "Verified"
           /\ hook = "attestations" => kyc[source] = "Verified"
<1>1. CASE hook = "registry"
  <2>1. HookAnswers(source, destination) = {Cleared(source, destination)}
    BY <1>1 DEF HookAnswers, RegistryAnswers
  <2>2. Cleared(source, destination) = TRUE
    BY <2>1
  <2> QED
    BY <1>1, <2>2 DEF Cleared
<1>2. CASE hook = "attestations"
  <2>1. HookAnswers(source, destination) = {kyc[source] = "Verified", FALSE}
    BY <1>2 DEF HookAnswers, AttestationAnswers
  <2>2. (kyc[source] = "Verified") = TRUE
    BY <2>1
  <2> QED
    BY <1>2, <2>2
<1> QED
  BY <1>1, <1>2

\* The transaction lands, with the hook and the status of that moment.
LEMMA RunInv == ReportInv /\ RunTransfer => ReportInv'
<1> SUFFICES ASSUME ReportInv, RunTransfer PROVE ReportInv'
  OBVIOUS
<1>1. /\ transfer.at = "simulated" /\ landed = NotLanded /\ report = NoReport
      /\ UNCHANGED <<service, report>>
  BY DEF RunTransfer, ReportInv
<1>2. CASE UNCHANGED <<landed, ran>> /\ transfer' = [transfer EXCEPT !.at = "error"]
  BY <1>1, <1>2, NothingKnown DEF ReportInv
<1>3. ASSUME NEW err \in BOOLEAN, NEW logs \in IF hook = "other" THEN SUBSET Logs ELSE {{}},
             NEW at \in {"sent", "error"},
             err \/ TRUE \in HookAnswers(transfer.source, transfer.destination),
             landed' = [commitment |-> "processed", err |-> err, logs |-> logs],
             ran' = [hook |-> hook, verified |-> {w \in Wallets : kyc[w] = "Verified"}],
             err => at = "error", transfer' = [transfer EXCEPT !.at = at]
      PROVE  ReportInv'
  <2>1. logs \in SUBSET Logs /\ (logs # {} => hook = "other")
    BY <1>3
  <2>2. /\ transfer' = [at |-> at, source |-> transfer.source,
                        destination |-> transfer.destination]
        /\ landed' \in Landings /\ landed'.err = err /\ landed'.logs = logs
        /\ ran'.hook = hook
    BY <1>3, <2>1 DEF ReportInv, Landings, Commitments
  <2>3. ~err => RanCleared'
    <3> SUFFICES ASSUME ~err, transfer.source # None
                 PROVE  /\ hook = "registry" =>
                              {transfer.source, transfer.destination} \subseteq ran'.verified
                        /\ hook = "attestations" => transfer.source \in ran'.verified
      BY <2>2 DEF RanCleared
    <3>1. transfer.source \in Wallets /\ transfer.destination \in Wallets
      BY DEF ReportInv
    <3>2. /\ hook = "registry" => /\ kyc[transfer.source] = "Verified"
                                  /\ kyc[transfer.destination] = "Verified"
          /\ hook = "attestations" => kyc[transfer.source] = "Verified"
      BY <1>3, HookClears
    <3> QED
      BY <1>3, <3>1, <3>2
  <2> QED
    BY <1>1, <1>3, <2>1, <2>2, <2>3, NothingKnown DEF ReportInv
<1> QED
  BY <1>2, <1>3 DEF RunTransfer

\* An answer of getTransferStatus is made of what is known of the transaction.
LEMMA StatusAnswerInv == ReportInv /\ GetTransferStatus => ReportInv'
<1> SUFFICES ASSUME ReportInv, GetTransferStatus PROVE ReportInv'
  OBVIOUS
<1>1. UNCHANGED <<service, transfer, landed, ran>> /\ transfer.at \in {"sent", "error"}
  BY DEF GetTransferStatus
<1>2. PICK known \in BOOLEAN, found \in BOOLEAN,
           parsed \in {ParseHookValidation(landed.logs), SdkParseHookValidation(landed.logs)} :
        report' = [status |-> IF known /\ landed.commitment = "confirmed" THEN "confirmed"
                              ELSE "pending",
                   error  |-> (known /\ landed.err) /\ TRUE,
                   checks |-> IF (known /\ landed.commitment = "confirmed") /\ found
                              THEN parsed.checks ELSE {},
                   passed |-> (known /\ landed.commitment = "confirmed") /\ found /\ parsed.passed]
  BY DEF GetTransferStatus, Report
<1>3. landed.err \in BOOLEAN /\ landed.logs \in SUBSET Logs
  BY DEF ReportInv, Landings
<1>4. /\ parsed.checks \in SUBSET Logs /\ parsed.checks \subseteq landed.logs
      /\ parsed.passed \in BOOLEAN
  BY <1>3, ParsedAre
<1>5. /\ report' \in Reports
      /\ report'.status = "confirmed" => known /\ landed.commitment = "confirmed"
      /\ report'.error <=> known /\ landed.err
      /\ report'.checks \subseteq parsed.checks
  BY <1>2, <1>3, <1>4 DEF Reports
<1> QED
  BY <1>1, <1>4, <1>5 DEF ReportInv, RanCleared

\* Each step of the service layer keeps its reports true.
LEMMA ReportStep == ReportInv /\ [Next]_vars => ReportInv'
<1> SUFFICES ASSUME ReportInv, Reporting \/ UNCHANGED transferVars PROVE ReportInv'
  BY ReportSteps
<1>1. CASE InitializeCompliantMint
  BY <1>1, AnsweredInv DEF InitializeCompliantMint, CreateCompliantMintByService,
                           CreateCompliantMintBySdk
<1>2. ASSUME NEW source \in Wallets, NEW destination \in Wallets, NEW amount \in Amounts,
             ExecuteCompliantTransfer(source, destination, amount)
      PROVE  ReportInv'
  <2>1. /\ transfer' = [at |-> transfer'.at, source |-> source, destination |-> destination]
        /\ transfer'.at \in {"checked", "insufficient"}
        /\ landed' = NotLanded /\ report' = NoReport
    BY <1>2 DEF ExecuteCompliantTransfer
  <2> QED
    BY <2>1, NothingKnown DEF ReportInv
<1>3. CASE SendNothing
  <2>1. /\ transfer.at = "checked" /\ landed = NotLanded /\ report = NoReport
        /\ service = "sdk" /\ UNCHANGED <<service, report>>
        /\ landed' = Quiet \/ landed' = NotLanded
    BY <1>3 DEF SendNothing, ReportInv
  <2>2. \E at \in {"sent", "error"} : transfer' = [transfer EXCEPT !.at = at]
    BY <1>3 DEF SendNothing
  <2> QED
    BY <2>1, <2>2, NothingKnown DEF ReportInv, RanCleared
<1>4. CASE Preflight
  <2>1. /\ landed = NotLanded /\ report = NoReport /\ UNCHANGED <<service, landed, ran, report>>
    BY <1>4 DEF Preflight, ReportInv
  <2>2. \E at \in {"simulated", "denied", "error"} : transfer' = [transfer EXCEPT !.at = at]
    BY <1>4 DEF Preflight
  <2> QED
    BY <2>1, <2>2, NothingKnown DEF ReportInv
<1>5. CASE Advance
  <2>1. /\ UNCHANGED <<service, transfer, ran, report>>
        /\ \/ landed.commitment = "processed" /\ landed' = [landed EXCEPT !.commitment = "confirmed"]
           \/ landed.commitment = "confirmed" /\ landed' = [landed EXCEPT !.commitment = "finalized"]
    BY <1>5 DEF Advance
  <2>2. /\ landed # NotLanded /\ landed' \in Landings /\ landed.commitment # "none"
        /\ landed'.err = landed.err /\ landed'.logs = landed.logs
        /\ landed'.commitment \in {"confirmed", "finalized"}
    <3>1. landed # NotLanded
      BY <2>1 DEF NotLanded
    <3>2. CASE landed' = [landed EXCEPT !.commitment = "confirmed"]
      BY <2>1, <3>1, <3>2 DEF ReportInv, Landings, Commitments
    <3>3. CASE landed' = [landed EXCEPT !.commitment = "finalized"]
      BY <2>1, <3>1, <3>3 DEF ReportInv, Landings, Commitments
    <3> QED
      BY <2>1, <3>2, <3>3
  <2> QED
    BY <2>1, <2>2 DEF ReportInv, RanCleared
<1>6. CASE UNCHANGED transferVars
  BY <1>6 DEF transferVars, ReportInv, RanCleared
<1> QED
  BY <1>1, <1>2, <1>3, <1>4, <1>5, <1>6, RunInv, StatusAnswerInv DEF Reporting

\* A transfer reported as confirmed has landed, with an error only if the report has one;
\* otherwise those that the hook of the mint must clear were verified when the transaction
\* ran. A transfer told as sent has no error, and of a denied one nothing landed
\* (transfer-hook-service.ts:74-215, processor.rs:36-53, lib.rs:20-33).
THEOREM ReportsReal == Spec => []ReportsAreReal
<1>1. ReportInv => ReportsAreReal
  BY DEF ReportInv, RanCleared, ReportsAreReal
<1> QED
  BY <1>1, ReportInitially, ReportStep, PTL DEF Spec
------------------------------------------------------------------------------
(* The console                                                               *)

StatusMethods == {"registerUser", "freezeWallet", "unfreezeWallet"}

Target(method) == IF method = "freezeWallet" THEN "Frozen" ELSE "Verified"

\* The code is none that may be retried, and it names a cause only after the logs.
TellsTruth(answer) ==
    /\ ~IsRetryable(answer.code)
    /\ answer.code \in ErrorCodeMap =>
          \E i \in DOMAIN answer.logs :
             /\ answer.logs[i] = answer.code
             /\ \A j \in 1..(i - 1) : ~Tells(answer.logs[j])

Calls == [at : {"idle", "pending", "sleeping"}, method : Methods \union {"none"},
          wallet : Wallets \union {None}, left : Nat]

Tries == [method : Methods \union {"none"}, attempts : Nat, landed : Nat, last : BOOLEAN,
          others : BOOLEAN]

\* While a call is in progress its attempts and those it has left are what it was given, and
\* where its transaction landed, undisturbed, the wallet has the status that the next attempt
\* would not land on.
RetryInv ==
    /\ call \in Calls /\ tried \in Tries /\ TellsTruth(told)
    /\ app # "console" => call.at = "idle"
    /\ call.at # "idle" => /\ call.wallet \in Wallets /\ call.method = tried.method
                           /\ told = NotTold
                           /\ tried.attempts + call.left <= Retries
    /\ tried.attempts <= Retries + 1
    /\ told.answer = "done" /\ tried.attempts > 0 => tried.last
    /\ tried.method \in StatusMethods /\ ~tried.others =>
          /\ tried.landed <= 1
          /\ call.at # "idle" /\ tried.landed = 1 => kyc[call.wallet] = Target(tried.method)

\* No answer but one that is made of logs names a cause.
LEMMA OwnCodes ==
    /\ NotTold.answer = "none" /\ TellsTruth(NotTold)
    /\ \A code \in SdkErrors \ {"NETWORK_ERROR", "TIMEOUT_ERROR"} :
          ~IsRetryable(code) /\ code \notin ErrorCodeMap
    /\ \A method : FailureCode(method) \in SdkErrors \ {"NETWORK_ERROR", "TIMEOUT_ERROR"}
<1>1. NotTold.answer = "none" /\ NotTold.code = "none"
  BY DEF NotTold
<1>2. ~IsRetryable("none") /\ "none" \notin ErrorCodeMap
  BY DEF IsRetryable, ErrorCodeMap, KycErrors, ArithmeticErrors
<1>3. \A code \in SdkErrors \ {"NETWORK_ERROR", "TIMEOUT_ERROR"} :
         ~IsRetryable(code) /\ code \notin ErrorCodeMap
  BY DEF SdkErrors, IsRetryable, ErrorCodeMap, KycErrors, ArithmeticErrors
<1>4. \A method : FailureCode(method) \in SdkErrors \ {"NETWORK_ERROR", "TIMEOUT_ERROR"}
  BY DEF FailureCode, SdkErrors
<1> QED
  BY <1>1, <1>2, <1>3, <1>4 DEF TellsTruth

\* The code of one line (errors.ts, parseAnchorError).
LEMMA CodeIsOfLine ==
    ASSUME NEW line
    PROVE  /\ ~IsRetryable(CodeOfLine(line))
           /\ CodeOfLine(line) \in ErrorCodeMap => CodeOfLine(line) = line
<1>1. ~IsRetryable("UNKNOWN_ERROR") /\ "UNKNOWN_ERROR" \notin ErrorCodeMap
  BY DEF IsRetryable, ErrorCodeMap, KycErrors, ArithmeticErrors
<1>2. \A code \in ErrorCodeMap : ~IsRetryable(code)
  BY DEF IsRetryable, ErrorCodeMap, KycErrors, ArithmeticErrors
<1> QED
  BY <1>1, <1>2 DEF CodeOfLine

\* The code made of the logs of a transaction is that of the first line that tells anything
\* (errors.ts, createErrorFromTransactionFailure).
LEMMA FailureTells ==
    ASSUME NEW logs \in FailureLogs,
           told' = [answer |-> "error", code |-> CreateErrorFromTransactionFailure(logs),
                    logs |-> logs]
    PROVE  TellsTruth(told')
<1> DEFINE tells == {i \in DOMAIN logs : Tells(logs[i])}
           code == CreateErrorFromTransactionFailure(logs)
<1>1. DOMAIN logs \subseteq Nat /\ \A i \in DOMAIN logs : 1..(i - 1) \subseteq DOMAIN logs
  BY LogsAreLines
<1>2. told'.code = code /\ told'.logs = logs
  OBVIOUS
<1>3. CASE tells = {}
  <2>1. code = "UNKNOWN_ERROR"
    BY <1>3 DEF CreateErrorFromTransactionFailure
  <2>2. ~IsRetryable("UNKNOWN_ERROR") /\ "UNKNOWN_ERROR" \notin ErrorCodeMap
    BY DEF IsRetryable, ErrorCodeMap, KycErrors, ArithmeticErrors
  <2> QED
    BY <1>2, <2>1, <2>2 DEF TellsTruth
<1>4. CASE tells # {}
  <2> DEFINE first == CHOOSE i \in tells : \A j \in tells : i <= j
  <2>1. code = CodeOfLine(logs[first])
    BY <1>4 DEF CreateErrorFromTransactionFailure
  <2>2. tells \in SUBSET Nat
    BY <1>1
  <2>3. first \in tells /\ \A j \in tells : first <= j
    <3> HIDE DEF tells
    <3>1. \E i \in tells : \A j \in tells : i <= j
      BY <1>4, <2>2, Least
    <3> QED
      BY <3>1
  <2> HIDE DEF first, code
  <2>4. \A j \in 1..(first - 1) : ~Tells(logs[j])
    <3> SUFFICES ASSUME NEW j \in 1..(first - 1), Tells(logs[j]) PROVE FALSE
      OBVIOUS
    <3>1. first \in DOMAIN logs /\ first \in Nat
      BY <1>1, <2>3
    <3>2. j \in tells
      BY <1>1, <3>1
    <3> QED
      BY <2>3, <3>1, <3>2
  <2>5. first \in DOMAIN logs
    BY <2>3
  <2> QED
    BY <1>2, <2>1, <2>4, <2>5, CodeIsOfLine DEF TellsTruth
<1> QED
  BY <1>3, <1>4

\* An Anchor error has one line.
LEMMA AnchorTells ==
    ASSUME NEW logs \in FailureLogs, Len(logs) = 1,
           told' = [answer |-> "error", code |-> ParseAnchorError(logs[1]), logs |-> logs]
    PROVE  TellsTruth(told')
<1>1. 1 \in DOMAIN logs /\ 1..(1 - 1) = {}
  BY LogsAreLines
<1>2. told'.code = CodeOfLine(logs[1]) /\ told'.logs = logs
  BY DEF ParseAnchorError
<1> QED
  BY <1>1, <1>2, CodeIsOfLine DEF TellsTruth

\* No call was made yet.
LEMMA RetryInitially == Init => RetryInv
<1> SUFFICES ASSUME AdminInit PROVE RetryInv
  BY DEF Init, ClientsInit
<1>1. /\ call \in Calls /\ call.at = "idle" /\ tried \in Tries
      /\ tried.attempts = 0 /\ tried.landed = 0 /\ tried.method = "none"
  BY DEF AdminInit, NoCall, Untried, Calls, Tries, Methods
<1>2. told.answer = "none" /\ TellsTruth(told)
  BY OwnCodes DEF AdminInit
<1>3. 0 <= Retries + 1 /\ "none" \notin StatusMethods
  BY RetriesAssumption DEF StatusMethods
<1> QED
  BY <1>1, <1>2, <1>3 DEF RetryInv

\* A transaction that changes a status lands on another status and leaves the target of its
\* method.
LEMMA LandsOnOther ==
    ASSUME kyc \in [Wallets -> KycStatus], NEW method \in StatusMethods, NEW w \in Wallets,
           Lands(method, w)
    PROVE  kyc[w] # Target(method) /\ kyc'[w] = Target(method)
<1>1. CASE method = "registerUser"
  BY <1>1 DEF Lands, RegisterUser, SetStatus, Target, StatusMethods
<1>2. CASE method = "freezeWallet"
  BY <1>2 DEF Lands, FreezeWallet, SetStatus, Target, StatusMethods
<1>3. CASE method = "unfreezeWallet"
  BY <1>3 DEF Lands, UnfreezeWallet, SetStatus, Target, StatusMethods
<1> QED
  BY <1>1, <1>2, <1>3 DEF StatusMethods

\* One attempt: what it leaves in the history, and in the wallet.
LEMMA Attempt ==
    ASSUME RetryInv, kyc \in [Wallets -> KycStatus], call.at = "pending",
           NEW arrived \in BOOLEAN, Tried(arrived),
           IF arrived THEN Lands(call.method, call.wallet) ELSE UNCHANGED kyc
    PROVE  /\ tried' \in Tries /\ tried'.method = tried.method
           /\ tried'.attempts = tried.attempts + 1 /\ tried'.last = arrived
           /\ tried'.method \in StatusMethods /\ ~tried'.others =>
                 /\ tried'.landed <= 1
                 /\ tried'.landed = 1 => kyc'[call.wallet] = Target(tried'.method)
<1> DEFINE one == IF arrived THEN 1 ELSE 0
<1>1. one \in Nat /\ (one = 1 <=> arrived) /\ (one = 0 <=> ~arrived)
  OBVIOUS
<1>2. tried' = [tried EXCEPT !.attempts = @ + 1, !.landed = @ + one, !.last = arrived]
  BY DEF Tried
<1> HIDE DEF one
<1>3. /\ tried' \in Tries /\ tried'.method = tried.method /\ tried'.others = tried.others
      /\ tried'.attempts = tried.attempts + 1 /\ tried'.last = arrived
      /\ tried'.landed = tried.landed + one
  <2>1. /\ tried = [method |-> tried.method, attempts |-> tried.attempts, landed |-> tried.landed,
                    last |-> tried.last, others |-> tried.others]
        /\ tried.method \in Methods \union {"none"} /\ tried.attempts \in Nat
        /\ tried.landed \in Nat /\ tried.others \in BOOLEAN
    BY DEF RetryInv, Tries
  <2>2. tried' = [method |-> tried.method, attempts |-> tried.attempts + 1,
                  landed |-> tried.landed + one, last |-> arrived, others |-> tried.others]
    BY <1>2, <2>1
  <2>3. tried.attempts + 1 \in Nat /\ tried.landed + one \in Nat
    BY <1>1, <2>1
  <2> QED
    BY <2>1, <2>2, <2>3 DEF Tries
<1>4. call.wallet \in Wallets /\ call.method = tried.method /\ tried.landed \in Nat
  BY DEF RetryInv, Tries
<1>5. ASSUME tried.method \in StatusMethods, ~tried.others
      PROVE  /\ tried'.landed <= 1
             /\ tried'.landed = 1 => kyc'[call.wallet] = Target(tried'.method)
  <2>1. tried.landed <= 1 /\ (tried.landed = 1 => kyc[call.wallet] = Target(tried.method))
    BY <1>5 DEF RetryInv
  <2>2. CASE arrived
    <3>1. kyc[call.wallet] # Target(tried.method) /\ kyc'[call.wallet] = Target(tried.method)
      BY <1>4, <1>5, <2>2, LandsOnOther
    <3> QED
      BY <1>1, <1>3, <1>4, <2>1, <2>2, <3>1
  <2>3. CASE ~arrived
    BY <1>1, <1>3, <1>4, <2>1, <2>3
  <2> QED
    BY <2>2, <2>3
<1> QED
  BY <1>3, <1>5

\* What is not the console's leaves its variables, and all others act at other wallets' cost
\* only where the console is not open.
LEMMA ConsoleAlone ==
    [Next]_vars => \/ Console /\ app = "console" /\ UNCHANGED app
                   \/ UNCHANGED <<adminVars, app>> /\ (UNCHANGED kyc \/ app # "console")
<1>1. UNCHANGED clientVars => UNCHANGED <<adminVars, app, kyc>>
  BY DEF clientVars, adminVars, ledgerVars
<1>2. ClientsNext => \/ Console /\ app = "console" /\ UNCHANGED app
                     \/ UNCHANGED <<adminVars, app>> /\ app # "console"
  BY DEF ClientsNext, Others, adminVars
<1> QED
  BY <1>1, <1>2 DEF Next, vars

\* Each attempt, each answer and each act of others.
LEMMA RetryStep == ApprovalInv /\ RetryInv /\ [Next]_vars => RetryInv'
<1> SUFFICES ASSUME ApprovalInv, RetryInv, [Next]_vars PROVE RetryInv'
  OBVIOUS
<1> Retries \in Nat /\ kyc \in [Wallets -> KycStatus]
  BY RetriesAssumption DEF ApprovalInv
<1>1. CASE UNCHANGED <<adminVars, app>> /\ (UNCHANGED kyc \/ app # "console")
  BY <1>1 DEF adminVars, RetryInv
<1>2. ASSUME UNCHANGED app, app = "console", NEW m \in Methods, NEW w \in Wallets,
             NEW left \in {0, Retries}, Begin(m, w, left)
      PROVE  RetryInv'
  <2>1. /\ call' \in Calls /\ call'.wallet \in Wallets /\ call'.method = m /\ call'.left = left
        /\ left \in Nat /\ left <= Retries
    BY <1>2 DEF Begin, Calls
  <2>2. /\ tried' \in Tries /\ tried'.method = m /\ tried'.attempts = 0 /\ tried'.landed = 0
    BY <1>2 DEF Begin, Tries, Untried
  <2>3. told' = NotTold
    BY <1>2 DEF Begin
  <2> QED
    BY <1>2, <2>1, <2>2, <2>3, OwnCodes DEF RetryInv
<1>3. CASE Succeeds /\ UNCHANGED app
  <2>1. /\ tried' \in Tries /\ tried'.attempts = tried.attempts + 1 /\ tried'.last
        /\ tried'.method \in StatusMethods /\ ~tried'.others => tried'.landed <= 1
    BY <1>3, Attempt DEF Succeeds
  <2>2. call' \in Calls /\ call'.at = "idle"
    BY <1>3 DEF Succeeds, NoCall, Calls
  <2>3. TellsTruth(told')
    BY <1>3, OwnCodes DEF Succeeds, TellsTruth, NotTold
  <2>4. tried.attempts \in Nat /\ call.left \in Nat /\ tried.attempts + call.left <= Retries
    BY <1>3 DEF Succeeds, RetryInv, Calls, Tries
  <2> QED
    BY <2>1, <2>2, <2>3, <2>4 DEF RetryInv
<1>4. CASE Fails /\ UNCHANGED app
  <2>1. PICK arrived \in BOOLEAN :
           Tried(arrived) /\ IF arrived THEN Lands(call.method, call.wallet) ELSE UNCHANGED kyc
    BY <1>4 DEF Fails, ledgerVars
  <2>2. /\ tried' \in Tries /\ tried'.method = tried.method
        /\ tried'.attempts = tried.attempts + 1
        /\ tried'.method \in StatusMethods /\ ~tried'.others =>
              /\ tried'.landed <= 1
              /\ tried'.landed = 1 => kyc'[call.wallet] = Target(tried'.method)
    BY <1>4, <2>1, Attempt DEF Fails
  <2>3. /\ tried.attempts \in Nat /\ call.left \in Nat /\ tried.attempts + call.left <= Retries
        /\ call.wallet \in Wallets /\ call.method = tried.method /\ told = NotTold
        /\ call.at = "pending" /\ call \in Calls /\ app = "console"
    BY <1>4 DEF Fails, RetryInv, Calls, Tries
  <2>4. CASE call.left > 0
    <3>1. /\ call' \in Calls /\ call'.left = call.left - 1 /\ call'.wallet = call.wallet
          /\ call'.method = call.method /\ told' = NotTold
      <4>1. call' = [call EXCEPT !.at = "sleeping", !.left = @ - 1] /\ told' = told
        BY <1>4, <2>4 DEF Fails, Retry
      <4>2. call' = [at |-> "sleeping", method |-> call.method, wallet |-> call.wallet,
                     left |-> call.left - 1]
        BY <2>3, <4>1 DEF Calls
      <4>3. call.left - 1 \in Nat /\ call.method \in Methods \union {"none"}
        BY <2>3, <2>4 DEF Calls
      <4> QED
        BY <2>3, <4>1, <4>2, <4>3 DEF Calls
    <3> QED
      BY <1>4, <2>2, <2>3, <3>1, OwnCodes DEF RetryInv
  <2>5. CASE call.left = 0
    <3>1. /\ call' = NoCall
          /\ told' = [NotTold EXCEPT !.answer = "error", !.code = FailureCode(call.method)]
      BY <1>4, <2>5 DEF Fails, Retry
    <3>2. call' \in Calls /\ call'.at = "idle"
      BY <3>1 DEF NoCall, Calls
    <3>3. told'.answer = "error" /\ TellsTruth(told')
      <4>1. told'.answer = "error" /\ told'.code = FailureCode(call.method)
        BY <3>1 DEF NotTold
      <4> QED
        BY <4>1, OwnCodes DEF TellsTruth
    <3> QED
      BY <2>2, <2>3, <3>2, <3>3 DEF RetryInv
  <2> QED
    BY <2>3, <2>4, <2>5
<1>5. CASE Wakes /\ UNCHANGED app
  <2>1. /\ UNCHANGED <<told, tried, kyc>> /\ call' = [call EXCEPT !.at = "pending"]
        /\ call.at = "sleeping"
    BY <1>5 DEF Wakes, ledgerVars
  <2> QED
    BY <1>5, <2>1 DEF RetryInv, Calls
<1>6. CASE Ask /\ UNCHANGED app
  <2>1. /\ call' = call /\ call.at = "idle" /\ tried' = Untried
    BY <1>6 DEF Ask
  <2>2. TellsTruth(told')
    <3>1. CASE GetRegistryInfo \/ HasTransferHook \/ GetTransferHookInfo
      <4>1. told'.code \in {"none", "REGISTRY_FETCH_FAILED", "HOOK_FETCH_FAILED"}
        BY <3>1 DEF GetRegistryInfo, HasTransferHook, GetTransferHookInfo, NotTold
      <4>2. \A code \in {"none", "REGISTRY_FETCH_FAILED", "HOOK_FETCH_FAILED"} :
               ~IsRetryable(code) /\ code \notin ErrorCodeMap
        BY DEF IsRetryable, ErrorCodeMap, KycErrors, ArithmeticErrors
      <4> QED
        BY <4>1, <4>2 DEF TellsTruth
    <3>2. CASE Explain
      BY <3>2, FailureTells, AnchorTells DEF Explain
    <3> QED
      BY <1>6, <3>1, <3>2 DEF Ask
  <2>3. /\ tried' \in Tries /\ tried'.method = "none" /\ tried'.attempts = 0
        /\ "none" \notin StatusMethods
    BY <2>1 DEF Tries, Untried, StatusMethods
  <2> QED
    BY <1>6, <2>1, <2>2, <2>3 DEF RetryInv
<1>7. CASE OthersAct /\ UNCHANGED app
  <2>1. /\ UNCHANGED <<call, told, app>>
        /\ tried' = [tried EXCEPT !.others = @ \/ call.at # "idle"]
    BY <1>7 DEF OthersAct
  <2>2. (tried.others \/ call.at # "idle") \in BOOLEAN
    OBVIOUS
  <2>3. /\ tried' \in Tries /\ tried'.method = tried.method /\ tried'.attempts = tried.attempts
        /\ tried'.landed = tried.landed /\ tried'.last = tried.last
        /\ ~tried'.others => ~tried.others /\ call.at = "idle"
    BY <2>1, <2>2 DEF RetryInv, Tries
  <2> QED
    BY <2>1, <2>3 DEF RetryInv
<1> QED
  BY <1>1, <1>2, <1>3, <1>4, <1>5, <1>6, <1>7, ConsoleAlone DEF Console

\* However many retries: done means that the last attempt landed, a status change lands once
\* while no one else acts, and an error names a cause only from the line that told it first
\* (utils/index.ts, retry; errors.ts, createErrorFromTransactionFailure).
THEOREM RetriesSafe == Spec => []RetriesAreSafe
<1>1. RetryInv => RetriesAreSafe
  BY DEF RetryInv, RetriesAreSafe, TellsTruth, StatusMethods
<1> QED
  BY <1>1, ApprovalInitially, ApprovalStep, RetryInitially, RetryStep, PTL DEF Spec

------------------------------------------------------------------------------
(* The queue of the offline page, sdk/typescript/src/offline/queue.ts          *)

\* Every run in flight holds each quiet item: it will write it back, or has processed it.
QueueInv ==
    /\ QueueTypeOK
    /\ QuietItemsSurvive
    /\ \A r \in QueueRuns :
          runs[r].active => quiet \subseteq runs[r].todo \union runs[r].remaining \union processed

\* The page starts with nothing stored and nothing in flight (queue.ts:14-22).
LEMMA QueueInitially == Init => QueueInv
  BY DEF Init, ClientsInit, QueueInit, QueueInv, QueueTypeOK, QuietItemsSurvive, NoRun

\* Only the offline page touches its queue.
LEMMA QueueSteps == [Next]_vars => Queue \/ UNCHANGED queueVars
  BY DEF Next, ClientsNext, Others, vars, clientVars

\* Each action of the queue keeps quiet items stored or processed, and in every run.
LEMMA QueueStep == QueueInv /\ [Next]_vars => QueueInv'
<1> SUFFICES ASSUME QueueInv, Queue \/ UNCHANGED queueVars PROVE QueueInv'
  BY QueueSteps
<1> USE DEF QueueInv, QueueTypeOK, QuietItemsSurvive, SaveQueue, NoRun, InFlight
<1>1. ASSUME NEW i \in QueueItems, Enqueue(i) PROVE QueueInv'
  <2>1. PICK loaded \in {queue, {}} :
           /\ queue' \in {loaded \union {i}, queue}
           /\ quiet' = (quiet \ (queue \ loaded))
                        \union (IF InFlight = {} THEN {i} \intersect queue' ELSE {})
    BY <1>1 DEF Enqueue, LoadQueue, QuietAfter
  <2>2. offered' = offered \union {i} /\ UNCHANGED <<runs, processed>>
    BY <1>1 DEF Enqueue
  <2>3. CASE loaded = queue
    BY <2>1, <2>2, <2>3
  <2>4. CASE loaded = {}
    BY <2>1, <2>2, <2>4
  <2> QED
    BY <2>1, <2>3, <2>4
<1>2. CASE ClearQueue
  BY <1>2 DEF ClearQueue
<1>3. ASSUME NEW r \in QueueRuns, ProcessQueue(r) PROVE QueueInv'
  <2>1. PICK loaded \in {queue, {}} :
           /\ runs' = [runs EXCEPT ![r] = [active |-> TRUE, todo |-> loaded, remaining |-> {}]]
           /\ quiet' = quiet \ (queue \ loaded)
    BY <1>3 DEF ProcessQueue, LoadQueue, QuietAfter
  <2>2. ~runs[r].active /\ UNCHANGED <<queue, processed, offered>>
    BY <1>3 DEF ProcessQueue
  <2>3. CASE loaded = queue
    BY <2>1, <2>2, <2>3
  <2>4. CASE loaded = {}
    BY <2>1, <2>2, <2>4
  <2> QED
    BY <2>1, <2>3, <2>4
<1>4. ASSUME NEW r \in QueueRuns, NEW i \in QueueItems, Processed(r, i) PROVE QueueInv'
  BY <1>4 DEF Processed
<1>5. ASSUME NEW r \in QueueRuns, NEW i \in QueueItems, ProcessorFails(r, i) PROVE QueueInv'
  <2>1. /\ processed \subseteq processed' /\ processed' \subseteq QueueItems
        /\ queue' = queue /\ offered' = offered /\ quiet' = quiet
    BY <1>5 DEF ProcessorFails
  <2>2. /\ runs' \in [QueueRuns -> [active : BOOLEAN, todo : SUBSET QueueItems,
                                    remaining : SUBSET QueueItems]]
        /\ \A q \in QueueRuns : q # r => runs'[q] = runs[q]
    BY <1>5 DEF ProcessorFails
  <2>3. /\ runs'[r].active = runs[r].active
        /\ runs'[r].todo = runs[r].todo \ {i}
        /\ runs'[r].remaining = runs[r].remaining \union {i}
    BY <1>5 DEF ProcessorFails
  <2> QED
    BY <2>1, <2>2, <2>3
<1>6. ASSUME NEW r \in QueueRuns, SaveRemaining(r) PROVE QueueInv'
  BY <1>6 DEF SaveRemaining
<1>7. CASE LeavePage
  BY <1>7 DEF LeavePage
<1>8. CASE UNCHANGED queueVars
  BY <1>8 DEF queueVars
<1> QED
  BY <1>1, <1>2, <1>3, <1>4, <1>5, <1>6, <1>7, <1>8 DEF Queue

\* An item that was stored while no run was in flight, and that no later read overlooked, is
\* stored until it is processed (queue.ts:14-60), however many runs overlap, fail or are left.
THEOREM QuietItems == Spec => []QuietItemsSurvive
<1>1. QueueInv => QuietItemsSurvive
  BY DEF QueueInv
<1> QED
  BY <1>1, QueueInitially, QueueStep, PTL DEF Spec

------------------------------------------------------------------------------
(* The wallet adapter, interface.ts                                           *)

\* A key the extension answered with is the selected account unless the call is stale, and
\* a disconnect that overlapped no connect left none in flight.
AdapterInv ==
    /\ AdapterTypeOK
    /\ QuietAdapterIsCurrent
    /\ \A c \in Connects :
          /\ connecting[c].at = "answered" /\ connecting[c].key # None /\ ~connecting[c].stale =>
                connecting[c].key = account
          /\ page.wants = "disconnect" /\ ~page.overlap => connecting[c].at = "idle"

\* A new adapter is disconnected and was told nothing (interface.ts:273-282).
LEMMA AdapterInitially == Init => AdapterInv
<1> SUFFICES ASSUME AdapterInit PROVE AdapterInv
  BY DEF Init, ClientsInit
<1>1. /\ adapter.publicKey = None /\ adapter.connected = FALSE
      /\ page = [wants |-> "disconnect", overlap |-> FALSE, switched |-> FALSE, told |-> {},
                 signed |-> None]
      /\ \A c \in Connects : connecting[c].at = "idle"
  BY DEF AdapterInit, NoConnect
<1>2. AdapterTypeOK
  BY DEF AdapterInit, AdapterTypeOK, NoConnect, Event
<1> QED
  BY <1>1, <1>2 DEF AdapterInv, QuietAdapterIsCurrent

\* Only the page of the adapter touches it.
LEMMA AdapterSteps == [Next]_vars => Adapter \/ UNCHANGED adapterVars
  BY DEF Next, ClientsNext, Others, vars, clientVars

\* Connecting with a key of a user's wallet keeps the invariant if the key is current.
LEMMA ConnectedInv ==
    ASSUME AdapterInv, NEW key \in Wallets, Connected(key), page'.told = Told,
           page' \in [wants : Event, overlap : BOOLEAN, switched : BOOLEAN,
                      told : SUBSET Listeners, signed : Wallets \cup {None}],
           UNCHANGED <<account, listening>>,
           account # None /\ ~page'.switched => key = account,
           page'.wants = "disconnect" => page'.overlap
    PROVE  /\ QuietAdapterIsCurrent'
           /\ adapter' \in [kind : Kind, publicKey : Wallets \cup {None}, connected : BOOLEAN]
           /\ heard' \in [Listeners -> Wallets \cup {None}]
  BY DEF AdapterInv, AdapterTypeOK, Connected, Emit, Told, QuietAdapterIsCurrent, Event

\* Each action of the adapter keeps its key current and its callbacks informed.
LEMMA AdapterStep == AdapterInv /\ [Next]_vars => AdapterInv'
<1> SUFFICES ASSUME AdapterInv, Adapter \/ UNCHANGED adapterVars PROVE AdapterInv'
  BY AdapterSteps
<1> USE DEF AdapterInv, AdapterTypeOK, Event, ConnectsInFlight, NoConnect
<1>1. ASSUME NEW c \in Connects, Connect(c) PROVE AdapterInv'
  <2>1. CASE account # None
    BY <1>1, <2>1 DEF Connect, Stay, QuietAdapterIsCurrent
  <2>2. CASE account = None
    <3>1. PICK key \in Wallets : Connected(key)
      BY <1>1, <2>2 DEF Connect
    <3>2. /\ UNCHANGED <<account, listening, connecting>>
          /\ page' = [page EXCEPT !.wants = "connect", !.told = Told]
      BY <1>1, <2>2 DEF Connect
    <3>3. page' \in [wants : Event, overlap : BOOLEAN, switched : BOOLEAN,
                     told : SUBSET Listeners, signed : Wallets \cup {None}]
          /\ page'.told = Told /\ page'.wants = "connect"
      BY <3>2 DEF Told
    <3>4. /\ QuietAdapterIsCurrent'
          /\ adapter' \in [kind : Kind, publicKey : Wallets \cup {None}, connected : BOOLEAN]
          /\ heard' \in [Listeners -> Wallets \cup {None}]
      BY <2>2, <3>1, <3>2, <3>3, ConnectedInv
    <3> QED
      BY <3>2, <3>3, <3>4
  <2> QED
    BY <2>1, <2>2
<1>2. ASSUME NEW c \in Connects, Approves(c) PROVE AdapterInv'
  <2>1. /\ UNCHANGED <<account, adapter, listening, heard, page>>
        /\ connecting[c].at = "asked"
    BY <1>2 DEF Approves
  <2>2. PICK key \in {account, None} :
           connecting' = [connecting EXCEPT ![c] = [@ EXCEPT !.at = "answered", !.key = key]]
    BY <1>2 DEF Approves
  <2> QED
    BY <2>1, <2>2 DEF QuietAdapterIsCurrent
<1>3. ASSUME NEW c \in Connects, Rejects(c) PROVE AdapterInv'
  BY <1>3 DEF Rejects, QuietAdapterIsCurrent
<1>4. ASSUME NEW c \in Connects, NEW key \in {connecting[c].key, account}, Resume(c, key),
             key # None /\ ~connecting[c].stale => key = account
      PROVE  AdapterInv'
  <2>1. CASE key = None
    BY <1>4, <2>1 DEF Resume, Stay, QuietAdapterIsCurrent
  <2>2. CASE key # None
    <3>1. key \in Wallets /\ Connected(key)
      BY <1>4, <2>2 DEF Resume
    <3>2. /\ UNCHANGED <<account, listening>>
          /\ connecting' = [connecting EXCEPT ![c] = NoConnect]
          /\ page' = [page EXCEPT !.told = Told, !.switched = connecting[c].stale]
      BY <1>4, <2>2 DEF Resume
    <3>3. /\ page' \in [wants : Event, overlap : BOOLEAN, switched : BOOLEAN,
                        told : SUBSET Listeners, signed : Wallets \cup {None}]
          /\ page'.told = Told /\ page'.wants = page.wants /\ page'.overlap = page.overlap
          /\ page'.switched = connecting[c].stale
      BY <3>2 DEF Told
    <3>4. page'.wants = "disconnect" => page'.overlap
      BY <1>4, <3>3 DEF Resume
    <3>5. /\ QuietAdapterIsCurrent'
          /\ adapter' \in [kind : Kind, publicKey : Wallets \cup {None}, connected : BOOLEAN]
          /\ heard' \in [Listeners -> Wallets \cup {None}]
      BY <1>4, <2>2, <3>1, <3>2, <3>3, <3>4, ConnectedInv
    <3> QED
      BY <3>2, <3>3, <3>4, <3>5
  <2> QED
    BY <2>1, <2>2
<1>5. ASSUME NEW c \in Connects, PhantomConnected(c) PROVE AdapterInv'
  BY <1>4, <1>5 DEF PhantomConnected, Resume
<1>6. ASSUME NEW c \in Connects, SolflareConnected(c) PROVE AdapterInv'
  BY <1>4, <1>6 DEF SolflareConnected
<1>7. CASE CloseConnection
  BY <1>7 DEF CloseConnection, Emit, Told, QuietAdapterIsCurrent
<1>8. CASE Sign
  BY <1>8 DEF Sign, QuietAdapterIsCurrent
<1>9. ASSUME NEW e \in Event, NEW l \in Listeners, On(e, l) \/ Off(e, l) PROVE AdapterInv'
  BY <1>9 DEF On, Off, QuietAdapterIsCurrent
<1>10. ASSUME NEW w \in Wallets, SwitchAccount(w) PROVE AdapterInv'
  <2>1. /\ UNCHANGED <<adapter, listening, heard>>
        /\ account' = w
        /\ page' = [page EXCEPT !.switched = TRUE]
    BY <1>10 DEF SwitchAccount
  <2>2. \A c \in Connects :
          connecting'[c] = [connecting[c] EXCEPT !.stale = connecting[c].at # "idle"]
    BY <1>10 DEF SwitchAccount
  <2>3. connecting' \in [Connects -> [at : {"idle", "asked", "answered"},
                                     key : Wallets \cup {None}, stale : BOOLEAN]]
    BY <1>10 DEF SwitchAccount
  <2>4. \A c \in Connects :
          /\ connecting'[c].at = connecting[c].at
          /\ connecting'[c].at = "answered" => connecting'[c].stale
    <3> SUFFICES ASSUME NEW c \in Connects
                 PROVE  /\ connecting'[c].at = connecting[c].at
                        /\ connecting'[c].at = "answered" => connecting'[c].stale
      OBVIOUS
    <3>1. connecting[c] \in [at : {"idle", "asked", "answered"}, key : Wallets \cup {None},
                            stale : BOOLEAN]
      OBVIOUS
    <3>2. /\ connecting'[c].at = connecting[c].at
          /\ connecting'[c].stale = (connecting[c].at # "idle")
      BY <2>2, <3>1
    <3>3. connecting'[c].at = "answered" => connecting'[c].stale = TRUE
      BY <3>2
    <3> QED
      BY <3>2, <3>3
  <2> QED
    BY <2>1, <2>3, <2>4 DEF QuietAdapterIsCurrent
<1>11. CASE UNCHANGED adapterVars
  BY <1>11 DEF adapterVars, QuietAdapterIsCurrent
<1> QED
  BY <1>1, <1>2, <1>3, <1>5, <1>6, <1>7, <1>8, <1>9, <1>10, <1>11 DEF Adapter

\* The adapter has the key of the selected account, and its callbacks know it, unless the
\* user switched or calls overlapped (interface.ts:81-107, 192-210), however many do.
THEOREM AdapterIsCurrent == Spec => []QuietAdapterIsCurrent
<1>1. AdapterInv => QuietAdapterIsCurrent
  BY DEF AdapterInv
<1> QED
  BY <1>1, AdapterInitially, AdapterStep, PTL DEF Spec

------------------------------------------------------------------------------
(* useKyc                                                                    *)

\* While no two checks overlap there is one at most: the page is loading, and once the effect
\* has run it is for the wallet that is connected.
Alone ==
    ~checked.overlap =>
        /\ \A r, q \in Checking : r = q
        /\ Checking # {} => gate.loading
        /\ wallet # None /\ ~effectDue => \A r \in Checking : checks[r] = wallet

GateTypeOK ==
    /\ wallet \in Wallets \cup {None}
    /\ effectDue => wallet # None
    /\ gate \in [verified : BOOLEAN, loading : BOOLEAN, error : BOOLEAN]
    /\ checks \in [Requests -> Wallets \cup {None}]
    /\ checked \in [wallet : Wallets \cup {None}, overlap : BOOLEAN, failed : BOOLEAN]

GateInv == GateTypeOK /\ Alone /\ QuietVerdictIsRight

\* No page is open at first (useKyc.ts:21-29).
LEMMA GateInitially == Init => GateInv
  BY DEF Init, ClientsInit, PagesInit, GateInv, GateTypeOK, Alone, QuietVerdictIsRight, Checking,
         Shown

\* Only the gated page changes the state of its hook.
LEMMA GateSteps == [Next]_vars => Gate \/ UNCHANGED gateVars
  BY DEF Next, ClientsNext, Others, vars, clientVars, Desk, VerifyAddress, RevokeAddress,
         GetRecord, Confirmed, Refused, Fetched, OtherAuthority, gateVars

\* A check that begins for the wallet that is connected.
LEMMA CheckInv ==
    ASSUME GateInv, NEW r \in Requests, wallet \in Wallets, CheckAccess(r, wallet),
           UNCHANGED wallet, effectDue' \in {effectDue, FALSE}
    PROVE  GateInv'
<1>1. /\ GateTypeOK' /\ gate'.loading
      /\ Checking' = Checking \union {r} /\ r \notin Checking /\ checks'[r] = wallet
      /\ checked'.overlap <=> Checking # {}
  BY DEF GateInv, GateTypeOK, CheckAccess, Checking
<1> QED
  BY <1>1 DEF GateInv, Alone, QuietVerdictIsRight, Shown

\* Each action of the page keeps its verdict that of the wallet, unless checks overlap.
LEMMA GateStep == GateInv /\ [Next]_vars => GateInv'
<1> SUFFICES ASSUME GateInv, Gate \/ UNCHANGED gateVars PROVE GateInv'
  BY GateSteps
<1>1. ASSUME NEW w \in Wallets, SelectWallet(w) PROVE GateInv'
  BY <1>1 DEF SelectWallet, GateInv, GateTypeOK, Alone, QuietVerdictIsRight, Checking
<1>2. CASE Disconnect
  BY <1>2 DEF Disconnect, GateInv, GateTypeOK, Alone, QuietVerdictIsRight, Checking, Shown
<1>3. CASE Recheck
  <2>1. /\ wallet \in Wallets /\ UNCHANGED <<wallet, effectDue>>
        /\ \E r \in Requests : CheckAccess(r, wallet)
    BY <1>3 DEF Recheck, GateInv, GateTypeOK
  <2> QED
    BY <2>1, CheckInv
<1>4. ASSUME NEW r \in Requests, Verdict(r) \/ VerdictFails(r) PROVE GateInv'
  <2>1. /\ UNCHANGED <<wallet, effectDue>>
        /\ Checking' = Checking \ {r} /\ r \in Checking
        /\ \A q \in Checking' : checks'[q] = checks[q]
        /\ checks' \in [Requests -> Wallets \cup {None}]
    BY <1>4 DEF Verdict, VerdictFails, GateInv, GateTypeOK, Checking
  <2>2. /\ checked'.overlap = checked.overlap
        /\ ~gate'.loading
        /\ checked'.failed \/ checked'.wallet = checks[r]
    BY <1>4 DEF Verdict, VerdictFails, GateInv, GateTypeOK
  <2>3. gate' \in [verified : BOOLEAN, loading : BOOLEAN, error : BOOLEAN]
    <3>1. CASE Verdict(r)
      <4>1. (kyc[checks[r]] = "Verified") \in BOOLEAN
        OBVIOUS
      <4>2. gate' = [gate EXCEPT !.verified = (kyc[checks[r]] = "Verified"), !.loading = FALSE]
        BY <3>1 DEF Verdict
      <4> QED
        BY <4>1, <4>2 DEF GateInv, GateTypeOK
    <3>2. CASE VerdictFails(r)
      BY <3>2 DEF VerdictFails, GateInv, GateTypeOK
    <3> QED
      BY <1>4, <3>1, <3>2
  <2>4. checked' \in [wallet : Wallets \cup {None}, overlap : BOOLEAN, failed : BOOLEAN]
    BY <1>4 DEF Verdict, VerdictFails, GateInv, GateTypeOK
  <2> QED
    BY <2>1, <2>2, <2>3, <2>4 DEF GateInv, GateTypeOK, Alone, QuietVerdictIsRight
<1>5. CASE UNCHANGED gateVars
  BY <1>5 DEF gateVars, GateInv, GateTypeOK, Alone, QuietVerdictIsRight, Checking, Shown
<1>6. CASE EffectRuns
  <2>1. /\ wallet \in Wallets /\ wallet' = wallet /\ effectDue' = FALSE
        /\ \E r \in Requests : CheckAccess(r, wallet)
    BY <1>6 DEF EffectRuns, GateInv, GateTypeOK
  <2> QED
    BY <2>1, CheckInv
<1> QED
  BY <1>1, <1>2, <1>3, <1>4, <1>5, <1>6 DEF Gate

\* Once the effect has run for it, a gated component shows the verdict for the wallet that is
\* connected, unless checks overlapped or the last one failed (useKyc.ts:35-68).
THEOREM VerdictIsRight == Spec => []QuietVerdictIsRight
<1>1. GateInv => QuietVerdictIsRight
  BY DEF GateInv
<1> QED
  BY <1>1, GateInitially, GateStep, PTL DEF Spec

------------------------------------------------------------------------------
(* useAddressVerification                                                    *)

\* The loading flag is on for an operation in flight, or after one that threw. Where no desk
\* is open, none is in flight and nothing was served.
DeskInv ==
    /\ desk \in [record : Wallets \cup {None}, loading : BOOLEAN]
    /\ jobs \in [Requests -> [at : {"idle", "rpc", "fetch"}, kind : {"verify", "revoke", "get"},
                              user : Wallets \cup {None}]]
    /\ served \in [user : Wallets \cup {None}, overlap : BOOLEAN, refused : BOOLEAN,
                   failed : BOOLEAN]
    /\ app # "desk" => served.user = None
    /\ desk.loading => served.refused \/ \E r \in Working : jobs[r].kind # "get"
    /\ QuietRecordIsCurrent

\* The desk begins without a record (useAddressVerification.ts:14-16).
LEMMA DeskInitially == Init => DeskInv
<1> SUFFICES ASSUME PagesInit PROVE DeskInv
  BY DEF Init, ClientsInit
<1>1. /\ desk = [record |-> None, loading |-> FALSE]
      /\ jobs = [r \in Requests |-> NoJob]
      /\ served = [user |-> None, overlap |-> FALSE, refused |-> FALSE, failed |-> FALSE]
  BY DEF PagesInit
<1> QED
  BY <1>1 DEF DeskInv, QuietRecordIsCurrent, NoJob, Working

\* Only the desk changes its hook, and the records change with it or with none shown.
LEMMA DeskSteps ==
    ASSUME DeskInv, [Next]_vars
    PROVE  \/ app = "desk" /\ app' = "desk" /\ Desk
           \/ UNCHANGED <<deskVars, verified, app>>
           \/ UNCHANGED <<deskVars, app>> /\ app # "desk"
<1>1. CASE app = "desk" /\ AdministerWallets /\ Others({"approvals"})
  BY <1>1 DEF Others, AdministerWallets, RegisterUser, FreezeWallet, UnfreezeWallet, SetStatus,
              deskVars
<1>2. CASE app = "desk" /\ Desk /\ Others({"pages"})
  BY <1>2 DEF Others
<1>3. CASE ClientsNext /\ app # "desk"
  BY <1>3 DEF ClientsNext, Others, Gate, SelectWallet, EffectRuns, Disconnect, Recheck, Verdict, VerdictFails,
              deskVars
<1>4. CASE UNCHANGED clientVars
  BY <1>4 DEF clientVars, ledgerVars, deskVars
<1> QED
  BY <1>1, <1>2, <1>3, <1>4 DEF Next, ClientsNext, vars

\* Each operation of the desk keeps its flag and its record.
LEMMA DeskStep == DeskInv /\ [Next]_vars => DeskInv'
<1> SUFFICES ASSUME DeskInv, [Next]_vars PROVE DeskInv'
  OBVIOUS
<1> DEFINE Job == [at : {"idle", "rpc", "fetch"}, kind : {"verify", "revoke", "get"},
                   user : Wallets \cup {None}]
<1>1. ASSUME app = "desk", app' = "desk", NEW u \in Wallets, NEW kind \in {"verify", "revoke", "get"},
             NEW at \in {"rpc", "fetch"}, StartJob(kind, u, at),
             desk' = IF kind = "get" THEN desk ELSE [desk EXCEPT !.loading = TRUE]
      PROVE  DeskInv'
  <2>1. PICK r \in Requests :
           jobs[r].at = "idle" /\ jobs' = [jobs EXCEPT ![r] = [at |-> at, kind |-> kind, user |-> u]]
    BY <1>1 DEF StartJob
  <2>2. /\ jobs' \in [Requests -> Job]
        /\ r \in Working' /\ jobs'[r].kind = kind
        /\ \A q \in Working : q \in Working' /\ jobs'[q] = jobs[q]
    BY <1>1, <2>1 DEF DeskInv, Working
  <2>3. /\ served' \in [user : Wallets \cup {None}, overlap : BOOLEAN, refused : BOOLEAN,
                        failed : BOOLEAN]
        /\ served'.refused = served.refused
    <3>1. (Working # {}) \in BOOLEAN
      OBVIOUS
    <3>2. served' = [served EXCEPT !.overlap = (Working # {})]
      BY <1>1 DEF StartJob
    <3> QED
      BY <3>1, <3>2 DEF DeskInv
  <2>4. /\ desk' \in [record : Wallets \cup {None}, loading : BOOLEAN]
        /\ kind = "get" => desk'.loading = desk.loading
    BY <1>1 DEF DeskInv
  <2> QED
    BY <1>1, <2>2, <2>3, <2>4 DEF DeskInv, QuietRecordIsCurrent
<1>2. ASSUME app = "desk", app' = "desk", NEW u \in Wallets,
             VerifyAddress(u) \/ RevokeAddress(u) \/ GetRecord(u)
      PROVE  DeskInv'
  BY <1>1, <1>2 DEF VerifyAddress, RevokeAddress, GetRecord
<1>3. ASSUME app = "desk", app' = "desk", NEW u \in Wallets, OtherAuthority(u) PROVE DeskInv'
  BY <1>3 DEF OtherAuthority, DeskInv, QuietRecordIsCurrent, Working
<1>4. ASSUME app = "desk", app' = "desk", NEW r \in Requests, Confirmed(r) PROVE DeskInv'
  <2>1. /\ jobs' \in [Requests -> Job]
        /\ r \in Working' /\ Working' = Working
        /\ \A q \in Working : jobs'[q].kind = jobs[q].kind
    BY <1>4 DEF Confirmed, DeskInv, Working
  <2>2. UNCHANGED <<desk, served>>
    BY <1>4 DEF Confirmed
  <2> QED
    BY <1>4, <2>1, <2>2 DEF DeskInv, QuietRecordIsCurrent
<1>5. ASSUME app = "desk", app' = "desk", NEW r \in Requests, Refused(r) PROVE DeskInv'
  BY <1>5 DEF Refused, DeskInv, QuietRecordIsCurrent, Working, NoJob
<1>6. ASSUME app = "desk", app' = "desk", NEW r \in Requests, Fetched(r) PROVE DeskInv'
  <2>1. PICK failed \in BOOLEAN :
          /\ desk' = [record  |-> IF jobs[r].user \in verified /\ ~failed THEN jobs[r].user
                                  ELSE None,
                      loading |-> IF jobs[r].kind = "get" THEN desk.loading ELSE FALSE]
          /\ served' = [served EXCEPT !.user = jobs[r].user, !.failed = failed]
    BY <1>6 DEF Fetched
  <2>2. /\ jobs' \in [Requests -> Job]
        /\ \A q \in Working : q # r => q \in Working' /\ jobs'[q] = jobs[q]
        /\ verified' = verified
    BY <1>6 DEF Fetched, DeskInv, Working, NoJob, ledgerVars
  <2>3. /\ served'.user = jobs[r].user /\ served'.failed = failed
        /\ served'.refused = served.refused
        /\ served' \in [user : Wallets \cup {None}, overlap : BOOLEAN, refused : BOOLEAN,
                        failed : BOOLEAN]
    BY <2>1 DEF DeskInv
  <2>4. /\ desk' \in [record : Wallets \cup {None}, loading : BOOLEAN]
        /\ ~failed => desk'.record = IF jobs[r].user \in verified THEN jobs[r].user ELSE None
        /\ desk'.loading => desk.loading /\ jobs[r].kind = "get"
    BY <2>1 DEF DeskInv
  <2> QED
    BY <1>6, <2>2, <2>3, <2>4 DEF DeskInv, QuietRecordIsCurrent
<1>7. CASE UNCHANGED <<deskVars, verified, app>>
  BY <1>7 DEF deskVars, DeskInv, QuietRecordIsCurrent, Working
<1>8. CASE UNCHANGED <<deskVars, app>> /\ app # "desk"
  BY <1>8 DEF deskVars, DeskInv, QuietRecordIsCurrent, Working
<1> QED
  BY <1>2, <1>3, <1>4, <1>5, <1>6, <1>7, <1>8, DeskSteps DEF Desk

\* The desk shows the record as the ledger has it after an operation that overlapped no
\* other, and loads only while one is in flight, unless one threw
\* (useAddressVerification.ts:34-85), for any number of addresses and operations.
THEOREM RecordIsCurrent == Spec => []QuietRecordIsCurrent
<1>1. DeskInv => QuietRecordIsCurrent
  BY DEF DeskInv
<1> QED
  BY <1>1, DeskInitially, DeskStep, PTL DEF Spec

------------------------------------------------------------------------------
(* deploy-programs.ts                                                        *)

\* The results of a run in progress are on the cluster it sends to, which is the one it
\* names if that is known; and those of the file are on the one the file names.
DeployInv ==
    /\ deployed = [c \in Clusters |-> deployed[c]]
    /\ deploy = [at |-> deploy.at, cluster |-> deploy.cluster, target |-> deploy.target,
                 results |-> deploy.results]
    /\ deploy.at \in {"program", "cli"} =>
          /\ deploy.target \in Clusters
          /\ deploy.cluster \in Clusters => deploy.cluster = deploy.target
          /\ deploy.results \subseteq deployed[deploy.target]
    /\ info # NoInfo => info.results = ProgramSet
    /\ info.cluster \in Clusters => info.results \subseteq deployed[info.cluster]
    /\ deploy.at = "exit 0" =>
          /\ info = [cluster |-> deploy.cluster, results |-> deploy.results]
          /\ deploy.target \in Clusters
          /\ info.results \subseteq deployed[deploy.target]

\* Nothing is deployed, and there is no file.
LEMMA DeployInitially == Init => DeployInv
<1> SUFFICES ASSUME deployed = [c \in Clusters |-> {}], info = NoInfo, deploy = NoDeploy
             PROVE  DeployInv
  BY DEF Init, NoTool, NoDeployment, ToolingInit, DeployInit
<1> QED
  BY DEF DeployInv, NoDeploy, NoInfo

\* Only the script and other operators deploy.
LEMMA DeploySteps == [Next]_vars => Deploy \/ UNCHANGED deployVars
  BY DEF Next, ToolingNext, vars, toolVars

\* A cluster gains programs, for which the lists stay true.
LEMMA GrowingInv ==
    ASSUME DeployInv, NEW c \in Clusters, NEW p,
           deployed' = [deployed EXCEPT ![c] = @ \union {p}]
    PROVE  /\ deployed' = [d \in Clusters |-> deployed'[d]]
           /\ \A d \in Clusters : deployed[d] \subseteq deployed'[d]
           /\ p \in deployed'[c]
  BY DEF DeployInv

\* Each step of the script keeps its lists true.
LEMMA DeployStep == DeployInv /\ [Next]_vars => DeployInv'
<1> SUFFICES ASSUME DeployInv, Deploy \/ UNCHANGED deployVars PROVE DeployInv'
  BY DeploySteps
<1>1. ASSUME NEW c \in Clusters \union {"unknown"}, NEW file \in Clusters \union {"none"},
             LoadConfig(c, file) \/ NoKeypair(c, file)
      PROVE  DeployInv'
  <2> DEFINE target == TargetOf(c, file)
  <2>1. PICK at \in {"program", "exit 1"} :
           /\ deploy' = [at |-> at, cluster |-> c, target |-> target, results |-> {}]
           /\ at = "program" => target # "none"
    <3>1. CASE LoadConfig(c, file)
      <4>1. CASE target = "none"
        BY <3>1, <4>1 DEF LoadConfig
      <4>2. CASE target # "none"
        BY <3>1, <4>2 DEF LoadConfig
      <4> QED
        BY <4>1, <4>2
    <3>2. CASE NoKeypair(c, file)
      BY <3>2 DEF NoKeypair
    <3> QED
      BY <1>1, <3>1, <3>2
  <2>2. UNCHANGED <<deployed, info>>
    BY <1>1 DEF LoadConfig, NoKeypair
  <2>3. (target # "none" => target \in Clusters) /\ (c \in Clusters => target = c)
    BY DEF TargetOf
  <2> HIDE DEF target
  <2>4. /\ deploy'.at = at /\ deploy'.cluster = c /\ deploy'.target = target
        /\ deploy'.results = {}
        /\ deploy' = [at |-> deploy'.at, cluster |-> deploy'.cluster, target |-> deploy'.target,
                      results |-> deploy'.results]
    BY <2>1
  <2> QED
    BY <2>1, <2>2, <2>3, <2>4 DEF DeployInv
<1>3. CASE Build
  BY <1>3 DEF Build, Goto, DeployInv
<1>4. CASE CheckDeployed
  BY <1>4 DEF CheckDeployed, Pushed, Goto, DeployInv
<1>5. CASE DeployProgram
  <2>1. /\ deploy.at = "cli" /\ deploy.target \in Clusters
        /\ deploy.results \subseteq deployed[deploy.target] /\ UNCHANGED info
    BY <1>5 DEF DeployProgram, DeployInv
  <2> DEFINE Grown == deployed' = [deployed EXCEPT ![deploy.target] = @ \union {Current}]
  <2>2. CASE Pushed /\ Grown
    BY <2>1, <2>2, GrowingInv DEF Pushed, DeployInv
  <2>3. CASE Goto("exit 1") /\ Grown
    BY <2>1, <2>3, GrowingInv DEF Goto, DeployInv
  <2>4. CASE Goto("exit 1") /\ UNCHANGED deployed
    BY <2>1, <2>4 DEF Goto, DeployInv
  <2>5. \/ Pushed /\ Grown
        \/ Goto("exit 1") /\ Grown
        \/ Goto("exit 1") /\ UNCHANGED deployed
    BY <1>5, Zenon DEF DeployProgram
  <2> HIDE DEF Grown
  <2> QED
    BY <2>2, <2>3, <2>4, <2>5
<1>6. CASE SaveDeploymentInfo
  <2>1. /\ deploy.at = "program" /\ deploy.results = ProgramSet /\ deployed' = deployed
        /\ deploy.target \in Clusters /\ ProgramSet \subseteq deployed[deploy.target]
        /\ deploy.cluster \in Clusters => deploy.cluster = deploy.target
    BY <1>6 DEF SaveDeploymentInfo, Finished, DeployInv
  <2>2. CASE info' = [cluster |-> deploy.cluster, results |-> deploy.results] /\ Goto("exit 0")
    BY <2>1, <2>2 DEF Goto, DeployInv
  <2>3. CASE UNCHANGED info /\ Goto("exit 1")
    BY <2>1, <2>3 DEF Goto, DeployInv
  <2> QED
    BY <1>6, <2>2, <2>3 DEF SaveDeploymentInfo
<1>7. ASSUME NEW c \in Clusters, NEW p \in ProgramSet, OtherOperator(c, p) PROVE DeployInv'
  BY <1>7, GrowingInv DEF OtherOperator, DeployInv
<1>8. CASE UNCHANGED deployVars
  BY <1>8 DEF deployVars, DeployInv
<1> QED
  BY <1>1, <1>3, <1>4, <1>5, <1>6, <1>7, <1>8 DEF Deploy

\* The file of the deployment lists every program, each on the cluster it names if that is a
\* known one (deploy-programs.ts:85-113, 237-248), and a run that succeeds has sent each where
\* its rpcUrl leads, however often the script failed before.
THEOREM InfoIsTrue == Spec => []DeploymentInfoIsTrue
<1>1. DeployInv => DeploymentInfoIsTrue
  BY DEF DeployInv, DeploymentInfoIsTrue
<1> QED
  BY <1>1, DeployInitially, DeployStep, PTL DEF Spec

------------------------------------------------------------------------------
(* The health check                                                          *)

RpcIssues == {"RPC Connection", "RPC Connection failed"}

\* What a result says of the node, and of the programs but those left to check.
ShowsTruth(result, todo) ==
    /\ result.rpc <=> world.rpc \notin Failing
    /\ RpcIssues \subseteq result.issues <=> ~result.rpc
    /\ result.programs = IF world.rpc = "down" THEN {}
                         ELSE (world.configured \intersect world.executable) \ todo

TellsApi(result) == result.api = "healthy" <=> world.api = "ok"

IsResult(result) ==
    /\ result = [rpc |-> result.rpc, programs |-> result.programs, api |-> result.api,
                 issues |-> result.issues]
    /\ result.rpc \in BOOLEAN

\* While the world is as it was when the check began, its result is true so far.
HealthInv ==
    tool = "health" =>
        /\ world \in Worlds
        /\ health = [at |-> health.at, todo |-> health.todo, result |-> health.result]
        /\ IsResult(health.result)
        /\ shifted \in [check : BOOLEAN, report : BOOLEAN]
        /\ health.at = "rpc" => health.result.programs = {}
        /\ health.at = "programs" /\ ~shifted.check => ShowsTruth(health.result, health.todo)
        /\ health.at = "save" /\ ~shifted.check =>
              ShowsTruth(health.result, {}) /\ TellsApi(health.result)
        /\ ~shifted.report => ShowsTruth(saved, {}) /\ TellsApi(saved)

\* The first check has not begun, and there is no report.
LEMMA HealthInitially == Init => HealthInv
<1> SUFFICES ASSUME HealthInit PROVE HealthInv
  BY DEF Init, NoTool, ToolingInit, HealthInv
<1>1. IsResult(NoResult)
  BY DEF NoResult, IsResult
<1> QED
  BY <1>1 DEF HealthInit, HealthInv

\* Only the health check and its world change what it sees.
LEMMA HealthSteps == [Next]_vars =>
    /\ UNCHANGED tool
    /\ (tool = "health" /\ Health) \/ UNCHANGED healthVars
  BY DEF Next, ToolingNext, vars, toolVars

\* The check of the node begins the result.
LEMMA RpcInv == HealthInv /\ tool = "health" /\ UNCHANGED tool /\ CheckRPC => HealthInv'
<1> SUFFICES ASSUME HealthInv, tool = "health", UNCHANGED tool, CheckRPC PROVE HealthInv'
  OBVIOUS
<1> DEFINE found == CASE world.rpc = "up"    -> {}
                      [] world.rpc = "slow"  -> {"High RPC latency"}
                      [] world.rpc = "stale" -> {"Stale slot"}
                      [] OTHER -> RpcIssues
<1>1. RpcIssues \subseteq found <=> world.rpc \in Failing
  <2>1. world.rpc \in Nodes
    BY DEF HealthInv, Worlds
  <2>2. CASE world.rpc = "up"
    <3>1. found = {}
      BY <2>2
    <3> HIDE DEF found
    <3> QED
      BY <2>2, <3>1 DEF RpcIssues, Failing
  <2>3. CASE world.rpc = "slow"
    <3>1. found = {"High RPC latency"}
      BY <2>3
    <3> HIDE DEF found
    <3> QED
      BY <2>3, <3>1 DEF RpcIssues, Failing
  <2>4. CASE world.rpc = "stale"
    <3>1. found = {"Stale slot"}
      BY <2>4
    <3> HIDE DEF found
    <3> QED
      BY <2>4, <3>1 DEF RpcIssues, Failing
  <2>5. CASE world.rpc \in Failing
    <3>1. found = RpcIssues
      BY <2>5 DEF Failing
    <3> HIDE DEF found
    <3> QED
      BY <2>5, <3>1
  <2> QED
    BY <2>1, <2>2, <2>3, <2>4, <2>5 DEF Nodes, Failing
<1>2. /\ health' = [health EXCEPT !.at = "programs", !.todo = ProgramIds,
                                 !.result.rpc = (world.rpc \notin Failing), !.result.issues = found]
      /\ health.at = "rpc" /\ UNCHANGED <<world, saved, shifted>>
  BY DEF CheckRPC, RpcIssues
<1> HIDE DEF found
<1>3. (world.rpc \notin Failing) \in BOOLEAN
  OBVIOUS
<1>4. IsResult(health.result)
  BY DEF HealthInv
<1>5. /\ health'.at = "programs" /\ health'.todo = ProgramIds
      /\ health'.result = [health.result EXCEPT !.rpc = (world.rpc \notin Failing), !.issues = found]
      /\ health' = [at |-> "programs", todo |-> ProgramIds, result |-> health'.result]
  BY <1>2 DEF HealthInv
<1>6. IsResult(health'.result) /\ ShowsTruth(health'.result, ProgramIds)
  <2>1. health.result.programs = {}
    BY <1>2 DEF HealthInv
  <2>2. IsResult(health'.result)
    BY <1>1, <1>3, <1>4, <1>5 DEF IsResult
  <2>3. /\ health'.result.rpc = (world.rpc \notin Failing) /\ health'.result.issues = found
        /\ health'.result.programs = {}
    BY <1>4, <1>5, <2>1 DEF IsResult
  <2>4. world' = world /\ world.configured \subseteq ProgramIds
    BY <1>2 DEF HealthInv, Worlds
  <2> QED
    BY <1>1, <2>2, <2>3, <2>4 DEF ShowsTruth
<1> QED
  BY <1>2, <1>5, <1>6 DEF HealthInv, ShowsTruth, TellsApi

\* Each program that is checked is one less to do.
LEMMA ProgramInv ==
    ASSUME HealthInv, tool = "health", UNCHANGED tool, NEW p \in ProgramIds, CheckPrograms(p)
    PROVE  HealthInv'
<1> DEFINE here == p \in world.configured \intersect world.executable /\ world.rpc # "down"
           programs == IF here THEN health.result.programs \union {p} ELSE health.result.programs
<1>1. /\ health' = [health EXCEPT !.todo = @ \ {p}, !.result.programs = programs]
      /\ health.at = "programs" /\ UNCHANGED <<world, saved, shifted>>
  BY DEF CheckPrograms
<1> HIDE DEF programs
<1>2. /\ health'.at = "programs" /\ health'.todo = health.todo \ {p}
      /\ health'.result = [health.result EXCEPT !.programs = programs]
      /\ health' = [at |-> health'.at, todo |-> health'.todo, result |-> health'.result]
  BY <1>1 DEF HealthInv
<1>3. /\ IsResult(health'.result) /\ health'.result.programs = programs
      /\ health'.result.rpc = health.result.rpc /\ health'.result.issues = health.result.issues
  BY <1>2 DEF HealthInv, IsResult
<1>4. ~shifted.check => ShowsTruth(health'.result, health'.todo)
  <2> SUFFICES ASSUME ~shifted.check PROVE ShowsTruth(health'.result, health'.todo)
    OBVIOUS
  <2>1. ShowsTruth(health.result, health.todo)
    BY <1>1 DEF HealthInv
  <2>2. programs = IF world.rpc = "down" THEN {}
                   ELSE (world.configured \intersect world.executable) \ (health.todo \ {p})
    BY <2>1, <1>1 DEF ShowsTruth, programs, CheckPrograms
  <2> QED
    BY <1>2, <1>3, <2>1, <2>2 DEF ShowsTruth
<1>5. /\ ~shifted.check => ShowsTruth(health.result, health.todo)'
      /\ ShowsTruth(saved, {})' <=> ShowsTruth(saved, {})
      /\ TellsApi(saved)' <=> TellsApi(saved)
  BY <1>1, <1>4 DEF ShowsTruth, TellsApi
<1>6. IsResult(health.result)'
  BY <1>3 DEF IsResult
<1> QED
  BY <1>1, <1>2, <1>5, <1>6 DEF HealthInv

\* The check of the API ends the result.
LEMMA ApiInv == HealthInv /\ tool = "health" /\ UNCHANGED tool /\ CheckAPI => HealthInv'
<1> SUFFICES ASSUME HealthInv, tool = "health", UNCHANGED tool, CheckAPI PROVE HealthInv'
  OBVIOUS
<1> DEFINE api == CASE world.api = "ok" -> "healthy" [] world.api = "other" -> "failing"
                    [] OTHER -> "unknown"
           issue == CASE world.api = "ok" -> {} [] world.api = "other" -> {"API returned status"}
                      [] OTHER -> {"API check skipped"}
           issues == health.result.issues \union issue
<1>1. /\ health' = [health EXCEPT !.at = "save", !.result.api = api, !.result.issues = issues]
      /\ health.at = "programs" /\ health.todo = {} /\ UNCHANGED <<world, saved, shifted>>
  BY DEF CheckAPI
<1>2. world.api \in {"ok", "other", "down"}
  BY DEF HealthInv, Worlds
<1>3. api = "healthy" <=> world.api = "ok"
  BY <1>2
<1>4. issue \in {{}, {"API returned status"}, {"API check skipped"}}
  BY <1>2
<1> HIDE DEF api, issue
<1>5. RpcIssues \subseteq issues <=> RpcIssues \subseteq health.result.issues
  BY <1>4 DEF RpcIssues
<1> HIDE DEF issues
<1>6. /\ health'.at = "save"
      /\ health'.result = [health.result EXCEPT !.api = api, !.issues = issues]
      /\ health' = [at |-> health'.at, todo |-> health'.todo, result |-> health'.result]
  BY <1>1 DEF HealthInv
<1>7. /\ IsResult(health'.result) /\ health'.result.programs = health.result.programs
      /\ health'.result.rpc = health.result.rpc /\ health'.result.issues = issues
      /\ health'.result.api = api
  BY <1>6 DEF HealthInv, IsResult
<1>8. ~shifted.check => ShowsTruth(health'.result, {}) /\ TellsApi(health'.result)
  BY <1>1, <1>3, <1>5, <1>7 DEF HealthInv, ShowsTruth, TellsApi
<1> QED
  BY <1>1, <1>6, <1>7, <1>8 DEF HealthInv, ShowsTruth, TellsApi

\* The report is the result, with issues that do not concern the node.
LEMMA SaveInv == HealthInv /\ tool = "health" /\ UNCHANGED tool /\ SaveReport => HealthInv'
<1> SUFFICES ASSUME HealthInv, tool = "health", UNCHANGED tool, SaveReport PROVE HealthInv'
  OBVIOUS
<1> DEFINE issues == health.result.issues \union Unchecked
<1>1. /\ health.at = "save" /\ UNCHANGED world
      /\ health' = [at |-> "idle", todo |-> {}, result |-> NoResult]
      /\ IsResult(NoResult)
  BY DEF SaveReport, IsResult, NoResult
<1>2. CASE UNCHANGED <<saved, shifted>>
  BY <1>1, <1>2 DEF HealthInv, ShowsTruth, TellsApi
<1>3. CASE /\ saved' = [health.result EXCEPT !.issues = issues]
           /\ shifted' = [shifted EXCEPT !.report = shifted.check]
  <2>1. RpcIssues \subseteq issues <=> RpcIssues \subseteq health.result.issues
    BY DEF RpcIssues, Unchecked
  <2> HIDE DEF issues
  <2>2. /\ saved'.rpc = health.result.rpc /\ saved'.programs = health.result.programs
        /\ saved'.issues = issues /\ saved'.api = health.result.api
    BY <1>3 DEF HealthInv, IsResult
  <2>3. shifted' \in [check : BOOLEAN, report : BOOLEAN] /\ shifted'.report = shifted.check
    BY <1>3 DEF HealthInv
  <2>4. ~shifted.check => ShowsTruth(saved', {}) /\ TellsApi(saved')
    BY <1>1, <2>1, <2>2 DEF HealthInv, ShowsTruth, TellsApi
  <2> QED
    BY <1>1, <2>3, <2>4 DEF HealthInv, ShowsTruth, TellsApi
<1> QED
  BY <1>2, <1>3 DEF SaveReport

\* A change of the world leaves no check and no report to answer for.
LEMMA WorldInv == HealthInv /\ tool = "health" /\ UNCHANGED tool /\ WorldChanges => HealthInv'
<1> SUFFICES ASSUME HealthInv, tool = "health", UNCHANGED tool, WorldChanges PROVE HealthInv'
  OBVIOUS
<1>1. world' \in Worlds
  <2>1. CASE \E up \in Nodes : world' = [world EXCEPT !.rpc = up]
    BY <2>1 DEF HealthInv, Worlds
  <2>2. CASE \E api \in {"ok", "other", "down"} : world' = [world EXCEPT !.api = api]
    BY <2>2 DEF HealthInv, Worlds
  <2>3. CASE \E p \in ProgramIds : world' = [world EXCEPT !.executable =
                 IF p \in @ THEN @ \ {p} ELSE @ \union {p}]
    BY <2>3 DEF HealthInv, Worlds
  <2> QED
    BY <2>1, <2>2, <2>3 DEF WorldChanges
<1>2. shifted' = [check |-> TRUE, report |-> TRUE] /\ UNCHANGED <<health, saved>>
  BY DEF WorldChanges
<1> QED
  BY <1>1, <1>2 DEF HealthInv

\* Each check keeps what is known of the world as it was when it began.
LEMMA HealthStep == HealthInv /\ [Next]_vars => HealthInv'
<1> SUFFICES ASSUME HealthInv, UNCHANGED tool, (tool = "health" /\ Health) \/ UNCHANGED healthVars
             PROVE  HealthInv'
  BY HealthSteps
<1>1. CASE UNCHANGED healthVars
  BY <1>1 DEF healthVars, HealthInv, ShowsTruth, TellsApi
<1>2. CASE tool = "health" /\ RunFullCheck
  <2>1. /\ health' = [at |-> "rpc", todo |-> {}, result |-> NoResult]
        /\ shifted' = [shifted EXCEPT !.check = FALSE]
        /\ UNCHANGED <<world, saved>>
    BY <1>2 DEF RunFullCheck
  <2>2. IsResult(NoResult) /\ NoResult.programs = {}
    BY DEF IsResult, NoResult
  <2> QED
    BY <1>2, <2>1, <2>2 DEF HealthInv, ShowsTruth, TellsApi
<1> QED
  BY <1>1, <1>2, RpcInv, ProgramInv, ApiInv, SaveInv, WorldInv DEF Health

\* When nothing changed since the check began, its report says what is the case
\* (health-check.ts:45-308), for any number of programs and rounds of --continuous.
THEOREM ReportIsTrue == Spec => []QuietReportIsTrue
<1>1. HealthInv => QuietReportIsTrue
  BY DEF HealthInv, QuietReportIsTrue, ShowsTruth, TellsApi, RpcIssues
<1> QED
  BY <1>1, HealthInitially, HealthStep, PTL DEF Spec

------------------------------------------------------------------------------
(* The checklist tracker                                                     *)

Parsed == {ParseChecklist(lines) : lines \in ChecklistFiles}

\* The summary, if there is one, is that of the checklists, which stay as they are from the
\* first analysis on; only one that shows enough progress is followed by an exit with 0.
TrackerInv ==
    tool = "checklist" =>
        /\ files \in [1 .. Files -> ChecklistFiles]
        /\ tracker = [at |-> tracker.at, options |-> tracker.options, read |-> tracker.read,
                      checklists |-> tracker.checklists, exit |-> tracker.exit]
        /\ tracker.read \in Nat /\ tracker.checklists \in Seq(Parsed)
        /\ tracker.at \in {"start", "load"} => summary = NoSummary
        /\ \A lists : lists = tracker.checklists /\ summary # NoSummary =>
              summary = Aggregate(NoSummary, lists)
        /\ tracker.at = "exit" /\ tracker.exit = 0 /\ summary # NoSummary =>
              ~(summary.overallPercentage < 50)

LEMMA TrackerInitially == Init => TrackerInv
<1> SUFFICES ASSUME TrackerInit PROVE TrackerInv
  BY DEF Init, NoTool, ToolingInit, TrackerInv
<1>1. << >> \in Seq(Parsed)
  OBVIOUS
<1> QED
  BY <1>1 DEF TrackerInit, TrackerInv

\* Only the tracker changes what it has read and found.
LEMMA TrackerSteps == [Next]_vars =>
    /\ UNCHANGED tool
    /\ (tool = "checklist" /\ Track) \/ UNCHANGED trackerVars
  BY DEF Next, ToolingNext, vars, toolVars

TrackerGoesTo(at, exit) ==
    /\ tracker' = [tracker EXCEPT !.at = at, !.exit = exit]
    /\ at \notin {"start", "load"}
    /\ \/ summary' = summary /\ at # "exit"
       \/ summary' = Aggregate(NoSummary, tracker.checklists)
    /\ at = "exit" /\ exit = 0 => ~(summary'.overallPercentage < 50)

\* The process goes on or ends, and has what it had.
LEMMA TrackerGoes ==
    ASSUME TrackerInv, tool = "checklist", UNCHANGED <<tool, files>>, NEW at, NEW exit,
           TrackerGoesTo(at, exit)
    PROVE  TrackerInv'
<1>1. /\ tracker'.at = at /\ tracker'.exit = exit /\ tracker'.read = tracker.read
      /\ tracker'.checklists = tracker.checklists
      /\ tracker' = [at |-> tracker'.at, options |-> tracker'.options, read |-> tracker'.read,
                     checklists |-> tracker'.checklists, exit |-> tracker'.exit]
  BY DEF TrackerInv, TrackerGoesTo
<1>2. NoSummary' = NoSummary
  BY DEF NoSummary
<1>3. Seq(Parsed)' = Seq(Parsed)
  BY DEF Parsed
<1> QED
  BY <1>1, <1>2, <1>3 DEF TrackerInv, TrackerGoesTo

\* A file that is read is one of those the tracker was called with.
LEMMA LoadInv == TrackerInv /\ tool = "checklist" /\ UNCHANGED tool /\ LoadChecklists => TrackerInv'
<1> SUFFICES ASSUME TrackerInv, tool = "checklist", UNCHANGED tool, LoadChecklists
             PROVE  TrackerInv'
  OBVIOUS
<1>1. PICK readable \in BOOLEAN :
         tracker' = [tracker EXCEPT
            !.read = @ + 1,
            !.checklists = IF readable THEN Append(@, ParseChecklist(files[tracker.read + 1]))
                           ELSE @]
  BY DEF LoadChecklists
<1>2. /\ tracker.at = "load" /\ tracker.read < Files /\ UNCHANGED <<files, summary>>
      /\ summary = NoSummary
  BY DEF LoadChecklists, TrackerInv
<1>3. ParseChecklist(files[tracker.read + 1]) \in Parsed
  <2>1. tracker.read + 1 \in 1 .. Files
    BY <1>2, FilesAreSoMany DEF TrackerInv
  <2>2. files[tracker.read + 1] \in ChecklistFiles
    BY <2>1 DEF TrackerInv
  <2> QED
    BY <2>2 DEF Parsed
<1> DEFINE loaded == ParseChecklist(files[tracker.read + 1])
<1> HIDE DEF loaded
<1>4. /\ tracker'.at = "load" /\ tracker'.read = tracker.read + 1
      /\ tracker'.checklists = IF readable THEN Append(tracker.checklists, loaded)
                               ELSE tracker.checklists
      /\ tracker' = [at |-> tracker'.at, options |-> tracker'.options, read |-> tracker'.read,
                     checklists |-> tracker'.checklists, exit |-> tracker'.exit]
  BY <1>1, <1>2 DEF TrackerInv, loaded
<1>5. tracker'.checklists \in Seq(Parsed)
  <2>1. loaded \in Parsed /\ tracker.checklists \in Seq(Parsed)
    BY <1>3 DEF TrackerInv, loaded
  <2>2. Append(tracker.checklists, loaded) \in Seq(Parsed)
    BY <2>1, AppendProperties
  <2> QED
    BY <1>4, <2>1, <2>2
<1>6. tracker'.read \in Nat
  BY <1>4 DEF TrackerInv
<1>7. NoSummary' = NoSummary /\ Seq(Parsed)' = Seq(Parsed)
  BY DEF NoSummary, Parsed
<1> QED
  BY <1>2, <1>4, <1>5, <1>6, <1>7 DEF TrackerInv

LEMMA TrackerStep == TrackerInv /\ [Next]_vars => TrackerInv'
<1> SUFFICES ASSUME TrackerInv, UNCHANGED tool,
                    (tool = "checklist" /\ Track) \/ UNCHANGED trackerVars
             PROVE  TrackerInv'
  BY TrackerSteps
<1>1. NoSummary' = NoSummary /\ Seq(Parsed)' = Seq(Parsed)
  BY DEF NoSummary, Parsed
<1>2. CASE UNCHANGED trackerVars
  BY <1>1, <1>2 DEF trackerVars, TrackerInv
<1>3. CASE tool = "checklist" /\ ParseArguments
  <2>1. tracker.at = "start" /\ UNCHANGED <<files, summary>> /\ summary = NoSummary
    BY <1>3 DEF ParseArguments, TrackerInv
  <2>2. ASSUME NEW code, Exit(code) PROVE TrackerInv'
    <3>1. /\ tracker' = [tracker EXCEPT !.at = "exit", !.exit = code]
          /\ tracker'.at = "exit" /\ tracker'.read = tracker.read
          /\ tracker'.checklists = tracker.checklists
          /\ tracker' = [at |-> tracker'.at, options |-> tracker'.options,
                         read |-> tracker'.read, checklists |-> tracker'.checklists,
                         exit |-> tracker'.exit]
      BY <1>3, <2>2 DEF Exit, TrackerInv
    <3> QED
      BY <1>1, <1>3, <2>1, <3>1 DEF TrackerInv
  <2>3. ASSUME NEW display, NEW output,
               tracker' = [tracker EXCEPT !.at = "load", !.options.display = display,
                                          !.options.output = output]
        PROVE  TrackerInv'
    <3>1. /\ tracker'.at = "load" /\ tracker'.read = tracker.read
          /\ tracker'.checklists = tracker.checklists
          /\ tracker' = [at |-> tracker'.at, options |-> tracker'.options,
                         read |-> tracker'.read, checklists |-> tracker'.checklists,
                         exit |-> tracker'.exit]
      BY <1>3, <2>3 DEF TrackerInv
    <3> QED
      BY <1>1, <1>3, <2>1, <3>1 DEF TrackerInv
  <2> QED
    BY <1>3, <2>2, <2>3 DEF ParseArguments
<1>4. CASE tool = "checklist" /\ DisplayReport
  <2>1. /\ tracker' = [tracker EXCEPT !.at = "save", !.exit = tracker.exit]
        /\ UNCHANGED files
        /\ summary' = summary \/ summary' = Aggregate(NoSummary, tracker.checklists)
    BY <1>4 DEF DisplayReport, Analyze, TrackerInv
  <2>2. TrackerGoesTo("save", tracker.exit)
    BY <2>1 DEF TrackerGoesTo
  <2> QED
    BY <1>4, <2>1, <2>2, TrackerGoes
<1>5. CASE tool = "checklist" /\ SaveTrackerReport
  <2>1. /\ UNCHANGED files
        /\ summary' = summary \/ summary' = Aggregate(NoSummary, tracker.checklists)
    BY <1>5 DEF SaveTrackerReport, Analyze
  <2>2. CASE tracker' = [tracker EXCEPT !.at = "rate"]
    <3>1. tracker' = [tracker EXCEPT !.at = "rate", !.exit = tracker.exit]
      BY <1>5, <2>2 DEF TrackerInv
    <3>2. TrackerGoesTo("rate", tracker.exit)
      BY <2>1, <3>1 DEF TrackerGoesTo
    <3> QED
      BY <1>5, <2>1, <3>2, TrackerGoes
  <2>3. CASE Exit(1) /\ summary' = Aggregate(NoSummary, tracker.checklists)
    <3>1. tracker' = [tracker EXCEPT !.at = "exit", !.exit = 1]
      BY <2>3 DEF Exit
    <3>2. TrackerGoesTo("exit", 1)
      BY <2>3, <3>1 DEF TrackerGoesTo
    <3> QED
      BY <1>5, <2>1, <3>2, TrackerGoes
  <2> QED
    BY <1>5, <2>2, <2>3 DEF SaveTrackerReport, Analyze
<1>6. CASE tool = "checklist" /\ Rate
  <2> DEFINE code == IF summary'.overallPercentage < 50 THEN 1 ELSE 0
  <2>1. /\ tracker' = [tracker EXCEPT !.at = "exit", !.exit = code]
        /\ UNCHANGED files /\ summary' = Aggregate(NoSummary, tracker.checklists)
    BY <1>6 DEF Rate, Analyze, Exit
  <2>2. code = 0 => ~(summary'.overallPercentage < 50)
    OBVIOUS
  <2> HIDE DEF code
  <2>3. TrackerGoesTo("exit", code)
    BY <2>1, <2>2 DEF TrackerGoesTo
  <2> QED
    BY <1>6, <2>1, <2>3, TrackerGoes
<1> QED
  BY <1>2, <1>3, <1>4, <1>5, <1>6, LoadInv DEF Track

\* Lines that the parser tells apart (checklist-tracker.js:68-119).
LEMMA LinesAre ==
    ASSUME NEW f \in ChecklistFiles
    PROVE  /\ IsFiniteSet(DOMAIN f) /\ DOMAIN f \in SUBSET Nat /\ DOMAIN f = 1 .. Len(f)
           /\ \A i \in DOMAIN f : f[i].kind = "item" => f[i].mark \in Marks
           /\ \A i \in DOMAIN f : f[i].kind = "phase" => f[i].number \in Nat
<1>1. f \in Seq(Line)
  BY FilesAreLines
<1>2. DOMAIN f = 1 .. Len(f) /\ Len(f) \in Nat
  BY <1>1
<1>3. IsFiniteSet(1 .. Len(f))
  BY <1>2, Intervals
<1>4. ASSUME NEW i \in DOMAIN f
      PROVE  /\ f[i].kind = "item" => f[i].mark \in Marks
             /\ f[i].kind = "phase" => f[i].number \in Nat
  <2>1. f[i] \in Line
    BY <1>1, <1>2
  <2>2. CASE f[i] \in [kind : {"phase"}, number : Nat]
    BY <2>2
  <2>3. CASE f[i] \in [kind : {"item"}, mark : Marks, owner : STRING, due : BOOLEAN]
    BY <2>3
  <2> QED
    BY <2>1, <2>2, <2>3 DEF Line
<1> QED
  BY <1>2, <1>3, <1>4

\* The items of a file are done, in progress or not started.
LEMMA ItemsAre ==
    ASSUME NEW f \in ChecklistFiles
    PROVE  /\ IsFiniteSet(Items(f)) /\ Items(f) \in SUBSET Nat
           /\ Parts(Completed(f), Items(f) \ Completed(f), Items(f))
           /\ Parts(InProgress(f), NotStarted(f), Items(f) \ Completed(f))
<1>1. /\ IsFiniteSet(DOMAIN f) /\ DOMAIN f \in SUBSET Nat
      /\ \A i \in DOMAIN f : f[i].kind = "item" => f[i].mark \in Marks
  BY LinesAre
<1>2. Items(f) \in SUBSET DOMAIN f /\ \A i \in Items(f) : f[i].kind = "item"
  BY DEF Items
<1>3. IsFiniteSet(Items(f))
  BY <1>1, <1>2, FS_Subset
<1>4. \A i \in Items(f) : f[i].mark \in {"open", "in_progress", "done"}
  BY <1>1, <1>2 DEF Marks
<1>5. Parts(Completed(f), Items(f) \ Completed(f), Items(f))
  BY DEF Parts, Completed
<1>6. Parts(InProgress(f), NotStarted(f), Items(f) \ Completed(f))
  BY <1>4 DEF Parts, InProgress, NotStarted, Completed
<1> QED
  BY <1>1, <1>2, <1>3, <1>5, <1>6

\* Each item is in a phase of its file.
LEMMA PhasesAre ==
    ASSUME NEW f \in ChecklistFiles
    PROVE  /\ IsFiniteSet(Phases(f)) /\ Phases(f) \in SUBSET Nat
           /\ \A i \in Items(f) : PhaseOf(f, i) \in Phases(f)
<1> DEFINE headings == {j \in DOMAIN f : f[j].kind = "phase"}
           title == [j \in headings |-> f[j].number]
<1>1. /\ IsFiniteSet(DOMAIN f) /\ DOMAIN f \in SUBSET Nat /\ DOMAIN f = 1 .. Len(f)
      /\ \A i \in DOMAIN f : f[i].kind = "phase" => f[i].number \in Nat
  BY LinesAre
<1>2. headings \in SUBSET DOMAIN f /\ \A j \in headings : f[j].number \in Nat
  BY <1>1
<1>3. Phases(f) = {f[j].number : j \in headings}
  BY DEF Phases
<1>4. IsFiniteSet(headings)
  BY <1>1, <1>2, FS_Subset
<1>5. IsFiniteSet(Phases(f))
  <2>1. title \in Surjection(headings, Phases(f))
    <3>1. title \in [headings -> Phases(f)]
      BY <1>3
    <3>2. \A n \in Phases(f) : \E j \in headings : title[j] = n
      BY <1>3
    <3> QED
      BY <3>1, <3>2 DEF Surjection
  <2> HIDE DEF headings, title
  <2> QED
    BY <1>4, <2>1, FS_Surjection
<1>6. Phases(f) \in SUBSET Nat
  BY <1>2, <1>3
<1>7. ASSUME NEW i \in Items(f) PROVE PhaseOf(f, i) \in Phases(f)
  <2> DEFINE earlier == {j \in 1 .. i : f[j].kind = "phase"}
             gaps == {i - j : j \in earlier}
  <2>1. i \in DOMAIN f /\ earlier # {} /\ i \in Nat
    BY <1>1 DEF Items
  <2>2. earlier \in SUBSET headings /\ earlier \in SUBSET Nat
    BY <1>1, <2>1
  <2>3. gaps \in SUBSET Nat /\ gaps # {}
    BY <2>1
  <2>4. PICK d \in gaps : \A e \in gaps : d <= e
    <3> HIDE DEF gaps
    <3> QED
      BY <2>3, Least
  <2>5. PICK j \in earlier : d = i - j
    OBVIOUS
  <2>6. ASSUME NEW k \in earlier PROVE j >= k
    <3>1. i - k \in gaps
      OBVIOUS
    <3>2. i - j <= i - k
      BY <2>4, <2>5, <3>1
    <3> QED
      BY <2>1, <2>2, <3>2
  <2>7. Max(earlier) \in earlier
    BY <2>6 DEF Max
  <2>8. PhaseOf(f, i) = f[Max(earlier)].number
    BY DEF PhaseOf
  <2> HIDE DEF earlier, headings
  <2> QED
    BY <1>3, <2>2, <2>7, <2>8
<1> QED
  BY <1>5, <1>6, <1>7

\* What was loaded are files that were parsed.
LEMMA ListsAre ==
    ASSUME NEW lists \in Seq(Parsed)
    PROVE  /\ Len(lists) \in Nat /\ DOMAIN lists = 1 .. Len(lists)
           /\ \A c \in DOMAIN lists :
                 /\ lists[c].lines \in ChecklistFiles
                 /\ lists[c].stats.total = Cardinality(Items(lists[c].lines))
                 /\ lists[c].stats.completed = Cardinality(Completed(lists[c].lines))
                 /\ lists[c].stats.inProgress = Cardinality(InProgress(lists[c].lines))
                 /\ lists[c].stats.notStarted = Cardinality(NotStarted(lists[c].lines))
<1>1. Len(lists) \in Nat /\ DOMAIN lists = 1 .. Len(lists)
  OBVIOUS
<1>2. ASSUME NEW c \in DOMAIN lists
      PROVE  /\ lists[c].lines \in ChecklistFiles
             /\ lists[c].stats.total = Cardinality(Items(lists[c].lines))
             /\ lists[c].stats.completed = Cardinality(Completed(lists[c].lines))
             /\ lists[c].stats.inProgress = Cardinality(InProgress(lists[c].lines))
             /\ lists[c].stats.notStarted = Cardinality(NotStarted(lists[c].lines))
  <2>1. lists[c] \in Parsed
    BY <1>1
  <2>2. PICK f \in ChecklistFiles : lists[c] = ParseChecklist(f)
    BY <2>1 DEF Parsed
  <2> QED
    BY <2>2 DEF ParseChecklist
<1> QED
  BY <1>1, <1>2

\* The sizes that Counted adds.
LEMMA CountedSizes ==
    ASSUME NEW N \in Nat, NEW sets, DOMAIN sets = 1 .. N, AllFinite(sets, N),
           NEW a, a = [c \in DOMAIN sets |-> Cardinality(sets[c])]
    PROVE  Sizes(a, sets, N) /\ Counted(sets) = Sum(a) /\ Sum(a) \in Nat
<1>1. Sizes(a, sets, N)
  BY FS_CardinalityType DEF Sizes, Numbers, AllFinite
<1>2. Sum(a) \in Nat
  BY <1>1, SumIsNatural DEF Sizes
<1> QED
  BY <1>1, <1>2 DEF Counted

NumbersOf(lists) == UNION {Phases(lists[c].lines) : c \in DOMAIN lists}

LEMMA NumbersAre ==
    ASSUME NEW lists \in Seq(Parsed)
    PROVE  IsFiniteSet(NumbersOf(lists)) /\ NumbersOf(lists) \in SUBSET Nat
<1> DEFINE each == {Phases(lists[c].lines) : c \in DOMAIN lists}
           phases == [c \in DOMAIN lists |-> Phases(lists[c].lines)]
<1>1. /\ Len(lists) \in Nat /\ DOMAIN lists = 1 .. Len(lists)
      /\ \A c \in DOMAIN lists : lists[c].lines \in ChecklistFiles
  BY ListsAre
<1>2. \A p \in each : IsFiniteSet(p) /\ p \in SUBSET Nat
  BY <1>1, PhasesAre
<1>3. IsFiniteSet(DOMAIN lists)
  BY <1>1, Intervals
<1>4. phases \in Surjection(DOMAIN lists, each)
  BY DEF Surjection
<1> HIDE DEF each, phases
<1>5. IsFiniteSet(each)
  BY <1>3, <1>4, FS_Surjection
<1>6. IsFiniteSet(UNION each)
  BY <1>2, <1>5, FS_UNION
<1>7. NumbersOf(lists) = UNION each
  BY DEF NumbersOf, each
<1> QED
  BY <1>2, <1>6, <1>7

\* Some of the items of each file.
Chosen(sets, lists) ==
    DOMAIN sets = DOMAIN lists /\ \A c \in DOMAIN lists : sets[c] \subseteq Items(lists[c].lines)

LEMMA ChosenAre ==
    ASSUME NEW lists \in Seq(Parsed), NEW sets, Chosen(sets, lists)
    PROVE  AllFinite(sets, Len(lists))
<1> SUFFICES ASSUME NEW c \in DOMAIN lists PROVE IsFiniteSet(sets[c])
  BY ListsAre DEF AllFinite
<1>1. lists[c].lines \in ChecklistFiles
  BY ListsAre
<1>2. IsFiniteSet(Items(lists[c].lines))
  BY <1>1, ItemsAre
<1> QED
  BY <1>2, FS_Subset DEF Chosen

\* How many of them are in each phase.
PhaseCounts(b, list, sets, lists) ==
    /\ DOMAIN b = DOMAIN list
    /\ \A k \in DOMAIN list :
          b[k] = Counted([c \in DOMAIN lists |-> InPhase(lists[c].lines, list[k])
                                                   \intersect sets[c]])

\* Items add up over the phases as they do over the files.
LEMMA PhasesAddUp ==
    ASSUME NEW lists \in Seq(Parsed), NEW sets, Chosen(sets, lists),
           NEW list, Lists(list, NumbersOf(lists), Ascending(NumbersOf(lists))),
           NEW b, PhaseCounts(b, list, sets, lists)
    PROVE  /\ Sum(b) = Counted(sets)
           /\ Numbers(b, Cardinality(NumbersOf(lists)))
<1> DEFINE N == Len(lists)
           S == NumbersOf(lists)
           group == [n \in S |-> [c \in DOMAIN lists |-> InPhase(lists[c].lines, n)
                                                           \intersect sets[c]]]
           size == [n \in S |-> [c \in DOMAIN lists |-> Cardinality(group[n][c])]]
           a == [c \in DOMAIN sets |-> Cardinality(sets[c])]
<1>1. /\ N \in Nat /\ DOMAIN lists = 1 .. N
      /\ \A c \in 1 .. N : lists[c].lines \in ChecklistFiles
  BY ListsAre
<1>2. DOMAIN sets = 1 .. N /\ \A c \in 1 .. N : sets[c] \subseteq Items(lists[c].lines)
  BY <1>1 DEF Chosen
<1>3. AllFinite(sets, N)
  BY ChosenAre
<1>4. Sizes(a, sets, N) /\ Counted(sets) = Sum(a)
  BY <1>1, <1>2, <1>3, CountedSizes
<1>5. IsFiniteSet(S) /\ S \in SUBSET Nat
  BY NumbersAre
<1>6. ASSUME NEW n \in S
      PROVE  Sizes(size[n], group[n], N) /\ Counted(group[n]) = Sum(size[n])
             /\ Sum(size[n]) \in Nat
  <2>1. DOMAIN group[n] = 1 .. N /\ \A c \in 1 .. N : group[n][c] \subseteq sets[c]
    BY <1>1
  <2>2. AllFinite(group[n], N)
    BY <1>3, <2>1, FS_Subset DEF AllFinite
  <2>3. size[n] = [c \in DOMAIN group[n] |-> Cardinality(group[n][c])]
    OBVIOUS
  <2> HIDE DEF group, size, N
  <2> QED
    BY <1>1, <2>1, <2>2, <2>3, CountedSizes
<1>7. Groups(group, sets, S, N)
  <2>1. \A n \in S : \A c \in 1 .. N : group[n][c] = InPhase(lists[c].lines, n) \intersect sets[c]
    BY <1>1
  <2>2. ASSUME NEW c \in 1 .. N, NEW i \in sets[c]
        PROVE  \E n \in S : i \in group[n][c]
    <3>1. i \in Items(lists[c].lines)
      BY <1>2
    <3>2. PhaseOf(lists[c].lines, i) \in Phases(lists[c].lines)
      BY <1>1, <3>1, PhasesAre
    <3>3. PhaseOf(lists[c].lines, i) \in S
      BY <1>1, <3>2 DEF NumbersOf
    <3>4. i \in InPhase(lists[c].lines, PhaseOf(lists[c].lines, i))
      BY <3>1 DEF InPhase
    <3> HIDE DEF S, group
    <3> QED
      BY <2>1, <3>3, <3>4
  <2>3. ASSUME NEW m \in S, NEW n \in S, NEW c \in 1 .. N, NEW i,
               i \in group[m][c], i \in group[n][c]
        PROVE  m = n
    <3>1. i \in InPhase(lists[c].lines, m) /\ i \in InPhase(lists[c].lines, n)
      BY <2>1, <2>3
    <3> QED
      BY <3>1 DEF InPhase
  <2>4. \A n \in S : \A c \in 1 .. N : group[n][c] \subseteq sets[c]
    BY <2>1
  <2> HIDE DEF group, S
  <2> QED
    BY <2>2, <2>3, <2>4 DEF Groups
<1>8. /\ Cardinality(S) \in Nat /\ DOMAIN list = 1 .. Cardinality(S)
      /\ \A k \in 1 .. Cardinality(S) : list[k] \in S
  BY DEF Lists
<1>9. ASSUME NEW k \in 1 .. Cardinality(S) PROVE b[k] = Sum(size[list[k]]) /\ b[k] \in Nat
  <2>1. list[k] \in S /\ k \in DOMAIN list
    BY <1>8
  <2>2. b[k] = Counted(group[list[k]])
    BY <2>1 DEF PhaseCounts
  <2> HIDE DEF group, size
  <2> QED
    BY <1>6, <2>1, <2>2
<1> HIDE DEF group, size, a, N, S
<1>10. Numbers(b, Cardinality(S))
  BY <1>8, <1>9 DEF Numbers, PhaseCounts
<1>11. GroupSizes(size, group, S, N)
  BY <1>6 DEF GroupSizes
<1>12. Lists(list, S, Ascending(S))
  BY DEF S
<1>13. GroupSums(b, size, list, Cardinality(S))
  BY <1>9, <1>10 DEF GroupSums
<1>14. Sum(b) = Sum(a)
  BY <1>1, <1>3, <1>4, <1>5, <1>7, <1>11, <1>12, <1>13, GroupsAdd
<1> QED
  BY <1>4, <1>10, <1>14 DEF S

AllItems(lists)  == [c \in DOMAIN lists |-> Items(lists[c].lines)]
DoneItems(lists) == [c \in DOMAIN lists |-> Completed(lists[c].lines)]
Pending(lists)   == [c \in DOMAIN lists |-> lists[c].stats.inProgress
                                             + lists[c].stats.notStarted]

LEMMA AllAreChosen ==
    ASSUME NEW lists \in Seq(Parsed)
    PROVE  /\ Chosen(AllItems(lists), lists) /\ Chosen(DoneItems(lists), lists)
           /\ AllFinite(AllItems(lists), Len(lists)) /\ AllFinite(DoneItems(lists), Len(lists))
<1>1. Chosen(AllItems(lists), lists) /\ Chosen(DoneItems(lists), lists)
  BY DEF Chosen, AllItems, DoneItems, Completed
<1> QED
  BY <1>1, ChosenAre

\* The totals are those of all items, of which each is done or pending.
LEMMA TotalsAre ==
    ASSUME NEW lists \in Seq(Parsed), NEW s, s = Aggregate(NoSummary, lists)
    PROVE  /\ s.totalItems = Counted(AllItems(lists)) /\ s.totalItems \in Nat
           /\ s.completedItems = Counted(DoneItems(lists)) /\ s.completedItems \in Nat
           /\ s.totalItems = s.completedItems + Sum(Pending(lists))
           /\ s.overallPercentage = Percentage(s.completedItems, s.totalItems)
           /\ s.byPhase = ByPhase(lists) /\ s.byOwner = ByOwner(lists)
           /\ Numbers(Pending(lists), Len(lists))
<1> DEFINE N == Len(lists)
           all == [c \in DOMAIN lists |-> lists[c].stats.total]
           done == [c \in DOMAIN lists |-> lists[c].stats.completed]
           pending == Pending(lists)
<1>1. N \in Nat /\ DOMAIN lists = 1 .. N
  BY ListsAre
<1>2. ASSUME NEW c \in 1 .. N
      PROVE  /\ lists[c].lines \in ChecklistFiles
             /\ all[c] = Cardinality(Items(lists[c].lines))
             /\ done[c] = Cardinality(Completed(lists[c].lines))
             /\ pending[c] = Cardinality(InProgress(lists[c].lines))
                             + Cardinality(NotStarted(lists[c].lines))
  BY <1>1, ListsAre DEF Pending
<1>3. ASSUME NEW c \in 1 .. N
      PROVE  /\ all[c] \in Nat /\ done[c] \in Nat /\ pending[c] \in Nat
             /\ all[c] = done[c] + pending[c]
  <2> DEFINE f == lists[c].lines
  <2>1. f \in ChecklistFiles
    BY <1>2
  <2> HIDE DEF f
  <2>2. /\ IsFiniteSet(Items(f)) /\ Parts(Completed(f), Items(f) \ Completed(f), Items(f))
        /\ Parts(InProgress(f), NotStarted(f), Items(f) \ Completed(f))
    BY <2>1, ItemsAre
  <2>3. /\ Cardinality(Items(f)) = Cardinality(Completed(f)) + Cardinality(Items(f) \ Completed(f))
        /\ IsFiniteSet(Items(f) \ Completed(f)) /\ Cardinality(Completed(f)) \in Nat
        /\ Cardinality(Items(f) \ Completed(f)) \in Nat
    BY <2>2, Parted
  <2>4. /\ Cardinality(Items(f) \ Completed(f))
             = Cardinality(InProgress(f)) + Cardinality(NotStarted(f))
        /\ Cardinality(InProgress(f)) \in Nat /\ Cardinality(NotStarted(f)) \in Nat
    BY <2>2, <2>3, Parted
  <2>5. /\ all[c] = Cardinality(Items(f)) /\ done[c] = Cardinality(Completed(f))
        /\ pending[c] = Cardinality(InProgress(f)) + Cardinality(NotStarted(f))
    BY <1>2 DEF f
  <2> HIDE DEF all, done, pending
  <2> QED
    BY <2>3, <2>4, <2>5
<1>4. DOMAIN all = 1 .. N /\ DOMAIN done = 1 .. N /\ DOMAIN pending = 1 .. N
  BY <1>1 DEF Pending
<1>5. all = [c \in DOMAIN AllItems(lists) |-> Cardinality(AllItems(lists)[c])]
      /\ done = [c \in DOMAIN DoneItems(lists) |-> Cardinality(DoneItems(lists)[c])]
      /\ DOMAIN AllItems(lists) = 1 .. N /\ DOMAIN DoneItems(lists) = 1 .. N
  BY <1>1, <1>2 DEF AllItems, DoneItems
<1>6. /\ s.totalItems = 0 + Sum(all) /\ s.completedItems = 0 + Sum(done)
      /\ s.overallPercentage = Percentage(s.completedItems, s.totalItems)
      /\ s.byPhase = ByPhase(lists) /\ s.byOwner = ByOwner(lists)
  BY DEF Aggregate, NoSummary
<1> HIDE DEF all, done, pending, N
<1>7. Numbers(all, N) /\ Numbers(done, N) /\ Numbers(pending, N)
  BY <1>3, <1>4 DEF Numbers
<1>8. Sum(all) \in Nat /\ Sum(done) \in Nat
  BY <1>1, <1>7, SumIsNatural
<1>9. Sum(all) = Sum(done) + Sum(pending)
  BY <1>1, <1>3, <1>7, SumsAdd
<1>10. AllFinite(AllItems(lists), N) /\ AllFinite(DoneItems(lists), N)
  BY AllAreChosen DEF N
<1>11. Sum(all) = Counted(AllItems(lists))
  BY <1>1, <1>5, <1>10, CountedSizes
<1>12. Sum(done) = Counted(DoneItems(lists))
  BY <1>1, <1>5, <1>10, CountedSizes
<1> QED
  BY <1>6, <1>7, <1>8, <1>9, <1>11, <1>12 DEF pending, N

\* The numbers of the phases in order, and what each adds.
PhaseList(lists) == InOrder(NumbersOf(lists), Ascending(NumbersOf(lists)))
PhaseTotals(lists) ==
    [k \in DOMAIN PhaseList(lists) |-> ByPhase(lists)[PhaseList(lists)[k]].total]
PhaseDone(lists) ==
    [k \in DOMAIN PhaseList(lists) |-> ByPhase(lists)[PhaseList(lists)[k]].completed]

LEMMA PhaseTotalsAddUp ==
    ASSUME NEW lists \in Seq(Parsed)
    PROVE  /\ Lists(PhaseList(lists), NumbersOf(lists), Ascending(NumbersOf(lists)))
           /\ Numbers(PhaseTotals(lists), Cardinality(NumbersOf(lists)))
           /\ Numbers(PhaseDone(lists), Cardinality(NumbersOf(lists)))
           /\ Sum(PhaseTotals(lists)) = Counted(AllItems(lists))
           /\ Sum(PhaseDone(lists)) = Counted(DoneItems(lists))
<1> DEFINE S == NumbersOf(lists)
           list == PhaseList(lists)
           total == PhaseTotals(lists)
           done == PhaseDone(lists)
<1>1. Lists(list, S, Ascending(S))
  <2>1. IsFiniteSet(S) /\ S \in SUBSET Nat
    BY NumbersAre
  <2>2. Orders(Ascending(S), S)
    BY <2>1, AscendingOrders
  <2> QED
    BY <2>1, <2>2, Listed DEF PhaseList
<1>2. \A k \in DOMAIN list : list[k] \in S
  BY <1>1 DEF Lists
<1>3. ASSUME NEW n \in S
      PROVE  /\ ByPhase(lists)[n].total =
                   Counted([c \in DOMAIN lists |-> InPhase(lists[c].lines, n)])
             /\ ByPhase(lists)[n].completed =
                   Counted([c \in DOMAIN lists |->
                       InPhase(lists[c].lines, n) \intersect Completed(lists[c].lines)])
  BY DEF ByPhase, NumbersOf
<1>4. ASSUME NEW n \in S
      PROVE  /\ [c \in DOMAIN lists |-> InPhase(lists[c].lines, n)] =
                   [c \in DOMAIN lists |-> InPhase(lists[c].lines, n) \intersect AllItems(lists)[c]]
             /\ [c \in DOMAIN lists |->
                    InPhase(lists[c].lines, n) \intersect Completed(lists[c].lines)] =
                   [c \in DOMAIN lists |-> InPhase(lists[c].lines, n) \intersect DoneItems(lists)[c]]
  <2>1. ASSUME NEW c \in DOMAIN lists
        PROVE  InPhase(lists[c].lines, n) =
                  InPhase(lists[c].lines, n) \intersect AllItems(lists)[c]
    BY DEF AllItems, InPhase
  <2>2. ASSUME NEW c \in DOMAIN lists
        PROVE  InPhase(lists[c].lines, n) \intersect Completed(lists[c].lines) =
                  InPhase(lists[c].lines, n) \intersect DoneItems(lists)[c]
    BY DEF DoneItems
  <2> QED
    BY <2>1, <2>2
<1>5. Chosen(AllItems(lists), lists) /\ Chosen(DoneItems(lists), lists)
  BY AllAreChosen
<1>6. ASSUME NEW k \in DOMAIN list
      PROVE  /\ total[k] = Counted([c \in DOMAIN lists |->
                               InPhase(lists[c].lines, list[k]) \intersect AllItems(lists)[c]])
             /\ done[k] = Counted([c \in DOMAIN lists |->
                               InPhase(lists[c].lines, list[k]) \intersect DoneItems(lists)[c]])
  <2>1. list[k] \in S
    BY <1>2
  <2>2. total[k] = ByPhase(lists)[list[k]].total /\ done[k] = ByPhase(lists)[list[k]].completed
    BY DEF PhaseTotals, PhaseDone
  <2> HIDE DEF list, total, done, S
  <2> QED
    BY <1>3, <1>4, <2>1, <2>2
<1>7. DOMAIN total = DOMAIN list /\ DOMAIN done = DOMAIN list
  BY DEF PhaseTotals, PhaseDone
<1> HIDE DEF list, total, done, S
<1>8. Lists(list, NumbersOf(lists), Ascending(NumbersOf(lists)))
  BY <1>1 DEF S
<1>9. /\ PhaseCounts(total, list, AllItems(lists), lists)
      /\ PhaseCounts(done, list, DoneItems(lists), lists)
  BY <1>6, <1>7 DEF PhaseCounts
<1>10. Sum(total) = Counted(AllItems(lists)) /\ Numbers(total, Cardinality(NumbersOf(lists)))
  BY <1>5, <1>8, <1>9, PhasesAddUp
<1>11. Sum(done) = Counted(DoneItems(lists)) /\ Numbers(done, Cardinality(NumbersOf(lists)))
  BY <1>5, <1>8, <1>9, PhasesAddUp
<1> QED
  BY <1>8, <1>10, <1>11 DEF list, total, done

\* A percentage of two numbers is one.
LEMMA PercentageIs ==
    ASSUME NEW part \in Nat, NEW total \in Nat
    PROVE  Percentage(part, total) \in Nat
<1>1. CASE total = 0
  BY <1>1 DEF Percentage
<1>2. CASE total > 0
  <2> DEFINE a == 200 * part + total
             b == 2 * total
  <2>1. a \in Nat /\ b \in Nat /\ b > 0
    BY <1>2
  <2>2. Percentage(part, total) = a \div b
    BY <1>2 DEF Percentage
  <2> HIDE DEF a, b
  <2> QED
    BY <2>1, <2>2
<1> QED
  BY <1>1, <1>2

\* A larger share has no smaller percentage, in spite of the rounding.
LEMMA PercentageGrows ==
    ASSUME NEW part \in Nat, NEW total \in Nat, total > 0,
           NEW whole \in Nat, NEW all \in Nat, all > 0,
           whole * total <= all * part
    PROVE  Percentage(whole, all) <= Percentage(part, total)
<1> DEFINE q == (200 * whole + all) \div (2 * all)
           r == (200 * part + total) \div (2 * total)
<1>1. Percentage(whole, all) = q /\ Percentage(part, total) = r
  BY DEF Percentage
<1>2. q \in Nat /\ (2 * all) * q <= 200 * whole + all
  <2> DEFINE a == 200 * whole + all
             b == 2 * all
  <2>1. a \in Nat /\ b \in Nat /\ b > 0
    OBVIOUS
  <2> HIDE DEF a, b
  <2>2. a \div b \in Nat /\ b * (a \div b) <= a
    BY <2>1
  <2> QED
    BY <2>2 DEF a, b
<1>3. r \in Nat /\ 200 * part + total < (2 * total) * (r + 1)
  <2> DEFINE a == 200 * part + total
             b == 2 * total
  <2>1. a \in Nat /\ b \in Nat /\ b > 0
    OBVIOUS
  <2> HIDE DEF a, b
  <2>2. a \div b \in Nat /\ a < b * ((a \div b) + 1)
    BY <2>1
  <2> QED
    BY <2>2 DEF a, b
<1> HIDE DEF q, r
<1> SUFFICES ASSUME r < q PROVE FALSE
  BY <1>1, <1>2, <1>3
<1>4. (2 * total) * (r + 1) <= (2 * total) * q
  <2>1. r + 1 <= q /\ 2 * total \in Nat
    BY <1>2, <1>3
  <2>2. PICK d \in Nat : q = (r + 1) + d
    <3>1. q - (r + 1) \in Nat /\ q = (r + 1) + (q - (r + 1))
      BY <1>2, <1>3, <2>1
    <3> QED
      BY <3>1
  <2>3. (2 * total) * ((r + 1) + d) = (2 * total) * (r + 1) + (2 * total) * d
    BY <1>3
  <2>4. (2 * total) * d \in Nat /\ (2 * total) * (r + 1) \in Nat
    BY <1>3, <2>1
  <2> QED
    BY <2>2, <2>3, <2>4
<1>5. 200 * part + total < (2 * total) * q
  <2>1. (2 * total) * (r + 1) \in Nat /\ (2 * total) * q \in Nat
    BY <1>2, <1>3
  <2> QED
    BY <1>3, <1>4, <2>1
<1>6. all * (200 * part + total) < all * ((2 * total) * q)
  <2> DEFINE x == 200 * part + total
             y == (2 * total) * q
  <2>1. x \in Nat /\ y \in Nat /\ x < y
    BY <1>2, <1>5
  <2> HIDE DEF x, y
  <2>2. all * x < all * y
    BY <2>1
  <2> QED
    BY <2>2 DEF x, y
<1>7. total * ((2 * all) * q) <= total * (200 * whole + all)
  <2> DEFINE x == (2 * all) * q
             y == 200 * whole + all
  <2>1. x \in Nat /\ y \in Nat /\ x <= y
    BY <1>2
  <2> HIDE DEF x, y
  <2>2. total * x <= total * y
    BY <2>1
  <2> QED
    BY <2>2 DEF x, y
<1>8. all * ((2 * total) * q) = total * ((2 * all) * q)
  BY <1>2
<1>9. /\ all * (200 * part + total) = 200 * (all * part) + all * total
      /\ total * (200 * whole + all) = 200 * (whole * total) + all * total
  OBVIOUS
<1>10. /\ all * part \in Nat /\ whole * total \in Nat /\ all * total \in Nat
       /\ total * ((2 * all) * q) \in Nat
  BY <1>2
<1> DEFINE u == all * part
           v == whole * total
           w == all * total
           z == total * ((2 * all) * q)
<1>11. 200 * u + w < z /\ z <= 200 * v + w /\ v <= u
  BY <1>6, <1>7, <1>8, <1>9
<1>12. u \in Nat /\ v \in Nat /\ w \in Nat /\ z \in Nat
  BY <1>10
<1> HIDE DEF u, v, w, z
<1> QED
  BY <1>11, <1>12

\* Parts that have nothing in common are no more than the whole.
LEMMA CountedAdds ==
    ASSUME NEW N \in Nat, NEW A, DOMAIN A = 1 .. N, NEW B, DOMAIN B = 1 .. N,
           NEW C, DOMAIN C = 1 .. N, AllFinite(C, N),
           \A c \in 1 .. N : A[c] \subseteq C[c] /\ B[c] \subseteq C[c]
                             /\ A[c] \intersect B[c] = {}
    PROVE  /\ Counted(A) \in Nat /\ Counted(B) \in Nat /\ Counted(C) \in Nat
           /\ Counted(A) + Counted(B) <= Counted(C)
<1> DEFINE a == [c \in DOMAIN A |-> Cardinality(A[c])]
           b == [c \in DOMAIN B |-> Cardinality(B[c])]
           all == [c \in DOMAIN C |-> Cardinality(C[c])]
<1>1. AllFinite(A, N) /\ AllFinite(B, N)
  BY FS_Subset DEF AllFinite
<1>2. /\ Sizes(a, A, N) /\ Counted(A) = Sum(a) /\ Sum(a) \in Nat
      /\ Sizes(b, B, N) /\ Counted(B) = Sum(b) /\ Sum(b) \in Nat
      /\ Sizes(all, C, N) /\ Counted(C) = Sum(all) /\ Sum(all) \in Nat
  BY <1>1, CountedSizes
<1>3. ASSUME NEW c \in 1 .. N PROVE a[c] + b[c] <= all[c]
  <2>1. IsFiniteSet(A[c]) /\ IsFiniteSet(B[c]) /\ IsFiniteSet(C[c])
    BY <1>1 DEF AllFinite
  <2> DEFINE both == A[c] \union B[c]
  <2>2. Parts(A[c], B[c], both) /\ both \in SUBSET C[c]
    BY DEF Parts
  <2> HIDE DEF both
  <2>3. IsFiniteSet(both) /\ Cardinality(both) <= Cardinality(C[c])
    BY <2>1, <2>2, FS_Subset
  <2>4. Cardinality(both) = Cardinality(A[c]) + Cardinality(B[c])
    BY <2>2, <2>3, Parted
  <2>5. a[c] = Cardinality(A[c]) /\ b[c] = Cardinality(B[c]) /\ all[c] = Cardinality(C[c])
    OBVIOUS
  <2> HIDE DEF a, b, all
  <2> QED
    BY <2>3, <2>4, <2>5
<1> HIDE DEF a, b, all
<1>4. Numbers(a, N) /\ Numbers(b, N) /\ Numbers(all, N)
  BY <1>2 DEF Sizes
<1>5. Sum(a) + Sum(b) <= Sum(all)
  BY <1>3, <1>4, SumsAdd
<1> QED
  BY <1>2, <1>5

\* Neither of a phase nor of an owner more is done than there is, and what is overdue is not
\* done.
LEMMA SharesAre ==
    ASSUME NEW lists \in Seq(Parsed)
    PROVE  /\ DOMAIN ByPhase(lists) = NumbersOf(lists)
           /\ \A n \in NumbersOf(lists) :
                 /\ ByPhase(lists)[n].total \in Nat /\ ByPhase(lists)[n].completed \in Nat
                 /\ ByPhase(lists)[n].completed <= ByPhase(lists)[n].total
           /\ \A o \in DOMAIN ByOwner(lists) :
                 ByOwner(lists)[o].overdue + ByOwner(lists)[o].completed
                     <= ByOwner(lists)[o].total
<1> DEFINE N == Len(lists)
           done == DoneItems(lists)
           none == [c \in DOMAIN lists |-> {}]
<1>1. N \in Nat /\ DOMAIN lists = 1 .. N /\ AllFinite(AllItems(lists), N)
  BY ListsAre, AllAreChosen
<1>2. DOMAIN ByPhase(lists) = NumbersOf(lists)
  BY DEF ByPhase, NumbersOf
<1>3. ASSUME NEW n \in NumbersOf(lists)
      PROVE  /\ ByPhase(lists)[n].total \in Nat /\ ByPhase(lists)[n].completed \in Nat
             /\ ByPhase(lists)[n].completed <= ByPhase(lists)[n].total
  <2> DEFINE A == [c \in DOMAIN lists |->
                      InPhase(lists[c].lines, n) \intersect Completed(lists[c].lines)]
             C == [c \in DOMAIN lists |-> InPhase(lists[c].lines, n)]
  <2>1. DOMAIN A = 1 .. N /\ DOMAIN none = 1 .. N /\ DOMAIN C = 1 .. N
    BY <1>1
  <2>2. AllFinite(C, N)
    <3>1. \A c \in 1 .. N : C[c] \subseteq AllItems(lists)[c]
      BY <1>1 DEF AllItems, InPhase
    <3> HIDE DEF C
    <3> QED
      BY <1>1, <3>1, FS_Subset DEF AllFinite
  <2>3. \A c \in 1 .. N : A[c] \subseteq C[c] /\ none[c] \subseteq C[c]
                          /\ A[c] \intersect none[c] = {}
    BY <1>1
  <2>4. ByPhase(lists)[n].total = Counted(C) /\ ByPhase(lists)[n].completed = Counted(A)
    BY DEF ByPhase, NumbersOf
  <2> HIDE DEF A, C, none
  <2>5. /\ Counted(A) \in Nat /\ Counted(none) \in Nat /\ Counted(C) \in Nat
        /\ Counted(A) + Counted(none) <= Counted(C)
    BY <1>1, <2>1, <2>2, <2>3, CountedAdds
  <2> QED
    BY <2>4, <2>5
<1>4. ASSUME NEW o \in DOMAIN ByOwner(lists)
      PROVE  ByOwner(lists)[o].overdue + ByOwner(lists)[o].completed
                 <= ByOwner(lists)[o].total
  <2> DEFINE C == [c \in DOMAIN lists |-> OwnedBy(lists[c].lines, o)]
             A == [c \in DOMAIN lists |-> C[c] \intersect Overdue(lists[c].lines)]
             B == [c \in DOMAIN lists |-> C[c] \intersect Completed(lists[c].lines)]
  <2>1. DOMAIN A = 1 .. N /\ DOMAIN B = 1 .. N /\ DOMAIN C = 1 .. N
    BY <1>1
  <2>2. AllFinite(C, N)
    <3>1. \A c \in 1 .. N : C[c] \subseteq AllItems(lists)[c]
      BY <1>1 DEF AllItems, OwnedBy
    <3> HIDE DEF C
    <3> QED
      BY <1>1, <3>1, FS_Subset DEF AllFinite
  <2>3. \A c \in 1 .. N : A[c] \subseteq C[c] /\ B[c] \subseteq C[c]
                          /\ A[c] \intersect B[c] = {}
    BY <1>1 DEF Overdue, Completed
  <2>4. /\ ByOwner(lists)[o].total = Counted(C)
        /\ ByOwner(lists)[o].completed = Counted(B)
        /\ ByOwner(lists)[o].overdue = Counted(A)
    BY DEF ByOwner
  <2> HIDE DEF A, B, C
  <2>5. Counted(A) + Counted(B) <= Counted(C)
    BY <1>1, <2>1, <2>2, <2>3, CountedAdds
  <2> QED
    BY <2>4, <2>5
<1> QED
  BY <1>2, <1>3, <1>4

\* Some phase is at least as far as all of them together, and some phase with items at most.
LEMMA RatesSurround ==
    ASSUME NEW lists \in Seq(Parsed), NEW s, s = Aggregate(NoSummary, lists), s.totalItems > 0
    PROVE  /\ \E n \in NumbersOf(lists) : Rates(s.byPhase)[n] >= s.overallPercentage
           /\ \E n \in NumbersOf(lists) : s.byPhase[n].total > 0
                                          /\ Rates(s.byPhase)[n] <= s.overallPercentage
<1> DEFINE N == Cardinality(NumbersOf(lists))
           list == PhaseList(lists)
           total == PhaseTotals(lists)
           done == PhaseDone(lists)
           T == s.totalItems
           P == s.completedItems
           rate == Rates(s.byPhase)
<1>1. /\ T = Counted(AllItems(lists)) /\ P = Counted(DoneItems(lists))
      /\ T \in Nat /\ P \in Nat /\ T > 0 /\ s.byPhase = ByPhase(lists)
      /\ s.overallPercentage = Percentage(P, T)
  BY TotalsAre
<1>2. /\ Lists(list, NumbersOf(lists), Ascending(NumbersOf(lists)))
      /\ Numbers(total, N) /\ Numbers(done, N) /\ Sum(total) = T /\ Sum(done) = P
  BY <1>1, PhaseTotalsAddUp
<1>3. /\ N \in Nat /\ DOMAIN list = 1 .. N
      /\ \A k \in 1 .. N : list[k] \in NumbersOf(lists)
  BY <1>2 DEF Lists
<1>4. ASSUME NEW n \in NumbersOf(lists)
      PROVE  /\ s.byPhase[n].total \in Nat /\ s.byPhase[n].completed \in Nat
             /\ s.byPhase[n].completed <= s.byPhase[n].total
             /\ rate[n] = Percentage(s.byPhase[n].completed, s.byPhase[n].total)
  BY <1>1, SharesAre DEF Rates
<1>5. ASSUME NEW k \in 1 .. N
      PROVE  total[k] = s.byPhase[list[k]].total /\ done[k] = s.byPhase[list[k]].completed
  BY <1>1, <1>3 DEF PhaseTotals, PhaseDone
<1> HIDE DEF N, list, total, done, T, P, rate
<1>6. \A k \in 1 .. N : done[k] <= total[k]
  BY <1>3, <1>4, <1>5
<1>7. /\ \E k \in 1 .. N : total[k] > 0 /\ P * total[k] <= T * done[k]
      /\ \E k \in 1 .. N : total[k] > 0 /\ T * done[k] <= P * total[k]
  BY <1>1, <1>2, <1>3, <1>6, SharesSurround
<1>8. \E n \in NumbersOf(lists) : rate[n] >= s.overallPercentage
  <2>1. PICK k \in 1 .. N : total[k] > 0 /\ P * total[k] <= T * done[k]
    BY <1>7
  <2>2. PICK x \in Nat, y \in Nat : x = done[k] /\ y = total[k]
    BY <1>3, <1>4, <1>5
  <2>3. P * y <= T * x /\ y > 0
    BY <2>1, <2>2
  <2>4. Percentage(P, T) <= Percentage(x, y)
    BY <1>1, <2>3, PercentageGrows
  <2>5. list[k] \in NumbersOf(lists) /\ rate[list[k]] = Percentage(x, y)
    BY <1>3, <1>4, <1>5, <2>2
  <2>6. Percentage(P, T) \in Nat /\ Percentage(x, y) \in Nat
    BY <1>1, PercentageIs
  <2> QED
    BY <1>1, <2>4, <2>5, <2>6
<1>9. \E n \in NumbersOf(lists) : s.byPhase[n].total > 0 /\ rate[n] <= s.overallPercentage
  <2>1. PICK k \in 1 .. N : total[k] > 0 /\ T * done[k] <= P * total[k]
    BY <1>7
  <2>2. PICK x \in Nat, y \in Nat : x = done[k] /\ y = total[k]
    BY <1>3, <1>4, <1>5
  <2>3. x * T <= y * P /\ y > 0
    BY <1>1, <2>1, <2>2
  <2>4. Percentage(x, y) <= Percentage(P, T)
    BY <1>1, <2>3, PercentageGrows
  <2>5. /\ list[k] \in NumbersOf(lists) /\ rate[list[k]] = Percentage(x, y)
        /\ s.byPhase[list[k]].total > 0
    BY <1>3, <1>4, <1>5, <2>1, <2>2
  <2> QED
    BY <1>1, <2>4, <2>5
<1> QED
  BY <1>8, <1>9 DEF rate

\* Items are named to go on with unless each is done.
LEMMA NextItems ==
    ASSUME NEW f \in ChecklistFiles
    PROVE  PendingItems(f) = {} <=>
               Cardinality(InProgress(f)) + Cardinality(NotStarted(f)) = 0
<1> DEFINE pending == Items(f) \ Completed(f)
<1>1. /\ IsFiniteSet(Items(f)) /\ Items(f) \in SUBSET Nat
      /\ Parts(Completed(f), Items(f) \ Completed(f), Items(f))
      /\ Parts(InProgress(f), NotStarted(f), pending)
  BY ItemsAre
<1>2. IsFiniteSet(pending) /\ pending \in SUBSET Nat
  BY <1>1, FS_Subset
<1>3. PendingItems(f) = {i \in pending : Cardinality({j \in pending : j < i}) < 3}
  BY DEF PendingItems
<1> HIDE DEF pending
<1>4. /\ Cardinality(pending) = Cardinality(InProgress(f)) + Cardinality(NotStarted(f))
  BY <1>1, <1>2, Parted
<1>5. Cardinality(pending) = 0 <=> pending = {}
  BY <1>2, FS_EmptySet
<1>6. ASSUME pending # {} PROVE PendingItems(f) # {}
  <2>1. PICK i \in pending : \A j \in pending : i <= j
    BY <1>2, <1>6, Least
  <2>2. {j \in pending : j < i} = {}
    <3>1. ASSUME NEW j \in pending PROVE ~(j < i)
      <4>1. i <= j /\ i \in Nat /\ j \in Nat
        BY <1>2, <2>1
      <4> QED
        BY <4>1
    <3> QED
      BY <3>1
  <2>3. Cardinality({j \in pending : j < i}) = 0
    BY <2>2, FS_EmptySet, Zenon
  <2> QED
    BY <1>3, <2>1, <2>3
<1>7. ASSUME pending = {} PROVE PendingItems(f) = {}
  BY <1>3, <1>7
<1> QED
  BY <1>4, <1>5, <1>6, <1>7

\* A phase that blocks leaves one to focus on: the first of those that are behind the most.
LEMMA BlockersFocus ==
    ASSUME NEW lists \in Seq(Parsed), NEW s, s = Aggregate(NoSummary, lists),
           NEW b \in DOMAIN s.byPhase, <<"blocker", b>> \in Recommendations(s)
    PROVE  \E n \in DOMAIN s.byPhase : <<"focus", n>> \in NextSteps(s)
<1> DEFINE S == DOMAIN s.byPhase
           Done(n) == Percentage(s.byPhase[n].completed, s.byPhase[n].total)
           shares == {Done(n) : n \in S}
           lowest == {n \in S : /\ Done(n) < 100
                                /\ \A m \in S : \/ Done(m) > Done(n)
                                                \/ Done(m) = Done(n) /\ m >= n}
<1>1. S \in SUBSET Nat /\ \A n \in S : Done(n) \in Nat
  <2>1. s.byPhase = ByPhase(lists)
    BY TotalsAre
  <2>2. S = NumbersOf(lists) /\ S \in SUBSET Nat
    BY <2>1, SharesAre, NumbersAre
  <2>3. \A n \in S : s.byPhase[n].total \in Nat /\ s.byPhase[n].completed \in Nat
    BY <2>1, <2>2, SharesAre
  <2> QED
    BY <2>2, <2>3, PercentageIs
<1>2. Done(b) < 30
  <2> DEFINE owners == DOMAIN s.byOwner
             blockers == {<<"blocker", n>> : n \in {m \in S : m <= 3 /\ Done(m) < 30}}
             overdue == {<<"overdue", o>> : o \in {p \in owners : s.byOwner[p].overdue > 0}}
             workload == {<<"workload", o>> : o \in {p \in owners :
                /\ Cardinality(owners) > 1
                /\ 2 * Cardinality(owners) * s.byOwner[p].total > 3 * s.totalItems}}
             progress == {<<"progress", x>> : x \in {y \in {s.overallPercentage} : y < 50}}
  <2>1. Recommendations(s) = blockers \union overdue \union workload \union progress
    BY Zenon DEF Recommendations
  <2>2. <<"blocker", b>> \notin overdue
    OBVIOUS
  <2>3. <<"blocker", b>> \notin workload
    OBVIOUS
  <2>4. <<"blocker", b>> \notin progress
    OBVIOUS
  <2>5. <<"blocker", b>> \in blockers => Done(b) < 30
    OBVIOUS
  <2> HIDE DEF blockers, overdue, workload, progress
  <2> QED
    BY <2>1, <2>2, <2>3, <2>4, <2>5
<1> HIDE DEF Done
<1>3. PICK d \in shares : \A e \in shares : d <= e
  <2>1. shares \in SUBSET Nat /\ shares # {}
    BY <1>1
  <2> HIDE DEF shares
  <2> QED
    BY <2>1, Least
<1> DEFINE behind == {n \in S : Done(n) = d}
<1>4. PICK n \in behind : \A m \in behind : n <= m
  <2>1. behind \in SUBSET Nat /\ behind # {}
    BY <1>1
  <2> HIDE DEF behind
  <2> QED
    BY <2>1, Least
<1>5. n \in S /\ Done(n) = d /\ \A m \in S : d <= Done(m)
  BY <1>3
<1>6. Done(n) < 100
  BY <1>1, <1>2, <1>5
<1>7. ASSUME NEW m \in S PROVE Done(m) > Done(n) \/ (Done(m) = Done(n) /\ m >= n)
  BY <1>1, <1>4, <1>5
<1>8. n \in lowest
  BY <1>5, <1>6, <1>7
<1>9. {<<"focus", x>> : x \in lowest} \subseteq NextSteps(s)
  BY Zenon DEF NextSteps, Done
<1> HIDE DEF lowest
<1> QED
  BY <1>5, <1>8, <1>9

\* Whatever was loaded and however often it was analyzed, the report adds up
\* (checklist-tracker.js:132-404), and the exit code agrees with it (:504-515).
THEOREM ReportAddsUp == Spec => []ChecklistAddsUp
<1>1. ASSUME TrackerInv PROVE ChecklistAddsUp
  <2> SUFFICES ASSUME tool = "checklist", summary # NoSummary PROVE ChecklistAddsUp
    BY DEF ChecklistAddsUp
  <2>1. PICK lists : lists = tracker.checklists
    OBVIOUS
  <2>2. /\ lists \in Seq(Parsed) /\ summary = Aggregate(NoSummary, lists)
        /\ tracker.at = "exit" /\ tracker.exit = 0 => ~(summary.overallPercentage < 50)
    BY <1>1, <2>1 DEF TrackerInv
  <2> DEFINE s == summary
             shown == GenerateReport("text", s, lists)
             pending == [c \in DOMAIN lists |-> lists[c].stats.inProgress
                                                 + lists[c].stats.notStarted]
             phases == Elements(s.byPhase, InOrder(DOMAIN s.byPhase, Ascending(DOMAIN s.byPhase)))
  <2>3. /\ s.totalItems = Counted(AllItems(lists)) /\ s.totalItems \in Nat
        /\ s.completedItems = Counted(DoneItems(lists)) /\ s.completedItems \in Nat
        /\ s.totalItems = s.completedItems + Sum(pending)
        /\ s.byPhase = ByPhase(lists) /\ s.byOwner = ByOwner(lists)
    BY <2>2, TotalsAre DEF Pending
  <2>4. /\ DOMAIN s.byPhase = NumbersOf(lists)
        /\ \A o \in DOMAIN s.byOwner :
              s.byOwner[o].overdue + s.byOwner[o].completed <= s.byOwner[o].total
    BY <2>2, <2>3, SharesAre
  <2>5. /\ shown.recommendations = Recommendations(s) /\ shown.steps = NextSteps(s)
        /\ shown.phases = Rates(s.byPhase)
        /\ \A c \in DOMAIN lists : shown.next[c] = PendingItems(lists[c].lines)
    BY DEF GenerateReport
  <2>6. /\ [k \in DOMAIN phases |-> phases[k].total] = PhaseTotals(lists)
        /\ [k \in DOMAIN phases |-> phases[k].completed] = PhaseDone(lists)
    <3>1. phases = [k \in DOMAIN PhaseList(lists) |-> ByPhase(lists)[PhaseList(lists)[k]]]
      BY <2>3, <2>4 DEF PhaseList, Elements
    <3> HIDE DEF phases
    <3> QED
      BY <3>1 DEF PhaseTotals, PhaseDone
  <2>7. /\ s.totalItems = Sum([k \in DOMAIN phases |-> phases[k].total])
        /\ s.completedItems = Sum([k \in DOMAIN phases |-> phases[k].completed])
    BY <2>2, <2>3, <2>6, PhaseTotalsAddUp
  <2>8. \A c \in DOMAIN lists : shown.next[c] = {} <=> pending[c] = 0
    <3> SUFFICES ASSUME NEW c \in DOMAIN lists
                 PROVE  shown.next[c] = {} <=> pending[c] = 0
      OBVIOUS
    <3>1. /\ lists[c].lines \in ChecklistFiles
          /\ pending[c] = Cardinality(InProgress(lists[c].lines))
                          + Cardinality(NotStarted(lists[c].lines))
      BY <2>2, ListsAre
    <3> HIDE DEF pending, shown
    <3> QED
      BY <2>5, <3>1, NextItems
  <2>9. (\E n \in DOMAIN s.byPhase : <<"blocker", n>> \in shown.recommendations)
            => \E n \in DOMAIN s.byPhase : <<"focus", n>> \in shown.steps
    BY <2>2, <2>5, BlockersFocus
  <2>10. s.totalItems > 0 =>
            /\ \E n \in DOMAIN shown.phases : shown.phases[n] >= s.overallPercentage
            /\ \E n \in DOMAIN shown.phases :
                  s.byPhase[n].total > 0 /\ shown.phases[n] <= s.overallPercentage
    <3>1. DOMAIN shown.phases = NumbersOf(lists)
      BY <2>4, <2>5 DEF Rates
    <3> HIDE DEF shown
    <3> QED
      BY <2>2, <2>5, <3>1, RatesSurround
  <2>11. ~(s.overallPercentage < 50) =>
            <<"progress", s.overallPercentage>> \notin shown.recommendations
    <3> DEFINE p == s.overallPercentage
               owners == DOMAIN s.byOwner
               blockers == {<<"blocker", n>> : n \in {m \in DOMAIN s.byPhase :
                  m <= 3 /\ Percentage(s.byPhase[m].completed, s.byPhase[m].total) < 30}}
               overdue == {<<"overdue", o>> : o \in {x \in owners : s.byOwner[x].overdue > 0}}
               workload == {<<"workload", o>> : o \in {x \in owners :
                  /\ Cardinality(owners) > 1
                  /\ 2 * Cardinality(owners) * s.byOwner[x].total > 3 * s.totalItems}}
               progress == {<<"progress", x>> : x \in {y \in {p} : y < 50}}
    <3>1. Recommendations(s) = blockers \union overdue \union workload \union progress
      BY Zenon DEF Recommendations
    <3>2. <<"progress", p>> \notin blockers
      OBVIOUS
    <3>3. <<"progress", p>> \notin overdue
      OBVIOUS
    <3>4. <<"progress", p>> \notin workload
      OBVIOUS
    <3>5. ~(p < 50) => <<"progress", p>> \notin progress
      OBVIOUS
    <3> HIDE DEF blockers, overdue, workload, progress
    <3> QED
      BY <2>5, <3>1, <3>2, <3>3, <3>4, <3>5
  <2> HIDE DEF shown, pending, phases
  <2>12. /\ tracker.at = "exit" /\ tracker.exit = 0 =>
               <<"progress", s.overallPercentage>> \notin shown.recommendations
    BY <2>2, <2>11
  <2> QED
    BY <2>1, <2>3, <2>4, <2>7, <2>8, <2>9, <2>10, <2>12
       DEF ChecklistAddsUp, shown, pending, phases
<1> QED
  BY <1>1, TrackerInitially, TrackerStep, PTL DEF Spec
=============================================================================
