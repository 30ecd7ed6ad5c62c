------------------------------- MODULE Clients -------------------------------
(***************************************************************************)
(* The applications that are built on the TypeScript clients: one that       *)
(* approves and sends transfers, pages gated by useKyc, a desk that verifies *)
(* addresses, and a page that works offline.  They share nothing but the     *)
(* ledger, which the administrator changes meanwhile, so that a behaviour    *)
(* has one application.                                                     *)
(***************************************************************************)
EXTENDS Administrator, WalletAdapter, KycPages, OfflineQueue

VARIABLE app        \* the application, if any

clientVars == <<ledgerVars, approvalVars, transferVars, adminVars, adapterVars, gateVars, deskVars,
                queueVars, app>>

Apps == {"approvals", "transfers", "console", "adapter", "gate", "desk", "offline"}

TypeOK ==
    /\ LedgerTypeOK
    /\ ApprovalTypeOK
    /\ TransferTypeOK
    /\ AdminTypeOK
    /\ AdapterTypeOK
    /\ PagesTypeOK
    /\ QueueTypeOK
    /\ app \in Apps \union {"none"}

\* The variables of a page without an adapter.
NoAdapter ==
    /\ account = None
    /\ adapter = [kind |-> "phantom", publicKey |-> None, connected |-> FALSE]

ClientsInit ==
    /\ LedgerInit
    /\ ApprovalInit
    /\ TransferInit
    /\ app = "transfers" \/ service = "sdk"
    /\ AdminInit
    /\ AdapterInit
    /\ app = "adapter" \/ NoAdapter
    /\ PagesInit
    /\ QueueInit

Others(used) ==
    /\ "approvals" \notin used => UNCHANGED approvalVars
    /\ "transfers" \notin used => UNCHANGED transferVars
    /\ "console" \notin used => UNCHANGED adminVars
    /\ "adapter" \notin used => UNCHANGED adapterVars
    /\ "pages" \notin used => UNCHANGED <<gateVars, deskVars>>
    /\ "offline" \notin used => UNCHANGED queueVars
    /\ UNCHANGED app

ClientsNext ==
    \/ app = "approvals" /\ Administer /\ Others({"approvals"})
    \/ app \in {"transfers", "gate", "desk"} /\ AdministerWallets /\ Others({"approvals"})
    \/ app = "approvals" /\ Approve /\ Others({"approvals"})
    \/ app = "transfers" /\ Transfers /\ Others({"approvals", "transfers"})
    \/ app = "console" /\ Console /\ Others({"approvals", "transfers", "console"})
    \/ app = "adapter" /\ Adapter /\ UNCHANGED ledgerVars /\ Others({"adapter"})
    \/ app = "gate" /\ Gate /\ Others({"pages"})
    \/ app = "desk" /\ Desk /\ Others({"pages"})
    \/ app = "offline" /\ Queue /\ UNCHANGED ledgerVars /\ Others({"offline"})

------------------------------------------------------------------------------
\* approveTransfer reads the two wallets one after the other: unless the status of one of
\* them changed since the call began, an approved transfer is between verified wallets.
QuietApprovalHolds ==
    approval.at = "approved" /\ ~moved => Cleared(approval.source, approval.destination)

\* retry makes no more attempts than it was given, and what it answers is true: done means
\* that the last attempt landed. Whatever was lost on the way, a registration, a freeze or
\* a release lands once, unless others administer the wallet between two attempts. An
\* error the SDK makes is never one of those it calls retryable, for its transaction may
\* have landed; and it names a cause only from the logs, of the program that failed first.
RetriesAreSafe ==
    app = "console" =>
        /\ tried.attempts <= Retries + 1
        /\ told.answer = "done" /\ tried.attempts > 0 /\ call.at = "idle" => tried.last
        /\ tried.method \in {"registerUser", "freezeWallet", "unfreezeWallet"} /\ ~tried.others
              => tried.landed <= 1
        /\ ~IsRetryable(told.code)
        /\ told.code \in ErrorCodeMap =>
              \E i \in DOMAIN told.logs :
                 /\ told.logs[i] = told.code
                 /\ \A j \in 1..(i - 1) : ~Tells(told.logs[j])

\* A wallet adapter is connected exactly when it has a key. The key is the account selected in
\* the extension, unless the user switched since the adapter asked for it; a callback that
\* was set for both events at the last change knows it; and after disconnect the adapter
\* stays disconnected, unless a connect was in flight then.
QuietAdapterIsCurrent ==
    /\ adapter.connected <=> adapter.publicKey # None
    /\ account # None /\ adapter.connected /\ ~page.switched => adapter.publicKey = account
    /\ \A l \in page.told : heard[l] = adapter.publicKey
    /\ page.wants = "disconnect" /\ ~page.overlap => ~adapter.connected

\* What the service layer reports of a transfer is what happened to it. A confirmed one has
\* landed, with an error exactly when the report has one; without, whoever the hook of the
\* mint must clear was verified when the transaction ran, though it may be frozen between
\* the call and the run: both ends for the registry, the sender for the hook of
\* attestations. The validation shows checks only for a hook of others, an error is never
\* that of a transfer the caller was told is sent, and a denied one may be tried again, for
\* nothing landed.
ReportsAreReal ==
    /\ report.status = "confirmed" =>
          /\ landed.commitment \in {"confirmed", "finalized"}
          /\ report.error <=> landed.err
    /\ service = "service layer" /\ transfer.source # None
       /\ report.status = "confirmed" /\ ~report.error =>
          /\ ran.hook = "registry" => {transfer.source, transfer.destination} \subseteq ran.verified
          /\ ran.hook = "attestations" => transfer.source \in ran.verified
    /\ report.checks # {} => ran.hook = "other"
    /\ transfer.at = "sent" => ~report.error
    /\ transfer.at = "denied" => landed = NotLanded

\* useKyc keeps no verdict for another wallet once its effect has run: from then on, unless
\* two checks overlapped or the last one failed, a gated component that is shown to a
\* connected wallet is shown for that wallet. Loading ends with the last check.
QuietVerdictIsRight ==
    /\ wallet # None /\ ~effectDue /\ ~checked.overlap /\ ~checked.failed /\ Shown => checked.wallet = wallet
    /\ Checking = {} => ~gate.loading

\* useAddressVerification shows the record as the ledger has it after every operation that
\* overlapped no other, and its loading flag stays on only after a transaction threw.
QuietRecordIsCurrent ==
    /\ Working = {} /\ desk.loading => served.refused
    /\ Working = {} /\ ~served.overlap /\ ~served.failed /\ served.user # None =>
          desk.record = IF served.user \in verified THEN served.user ELSE None

\* processQueue writes back a list it made before its awaits, which drops what was enqueued
\* meanwhile, and a read that fails passes for an empty list, which drops what is stored; but
\* an item stored while no run was in flight, and read by every later run and enqueue, leaves
\* only by being processed, over overlapping runs, failing saves and pages that are left.
QuietItemsSurvive == quiet \subseteq queue \union processed
=============================================================================
