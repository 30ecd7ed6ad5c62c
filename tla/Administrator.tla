---------------------------- MODULE Administrator ----------------------------
(***************************************************************************)
(* A console of the compliance administrator: it calls the methods of        *)
(* compliance-sdk.ts, plainly or through the retry of utils/index.ts, and    *)
(* shows the errors it is given.  A transaction whose confirmation is lost    *)
(* lands, and the method throws all the same.  Others administer meanwhile.  *)
(***************************************************************************)
EXTENDS TransferService

CONSTANTS
    Retries,        \* the retries of a call that retries
    FailureLogs     \* the logs that failed transactions may leave

ASSUME RetriesAssumption == Retries \in Nat

ASSUME LogsAreLines == \A logs \in FailureLogs : logs \in Seq(STRING)

VARIABLES
    call,       \* the call in progress: its method, and the retries it has left
    told,       \* how the last call ended: its answer, or the code of its error
    tried       \* history of the last call: its method, attempts, how many landed, and whether
                \* others acted before it ended

adminVars == <<call, told, tried>>

Methods == {"registerUser", "freezeWallet", "unfreezeWallet", "activateCircuitBreaker",
            "deactivateCircuitBreaker", "createCompliantMint", "updateTransferHook"}

NoCall  == [at |-> "idle", method |-> "none", wallet |-> None, left |-> 0]
NotTold == [answer |-> "none", code |-> "none", logs |-> <<>>]
Untried == [method |-> "none", attempts |-> 0, landed |-> 0, last |-> FALSE, others |-> FALSE]

AdminTypeOK ==
    /\ call \in [at : {"idle", "pending", "sleeping"}, method : Methods \union {"none"},
                 wallet : Wallets \cup {None}, left : 0..Retries]
    /\ told \in [answer : {"none", "done", "error", "active", "inactive", "hooked", "no hook"},
                 code : ErrorCode \union {"none"}, logs : FailureLogs \union {<<>>}]
    /\ tried.method \in Methods \union {"none"}
    /\ tried.attempts \in Nat /\ tried.landed \in 0..tried.attempts
    /\ {tried.last, tried.others} \subseteq BOOLEAN

AdminInit ==
    /\ call = NoCall
    /\ told = NotTold
    /\ tried = Untried

------------------------------------------------------------------------------
\* A mint of its own for every attempt: the console goes on with the newest.
CreateCompliantMint == CreateMintWithTransferHook

UpdateTransferHook == UpdateTransferHookProgramId

Lands(method, w) ==
    \/ method = "createCompliantMint" /\ CreateCompliantMint
    \/ method = "updateTransferHook" /\ UpdateTransferHook
    \/ /\ \/ method = "registerUser" /\ RegisterUser(w)
          \/ method = "freezeWallet" /\ FreezeWallet(w)
          \/ method = "unfreezeWallet" /\ UnfreezeWallet(w)
          \/ method = "activateCircuitBreaker" /\ ActivateCircuitBreaker
          \/ method = "deactivateCircuitBreaker" /\ DeactivateCircuitBreaker
       /\ UNCHANGED transferVars

\* What the catch block of the method throws, whatever the error was.
FailureCode(method) ==
    CASE method = "registerUser"        -> "REGISTRATION_FAILED"
      [] method = "freezeWallet"        -> "FREEZE_FAILED"
      [] method = "unfreezeWallet"      -> "UNFREEZE_FAILED"
      [] method = "createCompliantMint" -> "MINT_CREATION_FAILED"
      [] method = "updateTransferHook"  -> "HOOK_UPDATE_FAILED"
      [] OTHER                          -> "CIRCUIT_BREAKER_FAILED"

Tried(arrived) ==
    tried' = [tried EXCEPT !.attempts = @ + 1, !.landed = @ + (IF arrived THEN 1 ELSE 0),
                           !.last = arrived]

Begin(method, w, left) ==
    /\ call.at = "idle"
    /\ call' = [at |-> "pending", method |-> method, wallet |-> w, left |-> left]
    /\ told' = NotTold
    /\ tried' = [Untried EXCEPT !.method = method]
    /\ UNCHANGED <<ledgerVars, approvalVars, transferVars>>

Succeeds ==
    /\ call.at = "pending"
    /\ Lands(call.method, call.wallet)
    /\ Tried(TRUE)
    /\ call' = NoCall
    /\ told' = [NotTold EXCEPT !.answer = "done"]

\* Mutant: the next attempt has as many retries left.
RetryAgain ==
    IF call.left > 0
    THEN call' = [call EXCEPT !.at = "sleeping"] /\ UNCHANGED told
    ELSE call' = NoCall /\ told' = [NotTold EXCEPT !.answer = "error",
                                                   !.code = FailureCode(call.method)]

\* retry: any error at all is tried again, until none of the retries is left.
Retry ==
    IF call.left > 0
    THEN call' = [call EXCEPT !.at = "sleeping", !.left = @ - 1] /\ UNCHANGED told
    ELSE call' = NoCall /\ told' = [NotTold EXCEPT !.answer = "error",
                                                   !.code = FailureCode(call.method)]

\* The transaction is refused, does not arrive, or lands and its confirmation is lost.
Fails ==
    /\ call.at = "pending"
    /\ \/ Lands(call.method, call.wallet) /\ Tried(TRUE)
       \/ UNCHANGED <<ledgerVars, approvalVars, transferVars>> /\ Tried(FALSE)
    /\ Retry

Wakes ==
    /\ call.at = "sleeping"
    /\ call' = [call EXCEPT !.at = "pending"]
    /\ UNCHANGED <<told, tried, ledgerVars, approvalVars, transferVars>>

------------------------------------------------------------------------------
\* The queries answer at once, or throw.
GetRegistryInfo ==
    told' \in {[NotTold EXCEPT !.answer = IF breaker THEN "active" ELSE "inactive"],
               [NotTold EXCEPT !.answer = "error", !.code = "REGISTRY_FETCH_FAILED"]}

\* An error reads as no hook.
HasTransferHook ==
    told' \in {[NotTold EXCEPT !.answer = IF hook \in OurHooks THEN "hooked" ELSE "no hook"],
               [NotTold EXCEPT !.answer = "no hook"]}

\* Any hook program is one.
GetTransferHookInfo ==
    told' \in {[NotTold EXCEPT !.answer = IF hook # "no mint" THEN "hooked" ELSE "no hook"],
               [NotTold EXCEPT !.answer = "error", !.code = "HOOK_FETCH_FAILED"]}

\* A transaction sent without the SDK failed: its logs, or its Anchor error, are translated.
Explain ==
    \/ \E logs \in FailureLogs :
          told' = [answer |-> "error", code |-> CreateErrorFromTransactionFailure(logs),
                   logs |-> logs]
    \/ \E logs \in FailureLogs :
          /\ Len(logs) = 1
          /\ told' = [answer |-> "error", code |-> ParseAnchorError(logs[1]), logs |-> logs]

Ask ==
    /\ call.at = "idle"
    /\ GetRegistryInfo \/ HasTransferHook \/ GetTransferHookInfo \/ Explain
    /\ tried' = Untried
    /\ UNCHANGED <<call, ledgerVars, approvalVars, transferVars>>

\* Another administrator, or the owner of another mint.
OthersAct ==
    /\ \/ Administer /\ UNCHANGED transferVars
       \/ OtherMint
    /\ tried' = [tried EXCEPT !.others = @ \/ call.at # "idle"]
    /\ UNCHANGED <<call, told>>

Console ==
    \/ \E m \in Methods, w \in Wallets, left \in {0, Retries} : Begin(m, w, left)
    \/ Succeeds \/ Fails \/ Wakes
    \/ Ask
    \/ OthersAct
=============================================================================
