------------------------------- MODULE KycPages -------------------------------
(***************************************************************************)
(* The React hooks: useKyc, which verifies the connected wallet whenever it  *)
(* changes, and useAddressVerification, which verifies and revokes addresses *)
(* and shows the record of one.  What a hook awaits may be answered in any   *)
(* order; its state lasts as long as the page.                              *)
(***************************************************************************)
EXTENDS KycLedger

CONSTANT Requests       \* slots for requests in flight: bounds how many overlap

VARIABLES
    wallet,     \* publicKey of useWallet, None when not connected
    effectDue,  \* the effect has not yet run for the wallet that is rendered
    gate,       \* the state of useKyc
    checks,     \* for each request, the wallet whose verification is awaited
    checked,    \* history of the gate: whose verdict it shows, and what disturbed it
    desk,       \* the state of useAddressVerification
    jobs,       \* for each request, the operation in flight and the await it is at
    served      \* history of the desk: the address served last, and what disturbed it

gateVars == <<wallet, effectDue, gate, checks, checked>>
deskVars == <<desk, jobs, served>>

NoJob == [at |-> "idle", kind |-> "get", user |-> None]

PagesTypeOK ==
    /\ wallet \in Wallets \cup {None}
    /\ effectDue \in BOOLEAN
    /\ gate \in [verified : BOOLEAN, loading : BOOLEAN, error : BOOLEAN]
    /\ checks \in [Requests -> Wallets \cup {None}]
    /\ checked \in [wallet : Wallets \cup {None}, overlap : BOOLEAN, failed : BOOLEAN]
    /\ desk \in [record : Wallets \cup {None}, loading : BOOLEAN]
    /\ jobs \in [Requests -> [at : {"idle", "rpc", "fetch"}, kind : {"verify", "revoke", "get"},
                              user : Wallets \cup {None}]]
    /\ served \in [user : Wallets \cup {None}, overlap : BOOLEAN, refused : BOOLEAN,
                   failed : BOOLEAN]

PagesInit ==
    /\ wallet = None
    /\ effectDue = FALSE
    /\ gate = [verified |-> FALSE, loading |-> FALSE, error |-> FALSE]
    /\ checks = [r \in Requests |-> None]
    /\ checked = [wallet |-> None, overlap |-> FALSE, failed |-> FALSE]
    /\ desk = [record |-> None, loading |-> FALSE]
    /\ jobs = [r \in Requests |-> NoJob]
    /\ served = [user |-> None, overlap |-> FALSE, refused |-> FALSE, failed |-> FALSE]

Checking == {r \in Requests : checks[r] # None}
Working  == {r \in Requests : jobs[r].at # "idle"}

------------------------------------------------------------------------------
(* useKyc                                                                   *)

\* checkAccess up to its await: called by the effect, and by the page at any time.
CheckAccess(r, w) ==
    /\ checks[r] = None
    /\ checks' = [checks EXCEPT ![r] = w]
    /\ gate' = [gate EXCEPT !.loading = TRUE]
    /\ checked' = [checked EXCEPT !.overlap = Checking # {}]

\* Mutant: the effect does not depend on publicKey, but on connected alone.
SelectWalletConnected(w) ==
    /\ w # wallet /\ ~effectDue
    /\ wallet' = w
    /\ effectDue' = (wallet = None)
    /\ UNCHANGED <<gate, checks, checked, ledgerVars, deskVars>>

\* The user connects, or changes the account: the page is rendered for the new wallet with
\* the state it has. React runs the effect after that, and before it renders again.
SelectWallet(w) ==
    /\ w # wallet /\ ~effectDue
    /\ wallet' = w
    /\ effectDue' = TRUE
    /\ UNCHANGED <<gate, checks, checked, ledgerVars, deskVars>>

EffectRuns ==
    /\ effectDue
    /\ effectDue' = FALSE
    /\ \E r \in Requests : CheckAccess(r, wallet)
    /\ UNCHANGED <<wallet, ledgerVars, deskVars>>

\* The effect does nothing without a wallet: the verdict stays as it was.
Disconnect ==
    /\ wallet # None /\ ~effectDue
    /\ wallet' = None
    /\ UNCHANGED <<effectDue, gate, checks, checked, ledgerVars, deskVars>>

Recheck ==
    /\ wallet # None
    /\ \E r \in Requests : CheckAccess(r, wallet)
    /\ UNCHANGED <<wallet, effectDue, ledgerVars, deskVars>>

\* The verifier answers, for the wallet that the check began with.
Verdict(r) ==
    /\ checks[r] # None
    /\ gate' = [gate EXCEPT !.verified = kyc[checks[r]] = "Verified", !.loading = FALSE]
    /\ checks' = [checks EXCEPT ![r] = None]
    /\ checked' = [checked EXCEPT !.wallet = checks[r], !.failed = FALSE]
    /\ UNCHANGED <<wallet, effectDue, ledgerVars, deskVars>>

\* The verifier throws: the verdict stays, and the error is never reset.
VerdictFails(r) ==
    /\ checks[r] # None
    /\ gate' = [gate EXCEPT !.error = TRUE, !.loading = FALSE]
    /\ checks' = [checks EXCEPT ![r] = None]
    /\ checked' = [checked EXCEPT !.failed = TRUE]
    /\ UNCHANGED <<wallet, effectDue, ledgerVars, deskVars>>

\* withKyc shows the gated component, whether or not a wallet is connected.
Shown == gate.verified /\ ~gate.loading

------------------------------------------------------------------------------
(* useAddressVerification, with the wallet of the registry authority        *)

StartJob(kind, u, at) ==
    /\ \E r \in Requests :
          /\ jobs[r].at = "idle"
          /\ jobs' = [jobs EXCEPT ![r] = [at |-> at, kind |-> kind, user |-> u]]
    /\ served' = [served EXCEPT !.overlap = Working # {}]

VerifyAddress(u) ==
    /\ StartJob("verify", u, "rpc")
    /\ desk' = [desk EXCEPT !.loading = TRUE]
    /\ UNCHANGED <<ledgerVars, gateVars>>

RevokeAddress(u) ==
    /\ StartJob("revoke", u, "rpc")
    /\ desk' = [desk EXCEPT !.loading = TRUE]
    /\ UNCHANGED <<ledgerVars, gateVars>>

GetRecord(u) ==
    /\ StartJob("get", u, "fetch")
    /\ UNCHANGED <<desk, ledgerVars, gateVars>>

\* The program opens the account of an address that has none, or closes one.
Taken(job) == job.kind = "verify" <=> job.user \notin verified

Applied(job) == IF job.kind = "verify" THEN verified \union {job.user}
                ELSE verified \ {job.user}

\* Mutant: the page is told that the work is done before the record is fetched again.
ConfirmedWithoutRecord(r) ==
    /\ jobs[r].at = "rpc"
    /\ Taken(jobs[r])
    /\ verified' = Applied(jobs[r])
    /\ jobs' = [jobs EXCEPT ![r] = NoJob]
    /\ desk' = [desk EXCEPT !.loading = FALSE]
    /\ served' = [served EXCEPT !.user = jobs[r].user, !.failed = FALSE]
    /\ UNCHANGED <<kyc, breaker, hook, funded, gateVars>>

\* The transaction is confirmed; next the record is fetched.
Confirmed(r) ==
    /\ jobs[r].at = "rpc"
    /\ Taken(jobs[r])
    /\ verified' = Applied(jobs[r])
    /\ jobs' = [jobs EXCEPT ![r].at = "fetch"]
    /\ UNCHANGED <<kyc, breaker, hook, funded, desk, served, gateVars>>

\* rpc throws, because the program refuses or the confirmation is lost: nothing resets
\* loading, and the record is not fetched.
Refused(r) ==
    /\ jobs[r].at = "rpc"
    /\ \/ UNCHANGED verified
       \/ Taken(jobs[r]) /\ verified' = Applied(jobs[r])
    /\ jobs' = [jobs EXCEPT ![r] = NoJob]
    /\ served' = [served EXCEPT !.refused = TRUE, !.failed = TRUE]
    /\ UNCHANGED <<kyc, breaker, hook, funded, desk, gateVars>>

\* A fetch that fails for any reason shows no record.
Fetched(r) ==
    /\ jobs[r].at = "fetch"
    /\ \E failed \in BOOLEAN :
          /\ desk' = [record  |-> IF jobs[r].user \in verified /\ ~failed THEN jobs[r].user
                                  ELSE None,
                      loading |-> IF jobs[r].kind = "get" THEN desk.loading ELSE FALSE]
          /\ served' = [served EXCEPT !.user = jobs[r].user, !.failed = failed]
    /\ jobs' = [jobs EXCEPT ![r] = NoJob]
    /\ UNCHANGED <<ledgerVars, gateVars>>

\* Another authority verifies or revokes an address meanwhile.
OtherAuthority(u) ==
    /\ verified' = IF u \in verified THEN verified \ {u} ELSE verified \union {u}
    /\ served' = [served EXCEPT !.overlap = TRUE]
    /\ UNCHANGED <<kyc, breaker, hook, funded, gateVars, desk, jobs>>

Gate ==
    \/ \E w \in Wallets : SelectWallet(w)
    \/ EffectRuns
    \/ Disconnect
    \/ Recheck
    \/ \E r \in Requests : Verdict(r) \/ VerdictFails(r)

Desk ==
    \/ \E u \in Wallets : VerifyAddress(u) \/ RevokeAddress(u) \/ GetRecord(u) \/ OtherAuthority(u)
    \/ \E r \in Requests : Confirmed(r) \/ Refused(r) \/ Fetched(r)
=============================================================================
