----------------------------- MODULE KycProvider -----------------------------
(***************************************************************************)
(* The identity providers of base.ts: a cache of verification sessions that *)
(* a simulated completion (setTimeout) and the webhooks of the service both *)
(* write. Persona and SumSub arm a timer when a session is opened; Google    *)
(* has neither timer nor webhook and answers at once.                       *)
(***************************************************************************)
EXTENDS SdkAccounts

CONSTANT SessionIds     \* the ids generateSessionId may draw

VARIABLES
    kind,       \* which provider exists: "none", "persona", "sumsub" or "google"
    sessions,   \* sessionCache: for each id the wallet and the status
    timers      \* the sessions whose setTimeout has not fired

providerVars == <<kind, sessions, timers>>

Kinds == {"none", "persona", "sumsub", "google"}

Undecided == {"pending", "in_progress"}

Decided == {"approved", "declined"}

Absent == [wallet |-> None, status |-> "absent"]

Opened == {id \in SessionIds : sessions[id].status # "absent"}

ProviderTypeOK ==
    /\ kind \in Kinds
    /\ sessions \in [SessionIds -> [wallet : Wallets \cup {None},
                                    status : Undecided \cup Decided \cup {"absent"}]]
    /\ timers \subseteq SessionIds

ProviderInit ==
    /\ kind = "none"
    /\ sessions = [id \in SessionIds |-> Absent]
    /\ timers = {}

Open(id, w, status) ==
    /\ id \notin Opened
    /\ sessions' = [sessions EXCEPT ![id] = [wallet |-> w, status |-> status]]
    /\ UNCHANGED kind

PersonaInitiate(id, w) ==
    /\ kind = "persona"
    /\ Open(id, w, "pending")
    /\ timers' = timers \cup {id}

\* Mutant: the completion of a session is never scheduled.
SumSubInitiateNoTimer(id, w) ==
    /\ kind = "sumsub"
    /\ Open(id, w, "in_progress")
    /\ UNCHANGED timers

SumSubInitiate(id, w) ==
    /\ kind = "sumsub"
    /\ Open(id, w, "in_progress")
    /\ timers' = timers \cup {id}

GoogleInitiate(id, w) ==
    /\ kind = "google"
    /\ Open(id, w, "pending")
    /\ UNCHANGED timers

InitiateVerification(id, w) ==
    \/ PersonaInitiate(id, w)
    \/ SumSubInitiate(id, w)
    \/ GoogleInitiate(id, w)

\* The simulated completion approves whatever the session's status has become.
Timer(id) ==
    /\ id \in timers
    /\ sessions' = [sessions EXCEPT ![id].status = "approved"]
    /\ timers' = timers \ {id}
    /\ UNCHANGED kind

StatusOf(outcome) == IF outcome = "completed" THEN "approved" ELSE "declined"

\* inquiry.complete names one inquiry; an unknown one is ignored.
PersonaWebhook(id, outcome) ==
    /\ kind = "persona"
    /\ id \in Opened
    /\ sessions' = [sessions EXCEPT ![id].status = StatusOf(outcome)]
    /\ UNCHANGED <<kind, timers>>

\* applicantStatusChanged names the applicant: every session of the wallet changes.
SumSubWebhook(w, outcome) ==
    /\ kind = "sumsub"
    /\ sessions' = [id \in SessionIds |->
                        IF sessions[id].wallet = w
                        THEN [sessions[id] EXCEPT !.status = StatusOf(outcome)]
                        ELSE sessions[id]]
    /\ UNCHANGED <<kind, timers>>

HandleWebhook(outcome) ==
    \/ \E id \in SessionIds : PersonaWebhook(id, outcome)
    \/ \E w \in Wallets : SumSubWebhook(w, outcome)

PersonaStatus(id) == IF sessions[id].status = "approved" THEN "VERIFIED" ELSE "PENDING"

SumSubStatus(id) ==
    CASE sessions[id].status = "approved"    -> "VERIFIED"
      [] sessions[id].status = "in_progress" -> "IN_PROGRESS"
      [] OTHER                               -> "PENDING"

GoogleStatus(id) == IF id \in Opened THEN "VERIFIED" ELSE "PENDING"

CheckStatus(id) ==
    CASE kind = "persona" -> PersonaStatus(id)
      [] kind = "sumsub"  -> SumSubStatus(id)
      [] kind = "google"  -> GoogleStatus(id)
      [] OTHER            -> "PENDING"

\* createKYCProvider: Google asks for a client secret, the others for nothing.
CanCreate(type, secret) == type \in {"persona", "sumsub"} \/ (type = "google" /\ secret)
=============================================================================
