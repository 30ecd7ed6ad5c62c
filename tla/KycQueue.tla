------------------------------- MODULE KycQueue -------------------------------
(***************************************************************************)
(* The offline queue of the mobile client (rn/src/kycQueue.ts).  One list   *)
(* in AsyncStorage is read, changed and written back by                     *)
(*                                                                         *)
(*   - submissions: calls of enqueue from the app;                          *)
(*   - runs of processQueue, started by the background task.  A run uploads *)
(*     the metadata of a submission, enqueues its registration, sends       *)
(*     registrations, and at last writes back the items that failed.        *)
(*                                                                         *)
(* Every await is a point where another task goes on or the system stops    *)
(* the app.  The list is a set here: items are distinguished by their ids   *)
(* and nothing depends on their order.  Registrations of one submission     *)
(* that was uploaded twice are one item.                                    *)
(***************************************************************************)
EXTENDS Naturals

CONSTANTS
    Submissions,    \* what the app submits, each through a call of enqueue
    Runs            \* slots for runs of processQueue: bounds how many overlap

Tasks == Submissions \union Runs

ASSUME SubmissionsAreNoRuns == Submissions \intersect Runs = {}

Actions == {"upload_metadata", "register_onchain"}

Items == [action : Actions, of : Submissions]

UploadItem(s)   == [action |-> "upload_metadata", of |-> s]
RegisterItem(s) == [action |-> "register_onchain", of |-> s]

VARIABLES
    stored,     \* the list in AsyncStorage, which survives the app
    pc,         \* where each task is
    copy,       \* copy[t]: the list as read by the enqueue that t is in
    items,      \* items[r]: what is left of the snapshot that run r works through
    remaining,  \* remaining[r]: the items that failed, to be written back
    current,    \* current[r]: the submissions whose registration r is enqueuing
    uploaded,   \* submissions whose metadata reached IPFS
    registered, \* submissions whose registration reached the chain
    disturbed   \* history: submissions whose enqueue overlapped another task

queueVars == <<copy, items, remaining, current>>
netVars   == <<uploaded, registered>>
vars == <<stored, pc, queueVars, netVars, disturbed>>

PCs == {"new", "write", "queued",                 \* submissions
        "idle", "loop", "reread", "append"}       \* runs

TypeOK ==
    /\ stored \subseteq Items
    /\ pc \in [Tasks -> PCs]
    /\ copy \in [Tasks -> SUBSET Items]
    /\ items \in [Runs -> SUBSET Items]
    /\ remaining \in [Runs -> SUBSET Items]
    /\ current \in [Runs -> SUBSET Submissions]
    /\ uploaded \subseteq Submissions
    /\ registered \subseteq Submissions
    /\ disturbed \subseteq Submissions

Init ==
    /\ stored = {}
    /\ pc = [t \in Tasks |-> IF t \in Runs THEN "idle" ELSE "new"]
    /\ copy = [t \in Tasks |-> {}]
    /\ items = [r \in Runs |-> {}]
    /\ remaining = [r \in Runs |-> {}]
    /\ current = [r \in Runs |-> {}]
    /\ uploaded = {}
    /\ registered = {}
    /\ disturbed = {}

Goto(t, label) == pc' = [pc EXCEPT ![t] = label]

Writing == {s \in Submissions : pc[s] = "write"}
Active  == {r \in Runs : pc[r] # "idle"}

------------------------------------------------------------------------------
(* enqueue, called by the app                                               *)

EnqueueRead(s) ==
    /\ pc[s] = "new"
    /\ copy' = [copy EXCEPT ![s] = stored]
    /\ Goto(s, "write")
    /\ disturbed' = IF Writing \union Active = {} THEN disturbed \ {s}
                    ELSE disturbed \union Writing \union {s}
    /\ UNCHANGED <<stored, items, remaining, current, netVars>>

\* Mutant: the list that was read is forgotten.
EnqueueWriteAlone(s) ==
    /\ pc[s] = "write"
    /\ stored' = {UploadItem(s)}
    /\ copy' = [copy EXCEPT ![s] = {}]
    /\ Goto(s, "queued")
    /\ UNCHANGED <<items, remaining, current, netVars, disturbed>>

\* When storage rejects, so does enqueue: the user is not told that the item is queued.
EnqueueWrite(s) ==
    /\ pc[s] = "write"
    /\ \/ stored' = copy[s] \union {UploadItem(s)} /\ Goto(s, "queued")
       \/ UNCHANGED stored /\ Goto(s, "new")
    /\ copy' = [copy EXCEPT ![s] = {}]
    /\ UNCHANGED <<items, remaining, current, netVars, disturbed>>

------------------------------------------------------------------------------
(* processQueue                                                             *)

ProcessBegin(r) ==
    /\ pc[r] = "idle"
    /\ items' = [items EXCEPT ![r] = stored]
    /\ remaining' = [remaining EXCEPT ![r] = {}]
    /\ Goto(r, "loop")
    /\ disturbed' = disturbed \union Writing
    /\ UNCHANGED <<stored, copy, current, netVars>>

TakeItem(r, item) ==
    /\ pc[r] = "loop"
    /\ item \in items[r]
    /\ items' = [items EXCEPT ![r] = @ \ {item}]

\* The upload succeeds; enqueue is called for the registration.
Upload(r, s) ==
    /\ TakeItem(r, UploadItem(s))
    /\ uploaded' = uploaded \union {s}
    /\ current' = [current EXCEPT ![r] = {s}]
    /\ Goto(r, "reread")
    /\ UNCHANGED <<stored, copy, remaining, registered, disturbed>>

Reread(r) ==
    /\ pc[r] = "reread"
    /\ copy' = [copy EXCEPT ![r] = stored]
    /\ Goto(r, "append")
    /\ UNCHANGED <<stored, items, remaining, current, netVars, disturbed>>

AppendRegistration(r) ==
    /\ pc[r] = "append"
    /\ stored' = copy[r] \union {RegisterItem(s) : s \in current[r]}
    /\ copy' = [copy EXCEPT ![r] = {}]
    /\ current' = [current EXCEPT ![r] = {}]
    /\ Goto(r, "loop")
    /\ UNCHANGED <<items, remaining, netVars, disturbed>>

\* Storage rejects within that enqueue: the upload is kept for retry.
AppendFails(r) ==
    /\ pc[r] \in {"reread", "append"}
    /\ remaining' = [remaining EXCEPT ![r] = @ \union {UploadItem(s) : s \in current[r]}]
    /\ copy' = [copy EXCEPT ![r] = {}]
    /\ current' = [current EXCEPT ![r] = {}]
    /\ Goto(r, "loop")
    /\ UNCHANGED <<stored, items, netVars, disturbed>>

Send(r, s) ==
    /\ TakeItem(r, RegisterItem(s))
    /\ registered' = registered \union {s}
    /\ UNCHANGED <<stored, pc, copy, remaining, current, uploaded, disturbed>>

\* Mutant: a failed item is logged and forgotten.
ItemFailsForgotten(r, item) ==
    /\ TakeItem(r, item)
    /\ UNCHANGED <<stored, pc, copy, remaining, current, netVars, disturbed>>

\* IPFS or the RPC node fails, or does the work and the answer is lost.
ItemFails(r, item) ==
    /\ TakeItem(r, item)
    /\ remaining' = [remaining EXCEPT ![r] = @ \union {item}]
    /\ \/ UNCHANGED netVars
       \/ /\ item.action = "upload_metadata"
          /\ uploaded' = uploaded \union {item.of}
          /\ UNCHANGED registered
       \/ /\ item.action = "register_onchain"
          /\ registered' = registered \union {item.of}
          /\ UNCHANGED uploaded
    /\ UNCHANGED <<stored, pc, copy, current, disturbed>>

\* When storage rejects, the background task logs it and the list stays as it was.
ProcessSave(r) ==
    /\ pc[r] = "loop" /\ items[r] = {}
    /\ stored' \in {remaining[r], stored}
    /\ remaining' = [remaining EXCEPT ![r] = {}]
    /\ Goto(r, "idle")
    /\ UNCHANGED <<copy, items, current, netVars, disturbed>>

------------------------------------------------------------------------------
\* The system stops the app: the list survives, every task is gone.
Crash ==
    /\ Writing \union Active # {}
    /\ pc' = [t \in Tasks |-> IF t \in Runs THEN "idle"
                              ELSE IF pc[t] = "write" THEN "new" ELSE pc[t]]
    /\ copy' = [t \in Tasks |-> {}]
    /\ items' = [r \in Runs |-> {}]
    /\ remaining' = [r \in Runs |-> {}]
    /\ current' = [r \in Runs |-> {}]
    /\ UNCHANGED <<stored, netVars, disturbed>>

Enqueue(s) == EnqueueRead(s) \/ EnqueueWrite(s)

Process(r) ==
    \/ ProcessBegin(r)
    \/ \E s \in Submissions : Upload(r, s) \/ Send(r, s)
    \/ \E item \in Items : ItemFails(r, item)
    \/ Reread(r)
    \/ AppendRegistration(r)
    \/ AppendFails(r)
    \/ ProcessSave(r)

Next ==
    \/ \E s \in Submissions : Enqueue(s)
    \/ \E r \in Runs : Process(r)
    \/ Crash

Spec == Init /\ [][Next]_vars

\* The background task is scheduled again and again and its runs go on; an upload that
\* is tried again and again succeeds at some point.  Crashes are not bounded.
FairSpec ==
    /\ Spec
    /\ \A r \in Runs :
          /\ WF_vars(Process(r))
          /\ \A s \in Submissions : SF_vars(Upload(r, s))

------------------------------------------------------------------------------
\* What the app was told is queued, and nobody else touched the list meanwhile.
Kept(s) == pc[s] = "queued" /\ s \notin disturbed

\* A submission whose enqueue overlapped no other task stays in the stored list until its
\* metadata is uploaded: over failures of storage and network, crashes between any two
\* awaits, overlapping runs that write back old lists, and submissions that do overlap.
QuietSubmissionsSurvive ==
    \A s \in Submissions : Kept(s) => s \in uploaded \/ UploadItem(s) \in stored

\* What keeps it, over every interleaving of runs and calls of enqueue (an inductive
\* invariant): every list that some task holds and may write back contains the submission too.
HeldByEveryCopy ==
    \A s \in Submissions : Kept(s) /\ s \notin uploaded =>
        /\ \A r \in Active : UploadItem(s) \in items[r] \union remaining[r]
        /\ \A r \in Active : pc[r] = "append" => UploadItem(s) \in copy[r]
        /\ \A v \in Writing : UploadItem(s) \in copy[v]

\* The history means what it says: who enqueues undisturbed is alone with the list.
QuietWritersAreAlone ==
    \A s \in Writing : s \notin disturbed => Active = {} /\ Writing = {s}

\* The inductive invariant of the queue: no read-modify-write of enqueue or processQueue
\* drops an undisturbed submission, as each list in flight holds it.
QueueInv == TypeOK /\ QuietSubmissionsSurvive /\ HeldByEveryCopy /\ QuietWritersAreAlone

\* A submission that was queued undisturbed is uploaded at some point.
QuietSubmissionsAreUploaded ==
    \A s \in Submissions : Kept(s) ~> s \in uploaded
=============================================================================
