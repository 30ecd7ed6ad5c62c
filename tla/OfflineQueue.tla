----------------------------- MODULE OfflineQueue -----------------------------
(***************************************************************************)
(* The queue of sdk/typescript/src/offline/queue.ts in localStorage. It is   *)
(* read and written at once, but processQueue awaits the processor between   *)
(* its read and its write.  The page may be left at any time.               *)
(***************************************************************************)
CONSTANTS
    QueueItems,     \* what the application enqueues, each item once
    QueueRuns       \* slots for runs of processQueue: bounds how many overlap

VARIABLES
    queue,      \* the stored list; nothing depends on its order
    runs,       \* for each run, what it has still to process and what it keeps
    processed,  \* history: items the processor took
    offered,    \* history: items that were enqueued
    quiet       \* history: items stored while no run was in flight, and neither cleared nor
                \* overlooked by a read that failed

queueVars == <<queue, runs, processed, offered, quiet>>

NoRun == [active |-> FALSE, todo |-> {}, remaining |-> {}]

QueueTypeOK ==
    /\ {queue, processed, offered, quiet} \subseteq SUBSET QueueItems
    /\ runs \in [QueueRuns -> [active : BOOLEAN, todo : SUBSET QueueItems,
                               remaining : SUBSET QueueItems]]

QueueInit ==
    /\ queue = {}
    /\ runs = [r \in QueueRuns |-> NoRun]
    /\ processed = {}
    /\ offered = {}
    /\ quiet = {}

InFlight == {r \in QueueRuns : runs[r].active}

\* loadQueue answers an empty list when the stored one cannot be read.
LoadQueue == {queue, {}}

\* What a reader of the list knows nothing of is quiet no longer.
QuietAfter(loaded) == quiet \ (queue \ loaded)

\* saveQueue swallows an error of localStorage: the stored list stays.
SaveQueue(q) == queue' \in {q, queue}

Enqueue(i) ==
    /\ i \notin offered
    /\ offered' = offered \union {i}
    /\ \E loaded \in LoadQueue :
          /\ SaveQueue(loaded \union {i})
          /\ quiet' = QuietAfter(loaded) \union (IF InFlight = {} THEN {i} \intersect queue' ELSE {})
    /\ UNCHANGED <<runs, processed>>

ClearQueue ==
    /\ SaveQueue({})
    /\ quiet' = IF queue' = {} THEN {} ELSE quiet
    /\ UNCHANGED <<runs, processed, offered>>

ProcessQueue(r) ==
    /\ ~runs[r].active
    /\ \E loaded \in LoadQueue :
          /\ runs' = [runs EXCEPT ![r] = [active |-> TRUE, todo |-> loaded, remaining |-> {}]]
          /\ quiet' = QuietAfter(loaded)
    /\ UNCHANGED <<queue, processed, offered>>

Processed(r, i) ==
    /\ i \in runs[r].todo
    /\ runs' = [runs EXCEPT ![r].todo = @ \ {i}]
    /\ processed' = processed \union {i}
    /\ UNCHANGED <<queue, offered, quiet>>

\* Mutant: an item whose processing fails is logged, not kept.
ProcessorFailsForgotten(r, i) ==
    /\ i \in runs[r].todo
    /\ runs' = [runs EXCEPT ![r].todo = @ \ {i}]
    /\ UNCHANGED <<queue, processed, offered, quiet>>

\* The processor rejects, whether or not it did the work.
ProcessorFails(r, i) ==
    /\ i \in runs[r].todo
    /\ runs' = [runs EXCEPT ![r].todo = @ \ {i}, ![r].remaining = @ \union {i}]
    /\ processed' \in {processed, processed \union {i}}
    /\ UNCHANGED <<queue, offered, quiet>>

SaveRemaining(r) ==
    /\ runs[r].active
    /\ runs[r].todo = {}
    /\ SaveQueue(runs[r].remaining)
    /\ runs' = [runs EXCEPT ![r] = NoRun]
    /\ UNCHANGED <<processed, offered, quiet>>

\* The page is closed or reloaded: the stored list survives, the runs do not.
LeavePage ==
    /\ InFlight # {}
    /\ runs' = [r \in QueueRuns |-> NoRun]
    /\ UNCHANGED <<queue, processed, offered, quiet>>

Queue ==
    \/ \E i \in QueueItems : Enqueue(i)
    \/ ClearQueue
    \/ \E r \in QueueRuns :
          \/ ProcessQueue(r)
          \/ \E i \in QueueItems : Processed(r, i) \/ ProcessorFails(r, i)
          \/ SaveRemaining(r)
    \/ LeavePage
=============================================================================
