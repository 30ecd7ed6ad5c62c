---------------------------- MODULE KycQueue_proofs ----------------------------
(* No undisturbed submission is lost, for any number of submissions and of    *)
(* overlapping runs.                                                          *)
EXTENDS KycQueue, TLAPS

USE SubmissionsAreNoRuns

\* Every step of the queue keeps the types (kycQueue.ts, all of enqueue and processQueue).
LEMMA TypeStep == TypeOK /\ [Next]_vars => TypeOK'
<1> SUFFICES ASSUME TypeOK, [Next]_vars PROVE TypeOK'
  OBVIOUS
<1> USE DEF TypeOK, Tasks, PCs, Items, Actions, Goto, UploadItem, RegisterItem, netVars
<1>1. ASSUME NEW s \in Submissions, EnqueueRead(s) PROVE TypeOK'
  BY <1>1 DEF EnqueueRead, Writing
<1>2. ASSUME NEW s \in Submissions, EnqueueWrite(s) PROVE TypeOK'
  BY <1>2 DEF EnqueueWrite
<1>3. ASSUME NEW r \in Runs, ProcessBegin(r) PROVE TypeOK'
  BY <1>3 DEF ProcessBegin, Writing
<1>4. ASSUME NEW r \in Runs, NEW s \in Submissions, Upload(r, s) PROVE TypeOK'
  BY <1>4 DEF Upload, TakeItem
<1>5. ASSUME NEW r \in Runs, NEW s \in Submissions, Send(r, s) PROVE TypeOK'
  BY <1>5 DEF Send, TakeItem
<1>6. ASSUME NEW r \in Runs, NEW item \in Items, ItemFails(r, item) PROVE TypeOK'
  BY <1>6 DEF ItemFails, TakeItem
<1>7. ASSUME NEW r \in Runs, Reread(r) PROVE TypeOK'
  BY <1>7 DEF Reread
<1>8. ASSUME NEW r \in Runs, AppendRegistration(r) PROVE TypeOK'
  BY <1>8 DEF AppendRegistration
<1>9. ASSUME NEW r \in Runs, AppendFails(r) PROVE TypeOK'
  BY <1>9 DEF AppendFails
<1>10. ASSUME NEW r \in Runs, ProcessSave(r) PROVE TypeOK'
  BY <1>10 DEF ProcessSave
<1>11. CASE Crash
  BY <1>11 DEF Crash
<1>12. CASE UNCHANGED vars
  BY <1>12 DEF vars, queueVars
<1> QED
  BY <1>1, <1>2, <1>3, <1>4, <1>5, <1>6, <1>7, <1>8, <1>9, <1>10,
     <1>11, <1>12 DEF Next, Enqueue, Process

\* Nothing is queued and nothing runs when the list is first read (kycQueue.ts:9, :27).
LEMMA InitInv == Init => QueueInv
  BY DEF Init, QueueInv, TypeOK, Tasks, PCs, QuietSubmissionsSurvive, HeldByEveryCopy,
         QuietWritersAreAlone, Kept, Writing, Active

\* Each step keeps undisturbed submissions in the stored list, in every copy of it that
\* a task will write back, and undisturbed writers alone.
LEMMA InvStep == QueueInv /\ [Next]_vars => QueueInv'
<1> SUFFICES ASSUME QueueInv, [Next]_vars PROVE QueueInv'
  OBVIOUS
<1>t. TypeOK /\ TypeOK'
  BY TypeStep DEF QueueInv
<1> DEFINE Parts == QuietSubmissionsSurvive /\ HeldByEveryCopy /\ QuietWritersAreAlone
<1>p. Parts
  BY DEF QueueInv
<1> SUFFICES Parts'
  BY <1>t DEF QueueInv
<1> USE <1>t, <1>p DEF TypeOK, Tasks, PCs, Items, Actions, Goto, UploadItem, RegisterItem, netVars,
        QuietSubmissionsSurvive, HeldByEveryCopy, QuietWritersAreAlone, Kept, Writing, Active
<1>1. ASSUME NEW s \in Submissions, EnqueueRead(s) PROVE Parts'
  BY <1>1 DEF EnqueueRead
<1>2. ASSUME NEW s \in Submissions, EnqueueWrite(s) PROVE Parts'
  BY <1>2 DEF EnqueueWrite
<1>3. ASSUME NEW r \in Runs, ProcessBegin(r) PROVE Parts'
  BY <1>3 DEF ProcessBegin
<1>4. ASSUME NEW r \in Runs, NEW s \in Submissions, Upload(r, s) PROVE Parts'
  BY <1>4 DEF Upload, TakeItem
<1>5. ASSUME NEW r \in Runs, NEW s \in Submissions, Send(r, s) PROVE Parts'
  BY <1>5 DEF Send, TakeItem
<1>6. ASSUME NEW r \in Runs, NEW item \in Items, ItemFails(r, item) PROVE Parts'
  BY <1>6 DEF ItemFails, TakeItem
<1>7. ASSUME NEW r \in Runs, Reread(r) PROVE Parts'
  BY <1>7 DEF Reread
<1>8. ASSUME NEW r \in Runs, AppendRegistration(r) PROVE Parts'
  BY <1>8 DEF AppendRegistration
<1>9. ASSUME NEW r \in Runs, AppendFails(r) PROVE Parts'
  BY <1>9 DEF AppendFails
<1>10. ASSUME NEW r \in Runs, ProcessSave(r) PROVE Parts'
  BY <1>10 DEF ProcessSave
<1>11. CASE Crash
  BY <1>11 DEF Crash
<1>12. CASE UNCHANGED vars
  BY <1>12 DEF vars, queueVars
<1> QED
  BY <1>1, <1>2, <1>3, <1>4, <1>5, <1>6, <1>7, <1>8, <1>9, <1>10,
     <1>11, <1>12 DEF Next, Enqueue, Process

\* The inductive invariant: whoever writes the list back writes the undisturbed
\* submissions with it.
THEOREM QueueInvHolds == Spec => []QueueInv
<1>1. Init => QueueInv
  BY InitInv
<1>2. QueueInv /\ [Next]_vars => QueueInv'
  BY InvStep
<1> QED
  BY <1>1, <1>2, PTL DEF Spec

\* A submission whose enqueue nothing overlapped stays stored until its metadata is
\* uploaded, whatever fails, crashes or overlaps later.
THEOREM SubmissionsSurvive == Spec => []QuietSubmissionsSurvive
<1>1. QueueInv => QuietSubmissionsSurvive
  BY DEF QueueInv
<1> QED
  BY <1>1, QueueInvHolds, PTL
=============================================================================
