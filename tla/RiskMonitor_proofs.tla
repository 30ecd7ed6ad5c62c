-------------------------- MODULE RiskMonitor_proofs --------------------------
(***************************************************************************)
(* Proofs about RiskMonitor, for any sets of wallets, keys, profiles and    *)
(* tasks.  Each conjunct of IndInv is shown to be preserved by a lemma of   *)
(* its own; the theorems follow at the end.                                *)
(***************************************************************************)
EXTENDS RiskMonitor, SequenceTheorems, TLAPS

USE DEF Executing

\* A stuttering step changes nothing that IndInv looks at.
LEMMA Stutter == IndInv /\ UNCHANGED vars => IndInv'
BY DEF IndInv, TypeOK, LocksMatch, LocalsSet, TodoDemanded, Demands, ActsOnCachedProfile,
       vars, registryVars, cacheVars, worldVars, taskVars

\* The statuses are closed under what the program does.
LEMMA StatusAfterType ==
    ASSUME NEW action \in ActionKinds, NEW s \in Statuses
    PROVE  StatusAfter(action, s) \in Statuses
BY DEF ActionKinds, Statuses, StatusAfter

\* Locals are typed, so every step keeps every variable in its type.
LEMMA TypeStep ==
    ASSUME TypeOK, LocalsSet, Next
    PROVE  TypeOK'
<1> USE NoneIsNothing, ActionsForType
<1>1. CASE Start
  BY <1>1 DEF TypeOK, Start, Goto, PCs, registryVars, cacheVars, worldVars
<1>2. CASE Stop
  BY <1>2 DEF TypeOK, Stop, registryVars, cacheVars, worldVars, taskVars
<1>3. ASSUME NEW l \in Loops, CheckRunning(l) PROVE TypeOK'
  BY <1>3 DEF TypeOK, CheckRunning, Goto, PCs, registryVars, cacheVars, worldVars
<1>4. ASSUME NEW l \in Loops, BeginCycle(l) PROVE TypeOK'
  <2>1. {<<w, attest[w]>> : w \in {x \in Wallets : attest[x] # None}} \subseteq Wallets \X Keys
    BY DEF TypeOK
  <2>2. work' \in [Tasks -> SUBSET (Wallets \X Keys)]
    BY <1>4, <2>1 DEF TypeOK, BeginCycle
  <2>3. pc' \in [Tasks -> PCs]
    BY <1>4 DEF TypeOK, BeginCycle, Goto, PCs
  <2>. QED
    BY <1>4, <2>2, <2>3 DEF TypeOK, BeginCycle, registryVars, cacheVars, worldVars
<1>5. ASSUME NEW t \in Loops \union Callers, NEW w \in Wallets, NEW k \in Keys,
             CacheHit(t, w, k)
      PROVE  TypeOK'
  <2>1. t \in Tasks
    BY DEF Tasks
  <2>2. cache[w] \in Entries /\ cache[w].profile \in Profiles
    BY <1>5 DEF TypeOK, CacheHit, IsFresh, Entries
  <2>3. ActionsFor[cache[w].profile] \in Seq(ActionKinds)
    BY <2>2
  <2>4. todo' \in [Tasks -> Seq(ActionKinds)]
    BY <1>5, <2>3 DEF TypeOK, CacheHit
  <2>5. work' \in [Tasks -> SUBSET (Wallets \X Keys)]
    BY <1>5, <2>1 DEF TypeOK, CacheHit, Arguments
  <2>. QED
    BY <1>5, <2>1, <2>2, <2>4, <2>5
    DEF TypeOK, CacheHit, Arguments, Goto, PCs, registryVars, worldVars
<1>6. ASSUME NEW t \in Loops \union Callers, NEW w \in Wallets, NEW k \in Keys,
             CacheMiss(t, w, k)
      PROVE  TypeOK'
  <2>1. work' \in [Tasks -> SUBSET (Wallets \X Keys)]
    BY <1>6 DEF TypeOK, CacheMiss, Arguments, Tasks
  <2>. QED
    BY <1>6, <2>1 DEF TypeOK, CacheMiss, Arguments, Goto, PCs, registryVars, cacheVars, worldVars
<1>7. ASSUME NEW t \in Loops \union Callers, Fetch(t) PROVE TypeOK'
  BY <1>7 DEF TypeOK, LocalsSet, Fetch, Goto, PCs, Tasks, registryVars, cacheVars, worldVars
<1>8. ASSUME NEW t \in Loops \union Callers, Store(t) PROVE TypeOK'
  <2>1. t \in Tasks /\ wallet[t] \in Wallets /\ profile[t] \in Profiles
    BY <1>8 DEF TypeOK, LocalsSet, Store, Tasks
  <2>2. [profile |-> profile[t], fresh |-> TRUE] \in Entries
    BY <2>1 DEF Entries
  <2>3. ActionsFor[profile[t]] \in Seq(ActionKinds)
    BY <2>1
  <2>4. todo' \in [Tasks -> Seq(ActionKinds)]
    BY <1>8, <2>3 DEF TypeOK, Store
  <2>. QED
    BY <1>8, <2>1, <2>2, <2>4 DEF TypeOK, Store, Goto, PCs, registryVars, worldVars
<1>9. ASSUME NEW t \in Loops \union Callers, NEW k \in Keys, ActionLands(t, k) PROVE TypeOK'
  <2>1. todo[t] \in Seq(ActionKinds) /\ todo[t] # <<>>
    BY <1>9 DEF TypeOK, ActionLands, Tasks
  <2>2. Head(todo[t]) \in ActionKinds /\ Tail(todo[t]) \in Seq(ActionKinds)
    BY <2>1, HeadTailProperties
  <2>3. StatusAfter(Head(todo[t]), onchain[k]) \in Statuses
    BY <2>2, StatusAfterType DEF TypeOK
  <2>. QED
    BY <1>9, <2>2, <2>3 DEF TypeOK, ActionLands, Done, registryVars, cacheVars
<1>10. ASSUME NEW t \in Loops \union Callers, ActionFails(t) PROVE TypeOK'
  <2>1. todo[t] \in Seq(ActionKinds) /\ todo[t] # <<>>
    BY <1>10 DEF TypeOK, ActionFails, Tasks
  <2>2. Tail(todo[t]) \in Seq(ActionKinds)
    BY <2>1, HeadTailProperties
  <2>. QED
    BY <1>10, <2>2 DEF TypeOK, ActionFails, Done, registryVars, cacheVars, worldVars
<1>11. ASSUME NEW t \in Loops \union Callers, ReturnFromProcessWallet(t) PROVE TypeOK'
  BY <1>11 DEF TypeOK, ReturnFromProcessWallet, Goto, PCs, registryVars, worldVars
<1>12. ASSUME NEW c \in Callers, ForceResolve(c) PROVE TypeOK'
  BY <1>12 DEF TypeOK, LocalsSet, ForceResolve, Goto, PCs, Tasks, registryVars, cacheVars, worldVars
<1>13. ASSUME NEW c \in Callers, NEW w \in Wallets, ForceBegin(c, w) PROVE TypeOK'
  BY <1>13 DEF TypeOK, ForceBegin, Goto, PCs, registryVars, worldVars
<1>14. ASSUME NEW a \in Admins, UnregisterEnd(a) PROVE TypeOK'
  BY <1>14 DEF TypeOK, UnregisterEnd, Goto, PCs, worldVars
<1>15. ASSUME NEW a \in Admins, NEW w \in Wallets, UnregisterBegin(a, w) PROVE TypeOK'
  BY <1>15 DEF TypeOK, UnregisterBegin, Goto, PCs, cacheVars, worldVars
<1>16. ASSUME NEW w \in Wallets, NEW k \in Keys, Register(w, k) PROVE TypeOK'
  BY <1>16 DEF TypeOK, Register, cacheVars, worldVars, taskVars
<1>17. ASSUME NEW w \in Wallets, CacheExpires(w) PROVE TypeOK'
  <2>1. cache[w] \in Entries
    BY <1>17 DEF TypeOK, CacheExpires, IsFresh
  <2>2. [cache[w] EXCEPT !.fresh = FALSE] \in Entries
    BY <2>1 DEF Entries
  <2>. QED
    BY <1>17, <2>2 DEF TypeOK, CacheExpires, registryVars, worldVars, taskVars
<1>18. ASSUME NEW w \in Wallets, NEW p \in Profiles, RiskChanges(w, p) PROVE TypeOK'
  BY <1>18 DEF TypeOK, RiskChanges, registryVars, cacheVars, taskVars
<1>. QED
  BY <1>1, <1>2, <1>3, <1>4, <1>5, <1>6, <1>7, <1>8, <1>9, <1>10, <1>11, <1>12, <1>13,
     <1>14, <1>15, <1>16, <1>17, <1>18
  DEF Next, Loop, ProcessWallet

\* A task sets its wallet before it needs it and its profile before it stores it.
LEMMA LocalsStep ==
    ASSUME TypeOK, LocalsSet, Next
    PROVE  LocalsSet'
<1> USE NoneIsNothing
<1>1. CASE Start
  BY <1>1 DEF Start, TypeOK, LocalsSet, Tasks, Goto
<1>2. CASE Stop
  BY <1>2 DEF Stop, TypeOK, LocalsSet, Tasks, taskVars
<1>3. ASSUME NEW l \in Loops, CheckRunning(l) PROVE LocalsSet'
  BY <1>3 DEF CheckRunning, TypeOK, LocalsSet, Tasks, Goto
<1>4. ASSUME NEW l \in Loops, BeginCycle(l) PROVE LocalsSet'
  BY <1>4 DEF BeginCycle, TypeOK, LocalsSet, Tasks, Goto
<1>5. ASSUME NEW t \in Loops \union Callers, NEW w \in Wallets, NEW k \in Keys, CacheHit(t, w, k)
      PROVE  LocalsSet'
  BY <1>5 DEF CacheHit, TypeOK, LocalsSet, Tasks, Enters, Arguments, IsFresh, Goto, Entries
<1>6. ASSUME NEW t \in Loops \union Callers, NEW w \in Wallets, NEW k \in Keys, CacheMiss(t, w, k)
      PROVE  LocalsSet'
  BY <1>6 DEF CacheMiss, TypeOK, LocalsSet, Tasks, Enters, Arguments, IsFresh, Goto
<1>7. ASSUME NEW t \in Loops \union Callers, Fetch(t) PROVE LocalsSet'
  BY <1>7 DEF Fetch, TypeOK, LocalsSet, Tasks, Goto
<1>8. ASSUME NEW t \in Loops \union Callers, Store(t) PROVE LocalsSet'
  BY <1>8 DEF Store, TypeOK, LocalsSet, Tasks, Goto
<1>9. ASSUME NEW t \in Loops \union Callers, NEW k \in Keys, ActionLands(t, k) PROVE LocalsSet'
  BY <1>9 DEF ActionLands, TypeOK, LocalsSet, Tasks
<1>10. ASSUME NEW t \in Loops \union Callers, ActionFails(t) PROVE LocalsSet'
  BY <1>10 DEF ActionFails, TypeOK, LocalsSet, Tasks
<1>11. ASSUME NEW t \in Loops \union Callers, ReturnFromProcessWallet(t) PROVE LocalsSet'
  BY <1>11 DEF ReturnFromProcessWallet, TypeOK, LocalsSet, Tasks, Goto
<1>12. ASSUME NEW c \in Callers, ForceResolve(c) PROVE LocalsSet'
  BY <1>12 DEF ForceResolve, TypeOK, LocalsSet, Tasks, Goto
<1>13. ASSUME NEW c \in Callers, NEW w \in Wallets, ForceBegin(c, w) PROVE LocalsSet'
  BY <1>13 DEF ForceBegin, TypeOK, LocalsSet, Tasks, Goto
<1>14. ASSUME NEW a \in Admins, UnregisterEnd(a) PROVE LocalsSet'
  BY <1>14 DEF UnregisterEnd, TypeOK, LocalsSet, Tasks, Goto
<1>15. ASSUME NEW a \in Admins, NEW w \in Wallets, UnregisterBegin(a, w) PROVE LocalsSet'
  BY <1>15 DEF UnregisterBegin, TypeOK, LocalsSet, Tasks, Goto
<1>16. ASSUME NEW w \in Wallets, NEW k \in Keys, Register(w, k) PROVE LocalsSet'
  BY <1>16 DEF Register, TypeOK, LocalsSet, Tasks, taskVars
<1>17. ASSUME NEW w \in Wallets, CacheExpires(w) PROVE LocalsSet'
  BY <1>17 DEF CacheExpires, TypeOK, LocalsSet, Tasks, IsFresh, taskVars
<1>18. ASSUME NEW w \in Wallets, NEW p \in Profiles, RiskChanges(w, p) PROVE LocalsSet'
  BY <1>18 DEF RiskChanges, TypeOK, LocalsSet, Tasks, taskVars
<1>. QED
  BY <1>1, <1>2, <1>3, <1>4, <1>5, <1>6, <1>7, <1>8, <1>9, <1>10, <1>11, <1>12,
     <1>13, <1>14, <1>15, <1>16, <1>17, <1>18
  DEF Next, Loop, ProcessWallet

\* A task that starts to execute takes the cache, one that returns gives it back.
LEMMA LocksStep ==
    ASSUME TypeOK, LocksMatch, Next
    PROVE  LocksMatch'
<1> USE NoneIsNothing
<1>1. CASE Start
  BY <1>1 DEF Start, TypeOK, LocksMatch, Tasks, Goto, cacheVars
<1>2. CASE Stop
  BY <1>2 DEF Stop, TypeOK, LocksMatch, Tasks, cacheVars, taskVars
<1>3. ASSUME NEW l \in Loops, CheckRunning(l) PROVE LocksMatch'
  BY <1>3 DEF CheckRunning, TypeOK, LocksMatch, Tasks, Goto, cacheVars
<1>4. ASSUME NEW l \in Loops, BeginCycle(l) PROVE LocksMatch'
  BY <1>4 DEF BeginCycle, TypeOK, LocksMatch, Tasks, Goto, cacheVars
<1>5. ASSUME NEW t \in Loops \union Callers, NEW w \in Wallets, NEW k \in Keys, CacheHit(t, w, k)
      PROVE  LocksMatch'
  BY <1>5 DEF CacheHit, TypeOK, LocksMatch, Tasks, CacheReadable, Goto, Enters
<1>6. ASSUME NEW t \in Loops \union Callers, NEW w \in Wallets, NEW k \in Keys, CacheMiss(t, w, k)
      PROVE  LocksMatch'
  BY <1>6 DEF CacheMiss, TypeOK, LocksMatch, Tasks, CacheReadable, Goto, cacheVars, Enters
<1>7. ASSUME NEW t \in Loops \union Callers, Fetch(t) PROVE LocksMatch'
  BY <1>7 DEF Fetch, TypeOK, LocksMatch, Tasks, Goto, cacheVars
<1>8. ASSUME NEW t \in Loops \union Callers, Store(t) PROVE LocksMatch'
  BY <1>8 DEF Store, TypeOK, LocksMatch, Tasks, CacheWritable, Goto
<1>9. ASSUME NEW t \in Loops \union Callers, NEW k \in Keys, ActionLands(t, k) PROVE LocksMatch'
  BY <1>9 DEF ActionLands, TypeOK, LocksMatch, Tasks, cacheVars
<1>10. ASSUME NEW t \in Loops \union Callers, ActionFails(t) PROVE LocksMatch'
  BY <1>10 DEF ActionFails, TypeOK, LocksMatch, Tasks, cacheVars
<1>11. ASSUME NEW t \in Loops \union Callers, ReturnFromProcessWallet(t) PROVE LocksMatch'
  BY <1>11 DEF ReturnFromProcessWallet, TypeOK, LocksMatch, Tasks, Goto
<1>12. ASSUME NEW c \in Callers, ForceResolve(c) PROVE LocksMatch'
  BY <1>12 DEF ForceResolve, TypeOK, LocksMatch, Tasks, Goto, cacheVars
<1>13. ASSUME NEW c \in Callers, NEW w \in Wallets, ForceBegin(c, w) PROVE LocksMatch'
  BY <1>13 DEF ForceBegin, TypeOK, LocksMatch, Tasks, CacheWritable, Goto
<1>14. ASSUME NEW a \in Admins, UnregisterEnd(a) PROVE LocksMatch'
  BY <1>14 DEF UnregisterEnd, TypeOK, LocksMatch, Tasks, CacheWritable, Goto
<1>15. ASSUME NEW a \in Admins, NEW w \in Wallets, UnregisterBegin(a, w) PROVE LocksMatch'
  BY <1>15 DEF UnregisterBegin, TypeOK, LocksMatch, Tasks, Goto, cacheVars
<1>16. ASSUME NEW w \in Wallets, NEW k \in Keys, Register(w, k) PROVE LocksMatch'
  BY <1>16 DEF Register, TypeOK, LocksMatch, Tasks, cacheVars, taskVars
<1>17. ASSUME NEW w \in Wallets, CacheExpires(w) PROVE LocksMatch'
  BY <1>17 DEF CacheExpires, TypeOK, LocksMatch, Tasks, taskVars
<1>18. ASSUME NEW w \in Wallets, NEW p \in Profiles, RiskChanges(w, p) PROVE LocksMatch'
  BY <1>18 DEF RiskChanges, TypeOK, LocksMatch, Tasks, cacheVars, taskVars
<1>. QED
  BY <1>1, <1>2, <1>3, <1>4, <1>5, <1>6, <1>7, <1>8, <1>9, <1>10, <1>11, <1>12,
     <1>13, <1>14, <1>15, <1>16, <1>17, <1>18
  DEF Next, Loop, ProcessWallet

\* What is left to execute is a suffix of what the profile demands.
LEMMA TodoStep ==
    ASSUME TypeOK, LocalsSet, TodoDemanded, Next
    PROVE  TodoDemanded'
<1> USE NoneIsNothing, ActionsForType
<1>1. CASE Start
  BY <1>1 DEF Start, TodoDemanded, Demands, TypeOK, LocalsSet, Tasks, Goto
<1>2. CASE Stop
  BY <1>2 DEF Stop, TodoDemanded, Demands, TypeOK, LocalsSet, Tasks, taskVars
<1>3. ASSUME NEW l \in Loops, CheckRunning(l) PROVE TodoDemanded'
  BY <1>3 DEF CheckRunning, TodoDemanded, Demands, TypeOK, LocalsSet, Tasks, Goto
<1>4. ASSUME NEW l \in Loops, BeginCycle(l) PROVE TodoDemanded'
  BY <1>4 DEF BeginCycle, TodoDemanded, Demands, TypeOK, LocalsSet, Tasks, Goto
<1>5. ASSUME NEW t \in Loops \union Callers, NEW w \in Wallets, NEW k \in Keys, CacheHit(t, w, k)
      PROVE  TodoDemanded'
  BY <1>5 DEF CacheHit, TodoDemanded, Demands, TypeOK, LocalsSet, Tasks, IsFresh, Arguments,
         Enters, Goto, Entries
<1>6. ASSUME NEW t \in Loops \union Callers, NEW w \in Wallets, NEW k \in Keys, CacheMiss(t, w, k)
      PROVE  TodoDemanded'
  BY <1>6 DEF CacheMiss, TodoDemanded, Demands, TypeOK, LocalsSet, Tasks, IsFresh, Arguments,
         Enters, Goto
<1>7. ASSUME NEW t \in Loops \union Callers, Fetch(t) PROVE TodoDemanded'
  BY <1>7 DEF Fetch, TodoDemanded, Demands, TypeOK, LocalsSet, Tasks, Goto
<1>8. ASSUME NEW t \in Loops \union Callers, Store(t) PROVE TodoDemanded'
  BY <1>8 DEF Store, TodoDemanded, Demands, TypeOK, LocalsSet, Tasks, Goto
<1>9. ASSUME NEW t \in Loops \union Callers, NEW k \in Keys, ActionLands(t, k) PROVE TodoDemanded'
  <2>1. t \in Tasks /\ Executing(t) /\ todo[t] \in Seq(ActionKinds) /\ todo[t] # <<>>
    BY <1>9 DEF TypeOK, ActionLands, Tasks
  <2>2. \A i \in DOMAIN Tail(todo[t]) : i + 1 \in DOMAIN todo[t] /\ Tail(todo[t])[i] = todo[t][i + 1]
    BY <2>1, HeadTailProperties
  <2>3. \A i \in DOMAIN Tail(todo[t]) : Demands(profile[t], Tail(todo[t])[i])
    BY <2>1, <2>2 DEF TodoDemanded
  <2>4. /\ todo' = [todo EXCEPT ![t] = Tail(todo[t])]
        /\ UNCHANGED <<pc, profile>>
    BY <1>9 DEF ActionLands, Done
  <2>5. ASSUME NEW u \in Tasks, Executing(u)', NEW i \in DOMAIN todo'[u]
        PROVE  Demands(profile[u], todo'[u][i])
    <3>1. CASE u = t
      BY <2>1, <2>3, <2>4, <2>5, <3>1 DEF TypeOK
    <3>2. CASE u # t
      BY <2>1, <2>4, <2>5, <3>2 DEF TodoDemanded, TypeOK
    <3>. QED
      BY <3>1, <3>2
  <2>. QED
    BY <2>4, <2>5 DEF TodoDemanded, Demands
<1>10. ASSUME NEW t \in Loops \union Callers, ActionFails(t) PROVE TodoDemanded'
  <2>1. t \in Tasks /\ Executing(t) /\ todo[t] \in Seq(ActionKinds) /\ todo[t] # <<>>
    BY <1>10 DEF TypeOK, ActionFails, Tasks
  <2>2. \A i \in DOMAIN Tail(todo[t]) : i + 1 \in DOMAIN todo[t] /\ Tail(todo[t])[i] = todo[t][i + 1]
    BY <2>1, HeadTailProperties
  <2>3. \A i \in DOMAIN Tail(todo[t]) : Demands(profile[t], Tail(todo[t])[i])
    BY <2>1, <2>2 DEF TodoDemanded
  <2>4. /\ todo' = [todo EXCEPT ![t] = Tail(todo[t])]
        /\ UNCHANGED <<pc, profile>>
    BY <1>10 DEF ActionFails, Done
  <2>5. ASSUME NEW u \in Tasks, Executing(u)', NEW i \in DOMAIN todo'[u]
        PROVE  Demands(profile[u], todo'[u][i])
    <3>1. CASE u = t
      BY <2>1, <2>3, <2>4, <2>5, <3>1 DEF TypeOK
    <3>2. CASE u # t
      BY <2>1, <2>4, <2>5, <3>2 DEF TodoDemanded, TypeOK
    <3>. QED
      BY <3>1, <3>2
  <2>. QED
    BY <2>4, <2>5 DEF TodoDemanded, Demands
<1>11. ASSUME NEW t \in Loops \union Callers, ReturnFromProcessWallet(t) PROVE TodoDemanded'
  BY <1>11 DEF ReturnFromProcessWallet, TodoDemanded, Demands, TypeOK, LocalsSet, Tasks, Goto
<1>12. ASSUME NEW c \in Callers, ForceResolve(c) PROVE TodoDemanded'
  BY <1>12 DEF ForceResolve, TodoDemanded, Demands, TypeOK, LocalsSet, Tasks, Goto
<1>13. ASSUME NEW c \in Callers, NEW w \in Wallets, ForceBegin(c, w) PROVE TodoDemanded'
  BY <1>13 DEF ForceBegin, TodoDemanded, Demands, TypeOK, LocalsSet, Tasks, Goto
<1>14. ASSUME NEW a \in Admins, UnregisterEnd(a) PROVE TodoDemanded'
  BY <1>14 DEF UnregisterEnd, TodoDemanded, Demands, TypeOK, LocalsSet, Tasks, Goto
<1>15. ASSUME NEW a \in Admins, NEW w \in Wallets, UnregisterBegin(a, w) PROVE TodoDemanded'
  BY <1>15 DEF UnregisterBegin, TodoDemanded, Demands, TypeOK, LocalsSet, Tasks, Goto
<1>16. ASSUME NEW w \in Wallets, NEW k \in Keys, Register(w, k) PROVE TodoDemanded'
  BY <1>16 DEF Register, TodoDemanded, Demands, TypeOK, LocalsSet, Tasks, taskVars
<1>17. ASSUME NEW w \in Wallets, CacheExpires(w) PROVE TodoDemanded'
  BY <1>17 DEF CacheExpires, TodoDemanded, Demands, TypeOK, LocalsSet, Tasks, IsFresh, taskVars
<1>18. ASSUME NEW w \in Wallets, NEW p \in Profiles, RiskChanges(w, p) PROVE TodoDemanded'
  BY <1>18 DEF RiskChanges, TodoDemanded, Demands, TypeOK, LocalsSet, Tasks, taskVars
<1>. QED
  BY <1>1, <1>2, <1>3, <1>4, <1>5, <1>6, <1>7, <1>8, <1>9, <1>10, <1>11, <1>12,
     <1>13, <1>14, <1>15, <1>16, <1>17, <1>18
  DEF Next, Loop, ProcessWallet

\* Removing or replacing an entry takes the exclusive lock, which nobody who acts leaves free.
LEMMA CachedStep ==
    ASSUME TypeOK, LocksMatch, LocalsSet, ActsOnCachedProfile, Next
    PROVE  ActsOnCachedProfile'
<1> USE NoneIsNothing
<1>1. CASE Start
  BY <1>1 DEF Start, ActsOnCachedProfile, LocalsSet, TypeOK, Tasks, Goto, cacheVars
<1>2. CASE Stop
  BY <1>2 DEF Stop, ActsOnCachedProfile, LocalsSet, TypeOK, Tasks, cacheVars, taskVars
<1>3. ASSUME NEW l \in Loops, CheckRunning(l) PROVE ActsOnCachedProfile'
  BY <1>3 DEF CheckRunning, ActsOnCachedProfile, LocalsSet, TypeOK, Tasks, Goto, cacheVars
<1>4. ASSUME NEW l \in Loops, BeginCycle(l) PROVE ActsOnCachedProfile'
  BY <1>4 DEF BeginCycle, ActsOnCachedProfile, LocalsSet, TypeOK, Tasks, Goto, cacheVars
<1>5. ASSUME NEW t \in Loops \union Callers, NEW w \in Wallets, NEW k \in Keys, CacheHit(t, w, k)
      PROVE  ActsOnCachedProfile'
  BY <1>5 DEF CacheHit, ActsOnCachedProfile, LocalsSet, TypeOK, Tasks, CacheReadable, IsFresh,
         Arguments, Enters, Goto
<1>6. ASSUME NEW t \in Loops \union Callers, NEW w \in Wallets, NEW k \in Keys, CacheMiss(t, w, k)
      PROVE  ActsOnCachedProfile'
  BY <1>6 DEF CacheMiss, ActsOnCachedProfile, LocalsSet, TypeOK, Tasks, CacheReadable, IsFresh,
         Arguments, Enters, Goto, cacheVars
<1>7. ASSUME NEW t \in Loops \union Callers, Fetch(t) PROVE ActsOnCachedProfile'
  BY <1>7 DEF Fetch, ActsOnCachedProfile, LocalsSet, TypeOK, Tasks, Goto, cacheVars
<1>8. ASSUME NEW t \in Loops \union Callers, Store(t) PROVE ActsOnCachedProfile'
  <2>1. /\ t \in Tasks /\ wallet[t] \in Wallets /\ profile[t] \in Profiles
        /\ writer = None /\ readers = {}
        /\ pc' = [pc EXCEPT ![t] = "exec"]
        /\ cache' = [cache EXCEPT ![wallet[t]] = [profile |-> profile[t], fresh |-> TRUE]]
        /\ UNCHANGED <<wallet, profile>>
    BY <1>8 DEF Store, LocalsSet, CacheWritable, Goto, Tasks
  <2>2. \A u \in Tasks : ~Executing(u)
    BY <2>1, NoneIsNothing DEF LocksMatch
  <2>3. \A u \in Tasks : Executing(u)' => u = t
    BY <2>1, <2>2 DEF TypeOK
  <2>4. cache'[wallet[t]] = [profile |-> profile[t], fresh |-> TRUE]
    BY <2>1 DEF TypeOK
  <2>5. cache'[wallet[t]] # None /\ cache'[wallet[t]].profile = profile[t]
    <3>1. [profile |-> profile[t], fresh |-> TRUE] \in Entries
      BY <2>1 DEF Entries
    <3>2. [profile |-> profile[t], fresh |-> TRUE] # None
      BY <3>1, NoneIsNothing
    <3>. QED
      BY <2>4, <3>2
  <2>. QED
    BY <2>1, <2>3, <2>5 DEF ActsOnCachedProfile
<1>9. ASSUME NEW t \in Loops \union Callers, NEW k \in Keys, ActionLands(t, k)
      PROVE  ActsOnCachedProfile'
  BY <1>9 DEF ActionLands, ActsOnCachedProfile, LocalsSet, TypeOK, Tasks, cacheVars
<1>10. ASSUME NEW t \in Loops \union Callers, ActionFails(t) PROVE ActsOnCachedProfile'
  BY <1>10 DEF ActionFails, ActsOnCachedProfile, LocalsSet, TypeOK, Tasks, cacheVars
<1>11. ASSUME NEW t \in Loops \union Callers, ReturnFromProcessWallet(t)
      PROVE  ActsOnCachedProfile'
  BY <1>11 DEF ReturnFromProcessWallet, ActsOnCachedProfile, LocalsSet, TypeOK, Tasks, Goto
<1>12. ASSUME NEW c \in Callers, ForceResolve(c) PROVE ActsOnCachedProfile'
  BY <1>12 DEF ForceResolve, ActsOnCachedProfile, LocalsSet, TypeOK, Tasks, Goto, cacheVars
<1>13. ASSUME NEW c \in Callers, NEW w \in Wallets, ForceBegin(c, w) PROVE ActsOnCachedProfile'
  BY <1>13 DEF ForceBegin, ActsOnCachedProfile, LocalsSet, TypeOK, Tasks, CacheWritable, Goto,
         LocksMatch
<1>14. ASSUME NEW a \in Admins, UnregisterEnd(a) PROVE ActsOnCachedProfile'
  BY <1>14 DEF UnregisterEnd, ActsOnCachedProfile, LocalsSet, TypeOK, Tasks, CacheWritable, Goto,
         LocksMatch
<1>15. ASSUME NEW a \in Admins, NEW w \in Wallets, UnregisterBegin(a, w)
      PROVE  ActsOnCachedProfile'
  BY <1>15 DEF UnregisterBegin, ActsOnCachedProfile, LocalsSet, TypeOK, Tasks, Goto, cacheVars
<1>16. ASSUME NEW w \in Wallets, NEW k \in Keys, Register(w, k) PROVE ActsOnCachedProfile'
  BY <1>16 DEF Register, ActsOnCachedProfile, LocalsSet, TypeOK, Tasks, cacheVars, taskVars
<1>17. ASSUME NEW w \in Wallets, CacheExpires(w) PROVE ActsOnCachedProfile'
  <2>1. /\ cache[w] \in Entries
        /\ cache' = [cache EXCEPT ![w] = [cache[w] EXCEPT !.fresh = FALSE]]
        /\ UNCHANGED <<pc, wallet, profile>>
    BY <1>17 DEF CacheExpires, IsFresh, TypeOK, taskVars
  <2>2. /\ [cache[w] EXCEPT !.fresh = FALSE] \in Entries
        /\ [cache[w] EXCEPT !.fresh = FALSE].profile = cache[w].profile
    BY <2>1 DEF Entries
  <2>3. \A v \in Wallets : cache[v] # None =>
            cache'[v] # None /\ cache'[v].profile = cache[v].profile
    BY <2>1, <2>2, NoneIsNothing DEF TypeOK
  <2>. QED
    BY <2>1, <2>3 DEF ActsOnCachedProfile, LocalsSet
<1>18. ASSUME NEW w \in Wallets, NEW p \in Profiles, RiskChanges(w, p) PROVE ActsOnCachedProfile'
  BY <1>18 DEF RiskChanges, ActsOnCachedProfile, LocalsSet, TypeOK, Tasks, cacheVars, taskVars
<1>. QED
  BY <1>1, <1>2, <1>3, <1>4, <1>5, <1>6, <1>7, <1>8, <1>9, <1>10, <1>11, <1>12,
     <1>13, <1>14, <1>15, <1>16, <1>17, <1>18
  DEF Next, Loop, ProcessWallet

\* IndInv is inductive.
LEMMA Inductive == IndInv /\ [Next]_vars => IndInv'
<1>1. CASE IndInv /\ Next
  BY <1>1, TypeStep, LocalsStep, LocksStep, TodoStep, CachedStep DEF IndInv
<1>2. CASE IndInv /\ UNCHANGED vars
  BY <1>2, Stutter
<1>. QED
  BY <1>1, <1>2

\* It holds initially: nobody executes, and no local is set.
LEMMA Initially == Init => IndInv
<1> SUFFICES ASSUME Init PROVE IndInv
  OBVIOUS
<1> USE NoneIsNothing
<1>1. TypeOK
  <2>1. todo \in [Tasks -> Seq(ActionKinds)]
    BY DEF Init
  <2>2. work \in [Tasks -> SUBSET (Wallets \X Keys)]
    BY DEF Init
  <2>3. pc \in [Tasks -> PCs]
    BY DEF Init, PCs
  <2>. QED
    BY <2>1, <2>2, <2>3 DEF Init, TypeOK, Statuses
<1>2. \A t \in Tasks : pc[t] \in {"off", "idle"}
  BY DEF Init
<1>3. LocksMatch /\ LocalsSet /\ TodoDemanded /\ ActsOnCachedProfile
  BY <1>2 DEF Init, LocksMatch, LocalsSet, TodoDemanded, ActsOnCachedProfile
<1>. QED
  BY <1>1, <1>3 DEF IndInv

\* In every reachable state of the service the lock guards, the locals and the cache
\* fit together as IndInv says.
THEOREM IndInvHolds == Spec => []IndInv
BY Initially, Inductive, PTL DEF Spec

\* Every variable of the service keeps its type, whatever the tasks and wallets are.
THEOREM TypeCorrect == Spec => []TypeOK
<1>1. IndInv => TypeOK
  BY DEF IndInv
<1>. QED
  BY <1>1, IndInvHolds, PTL

\* process_wallet's guards on risk_cache exclude a fresh evaluation from any other.
THEOREM EvaluationsAreExclusive == Spec => []EvaluationsExclude
<1>1. IndInv => EvaluationsExclude
  <2>1. ASSUME IndInv, NEW t \in Tasks, NEW u \in Tasks, t # u, Executing(t), Executing(u)
        PROVE  {t, u} \subseteq readers /\ writer = None
    BY <2>1, NoneIsNothing DEF IndInv, TypeOK, LocksMatch
  <2>. QED
    BY <2>1 DEF EvaluationsExclude
<1>. QED
  BY <1>1, IndInvHolds, PTL

\* The profile that process_wallet acts on stays in risk_cache until it returns.
THEOREM ActionsFollowTheCache == Spec => []ActsOnCachedProfile
<1>1. IndInv => ActsOnCachedProfile
  BY DEF IndInv
<1>. QED
  BY <1>1, IndInvHolds, PTL


\* Only a loop that finds the service stopped ends, and start() brings a new one.
LEMMA MonitoredStep ==
    ASSUME TypeOK, RunningIsMonitored, Next
    PROVE  RunningIsMonitored'
<1>1. CASE Start
  BY <1>1 DEF Start, RunningIsMonitored, TypeOK, Tasks, Goto
<1>2. CASE Stop
  BY <1>2 DEF Stop, RunningIsMonitored, TypeOK, Tasks, taskVars
<1>3. ASSUME NEW l \in Loops, CheckRunning(l) PROVE RunningIsMonitored'
  BY <1>3 DEF CheckRunning, RunningIsMonitored, TypeOK, Tasks, Goto
<1>4. ASSUME NEW l \in Loops, BeginCycle(l) PROVE RunningIsMonitored'
  BY <1>4 DEF BeginCycle, RunningIsMonitored, TypeOK, Tasks, Goto
<1>5. ASSUME NEW t \in Loops \union Callers, NEW w \in Wallets, NEW k \in Keys, CacheHit(t, w, k)
      PROVE  RunningIsMonitored'
  BY <1>5 DEF CacheHit, RunningIsMonitored, TypeOK, Tasks, Goto, Enters
<1>6. ASSUME NEW t \in Loops \union Callers, NEW w \in Wallets, NEW k \in Keys, CacheMiss(t, w, k)
      PROVE  RunningIsMonitored'
  BY <1>6 DEF CacheMiss, RunningIsMonitored, TypeOK, Tasks, Goto, Enters
<1>7. ASSUME NEW t \in Loops \union Callers, Fetch(t) PROVE RunningIsMonitored'
  BY <1>7 DEF Fetch, RunningIsMonitored, TypeOK, Tasks, Goto
<1>8. ASSUME NEW t \in Loops \union Callers, Store(t) PROVE RunningIsMonitored'
  BY <1>8 DEF Store, RunningIsMonitored, TypeOK, Tasks, Goto
<1>9. ASSUME NEW t \in Loops \union Callers, NEW k \in Keys, ActionLands(t, k)
      PROVE  RunningIsMonitored'
  BY <1>9 DEF ActionLands, RunningIsMonitored, TypeOK, Tasks
<1>10. ASSUME NEW t \in Loops \union Callers, ActionFails(t) PROVE RunningIsMonitored'
  BY <1>10 DEF ActionFails, RunningIsMonitored, TypeOK, Tasks
<1>11. ASSUME NEW t \in Loops \union Callers, ReturnFromProcessWallet(t) PROVE RunningIsMonitored'
  BY <1>11 DEF ReturnFromProcessWallet, RunningIsMonitored, TypeOK, Tasks, Goto
<1>12. ASSUME NEW c \in Callers, ForceResolve(c) PROVE RunningIsMonitored'
  BY <1>12 DEF ForceResolve, RunningIsMonitored, TypeOK, Tasks, Goto
<1>13. ASSUME NEW c \in Callers, NEW w \in Wallets, ForceBegin(c, w) PROVE RunningIsMonitored'
  BY <1>13 DEF ForceBegin, RunningIsMonitored, TypeOK, Tasks, Goto
<1>14. ASSUME NEW a \in Admins, UnregisterEnd(a) PROVE RunningIsMonitored'
  BY <1>14 DEF UnregisterEnd, RunningIsMonitored, TypeOK, Tasks, Goto
<1>15. ASSUME NEW a \in Admins, NEW w \in Wallets, UnregisterBegin(a, w) PROVE RunningIsMonitored'
  BY <1>15 DEF UnregisterBegin, RunningIsMonitored, TypeOK, Tasks, Goto
<1>16. ASSUME NEW w \in Wallets, NEW k \in Keys, Register(w, k) PROVE RunningIsMonitored'
  BY <1>16 DEF Register, RunningIsMonitored, TypeOK, Tasks, taskVars
<1>17. ASSUME NEW w \in Wallets, CacheExpires(w) PROVE RunningIsMonitored'
  BY <1>17 DEF CacheExpires, RunningIsMonitored, TypeOK, Tasks, taskVars
<1>18. ASSUME NEW w \in Wallets, NEW p \in Profiles, RiskChanges(w, p) PROVE RunningIsMonitored'
  BY <1>18 DEF RiskChanges, RunningIsMonitored, TypeOK, Tasks, taskVars
<1>. QED
  BY <1>1, <1>2, <1>3, <1>4, <1>5, <1>6, <1>7, <1>8, <1>9, <1>10, <1>11, <1>12,
     <1>13, <1>14, <1>15, <1>16, <1>17, <1>18
  DEF Next, Loop, ProcessWallet

\* A running service always has a loop, in every interleaving of start, stop and loops.
THEOREM MonitoringGoesOn == Spec => []RunningIsMonitored
<1>1. Init => RunningIsMonitored
  BY DEF Init, RunningIsMonitored
<1>2. TypeOK /\ RunningIsMonitored /\ [Next]_vars => RunningIsMonitored'
  <2>1. CASE UNCHANGED vars
    BY <2>1 DEF vars, taskVars, RunningIsMonitored
  <2>. QED
    BY <2>1, MonitoredStep
<1>. QED
  BY <1>1, <1>2, TypeCorrect, PTL DEF Spec

\* Only register_wallet and unregister_wallet write the registry.
LEMMA RegistryWriters ==
    ASSUME Next
    PROVE  \/ attest' = attest
           \/ \E a \in Admins : UnregisterEnd(a)
           \/ \E w \in Wallets, k \in Keys : Register(w, k)
BY DEF Next, Loop, ProcessWallet, Start, Stop, CheckRunning, BeginCycle, CacheHit, CacheMiss,
       Fetch, Store, ActionLands, ActionFails, ReturnFromProcessWallet, ForceResolve, ForceBegin,
       UnregisterBegin, CacheExpires, RiskChanges, registryVars

\* unregister_wallet takes effect only while no policy action is under way.
THEOREM UnregisterIsOrdered == Spec => UnregisterIsQuiet
<1>1. ASSUME IndInv, Next, NEW w \in Wallets, attest[w] # None, attest'[w] = None
      PROVE  \A t \in Tasks : ~Executing(t)
  <2>1. CASE attest' = attest
    BY <1>1, <2>1
  <2>2. ASSUME NEW a \in Admins, UnregisterEnd(a) PROVE \A t \in Tasks : ~Executing(t)
    BY <1>1, <2>2, NoneIsNothing DEF UnregisterEnd, CacheWritable, IndInv, LocksMatch
  <2>3. ASSUME NEW v \in Wallets, NEW k \in Keys, Register(v, k) PROVE FALSE
    BY <1>1, <2>3, NoneIsNothing DEF Register, IndInv, TypeOK
  <2>. QED
    BY <1>1, <2>1, <2>2, <2>3, RegistryWriters
<1>2. IndInv /\ [Next]_vars =>
         [\A w \in Wallets : attest[w] # None /\ attest'[w] = None =>
             \A t \in Tasks : ~Executing(t)]_vars
  BY <1>1
<1>. QED
  BY <1>2, IndInvHolds, PTL DEF Spec, UnregisterIsQuiet

\* Only a policy action that lands writes to an attestation.
LEMMA AttestationWriters ==
    ASSUME Next
    PROVE  onchain' = onchain \/ \E t \in Loops \union Callers, k \in Keys : ActionLands(t, k)
BY DEF Next, Loop, ProcessWallet, Start, Stop, CheckRunning, BeginCycle, CacheHit, CacheMiss,
       Fetch, Store, ActionFails, ReturnFromProcessWallet, ForceResolve, ForceBegin, Register,
       UnregisterBegin, UnregisterEnd, CacheExpires, RiskChanges, worldVars

\* Every change of a status on chain is explained by a profile cached at that moment.
THEOREM ChangesAreExplained == Spec => StatusChangesAreExplained
<1> DEFINE Explained(k) ==
       \E w \in Wallets, action \in ActionKinds :
          /\ cache[w] # None
          /\ Demands(cache[w].profile, action)
          /\ onchain'[k] = StatusAfter(action, onchain[k])
<1>1. ASSUME IndInv, Next, NEW k \in Keys, onchain'[k] # onchain[k]
      PROVE  Explained(k)
  <2>1. PICK t \in Loops \union Callers, j \in Keys : ActionLands(t, j)
    BY <1>1, AttestationWriters
  <2>2. t \in Tasks /\ Executing(t) /\ todo[t] \in Seq(ActionKinds) /\ todo[t] # <<>>
    BY <1>1, <2>1 DEF ActionLands, IndInv, TypeOK, Tasks
  <2>3. 1 \in DOMAIN todo[t] /\ Head(todo[t]) = todo[t][1] /\ Head(todo[t]) \in ActionKinds
    BY <2>2, HeadTailProperties
  <2>4. Demands(profile[t], Head(todo[t]))
    BY <1>1, <2>2, <2>3 DEF IndInv, TodoDemanded
  <2>5. /\ wallet[t] \in Wallets
        /\ cache[wallet[t]] # None
        /\ cache[wallet[t]].profile = profile[t]
    BY <1>1, <2>2 DEF IndInv, LocalsSet, ActsOnCachedProfile
  <2>6. k = j /\ onchain'[k] = StatusAfter(Head(todo[t]), onchain[k])
    BY <1>1, <2>1 DEF ActionLands, IndInv, TypeOK
  <2>. QED
    BY <2>3, <2>4, <2>5, <2>6
<1>2. IndInv /\ [Next]_vars => [\A k \in Keys : onchain'[k] # onchain[k] => Explained(k)]_vars
  BY <1>1
<1>. QED
  BY <1>2, IndInvHolds, PTL DEF Spec, StatusChangesAreExplained

=============================================================================
