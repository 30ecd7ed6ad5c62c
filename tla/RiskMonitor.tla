----------------------------- MODULE RiskMonitor -----------------------------
(***************************************************************************)
(* The risk monitoring service (src/risk_engine/service.rs) together with   *)
(* what its action executor does to the attestations on chain              *)
(* (policy/actions.rs).  The service is a set of tokio tasks:               *)
(*                                                                         *)
(*   - monitoring loops, one spawned by each start() that finds the service *)
(*     stopped; every cycle copies the registered wallets and processes     *)
(*     them one after the other;                                            *)
(*   - callers of force_risk_check;                                         *)
(*   - callers of unregister_wallet.                                        *)
(*                                                                         *)
(* They share the wallet registry and the risk cache, each behind a tokio   *)
(* RwLock.  The guard that process_wallet takes on the cache lives until    *)
(* the end of the evaluation, so every policy action (its delay and its     *)
(* transaction included) runs with the lock held: shared after a cache hit, *)
(* exclusive after a fetch.                                                 *)
(***************************************************************************)
EXTENDS Naturals, Sequences, FiniteSets

CONSTANTS
    Wallets,        \* wallet addresses
    Keys,           \* attestation accounts on chain
    Profiles,       \* risk profiles the aggregator may return
    Loops,          \* slots for monitoring loops: bounds how many are alive
    Callers,        \* tasks that call force_risk_check
    Admins,         \* tasks that call unregister_wallet
    ActionsFor,     \* ActionsFor[p]: the actions executed for profile p, in order
    None            \* no key, no entry, no holder

ActionKinds == {"Revoke", "Flag", "Notify"}

Tasks == Loops \union Callers \union Admins

Entries == [profile : Profiles, fresh : BOOLEAN]

ASSUME TasksAreDisjoint ==
    /\ Loops \intersect Callers = {}
    /\ Loops \intersect Admins = {}
    /\ Callers \intersect Admins = {}

ASSUME NoneIsNothing ==
    /\ None \notin Wallets
    /\ None \notin Keys
    /\ None \notin Profiles
    /\ None \notin Tasks
    /\ None \notin Entries

ASSUME ActionsForType == ActionsFor \in [Profiles -> Seq(ActionKinds)]

VARIABLES
    running,    \* is_running
    attest,     \* attest[w]: the key w is registered with (active_wallets and
                \* wallet_attestations, always written together), or None
    registrar,  \* the task that holds the registry's write guards across an await
    cache,      \* risk_cache: the profile of w and whether its TTL still runs
    writer,     \* the task that holds the write guard of risk_cache
    readers,    \* the tasks that hold a read guard of risk_cache across an await
    risk,       \* risk[w]: the profile the aggregator would compute now
    onchain,    \* onchain[k]: the risk_status of the attestation account
    pc,         \* where each task is
    work,       \* work[t]: the (wallet, key) pairs left in the loop's cycle
    wallet,     \* wallet[t], key[t], profile[t]: arguments and locals of the
    key,        \*   process_wallet call that t is in, None outside of one
    profile,
    todo        \* todo[t]: the policy actions still to be executed

registryVars == <<attest, registrar>>
cacheVars    == <<cache, writer, readers>>
worldVars    == <<risk, onchain>>
taskVars     == <<pc, work, wallet, key, profile, todo>>
vars == <<running, registryVars, cacheVars, worldVars, taskVars>>

Statuses == {"Active", "Flagged", "Revoked"}

PCs == {"off", "tick", "next",                    \* loops
        "idle", "resolve", "lookup",              \* callers of force_risk_check
        "purge",                                  \* callers of unregister_wallet
        "fetch", "store", "exec"}                 \* process_wallet

TypeOK ==
    /\ running \in BOOLEAN
    /\ attest \in [Wallets -> Keys \union {None}]
    /\ registrar \in Admins \union {None}
    /\ cache \in [Wallets -> Entries \union {None}]
    /\ writer \in Tasks \union {None}
    /\ readers \subseteq Tasks
    /\ risk \in [Wallets -> Profiles]
    /\ onchain \in [Keys -> Statuses]
    /\ pc \in [Tasks -> PCs]
    /\ work \in [Tasks -> SUBSET (Wallets \X Keys)]
    /\ wallet \in [Tasks -> Wallets \union {None}]
    /\ key \in [Tasks -> Keys \union {None}]
    /\ profile \in [Tasks -> Profiles \union {None}]
    /\ todo \in [Tasks -> Seq(ActionKinds)]

------------------------------------------------------------------------------
(* The locks.  No step below keeps a read guard of the registry across an   *)
(* await, so a registry read only waits for the write guards; risk_cache    *)
(* guards of both kinds are kept.                                           *)

RegistryFree  == registrar = None
CacheReadable == writer = None
CacheWritable == writer = None /\ readers = {}

Goto(t, label) == pc' = [pc EXCEPT ![t] = label]

Init ==
    /\ running = FALSE
    /\ attest = [w \in Wallets |-> None]
    /\ registrar = None
    /\ cache = [w \in Wallets |-> None]
    /\ writer = None
    /\ readers = {}
    /\ risk \in [Wallets -> Profiles]
    /\ onchain = [k \in Keys |-> "Active"]
    /\ pc = [t \in Tasks |-> IF t \in Loops THEN "off" ELSE "idle"]
    /\ work = [t \in Tasks |-> {}]
    /\ wallet = [t \in Tasks |-> None]
    /\ key = [t \in Tasks |-> None]
    /\ profile = [t \in Tasks |-> None]
    /\ todo = [t \in Tasks |-> <<>>]

------------------------------------------------------------------------------
(* start, stop and the monitoring loop                                      *)

\* A second start() returns early; otherwise a new loop is spawned whether or
\* not the loop of an earlier start() has noticed the stop.
Start ==
    /\ ~running
    /\ running' = TRUE
    /\ \E l \in Loops : pc[l] = "off" /\ Goto(l, "next")
    /\ UNCHANGED <<registryVars, cacheVars, worldVars, work, wallet, key, profile, todo>>

Stop ==
    /\ running
    /\ running' = FALSE
    /\ UNCHANGED <<registryVars, cacheVars, worldVars, taskVars>>

\* Mutant: a loop with nothing to watch ends.
CheckRunningWithWallets(l) ==
    /\ pc[l] = "next" /\ work[l] = {}
    /\ Goto(l, IF running /\ (\E w \in Wallets : attest[w] # None) THEN "tick" ELSE "off")
    /\ UNCHANGED <<running, registryVars, cacheVars, worldVars, work, wallet, key, profile, todo>>

\* Mutant: a loop that never looks at is_running.
NeverCheckRunning(l) ==
    /\ pc[l] = "next" /\ work[l] = {}
    /\ Goto(l, "tick")
    /\ UNCHANGED <<running, registryVars, cacheVars, worldVars, work, wallet, key, profile, todo>>

\* `while *is_running`: between two cycles, and before the first.
CheckRunning(l) ==
    /\ pc[l] = "next" /\ work[l] = {}
    /\ Goto(l, IF running THEN "tick" ELSE "off")
    /\ UNCHANGED <<running, registryVars, cacheVars, worldVars, work, wallet, key, profile, todo>>

\* The tick, then the copy of the registry under its two read guards.
BeginCycle(l) ==
    /\ pc[l] = "tick"
    /\ RegistryFree
    /\ work' = [work EXCEPT ![l] = {<<w, attest[w]>> : w \in {x \in Wallets : attest[x] # None}}]
    /\ Goto(l, "next")
    /\ UNCHANGED <<running, registryVars, cacheVars, worldVars, wallet, key, profile, todo>>

------------------------------------------------------------------------------
(* process_wallet(w, k), called from a loop or from force_risk_check        *)

Enters(t, w, k) ==
    \/ t \in Loops /\ pc[t] = "next" /\ <<w, k>> \in work[t]
    \/ t \in Callers /\ pc[t] = "lookup" /\ wallet[t] = w /\ key[t] = k

Arguments(t, w, k) ==
    /\ work' = [work EXCEPT ![t] = @ \ {<<w, k>>}]
    /\ wallet' = [wallet EXCEPT ![t] = w]
    /\ key' = [key EXCEPT ![t] = k]

\* Mutant: an entry never gets too old.
IsCached(w) == cache[w] # None

IsFresh(w) == cache[w] # None /\ cache[w].fresh

\* Mutant: the entry is copied out and the read guard dropped before the evaluation.
CacheHitDroppingGuard(t, w, k) ==
    /\ Enters(t, w, k)
    /\ CacheReadable
    /\ IsFresh(w)
    /\ Arguments(t, w, k)
    /\ profile' = [profile EXCEPT ![t] = cache[w].profile]
    /\ todo' = [todo EXCEPT ![t] = ActionsFor[cache[w].profile]]
    /\ Goto(t, "exec")
    /\ UNCHANGED <<running, registryVars, cacheVars, worldVars>>

\* The read guard is a temporary of the `if let` and outlives the evaluation.
CacheHit(t, w, k) ==
    /\ Enters(t, w, k)
    /\ CacheReadable
    /\ IsFresh(w)
    /\ Arguments(t, w, k)
    /\ readers' = readers \union {t}
    /\ profile' = [profile EXCEPT ![t] = cache[w].profile]
    /\ todo' = [todo EXCEPT ![t] = ActionsFor[cache[w].profile]]
    /\ Goto(t, "exec")
    /\ UNCHANGED <<running, registryVars, cache, writer, worldVars>>

\* No entry or an expired one: the guard is dropped before the fetch.
CacheMiss(t, w, k) ==
    /\ Enters(t, w, k)
    /\ CacheReadable
    /\ ~IsFresh(w)
    /\ Arguments(t, w, k)
    /\ Goto(t, "fetch")
    /\ UNCHANGED <<running, registryVars, cacheVars, worldVars, profile, todo>>

\* The providers answer (the aggregator turns a provider's failure into
\* missing indicators, never into an error); no lock is held.
Fetch(t) ==
    /\ pc[t] = "fetch"
    /\ profile' = [profile EXCEPT ![t] = risk[wallet[t]]]
    /\ Goto(t, "store")
    /\ UNCHANGED <<running, registryVars, cacheVars, worldVars, work, wallet, key, todo>>

\* Mutant: the store waits for another writer only, not for readers.
StoreOverReaders(t) ==
    /\ pc[t] = "store"
    /\ CacheReadable
    /\ writer' = t
    /\ cache' = [cache EXCEPT ![wallet[t]] = [profile |-> profile[t], fresh |-> TRUE]]
    /\ todo' = [todo EXCEPT ![t] = ActionsFor[profile[t]]]
    /\ Goto(t, "exec")
    /\ UNCHANGED <<running, registryVars, readers, worldVars, work, wallet, key, profile>>

\* Mutant: the write guard is dropped after the insertion.
StoreReleasingGuard(t) ==
    /\ pc[t] = "store"
    /\ CacheWritable
    /\ cache' = [cache EXCEPT ![wallet[t]] = [profile |-> profile[t], fresh |-> TRUE]]
    /\ todo' = [todo EXCEPT ![t] = ActionsFor[profile[t]]]
    /\ Goto(t, "exec")
    /\ UNCHANGED <<running, registryVars, writer, readers, worldVars, work, wallet, key, profile>>

\* The write guard is taken here and lives until the function returns.
Store(t) ==
    /\ pc[t] = "store"
    /\ CacheWritable
    /\ writer' = t
    /\ cache' = [cache EXCEPT ![wallet[t]] = [profile |-> profile[t], fresh |-> TRUE]]
    /\ todo' = [todo EXCEPT ![t] = ActionsFor[profile[t]]]
    /\ Goto(t, "exec")
    /\ UNCHANGED <<running, registryVars, readers, worldVars, work, wallet, key, profile>>

------------------------------------------------------------------------------
(* evaluate_and_execute: the actions one by one, then the guard is dropped  *)

\* What the program does to the account, whatever its status was.
StatusAfter(action, status) ==
    CASE action = "Revoke" -> "Revoked"
      [] action = "Flag"   -> "Flagged"
      [] action = "Notify" -> status

Done(t) == todo' = [todo EXCEPT ![t] = Tail(@)]

\* A transaction lands, whether or not the RPC node says so.
ActionLands(t, k) ==
    /\ pc[t] = "exec" /\ todo[t] # <<>> /\ key[t] = k
    /\ onchain' = [onchain EXCEPT ![k] = StatusAfter(Head(todo[t]), @)]
    /\ Done(t)
    /\ UNCHANGED <<running, registryVars, cacheVars, risk, pc, work, wallet, key, profile>>

\* It does not land: the error is logged and the next action is tried.
ActionFails(t) ==
    /\ pc[t] = "exec" /\ todo[t] # <<>> /\ Head(todo[t]) # "Notify"
    /\ Done(t)
    /\ UNCHANGED <<running, registryVars, cacheVars, worldVars, pc, work, wallet, key, profile>>

ReturnFromProcessWallet(t) ==
    /\ pc[t] = "exec" /\ todo[t] = <<>>
    /\ writer' = IF writer = t THEN None ELSE writer
    /\ readers' = readers \ {t}
    /\ wallet' = [wallet EXCEPT ![t] = None]
    /\ key' = [key EXCEPT ![t] = None]
    /\ profile' = [profile EXCEPT ![t] = None]
    /\ Goto(t, IF t \in Loops THEN "next" ELSE "idle")
    /\ UNCHANGED <<running, registryVars, cache, worldVars, work, todo>>

------------------------------------------------------------------------------
(* force_risk_check                                                         *)

\* Mutant: the write guard is bound to a variable and kept while the key is looked up.
ForceBeginKeepingGuard(c, w) ==
    /\ pc[c] = "idle"
    /\ CacheWritable
    /\ writer' = c
    /\ cache' = [cache EXCEPT ![w] = None]
    /\ wallet' = [wallet EXCEPT ![c] = w]
    /\ Goto(c, "resolve")
    /\ UNCHANGED <<running, registryVars, readers, worldVars, work, key, profile, todo>>

\* The cached entry goes first; the guard is a temporary of this statement.
ForceBegin(c, w) ==
    /\ pc[c] = "idle"
    /\ CacheWritable
    /\ cache' = [cache EXCEPT ![w] = None]
    /\ wallet' = [wallet EXCEPT ![c] = w]
    /\ Goto(c, "resolve")
    /\ UNCHANGED <<running, registryVars, writer, readers, worldVars, work, key, profile, todo>>

\* Then the key: without one the call returns "not registered".
ForceResolve(c) ==
    LET w == wallet[c] IN
    /\ pc[c] = "resolve"
    /\ RegistryFree
    /\ key' = [key EXCEPT ![c] = attest[w]]
    /\ wallet' = [wallet EXCEPT ![c] = IF attest[w] = None THEN None ELSE w]
    /\ Goto(c, IF attest[w] = None THEN "idle" ELSE "lookup")
    /\ UNCHANGED <<running, registryVars, cacheVars, worldVars, work, profile, todo>>

------------------------------------------------------------------------------
(* register_wallet and unregister_wallet                                    *)

Register(w, k) ==
    /\ RegistryFree
    /\ attest' = [attest EXCEPT ![w] = k]
    /\ UNCHANGED <<running, registrar, cacheVars, worldVars, taskVars>>

\* Both registry guards are held while the call waits for the cache.
UnregisterBegin(a, w) ==
    /\ pc[a] = "idle"
    /\ RegistryFree
    /\ registrar' = a
    /\ wallet' = [wallet EXCEPT ![a] = w]
    /\ Goto(a, "purge")
    /\ UNCHANGED <<running, attest, cacheVars, worldVars, work, key, profile, todo>>

\* Mutant: the registry is cleared without waiting for the cache.
UnregisterAtOnce(a) ==
    /\ pc[a] = "purge"
    /\ attest' = [attest EXCEPT ![wallet[a]] = None]
    /\ registrar' = None
    /\ wallet' = [wallet EXCEPT ![a] = None]
    /\ Goto(a, "idle")
    /\ UNCHANGED <<running, cacheVars, worldVars, work, key, profile, todo>>

UnregisterEnd(a) ==
    /\ pc[a] = "purge"
    /\ CacheWritable
    /\ attest' = [attest EXCEPT ![wallet[a]] = None]
    /\ cache' = [cache EXCEPT ![wallet[a]] = None]
    /\ registrar' = None
    /\ wallet' = [wallet EXCEPT ![a] = None]
    /\ Goto(a, "idle")
    /\ UNCHANGED <<running, writer, readers, worldVars, work, key, profile, todo>>

------------------------------------------------------------------------------
(* The environment: time passes, and the providers change their mind        *)

CacheExpires(w) ==
    /\ IsFresh(w)
    /\ cache' = [cache EXCEPT ![w].fresh = FALSE]
    /\ UNCHANGED <<running, registryVars, writer, readers, worldVars, taskVars>>

RiskChanges(w, p) ==
    /\ risk[w] # p
    /\ risk' = [risk EXCEPT ![w] = p]
    /\ UNCHANGED <<running, registryVars, cacheVars, onchain, taskVars>>

------------------------------------------------------------------------------
Loop(l) == CheckRunning(l) \/ BeginCycle(l)

ProcessWallet(t) ==
    \/ \E w \in Wallets, k \in Keys : CacheHit(t, w, k) \/ CacheMiss(t, w, k)
    \/ Fetch(t)
    \/ Store(t)
    \/ \E k \in Keys : ActionLands(t, k)
    \/ ActionFails(t)
    \/ ReturnFromProcessWallet(t)

Next ==
    \/ Start
    \/ Stop
    \/ \E l \in Loops : Loop(l)
    \/ \E t \in Loops \union Callers : ProcessWallet(t)
    \/ \E c \in Callers : ForceResolve(c) \/ \E w \in Wallets : ForceBegin(c, w)
    \/ \E a \in Admins : UnregisterEnd(a) \/ \E w \in Wallets : UnregisterBegin(a, w)
    \/ \E w \in Wallets, k \in Keys : Register(w, k)
    \/ \E w \in Wallets : CacheExpires(w)
    \/ \E w \in Wallets, p \in Profiles : RiskChanges(w, p)

Spec == Init /\ [][Next]_vars

(***************************************************************************)
(* Fairness.  Every task is polled by the tokio runtime, sleeps end, and    *)
(* the providers and the RPC node answer or time out: weak fairness of a    *)
(* task's steps that wait for no lock.  Steps that wait for one get strong  *)
(* fairness, because tokio's RwLock queues its waiters first in, first out. *)
(* A transaction that a loop sends in cycle after cycle lands at some       *)
(* point: the RPC node is not down for ever.  The TTL of a cached profile   *)
(* runs out.  Nothing is assumed of start, stop, register, unregister and   *)
(* force_risk_check being called.                                           *)
(***************************************************************************)
Executing(t) == pc[t] = "exec"

WaitsForLock(t) ==
    \/ t \in Loops /\ BeginCycle(t)
    \/ t \in Callers /\ ForceResolve(t)
    \/ t \in Admins /\ UnregisterEnd(t)
    \/ \E w \in Wallets, k \in Keys : CacheHit(t, w, k) \/ CacheMiss(t, w, k)
    \/ Store(t)

Proceeds(t) ==
    \/ t \in Loops /\ CheckRunning(t)
    \/ Fetch(t)
    \/ ActionFails(t)
    \/ \E k \in Keys : ActionLands(t, k)
    \/ ReturnFromProcessWallet(t)

Lands(t, action) ==
    /\ todo[t] # <<>> /\ Head(todo[t]) = action
    /\ \E k \in Keys : ActionLands(t, k)

Fairness ==
    /\ \A t \in Tasks : SF_vars(WaitsForLock(t)) /\ WF_vars(Proceeds(t))
    /\ \A l \in Loops : SF_vars(Lands(l, "Revoke")) /\ SF_vars(Lands(l, "Flag"))
    /\ \A w \in Wallets : WF_vars(CacheExpires(w))

FairSpec == Spec /\ Fairness

------------------------------------------------------------------------------
(* Safety                                                                   *)

\* A fresh evaluation (fetch, store, act) excludes every other evaluation: two
\* tasks executing actions at once are both working from the cache.
EvaluationsExclude ==
    \A t, u \in Tasks :
        t # u /\ Executing(t) /\ Executing(u) => {t, u} \subseteq readers /\ writer = None

\* While a task acts on a profile, that profile is the cached one of its wallet:
\* neither force_risk_check nor unregister_wallet nor another fetch can remove or
\* replace it before the last action is done, however long the actions sleep.
ActsOnCachedProfile ==
    \A t \in Tasks :
        Executing(t) => cache[wallet[t]] # None /\ cache[wallet[t]].profile = profile[t]

\* The strengthening that makes the two invariants above inductive: who executes holds
\* the cache, locals are set where they are used, and what is left to execute is demanded
\* by the profile being acted on.
LocksMatch ==
    /\ \A t \in Tasks : Executing(t) <=> (writer = t \/ t \in readers)
    /\ writer # None => readers = {}

LocalsSet ==
    \A t \in Tasks :
        /\ pc[t] \in {"fetch", "store", "exec", "purge", "resolve", "lookup"} => wallet[t] \in Wallets
        /\ pc[t] \in {"store", "exec"} => profile[t] \in Profiles

Demands(p, action) == \E i \in DOMAIN ActionsFor[p] : ActionsFor[p][i] = action

TodoDemanded ==
    \A t \in Tasks : Executing(t) => \A i \in DOMAIN todo[t] : Demands(profile[t], todo[t][i])

IndInv == TypeOK /\ LocksMatch /\ LocalsSet /\ TodoDemanded /\ ActsOnCachedProfile

\* While the service is running there is a loop to do the monitoring, in every
\* interleaving of start and stop with the loops' own checks of is_running.
RunningIsMonitored == running => \E l \in Loops : pc[l] # "off"

(* Action properties                                                        *)

\* A status changes on chain only while the cache holds, for some wallet, a profile
\* whose policy demands the new status: what get_wallet_risk would report at that
\* moment explains the change.
StatusChangesAreExplained ==
    [][\A k \in Keys : onchain'[k] # onchain[k] =>
          \E w \in Wallets, action \in ActionKinds :
              /\ cache[w] # None
              /\ Demands(cache[w].profile, action)
              /\ onchain'[k] = StatusAfter(action, onchain[k])]_vars

\* When unregister_wallet takes a wallet out, no policy action of any task is
\* under way, and no other task is about to change the registry.
UnregisterIsQuiet ==
    [][\A w \in Wallets : attest[w] # None /\ attest'[w] = None =>
          \A t \in Tasks : ~Executing(t)]_vars

(* Liveness                                                                 *)

\* After the last stop() every loop ends.
StopEndsLoops == <>[]~running => <>[](\A l \in Loops : pc[l] = "off")

\* unregister_wallet returns although it waits for the cache while it keeps
\* everyone else out of the registry.
UnregisterReturns == \A a \in Admins : pc[a] = "purge" ~> pc[a] = "idle"

\* force_risk_check returns, with a profile or with "not registered", whatever the loops
\* and the other callers hold meanwhile.
ForcedCheckReturns == \A c \in Callers : pc[c] = "resolve" ~> pc[c] = "idle"

\* Once the providers keep reporting p for a wallet that stays registered with a key
\* of its own and the service stays up, the account's status becomes and stays the
\* one that p's policy demands, whatever stale profiles were cached or in flight.
ChainFollowsProviders ==
    \A w \in Wallets, k \in Keys, p \in Profiles, action \in {"Revoke", "Flag"} :
        (/\ Demands(p, action)
         /\ <>[](/\ running /\ risk[w] = p /\ attest[w] = k
                 /\ \A v \in Wallets \ {w} : attest[v] # k))
        => <>[](onchain[k] = StatusAfter(action, onchain[k]))
=============================================================================
