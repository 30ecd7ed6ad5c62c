# A TLA+ model of the Solana KYC compliance SDK

The repository collects several programs around one subject: which wallets may
hold and move a regulated token, who says so, and what happens when a wallet
becomes risky. It holds an off-chain risk engine (Rust), on-chain programs
(Anchor and native Solana), SDKs in TypeScript and Rust, offline queues, React
hooks, command line tools, and a large number of documents, workflows and
examples. Many files are drafts that do not compile as committed (file names
such as `kycQueue.ts` below a directory called `REACT NATIVE BACKGROUND SYNC ...`
are verbatim). The model follows what a file's code does when its evident
syntax slips are read over, and each definition is tied to its lines by
`PROJECT.json`. Paths below are relative to the repository.

## 1. Inventory

| component | source | state it keeps | operations | what is hard |
|---|---|---|---|---|
| Risk monitoring service | `src/risk_engine/service.rs` | running flag, registered wallets with their attestation keys, risk cache | start, stop, monitoring cycle, force_risk_check, register_wallet, unregister_wallet | tokio tasks share two RwLocks; guards held across awaits; start against stop; stale profiles |
| Action executor | `src/risk_engine/policy/actions.rs` | the status of each attestation on chain | execute_action | a transaction may fail, land, or land and be reported as failed |
| Policy manager | `src/risk_engine/policy/manager.rs`, `config.rs`, `types.rs` | the list of policies | evaluate_policy, deactivate_policy, escalation | boundaries of score ranges, order of merged actions, missing sources |
| Circuit breaker | `circuit-breaker-program.rs ...` | active flag, approvals (u8), signers, threshold | Initialize, RequestFreeze, ApproveFreeze, Deactivate | approvals are counted, approvers are not remembered |
| Mobile queue | `rn/src/kycQueue.ts` | one stored list | enqueue, processQueue, background task | read-modify-write with awaits, crash between processing and saving |
| Queue of the TypeScript SDK | `sdk/typescript/src/offline/queue.ts` | one list in localStorage | enqueue, processQueue, clearQueue | processQueue writes back a list it read before its awaits; a read that fails passes for an empty list |
| KYC providers | `base.ts` | sessions | initiateVerification, checkStatus, handleWebhook | timer against webhook, several sessions of a wallet |
| Identity manager | `manager.ts` | DIDs, credentials | create, issue, verify, revoke, import, clear | clear and revoke while a verification awaits |
| Compliance reporter | `reporter.ts` | audit log | logAuditEvent, five reports, FinCEN export | period boundaries, ties, reports that must agree |
| Merkle tree, proof generator | `proofs.ts` | tree, leaves | insertLeaf, getProof, verifyProof | incremental update against the whole tree |
| Risk engine | `engine.ts` | thresholds | assessRisk, setThresholds | steps of five scales |
| Template registry | `registry.ts` | templates | evaluateTemplate, custom and removed templates | age boundary, missing fields |
| SDK facade | `sdk.ts`, `program.ts` | the objects above, initialized flag | initialize, verifyIdentity, getVerificationStatus | concurrent calls that interleave at awaits |
| DeFi integration | `defi-integration.ts` | whitelist | registerUser, checkAccess, getTieredAccess | check, await, add |
| Compliance client | `compliance-sdk.ts`, `errors.ts`, `utils/index.ts` | none; the ledger | register, freeze, breaker, approveTransfer, retry | two reads, lost confirmations, other administrators |
| Transfer services | `transfer-hook-service.ts` (three), `tokenManager.ts` | none; mint, transaction, logs | create mints, executeCompliantTransfer, getTransferStatus | simulated, sent and run at three moments; status of a transaction that advances |
| Wallet adapters | `interface.ts` | key, connected flag, listeners | connect, disconnect, sign, on, off | connect in flight while the user or the page goes on |
| React hooks | `useKyc.ts`, `useAddressVerification.ts` | verdict, record, loading | checks, verify, revoke | answers out of order; an effect that runs after the render |
| Deployment, health check, checklist tracker | `deploy-programs.ts`, `health-check.ts`, `checklist-tracker.js` | deployment info, report, totals | one process each | partial failure and rerun; a world that changes; repeated analysis |
| Not modelled | see section 7 | | | |

How they interact: the monitoring service asks the aggregator for a wallet's
profile, hands it to the policy manager and passes the recommended actions to
the executor, which sends transactions to the attestation program. The
TypeScript SDK verifies a wallet through a provider, scores it, issues a
credential and logs what it did; the DeFi protocol admits whom it verified.
The clients (compliance client, transfer services, hooks) meet only on the
chain: in the status accounts of the compliance registry and the hook of the
mint, which the administrator changes meanwhile. The queues stand where a client
registers; the tools look at the deployment from outside.

What makes each correct:

* monitoring service: evaluations do not interleave so that an older profile
  overrides a newer one; actions follow the cached profile; calls that wait for
  each other's locks return; a running service is monitored, a stopped one
  ends; the chain ends up with what the providers' last word demands;
* policy manager: every level has its treatment, the merged list carries out each
  policy that matches, nothing undoes a revocation in the same evaluation, more
  evidence is never treated more mildly;
* circuit breaker: a freeze has the approval of as many different signers as the
  threshold says, and so has its end, but for `Initialize`, which lifts every
  freeze and asks nobody;
* queues: what was stored undisturbed is not lost, and is processed;
* SDK and DeFi protocol: who is a member was verified, calls and the audit log
  agree, sessions are approved or declined in the end;
* tree, reports, scores, templates: an incremental result equals the one
  computed from the whole, and boundaries fall on one side;
* clients: an answer is about the wallet, and the moment, it says it is about;
  a repeated call lands once;
* tools: what they save was the case.

## 2. Modules

| module | models | depends on |
|---|---|---|
| `RiskMonitor` | the monitoring service, the executor and the status on chain | - |
| `Arrays` | what filter, flat_map, sort, reduce and a spread make of arrays and objects | - |
| `RiskPolicy`, `PolicyManager` | default policies as operators; the manager over every profile | `Arrays`; `RiskPolicy` |
| `KycQueue` | the mobile queue and its background task | - |
| `CircuitBreaker` | the emergency freeze program | - |
| `SdkAccounts` | the constants that the TypeScript modules share | - |
| `KycProvider`, `IdentityManager`, `ComplianceReporter`, `RiskEngine`, `TemplateRegistry` | the class each is named after | `SdkAccounts` |
| `MerkleRegistry`, `MerkleTree` | the abstract registry of leaves and its root; the tree that implements it | - |
| `SolanaSDK` | `sdk.ts` and the mock client of `program.ts` | provider, identity manager, reporter |
| `DeFiProtocol` | the protocol over the SDK | `SolanaSDK` |
| `Evidence` | proofs and reports of a log | `MerkleTree`, `ComplianceReporter` |
| `Assessment` | scores and template verdicts | `RiskEngine`, `TemplateRegistry` |
| `SdkClasses` | an application of one or the other | `Evidence`, `Assessment` |
| `KycLedger` | the accounts that the clients read and write, from how they use them; what the two hook programs let through | `SdkAccounts` |
| `ComplianceSDK` | the error codes and their translation; the compliance client | `KycLedger` |
| `TransferService` | the services that create mints and send transfers | `ComplianceSDK` |
| `Administrator` | a console that calls the client, with `retry` | `TransferService` |
| `WalletAdapter`, `KycPages`, `OfflineQueue` | adapter, React hooks, SDK queue | `KycLedger` for the hooks |
| `Clients` | each application over the ledger | all of the above |
| `DeployPrograms`, `HealthCheck`, `ChecklistTracker`, `Tooling` | the tools, and a process that is one of them | - |
| `Applications` | a client or a tool | `Clients`, `Tooling` |
| `MC*` | constants for TLC | the module each is named after |
| `*_proofs` | theorems | the module each is named after, and `Arrays_proofs`, the lemmas on arrays and induction; `SdkClasses_proofs` the templates, reports, scores and the tree; `Applications_proofs` the clients, the hooks, the SDK queue and the tools |

### RiskMonitor

A task is a monitoring loop, a caller of `force_risk_check` or a caller of
`unregister_wallet`; `pc[t]` is the await at which it stands, and one action is
what it does up to the next await.

| code | model |
|---|---|
| `is_running` | `running` |
| `active_wallets` and `wallet_attestations`, always written together | `attest[w]` |
| write guards of the registry held across an await | `registrar` |
| `risk_cache`; age of an entry against the TTL | `cache[w] = [profile, fresh]`; `CacheExpires` |
| write guard, read guards of `risk_cache` held across an await | `writer`, `readers` |
| `wallets_to_check` of a cycle | `work[l]`, a set: the order of a `HashSet` is arbitrary |
| `policy_evaluation.recommended_actions`, those still to come | `todo[t]` |
| `risk_status` on chain; what the providers would answer | `onchain[k]`; `risk[w]` |

The guard in `if let Some(..) = self.risk_cache.read().await.get(..)` is a
temporary of the `if let` and lives until its block ends, so a cache hit is
evaluated with the read guard held; `let mut cache = ...write().await` lives
until `process_wallet` returns, so a fresh profile is evaluated with the write
guard held, delays of minutes included. In `force_risk_check` the write guard
is a temporary of one statement. The model keeps these lifetimes
(`CacheHit`, `Store`, `ForceBegin`); they carry most of the properties.

A transaction either lands (`ActionLands`) or does not (`ActionFails`); what
the RPC node reports makes no difference to what the service does next, so an
answer lost after the transaction landed is `ActionLands` too. "Notify" stands
for every action that changes nothing on chain (notifications, KYC requests,
escalations). Actions that require approval are never sent, so `suspend` does
not appear.

Abstractions: a profile is a name with a list of actions; time is only the
expiry of cache entries; the interval of the loop, the batch size and the
pause between batches are stuttering; `register_wallet` is one step, because
the registry guards of every task that waits while holding them are
`registrar`, and no other step holds one over an await. `RwLock` does not
appear as a queue: any waiting task may get the lock, which allows every order
that tokio's queue does and more.

### RiskPolicy and PolicyManager

Scores are only compared, so integers around each number that occurs stand for
the `f64`s. A profile is its score, the categories of its indicators and the
sources that answered; `ProfilesOver` keeps the combinations that the
aggregator can produce. The manager's state is the list of policies (some
deactivated), a wallet's profile and the last verdict. `add_policy` and
`update_policy` put in an arbitrary policy and are left out; so is the
`&mut` access that the service, which keeps the manager in an `Arc`, cannot
get: deactivation stands for what an operator does before the manager is
shared.

### KycQueue

A submission is one call of `enqueue` by the app, a run one call of
`processQueue` by the background task; each await is a step boundary.

| code | model |
|---|---|
| the list under `QUEUE_KEY` | `stored`, a set of items: ids are unique, and nothing depends on the order |
| `cur` between `getItem` and `setItem` of `enqueue` | `copy[t]` |
| the items that the loop has still to visit; `remaining` | `items[r]`, `remaining[r]` |
| the item that the nested `enqueue` is given | `current[r]` |
| IPFS and the chain | `uploaded`, `registered` |

`enqueue` is `EnqueueRead`, `EnqueueWrite`; `processQueue` is `ProcessBegin`, one
of `Upload` (then `Reread`, `AppendRegistration`), `Send`, `ItemFails` for each
item, and `ProcessSave`. Storage may reject (`EnqueueWrite`, `AppendFails`,
`ProcessSave`), a service may fail before or after it did the work
(`ItemFails`), and the system may stop the app (`Crash`): the list survives, all
else is lost. Two runs overlap when the background task fires while an earlier
run still waits for the network; nothing in the code prevents it.

The queue as a whole does lose submissions: a call of `enqueue` that overlaps a
run is overwritten by it. `disturbed` is a history variable that remembers
these, so that the properties say what the code does guarantee: a submission
whose `enqueue` nothing overlapped is safe from then on, also from runs and
calls that disturb each other. Registrations are not even that safe
(section 6).

### CircuitBreaker

The state is the account (`is_active`, `multi_sig_threshold`, `signers`,
`approvals`), one action per instruction; an instruction that returns an error
or panics changes nothing and is a stuttering step. That includes, in a build
with overflow checks, the approval after the last value of the u8 and the
subtraction in the log of `RequestFreeze` for a threshold of zero; without them
the counter wraps (`Incremented`). The account starts as zeros, whose one signer
is the default key. `Initialize` may come at any time, and checks no authority:
it is the one step that lifts a freeze without approvals, and `ThawIsApproved`
names it as such. `activated` (`activated_at` is set) tells its trace from that of
`Deactivate`, which keeps the time of the freeze.

`approvers` and `repeated` are history: who has approved since the counter was
last set (a round), and whether anybody did so twice. The properties
tie the counter to them. They hold for rounds without a repeated approval;
with one, the program does not do what its comment says (finding 1).

### The SDK: KycProvider, IdentityManager, SolanaSDK, DeFiProtocol

| code | model |
|---|---|
| `sessionCache` of the provider in use; armed `setTimeout`s | `kind`, `sessions`; `timers` |
| `didRegistry`, `credentialRegistry` | `dids`, `credentials` |
| `auditLog` of the reporter | `auditLog` |
| `initialized`, `anchorClient`, `kycProvider`, `complianceReporter` | the variables of `SolanaSDK` |
| a call of `verifyIdentity`, at one of its awaits | `calls[c].at` |
| `whitelistedUsers` | `whitelist` |

A call of `verifyIdentity` is split at its awaits (`VerifyIdentity`,
`Initialized`, `SessionOpened`, `RiskAssessed`, `ProofFailed`); between two of
them anything else runs: other calls, webhooks, timers, revocation, `clear`,
`importDIDs`, `initialize`. What the code computes is kept where it matters
(a status, an owner, which objects exist); ids and texts are model values.
`generateProof` looks for the wallet among the leaves of a tree to which nothing
was added, so it always throws, after the credential was issued; the code only
warns, and the model has that path and no other. `checkComplianceStatus` of the mock client takes a
branch on a hash prefix that is always 0, so every wallet is VERIFIED
(`HashPrefix`). The registration of the DeFi protocol is split at the same
awaits, with the check of the whitelist before the first and the addition after
the last. `issued` is history: for whom a credential was issued.

### The classes: MerkleTree, ComplianceReporter, RiskEngine, TemplateRegistry

Operations on arrays come from `Arrays`, which tells them by the places of the
elements: a filter keeps some places in order, a stable sort puts places in the
order of their keys, a sum is a recursive function. The community modules have
`SelectSeq`, `FoldLeft` and `FoldSet` for these, and the standard module of
naturals has `^`; the provers cannot look into any of them. For the same reason
`TwoTo` is a recursive function.

`MerkleTree` keeps the tree as the code does, level by level with zero values,
and updates one path per insertion (`Path` is `currentIndex` level by level); `MerkleRegistry` is a sequence of leaves
whose root is a function of the whole. `ImplementsRegistry` is
`MerkleRegistry`'s specification under the refinement mapping of the root.
A hash is a term, so that there are no collisions: the 32 bit sum of the code
has them, and what depends on one is outside the model. `Evidence` adds the
proof generator and the reports over one log; the clock may be set back.

Users, profiles and thresholds are chosen on both sides of every number the
rules and scales compare with. The random parts of `engine.ts` (mock profiles)
are the profiles the generator can draw (`IsMockProfile`). Types that the compiler guarantees of
what is passed in are assumptions on the constants (`ProfilesAreProfiles`,
`DatesAreDates`, `RulesAreRules`, `ThresholdsAreNumbers`, `EventsAreEvents`).

### The clients: KycLedger, ComplianceSDK, TransferService, Administrator, hooks

`KycLedger` holds what the clients see of the chain; the accounts behind it are
modelled from how the clients and their tests use them. The hook of a mint is one
of the two hook programs of the repository or another one. `HookAnswers` is what it may
answer now: the compliance registry's hook requires the status of both ends, the
hook of attestations that of the sender (the receiver's account is optional, and
jurisdiction, blacklist and velocity may refuse what it allows), any other
decides as it likes. Neither of the two writes a line that the service's parser
looks for, nor the name `TransferHookError`. A transaction
lands or is refused, and the caller may see an error either way (`Fails` of
`Administrator` contains the transaction that landed and whose confirmation was
lost). `approveTransfer` is `ApproveTransfer`, `ReadSource`, `ReadDestination`,
with the administrator free between them. A transfer of the service layer is
checked against the balance, simulated by the preflight of
`sendAndConfirmTransaction` (what the hook refuses there is not sent and leaves
nothing on chain), run with the hook and the wallets as they are then, and asked
for while its commitment advances; its log is a set of the lines that the parser
looks for. `ran` is history: the hook and the verified wallets at the run.

A new wallet is rendered with the state that the hook `useKyc` has; its effect
runs after that (`SelectWallet`, then `EffectRuns`; `effectDue` between them).
`LoadQueue` of the SDK queue may answer an empty list, as the catch of
`loadQueue` does, and what is written next overwrites what is stored.

Each hook, adapter and queue has slots for what is in flight (`Requests`,
`Connects`, `QueueRuns`), used again and again; answers come in any order. The
hazards of these components are real and the code does nothing about some of
them, so that the unconditional property would be false (a late verdict for the
previous wallet is shown for the current one). History variables (`checked`,
`served`, `page`, `moved`, `quiet`, `shifted`, `tried`) say whether something
overlapped, and the properties say exactly what the code guarantees then:
each name beginning with `Quiet` is of that kind, over all behaviours that led
there, the disturbed ones included.

### The tools

Each is one process that may be run again, against a world that changes:
deployments by another operator, programs, node and API that come and go. The
tracker reads each of its files once, so that an edit makes no difference to a
process that runs: its files are any contents, constant, and each may turn out
unreadable. `Current` is the program of the deployment loop's pass; `deploy.target` is the
cluster of its `rpcUrl`, which a `deploy-config.yaml` decides when the name given
is unknown; a line of a checklist is what the parser tells apart of it.

## 3. Runs

| run | states | bounds | shows |
|---|---|---|---|
| `breaker` | 563 | 3 and 4 signers, thresholds 0 to 4, a counter that wraps after 5 | inductive invariant, a quorum freezes, freezes have a quorum and so have thaws, but for `Initialize` |
| `monitor_safety` | 1.5 million | 1 wallet, 2 attestation keys, 2 profiles, 2 loops, 1 forced check, 1 unregistration, symmetric keys and loops | inductive invariant with the type invariant, mutual exclusion of fresh evaluations, actions follow the cache, a running service has a loop, status changes are explained, unregistration is quiet |
| `monitor_live_loops` | | 1 wallet, 1 key, 2 profiles, 2 loops, 1 unregistration | loops end after the last stop; the chain follows the providers |
| `monitor_live_callers` | | 1 wallet, 1 key, 3 profiles, 1 loop, 1 forced check, 1 unregistration | `unregister_wallet` and `force_risk_check` return |
| `policy` | 51 thousand | 18 scores at and below each threshold, all categories and sources, every set of deactivated policies | the list carries out every policy and delays no change of status, revocations stand, level policies apply, more evidence matches more |
| `queue` | 8.6 thousand | 2 submissions, 1 run at a time | undisturbed submissions survive and are uploaded at some point; inductive invariant |
| `sdk` | 518 thousand | 2 wallets, 2 sessions, 2 credentials, 2 calls of which one is a registration | members, credentials, audit log and calls agree; sessions are approved or declined in the end |
| `classes` | 214 thousand | 4 leaves, 3 events, 3 instants, profiles and users at every boundary | refinement of the registry, proofs open, reports agree, scores are ordered, templates decide by their rules |
| `applications` | 1.1 million | 2 wallets (symmetric), 2 requests, connects and runs, 2 retries, 3 programs on 2 clusters, files of up to 5 lines | what each client and tool promises |
| `distinct_approvers` (violation) | | as `breaker` | one signer approves twice and is counted twice |
| `proofs_verify` (violation) | | as `classes`, 1 event | `verifyProof` refuses what `getProof` made |
| `escalation` (violation) | | as `policy` | levels 2 and 3 of the escalation path are never returned |

Why the bounds are enough. The cache lock is one for all wallets, so one wallet
already has every conflict of guards; the second key lets a wallet be
re-registered elsewhere while a loop works from an old copy. Two loops are what
start/stop races produce with one restart in flight, three tasks of different
kinds have every pair of lock waits.

In the queue two submissions and a run have call against call and call against
run; run against run is not among the run's behaviours, whose liveness would
grow out of bounds, and is covered by the proof, for any number of runs.

The counter of the circuit breaker wraps after 5 instead of 255, which is the
smallest width that holds five signers; thresholds at and above the number of
signers, and zero, are among the configurations.

In the SDK every pair of concurrent operations occurs with two calls; a second
session and a second wallet let a webhook of one touch the other. In the tree,
four leaves have indexes of two bits, so that a path turns both ways at every
level. In `applications` two wallets are the two ends of a transfer, or the
previous and the current wallet of a page; two requests, connects or runs
overlap in every way two can. The wallets are interchangeable in every client
(amounts and logs do not name them), hence the symmetry; the run has invariants
only. `CHECK_DEADLOCK FALSE` is said there because the tracker is a process that
ends and the page of the offline queue has a last item. Where a theorem covers
the property, it holds for any number.

Fairness of `RiskMonitor` (`FairSpec`). Every task is polled, sleeps end, providers and RPC
node answer or time out: weak fairness for steps that wait for no lock. Strong
fairness for those that wait for one, since tokio's `RwLock` is fair (first
come, first served). A transaction sent again in cycle after cycle lands at
some point. A cached entry's TTL runs out. Nobody is assumed to call start,
stop, register, unregister or force_risk_check. The assumption that
transactions land at some point includes that the service signs with the key
that issued the attestations; `new` generates a fresh key pair (service.rs:77,
"In production, load from secure storage"), with which every transaction on
older attestations would fail.

Fairness of `KycQueue`: the system fires the background task again and again
(`startOnBoot`, a minimum interval) and lets its runs go on (weak fairness of
`Process`), and an upload that is tried again and again succeeds at some point
(strong fairness of `Upload`). Nothing is assumed of calls of `enqueue`, of
registrations and of storage; crashes are not bounded, but cannot always fall
before the upload.

`ChainFollowsProviders` is stated for a wallet whose key no other wallet uses:
two wallets registered with one key overwrite each other's status for ever.
`RevocationStands` holds because the service passes neither the attestation's
age nor the volume, so that the behavioural policy, whose flag would follow the
revocation, never matches; its mutant fills those two placeholders in.

Fairness of `DeFiProtocol`: the event loop fires `setTimeout` callbacks as long
as there are any (weak fairness of some `Timeout`). Nothing is assumed of the
calls, of webhooks and of the user: `SessionsSettle` needs the timers alone.

## 4. Proofs

`RiskMonitor_proofs` proves for every value of the constants:

* `IndInvHolds`: `Spec => []IndInv`;
* `TypeCorrect`, `EvaluationsAreExclusive`, `ActionsFollowTheCache`: the
  invariants of `monitor_safety`, from `IndInv`;
* `MonitoringGoesOn`: a running service has a live loop;
* `UnregisterIsOrdered`, `ChangesAreExplained`: the two action properties.

Assumptions: the three kinds of tasks are disjoint, `None` is none of the other
values, `ActionsFor` gives sequences of actions.

The argument. `EvaluationsExclude` is not inductive: nothing in it says that
who executes holds the lock. `LocksMatch` adds that executing and holding a
guard are the same thing, and that a writer excludes readers; from the guards
of `CacheHit` (no writer) and `Store` (no writer, no readers) it is preserved.
`ActsOnCachedProfile` is preserved because each step that changes the cache's
profiles requires that nobody holds a guard, hence that nobody executes.
`LocalsSet` says that a wallet and a profile are set where they are used, and
`TodoDemanded` that what is left to execute comes from the profile's policy;
with them every status change has its explanation in the cache. The proof goes
conjunct by conjunct: first one lemma per part of the invariant for a
`Next` step, each with one step per action, then their conjunction, then
the temporal steps.

`KycQueue_proofs` proves for every set of submissions and of runs:

* `QueueInvHolds`: `Spec => []QueueInv`;
* `SubmissionsSurvive`: `Spec => []QuietSubmissionsSurvive`.

The only assumption is that submissions are no runs. That an undisturbed
submission is stored is not inductive: a run or a call that holds an old list
would drop it when it writes back. `HeldByEveryCopy` excludes that: every list
in flight was read after the submission was stored, because a task that started
before would have overlapped the call; `QuietWritersAreAlone` says that the
history records precisely this. `ProcessSave` then keeps a submission since it
moved from `items` to `remaining`, in every path on which it was not uploaded.

`CircuitBreaker_proofs` proves for every configuration of at most five signers
and every width of at least 5:

* `BreakerInvHolds`: `Spec => []BreakerInv`;
* `EnoughApproversFreeze`: `Spec => []QuorumIsFrozen`;
* `FreezesAreApproved`, `ThawsAreApproved`: the two action properties.

Assumptions: what `Initialize` is called with has one to five signers, a
threshold that fits the counter, and the default key is an account. That a
freeze has a quorum needs `approvals = Cardinality(approvers)` where
nobody approved twice, and for that to survive an increment the counter must
not wrap: while nobody repeats, because five signers fit it; while the freeze is
not in force, because the counter is below the threshold or at most one
(`CounterCounts`). `ThawsAreApproved` needs that a freeze in force has its time
(`activated`). `ApproversGrow` says what one more approver does to the
cardinality, from the library's facts on finite sets.

`PolicyManager_proofs` proves `LevelsApply`, `MoreMatches`, `TreatmentsInOrder`
and `RevocationsStand`, for any scores in range and any thresholds that descend as
those of `config.rs` do. `PoliciesInv` says that, whatever was deactivated, the
conditions of the policies are those of the defaults, one by one; the first two
properties are then facts about `MatchesPolicy`. The other two need `VerdictInv`:
a verdict's policies are default policies that match, each once, and its actions
are theirs in the order of the sort. That the sort is complete and stable is
`SortedAre`; that a policy's measure comes before its follow-up and that no delay
precedes a change of the status is a fact about the priorities and delays of the
default policies (`OwnOrder`, `Priorities`, `Delays`), and that nothing undoes a
revocation follows from which of them can match together.

`DeFiProtocol_proofs` proves `MembersAccounted` for any wallets, sessions,
credentials, calls and registrations, from: `None` is no credential,
registrations are calls. The invariant adds to the property the shape of a
call at each await (a call at "verified" has a wallet and a credential that was
issued for it), the types of the registries, and that the client exists once
somebody is on the whitelist: `checkAccess` answers no without it.

It also proves `AuditMatches`. `AuditInv` says that there is a bijection between
the audit log and the calls that returned a result, which agrees on the wallet:
the counts of both sides then agree for any number of calls. That no event is
lost to a reporter that is dropped is part of it: before `initialize`
no call is past its first await, and a second `initialize` keeps the reporter.

`Arrays_proofs` is about the operators. `Naturally` is induction over the natural
numbers, stated for sets and derived from the well-foundedness of `<` (the
library's induction theorems take an operator, which the provers cannot
instantiate); `Recursion` and `SumUnfolds` obtain from it that a recursive
function is what its equations say. `Listed` says that `InOrder` lists a finite
set completely, once and in order; `OnlyOrder` and `Joined` that there is no other
listing, and that the listing of a set whose one part precedes the other is the
two listings one after the other. `TagsAdd` and `GroupsAdd` count the
members of a family of sets, set by set or group by group; `SharesSurround` is
the argument of averages.

`SdkClasses_proofs` proves

* `PassedMeets` (`TemplatesInv`: all templates are arrays of rules, and the last
  result is the evaluation of what was passed in);
* `ReportsDoAgree` (`LogInv`: the log is an array of events with a time), for
  any periods: the two parts of a period are joined by `Joined`, the
  counts of the reports are cardinalities of sets of places;
* `RiskierScoresNoLess` (`RiskInv`: the last result is the assessment of the
  profile it was asked for): each scale is monotonic, so are their weighted
  sum and its rounding;
* `ImplementsTheRegistry` and `ProofsAreOpen`, for a tree of any positive depth.
  `MerkleInv` says that the tree is the complete tree over the leaves, every
  node being the hash of its two children, with zero values beyond the leaves.
  That is what an update of one path keeps, since the siblings on a path
  do not change; the root of the registry, computed from all leaves, is then
  equal level by level (`TopIsRoot`). A proof hashes the siblings along the
  path of its leaf, which are the children of the nodes on it (`PathHashes`).

`Applications_proofs` proves for the clients, for any wallets, amounts and
retries:

* `ApprovalHolds` (`ApprovalInv`: between the two reads the source is verified,
  unless a status changed) and `ReportsReal` (`ReportInv`: nothing has landed before
  the run, what ran without an error was let through by the hook of then
  (`RanCleared`), and an answer is made of what the node knows of the
  transaction);
* `RetriesSafe` (`RetryInv`: while nobody else interferes, the wallet has the
  status after which another attempt does not land; attempts made and left are
  as many as were asked for);
* `QuietItems` (`QueueInv`: every run in flight still holds each quiet item that
  is not processed, in what it has to do or in what it keeps; an item that a
  failing read overlooks is quiet no longer);
* `AdapterIsCurrent` (`AdapterInv`: a key that was answered is that of the
  account unless the call is stale; after an undisturbed disconnect no connect
  is in flight);
* `VerdictIsRight` (`GateInv`: while checks do not overlap at most one is in
  flight, the hook is loading, and once the effect has run it is for the
  connected wallet);
* `RecordIsCurrent` (`DeskInv`: loading means that an operation is in flight or
  that one was refused).

Its assumptions are that `None` is no wallet, that the retries are a number and
that an error's logs are lines (`LogsAreLines`). For the tools it proves

* `InfoIsTrue` (`DeployInv`: what this run has in its results is on the cluster of
  its `rpcUrl`, which is the named one if that is known, and what the file lists
  is on the cluster it names, likewise);
* `ReportIsTrue` (`HealthInv`: while nothing changed, the result so far tells the
  truth about what was looked at);
* `ReportAddsUp` (`TrackerInv`: a summary is that of the checklists loaded, which
  no longer change), for any number of files (`FilesAreSoMany`) whose lines are
  what the parser tells apart (`FilesAreLines`): the phases add up to the files by `GroupsAdd`, the rates lie
  on both sides of the overall one by `SharesSurround` and because rounding is
  monotonic (`PercentageGrows`).

In each, the composition is handled once: a step of another application leaves
the component's variables alone, so that its invariant is preserved trivially.

Every invariant and every action property of the passing runs has its theorem.
Only model-checked: liveness (`StopEndsLoops`, `ChainFollowsProviders`,
`UnregisterReturns`, `ForcedCheckReturns`, `QuietSubmissionsAreUploaded`,
`SessionsSettle`), which the prover does not treat; that the actions of the
profiles in `MCRiskMonitor` are those of the default policies (an `ASSUME` that
TLC evaluates); and the three violations, which need no proof.

## 5. Findings

1. `ApproveFreeze` counts calls, not signers (`FreezeHasDistinctApprovers`): the
   comment asks for a signer who has not approved yet, but the account does not
   remember who did.
2. Escalation levels 2 and 3 are unreachable (`EscalatesToThreshold`).
3. `verifyProof` does not take the path of the leaf (`ProofsVerify`): it refuses
   the proof of the only leaf, which `core.test.ts` expects to verify.

## 6. Observed while modelling

These follow from the code and shape the models; no run is spent on them.

* `Initialize` of the circuit breaker (151-165) lifts a freeze with no approval and
  no check of an authority; the comment of `Deactivate` (223) asks for the "same
  threshold to deactivate". `ThawIsApproved` names it as the one way.
* A cycle of the monitoring service works through a copy of the registry
  (service.rs:158): after a re-registration the old key is acted on once more.
* start, stop, start within one cycle leaves two monitoring loops
  (service.rs:106), although start refuses to run twice.
* "attestation revoked" is notified although the revocation failed
  (service.rs:291, manager.rs:115).
* `processQueue` of the mobile queue overwrites the registration that it has
  just enqueued (kycQueue.ts:68): in a run without failures what was uploaded is
  never registered.
* program.ts:70-73: every wallet is VERIFIED, as the prefix of the hash is
  always 0; `generateProof` always throws in `verifyIdentity`, which only warns
  and reports VERIFIED, without a proof and without an entry on chain.
* A declined Persona or SumSub session is answered PENDING by `checkStatus`, for
  ever if nothing follows (base.ts:139-145, 249-255); the timer approves a
  session that a webhook declined, if it fires after it.
* The google provider cannot be created by the SDK, which passes no client
  secret; a revoked
  credential still verifies; `resolveDID` drops the method.
* Audit events of the SDK carry no risk level: its AML and FinCEN reports count
  nothing; the OFAC report is always empty. A missing date of birth or risk
  score passes the template's rule.
* The DeFi protocol asks for ENHANCED and admits whom it is answered as BASIC,
  lets every wallet in at `checkAccess`, never revokes membership, and verifies
  twice when two registrations of a wallet overlap.
* `approveTransfer` ignores the circuit breaker, though
  `complete-workflow.test.ts` expects a refusal while it is active.
* `getTransferStatus` reports "confirmed" and then "pending" once a transaction
  is finalized, and never "failed". `parseHookValidation` passes without any line
  it knows, and with a failed balance check: a confirmed transfer under either
  hook of the repository passes with no checks, one that failed on chain too.
* No refusal by the hooks of the repository becomes a
  `TransferDeniedByHookError`: their errors do not contain "TransferHookError",
  and one in the preflight is thrown as it is.
* The sdk/src service always has a balance of 0 and sends transactions without
  instructions; the service layer's `createCompliantMint` loses the mint's
  address. `createMintWithTransferHook` initializes the mint before the hook
  extension, in an account of 82 bytes; `tokenManager` has the right order but
  makes no extra accounts list; `updateTransferHookProgramId` never makes one.
* The address of a KYC proof is derived from the provider's name in the service
  (Service Layer transfer-hook-service.ts:82-86, whose comment takes it for the
  verified one) and from the provider's key in the builder of the registration:
  a transfer names a proof that no registration made. The seed of the extra
  accounts differs in sdk/src/instructions.
* Every method of the compliance client wraps its cause, so that `isRetryable`
  is never true of its errors, and `retry` does not ask: a mint whose
  confirmation was lost is created twice, a freeze may be repeated after another
  administrator's release.
* `useKyc` keeps the previous wallet's verdict after a disconnect or a failed
  check, and shows it for the first render of a new wallet, until the effect
  (useKyc.ts:64-68) has run: `withKyc` renders the gated component then.
* `loadQueue` (offline/queue.ts:18-21) takes a list that it cannot read for an
  empty one: the next `enqueue` or the end of a run of `processQueue` overwrites
  what is stored.
* With a `deploy-config.yaml` an unknown cluster name does not end the deployment:
  the file's `rpcUrl` is used and the unknown name recorded (deploy-programs.ts:96-104).
* A node that fails `getBlockTime` alone makes the RPC check unhealthy, and its
  programs are reported as they are (health-check.ts:153).
* `useAddressVerification` keeps loading after a transaction that threw.
* The adapter does not hear of a switched account, and a late answer to connect
  connects it again after disconnect.
* A health report always has issues, of a database and a Redis it never checks;
  the progress bar rounds 98% to full.

## 7. Not modelled, and why

* Rust aggregation and scoring: weighted floating point averages of external
  answers; `ProfilesOver` keeps which profiles can come out.
* The Rust consumer SDK (attestation cache, webhooks, access control): drafts
  over types and stores that no file defines; what calls what, in which order,
  is not in the repository. Its hazards are listed in `PROJECT.json`.
* The attestation registry program: three instructions without a client in the
  repository.
* The native kyc-compliance program: `InvestorRecord::LEN` counts two bytes for a
  Borsh string that needs at least four, so that registering fails after the
  account is created; a faithful model has only its initial state.
* The transfer hook reads its velocity account with `load_init`, which refuses an
  account that is already initialised; a faithful model of the program has one
  transfer. What its checks let through is in `KycLedger`.
* The instruction builders keep no state: which addresses they derive is a
  comparison of seeds, and no sequence of steps changes it (section 6).
  `sdk/src/instructions/index.ts` does not parse.
* The bars of the tracker's report and the steps that repeat a number given
  elsewhere: layout.
* The anomaly loop of the service and `initializeProgram` of the deployment:
  placeholders that log. `get_wallet_risk`, `getTemplate` and the like: reads.
  `add_policy`, `update_policy`: they put in whatever the operator writes.
  `clearQueue` of the mobile queue and `batch_execute_actions` have no caller.
* Rust providers, server signer, indexer, daemon, dashboards: stateless I/O and
  display. Workflows, documents, examples: no behaviour of the system.
