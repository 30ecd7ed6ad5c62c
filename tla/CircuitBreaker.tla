---------------------------- MODULE CircuitBreaker ----------------------------
(***************************************************************************)
(* The emergency freeze: one account that a number of signers share.  A     *)
(* transaction is one step; one that fails changes nothing.  What the       *)
(* approvals of a round amount to is kept as history, next to the counter   *)
(* of the program.  A round lasts until the counter is set anew.  Who froze *)
(* last is left out, and of the time whether it is set.                     *)
(***************************************************************************)
EXTENDS Integers, FiniteSets

CONSTANTS
    Accounts,       \* keys that an instruction may name as its authority
    DefaultKey,     \* Pubkey::default(), of which an account without data consists
    Configs,        \* what Initialize is called with
    U8Max           \* the largest value of approvals (255)

ASSUME U8MaxAssumption == U8Max \in Nat /\ U8Max >= 5

ASSUME ConfigsAssumption ==
    /\ DefaultKey \in Accounts
    /\ \A c \in Configs :
          /\ c.signers \subseteq Accounts
          /\ IsFiniteSet(c.signers) /\ Cardinality(c.signers) \in 1..5
          /\ c.threshold \in 0..U8Max

VARIABLES
    is_active,              \* the freeze is in force
    activated,              \* activated_at is not 0
    multi_sig_threshold,
    signers,                \* the keys in the array of five
    approvals,              \* the counter
    approvers,  \* history: who approved in this round, the requester included
    repeated    \* history: somebody approved more than once in this round

vars == <<is_active, activated, multi_sig_threshold, signers, approvals, approvers, repeated>>

TypeOK ==
    /\ {is_active, activated} \subseteq BOOLEAN
    /\ multi_sig_threshold \in 0..U8Max
    /\ signers \subseteq Accounts
    /\ approvals \in 0..U8Max
    /\ approvers \subseteq Accounts
    /\ repeated \in BOOLEAN

NewRound(approving) == approvers' = approving /\ repeated' = FALSE

\* The account as it is created: zeros.
Init ==
    /\ is_active = FALSE /\ activated = FALSE
    /\ multi_sig_threshold = 0
    /\ signers = {DefaultKey}
    /\ approvals = 0
    /\ approvers = {} /\ repeated = FALSE

------------------------------------------------------------------------------
\* Nothing keeps Initialize from being called again, by anybody and during a freeze.
Initialize(c) ==
    /\ is_active' = FALSE /\ activated' = FALSE
    /\ multi_sig_threshold' = c.threshold
    /\ signers' = c.signers
    /\ approvals' = 0
    /\ NewRound({})

\* Mutant: the request does not count as its requester's approval.
RequestFreezeFromZero(authority) ==
    /\ authority \in signers
    /\ approvals' = 0
    /\ NewRound({authority})
    /\ UNCHANGED <<is_active, activated, multi_sig_threshold, signers>>

\* Mutant: a request goes on with the count of the round before.
RequestFreezeKeepingCount(authority) ==
    /\ authority \in signers
    /\ approvals' = IF approvals = 0 THEN 1 ELSE approvals
    /\ NewRound({authority})
    /\ UNCHANGED <<is_active, activated, multi_sig_threshold, signers>>

\* A request counts as an approval, but does not look at the threshold.
RequestFreeze(authority) ==
    /\ authority \in signers
    /\ approvals' = 1
    /\ NewRound({authority})
    /\ UNCHANGED <<is_active, activated, multi_sig_threshold, signers>>

\* u8 addition as a release build does it; one with overflow checks fails the transaction.
Incremented(n) == (n + 1) % (U8Max + 1)

ApproveFreeze(authority) ==
    /\ authority \in signers
    /\ approvals' = Incremented(approvals)
    /\ is_active' = (is_active \/ approvals' >= multi_sig_threshold)
    /\ activated' = (activated \/ (~is_active /\ is_active'))
    /\ approvers' = approvers \union {authority}
    /\ repeated' = (repeated \/ authority \in approvers)
    /\ UNCHANGED <<multi_sig_threshold, signers>>

\* Mutant: whatever was approved, the freeze is lifted.
DeactivateUnchecked ==
    /\ is_active
    /\ is_active' = FALSE
    /\ approvals' = 0
    /\ NewRound({})
    /\ UNCHANGED <<activated, multi_sig_threshold, signers>>

\* Mutant: the approvals are left for the next freeze.
DeactivateKeepingCount ==
    /\ is_active /\ approvals >= multi_sig_threshold
    /\ is_active' = FALSE
    /\ NewRound({})
    /\ UNCHANGED <<activated, multi_sig_threshold, signers, approvals>>

\* Otherwise the account is written back as it was.
Deactivate ==
    /\ is_active /\ approvals >= multi_sig_threshold
    /\ is_active' = FALSE
    /\ approvals' = 0
    /\ NewRound({})
    /\ UNCHANGED <<activated, multi_sig_threshold, signers>>

Next ==
    \/ \E c \in Configs : Initialize(c)
    \/ \E authority \in Accounts : RequestFreeze(authority) \/ ApproveFreeze(authority)
    \/ Deactivate

Spec == Init /\ [][Next]_vars

------------------------------------------------------------------------------
Quorum == Cardinality(approvers) >= multi_sig_threshold

\* In a round in which nobody approves twice, a freeze comes into force only with as many
\* different approvers as the threshold says: no approval counts that was given before the
\* round began, for another freeze or to another set of signers.
FreezeIsApproved ==
    [][~is_active /\ is_active' => repeated' \/ Quorum']_vars

\* A step that lifts the freeze, whatever it is, has a quorum behind it: a request while
\* the freeze is in force begins a new round, and a counter that has wrapped is no quorum.
\* There is one way past it: Initialize, which asks nobody, lifts every freeze, and leaves
\* no trace of it.
ThawIsApproved ==
    [][is_active /\ ~is_active' =>
          repeated \/ Quorum \/ (~activated' /\ \E c \in Configs : Initialize(c))]_vars

\* As soon as there are enough different approvers, from the second on, the freeze is in
\* force, whatever was repeated or asked for anew before.
QuorumIsFrozen ==
    ~is_active /\ Cardinality(approvers) > 1 => ~Quorum

\* The counter means what it should: the approvers, if none approved twice; at least
\* them while the freeze is not in force, so that it cannot wrap before.
CounterCounts ==
    /\ ~repeated => approvals = Cardinality(approvers)
    /\ ~is_active => /\ Cardinality(approvers) <= approvals
                     /\ approvals <= 1 \/ approvals < multi_sig_threshold

ApproversAreSigners ==
    /\ approvers \subseteq signers
    /\ IsFiniteSet(signers) /\ Cardinality(signers) <= 5

\* The inductive invariant of the counter: in every order of requests, approvals and
\* deactivations, over wrapping and new signers, it stays tied to who approved.
BreakerInv ==
    /\ TypeOK /\ CounterCounts /\ ApproversAreSigners
    /\ is_active => activated      \* a freeze in force has its time

\* The comment of ApproveFreeze: "Verify approver is a signer and hasn't already
\* approved".  Then each freeze has as many different approvers as the threshold says.
FreezeHasDistinctApprovers ==
    [][~is_active /\ is_active' => Quorum']_vars
=============================================================================
