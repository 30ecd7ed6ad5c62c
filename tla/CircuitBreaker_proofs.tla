------------------------- MODULE CircuitBreaker_proofs -------------------------
(* The counter of the circuit breaker is tied to the approvers, for every set *)
(* of at most five signers, every threshold and every width of the counter.   *)
EXTENDS CircuitBreaker, FiniteSetTheorems, TLAPS

\* What the counter is reset to fits it.
LEMMA SmallCounts == 0 \in 0..U8Max /\ 1 \in 0..U8Max
  BY U8MaxAssumption

\* The set that ApproveFreeze makes of the approvers: one more unless the authority is
\* among them, and never more than five.
LEMMA ApproversGrow ==
    ASSUME TypeOK, ApproversAreSigners, NEW authority \in signers
    PROVE  /\ IsFiniteSet(approvers) /\ Cardinality(approvers) \in 0..5
           /\ approvers \union {authority} \subseteq signers
           /\ Cardinality(approvers \union {authority}) \in 0..5
           /\ Cardinality(approvers \union {authority}) =
                IF authority \in approvers THEN Cardinality(approvers)
                ELSE Cardinality(approvers) + 1
<1> DEFINE more == approvers \union {authority}
<1>1. approvers \subseteq signers /\ more \subseteq signers
  BY DEF ApproversAreSigners
<1>2. IsFiniteSet(signers) /\ Cardinality(signers) <= 5
  BY DEF ApproversAreSigners
<1>3. IsFiniteSet(approvers) /\ IsFiniteSet(more)
  BY <1>1, <1>2, FS_Subset
<1>4. /\ Cardinality(approvers) \in Nat /\ Cardinality(more) \in Nat
      /\ Cardinality(signers) \in Nat
  BY <1>2, <1>3, FS_CardinalityType
<1>5. Cardinality(approvers) <= Cardinality(signers) /\ Cardinality(more) <= Cardinality(signers)
  BY <1>1, <1>2, FS_Subset
<1>6. Cardinality(more) = IF authority \in approvers THEN Cardinality(approvers)
                          ELSE Cardinality(approvers) + 1
  BY <1>3, FS_AddElement
<1> QED
  BY <1>1, <1>2, <1>3, <1>4, <1>5, <1>6

\* The account of zeros satisfies the invariant: its one signer is the default key.
LEMMA InitInv == Init => BreakerInv
<1> SUFFICES ASSUME Init PROVE BreakerInv
  OBVIOUS
<1>1. Cardinality({}) = 0
  BY FS_EmptySet
<1>2. IsFiniteSet({DefaultKey}) /\ Cardinality({DefaultKey}) = 1
  BY FS_Singleton
<1>3. TypeOK
  BY SmallCounts, ConfigsAssumption, Zenon DEF Init, TypeOK
<1>4. CounterCounts
  <2>1. Cardinality(approvers) = 0 /\ approvals = 0
    BY <1>1 DEF Init
  <2> QED
    BY <2>1 DEF CounterCounts
<1>5. ApproversAreSigners
  <2>1. approvers \subseteq signers
    BY DEF Init
  <2>2. IsFiniteSet(signers) /\ Cardinality(signers) = 1
    BY <1>2 DEF Init
  <2> QED
    BY <2>1, <2>2 DEF ApproversAreSigners
<1>6. is_active => activated
  BY DEF Init
<1> QED
  BY <1>3, <1>4, <1>5, <1>6 DEF BreakerInv

\* ApproveFreeze counts an approver once, and does not wrap before the freeze is in force.
LEMMA ApproveStep ==
    ASSUME BreakerInv, NEW authority \in Accounts, ApproveFreeze(authority)
    PROVE  /\ BreakerInv'
           /\ ~is_active => approvals' = approvals + 1
<1> USE U8MaxAssumption DEF BreakerInv
<1>1. authority \in signers
  BY DEF ApproveFreeze
<1>2. /\ Cardinality(approvers) \in 0..5
      /\ approvers' \subseteq signers
      /\ Cardinality(approvers') \in 0..5
      /\ Cardinality(approvers') = IF authority \in approvers THEN Cardinality(approvers)
                                   ELSE Cardinality(approvers) + 1
  BY <1>1, ApproversGrow DEF ApproveFreeze
<1>3. approvals' \in 0..U8Max /\ (approvals < U8Max => approvals' = approvals + 1)
  BY DEF ApproveFreeze, Incremented, TypeOK
<1>4. ~is_active => approvals' = approvals + 1
  BY <1>3 DEF CounterCounts, TypeOK
<1>5. TypeOK'
  BY <1>2, <1>3 DEF TypeOK, ApproveFreeze
<1>6. ASSUME ~repeated' PROVE approvals' = Cardinality(approvers')
  <2>1. ~repeated /\ authority \notin approvers
    BY <1>6 DEF ApproveFreeze, TypeOK
  <2>2. approvals = Cardinality(approvers) /\ Cardinality(approvers') = approvals + 1
    BY <2>1, <1>2 DEF CounterCounts
  <2> QED
    BY <2>2, <1>2, <1>3 DEF TypeOK
<1>7. ASSUME ~is_active'
      PROVE  /\ Cardinality(approvers') <= approvals'
             /\ approvals' <= 1 \/ approvals' < multi_sig_threshold'
  <2>1. ~is_active /\ ~(approvals' >= multi_sig_threshold)
    BY <1>7 DEF ApproveFreeze, TypeOK
  <2>2. Cardinality(approvers) <= approvals
    BY <2>1 DEF CounterCounts
  <2>3. multi_sig_threshold' = multi_sig_threshold /\ multi_sig_threshold \in Nat
    BY DEF ApproveFreeze, TypeOK
  <2> QED
    BY <2>1, <2>2, <2>3, <1>2, <1>3, <1>4 DEF TypeOK
<1>8. ApproversAreSigners'
  BY <1>2 DEF ApproversAreSigners, ApproveFreeze
<1>9. is_active' => activated'
  <2>1. {is_active, activated} \subseteq BOOLEAN /\ (is_active => activated)
    BY DEF TypeOK
  <2>2. activated' = (activated \/ (~is_active /\ is_active'))
    BY DEF ApproveFreeze
  <2> QED
    BY <2>1, <2>2
<1> QED
  BY <1>4, <1>5, <1>6, <1>7, <1>8, <1>9 DEF CounterCounts

\* Each instruction preserves the invariant.
LEMMA InvStep == BreakerInv /\ [Next]_vars => BreakerInv'
<1> SUFFICES ASSUME BreakerInv, [Next]_vars PROVE BreakerInv'
  OBVIOUS
<1> USE DEF NewRound
<1>0. Cardinality({}) = 0
  BY FS_EmptySet
<1>1. ASSUME NEW c \in Configs, Initialize(c) PROVE BreakerInv'
  <2>1. /\ c.signers \subseteq Accounts /\ c.threshold \in 0..U8Max
        /\ IsFiniteSet(c.signers) /\ Cardinality(c.signers) <= 5
    BY ConfigsAssumption
  <2>2. Cardinality(approvers') = 0 /\ approvals' = 0
    BY <1>0, <1>1 DEF Initialize
  <2>3. TypeOK'
    BY <2>1, <1>1, SmallCounts, Zenon DEF Initialize, TypeOK
  <2>4. CounterCounts'
    BY <2>2 DEF CounterCounts
  <2>5. ApproversAreSigners'
    <3>1. approvers' = {} /\ signers' = c.signers
      BY <1>1 DEF Initialize
    <3> QED
      BY <3>1, <2>1 DEF ApproversAreSigners
  <2>6. ~is_active'
    BY <1>1 DEF Initialize
  <2> QED
    BY <2>3, <2>4, <2>5, <2>6 DEF BreakerInv
<1>2. ASSUME NEW authority \in Accounts, RequestFreeze(authority) PROVE BreakerInv'
  <2>1. Cardinality({authority}) = 1
    BY FS_Singleton
  <2>2. Cardinality(approvers') = 1 /\ approvals' = 1
    BY <2>1, <1>2 DEF RequestFreeze
  <2>3. TypeOK'
    BY <1>2, SmallCounts, Zenon DEF RequestFreeze, TypeOK, BreakerInv
  <2>4. CounterCounts'
    BY <2>2 DEF CounterCounts
  <2>5. ApproversAreSigners'
    BY <1>2 DEF RequestFreeze, ApproversAreSigners, BreakerInv
  <2>6. is_active' => activated'
    BY <1>2 DEF RequestFreeze, BreakerInv
  <2> QED
    BY <2>3, <2>4, <2>5, <2>6 DEF BreakerInv
<1>3. ASSUME NEW authority \in Accounts, ApproveFreeze(authority) PROVE BreakerInv'
  BY <1>3, ApproveStep
<1>4. CASE Deactivate
  <2>2. Cardinality(approvers') = 0 /\ approvals' = 0
    BY <1>0, <1>4 DEF Deactivate
  <2>3. TypeOK'
    BY <1>4, SmallCounts, Zenon DEF Deactivate, TypeOK, BreakerInv
  <2>4. CounterCounts'
    BY <2>2 DEF CounterCounts
  <2>5. ApproversAreSigners'
    BY <1>4 DEF Deactivate, ApproversAreSigners, BreakerInv
  <2>6. ~is_active'
    BY <1>4 DEF Deactivate
  <2> QED
    BY <2>3, <2>4, <2>5, <2>6 DEF BreakerInv
<1>5. CASE UNCHANGED vars
  BY <1>5 DEF vars, BreakerInv, TypeOK, CounterCounts, ApproversAreSigners
<1> QED
  BY <1>1, <1>2, <1>3, <1>4, <1>5 DEF Next

\* The inductive invariant: the counter stays tied to who approved.
THEOREM BreakerInvHolds == Spec => []BreakerInv
<1>1. Init => BreakerInv
  BY InitInv
<1>2. BreakerInv /\ [Next]_vars => BreakerInv'
  BY InvStep
<1> QED
  BY <1>1, <1>2, PTL DEF Spec

\* Enough different approvers, and the freeze is in force.
THEOREM EnoughApproversFreeze == Spec => []QuorumIsFrozen
<1>1. BreakerInv => QuorumIsFrozen
  <2> SUFFICES ASSUME BreakerInv, ~is_active, Cardinality(approvers) > 1 PROVE ~Quorum
    BY DEF QuorumIsFrozen
  <2>1. IsFiniteSet(approvers)
    BY FS_Subset DEF BreakerInv, ApproversAreSigners
  <2>2. Cardinality(approvers) \in Nat
    BY <2>1, FS_CardinalityType
  <2> QED
    BY <2>2 DEF BreakerInv, CounterCounts, TypeOK, Quorum
<1> QED
  BY <1>1, BreakerInvHolds, PTL

\* A freeze without repeated approvals has a quorum of different approvers.
THEOREM FreezesAreApproved == Spec => FreezeIsApproved
<1>1. BreakerInv /\ BreakerInv' /\ [Next]_vars
        => [~is_active /\ is_active' => repeated' \/ Quorum']_vars
  <2> SUFFICES ASSUME BreakerInv, BreakerInv', Next, ~is_active, is_active', ~repeated'
               PROVE  Quorum'
    BY DEF vars
  <2>1. PICK authority \in Accounts : ApproveFreeze(authority)
    BY DEF Next, Initialize, RequestFreeze, Deactivate, BreakerInv, TypeOK
  <2>2. approvals' >= multi_sig_threshold /\ multi_sig_threshold' = multi_sig_threshold
    BY <2>1 DEF ApproveFreeze
  <2>3. approvals' = Cardinality(approvers')
    BY DEF BreakerInv, CounterCounts
  <2> QED
    BY <2>2, <2>3 DEF Quorum
<1> QED
  BY <1>1, BreakerInvHolds, PTL DEF Spec, FreezeIsApproved

\* It is lifted with a quorum of different approvers only, or by Initialize.
THEOREM ThawsAreApproved == Spec => ThawIsApproved
<1> DEFINE Approved == repeated \/ Quorum \/ (~activated' /\ \E c \in Configs : Initialize(c))
<1>1. BreakerInv /\ [Next]_vars => [is_active /\ ~is_active' => Approved]_vars
  <2> SUFFICES ASSUME BreakerInv, Next, is_active, ~is_active', ~Approved
               PROVE  FALSE
    BY DEF vars
  <2>1. CASE Deactivate
    BY <2>1 DEF BreakerInv, CounterCounts, Deactivate, Quorum
  <2>2. ASSUME NEW authority \in Accounts, RequestFreeze(authority) \/ ApproveFreeze(authority)
        PROVE  FALSE
    BY <2>2 DEF RequestFreeze, ApproveFreeze, BreakerInv, TypeOK
  <2>3. ASSUME NEW c \in Configs, Initialize(c) PROVE FALSE
    BY <2>3 DEF Initialize
  <2> QED
    BY <2>1, <2>2, <2>3 DEF Next
<1> QED
  BY <1>1, BreakerInvHolds, PTL DEF Spec, ThawIsApproved
=============================================================================
