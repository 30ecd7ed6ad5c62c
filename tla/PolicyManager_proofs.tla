------------------------- MODULE PolicyManager_proofs -------------------------
(* What the default policies decide, for all thresholds that descend and all   *)
(* scores: a profile of medium or high level falls under the policy of its      *)
(* level, and more evidence never makes a policy stop matching.                *)
EXTENDS PolicyManager, Arrays_proofs

IsPolicy(p) ==
    p = [id |-> p.id, levels |-> p.levels, min |-> p.min, max |-> p.max,
         categories |-> p.categories, sources |-> p.sources, history |-> p.history,
         actions |-> p.actions, active |-> p.active]

\* Deactivation leaves what a policy asks for.
SameConditions(p, q) ==
    /\ p.id = q.id /\ p.levels = q.levels /\ p.min = q.min /\ p.max = q.max
    /\ p.categories = q.categories /\ p.sources = q.sources /\ p.history = q.history
    /\ p.actions = q.actions

\* The policies ask for what the defaults ask for, and the profile stays as it was.
PoliciesInv ==
    /\ profile \in [score : Scores, categories : SUBSET Categories, sources : SUBSET Sources]
    /\ policies = [i \in 1 .. 5 |-> policies[i]]
    /\ \A i \in 1 .. 5 :
          IsPolicy(policies[i]) /\ SameConditions(policies[i], DefaultPolicies[i])

\* The policies that the levels have (policy/manager.rs).
LEMMA Defaults ==
    /\ DefaultPolicies = [i \in 1 .. 5 |-> DefaultPolicies[i]]
    /\ \A i \in 1 .. 5 : IsPolicy(DefaultPolicies[i])
    /\ LET high == DefaultPolicies[2]
           medium == DefaultPolicies[3]
       IN /\ high.id = "high_risk" /\ medium.id = "medium_risk"
          /\ high.levels = {"High"} /\ medium.levels = {"Medium"}
          /\ high.min = Thresholds.high /\ high.max = Thresholds.critical
          /\ medium.min = Thresholds.medium /\ medium.max = Thresholds.high
          /\ \A p \in {high, medium} :
                p.categories = {} /\ p.sources = {} /\ p.history = FALSE
<1>1. DefaultPolicies = [i \in 1 .. 5 |-> DefaultPolicies[i]]
  BY DEF DefaultPolicies
<1>2. \A i \in 1 .. 5 : IsPolicy(DefaultPolicies[i])
  <2>1. IsPolicy(DefaultPolicies[1])
    BY DEF DefaultPolicies, Policy, IsPolicy
  <2>2. IsPolicy(DefaultPolicies[2])
    BY DEF DefaultPolicies, Policy, IsPolicy
  <2>3. IsPolicy(DefaultPolicies[3])
    BY DEF DefaultPolicies, Policy, IsPolicy
  <2>4. IsPolicy(DefaultPolicies[4])
    BY DEF DefaultPolicies, Policy, IsPolicy
  <2>5. IsPolicy(DefaultPolicies[5])
    BY DEF DefaultPolicies, Policy, IsPolicy
  <2> QED
    BY <2>1, <2>2, <2>3, <2>4, <2>5
<1>3. /\ DefaultPolicies[2].id = "high_risk" /\ DefaultPolicies[3].id = "medium_risk"
      /\ DefaultPolicies[2].levels = {"High"} /\ DefaultPolicies[3].levels = {"Medium"}
      /\ DefaultPolicies[2].min = Thresholds.high /\ DefaultPolicies[2].max = Thresholds.critical
      /\ DefaultPolicies[3].min = Thresholds.medium /\ DefaultPolicies[3].max = Thresholds.high
  BY DEF DefaultPolicies, Policy
<1>4. \A i \in {2, 3} : /\ DefaultPolicies[i].categories = {} /\ DefaultPolicies[i].sources = {}
                        /\ DefaultPolicies[i].history = FALSE
  BY DEF DefaultPolicies, Policy
<1> QED
  BY <1>1, <1>2, <1>3, <1>4

\* The manager starts with the defaults.
LEMMA Initially == Init => PoliciesInv
<1> SUFFICES ASSUME Init PROVE PoliciesInv
  OBVIOUS
<1>1. policies = DefaultPolicies /\ profile \in Profiles
  BY DEF Init
<1>2. profile \in [score : Scores, categories : SUBSET Categories, sources : SUBSET Sources]
  BY <1>1 DEF Profiles, ProfilesOver
<1> QED
  BY <1>1, <1>2, Defaults DEF PoliciesInv, SameConditions

\* Deactivating a policy changes nothing that it asks for.
LEMMA Step == PoliciesInv /\ [Next]_vars => PoliciesInv'
<1> SUFFICES ASSUME PoliciesInv, [Next]_vars PROVE PoliciesInv'
  OBVIOUS
<1>1. ASSUME NEW id, DeactivatePolicy(id) PROVE PoliciesInv'
  <2>1. PICK i \in 1 .. 5 : policies' = [policies EXCEPT ![i] = [@ EXCEPT !.active = FALSE]]
    BY <1>1 DEF DeactivatePolicy, PoliciesInv
  <2>2. profile' = profile
    BY <1>1 DEF DeactivatePolicy
  <2>3. /\ policies' = [j \in 1 .. 5 |-> policies'[j]]
        /\ \A j \in 1 .. 5 : j # i => policies'[j] = policies[j]
        /\ policies'[i] = [policies[i] EXCEPT !.active = FALSE]
    BY <2>1 DEF PoliciesInv
  <2>4. IsPolicy(policies'[i]) /\ SameConditions(policies'[i], policies[i])
    BY <2>3 DEF PoliciesInv, IsPolicy, SameConditions
  <2> QED
    BY <2>2, <2>3, <2>4 DEF PoliciesInv, SameConditions, IsPolicy
<1>2. CASE EvaluatePolicy \/ UNCHANGED vars
  BY <1>2 DEF EvaluatePolicy, vars, PoliciesInv, IsPolicy, SameConditions
<1> QED
  BY <1>1, <1>2 DEF Next

\* A policy that matches on the score and the level alone (policy/manager.rs).
LEMMA LevelAlone ==
    ASSUME NEW p, NEW q, NEW known,
           p.categories = {} /\ p.sources = {} /\ p.history = FALSE,
           RiskLevelForScore(q.score) \in p.levels, p.min <= q.score, q.score < p.max
    PROVE  MatchesPolicy(p, q, known)
  BY DEF MatchesPolicy

\* The levels in terms of the thresholds (config.rs).
LEMMA Levels ==
    ASSUME NEW score \in Nat
    PROVE  /\ RiskLevelForScore(score) = "High" =>
                 Thresholds.high <= score /\ score < Thresholds.critical
           /\ RiskLevelForScore(score) = "Medium" =>
                 Thresholds.medium <= score /\ score < Thresholds.high
<1> /\ Thresholds.critical \in Nat /\ Thresholds.high \in Nat /\ Thresholds.medium \in Nat
    /\ Thresholds.low \in Nat /\ Thresholds.critical > Thresholds.high
    /\ Thresholds.high > Thresholds.medium /\ Thresholds.medium > Thresholds.low
  BY ThresholdsDescend
<1>1. CASE score >= Thresholds.critical
  BY <1>1 DEF RiskLevelForScore
<1>2. CASE score >= Thresholds.high /\ score < Thresholds.critical
  BY <1>2 DEF RiskLevelForScore
<1>3. CASE score >= Thresholds.medium /\ score < Thresholds.high
  BY <1>3 DEF RiskLevelForScore
<1>4. CASE score >= Thresholds.low /\ score < Thresholds.medium
  BY <1>4 DEF RiskLevelForScore
<1>5. CASE score < Thresholds.low
  BY <1>5 DEF RiskLevelForScore
<1> QED
  BY <1>1, <1>2, <1>3, <1>4, <1>5

\* A profile of high or medium level falls under the policy of its level, at every boundary
\* and for every choice of the thresholds that keeps their order.
THEOREM LevelsApply == Spec => []LevelPolicyApplies
<1>1. PoliciesInv => LevelPolicyApplies
  <2> SUFFICES ASSUME PoliciesInv PROVE LevelPolicyApplies
    OBVIOUS
  <2>1. profile.score \in Nat
    BY ScoresInRange DEF PoliciesInv, MaxScore
  <2>2. DOMAIN policies = 1 .. 5
    BY DEF PoliciesInv
  <2>3. SameConditions(policies[2], DefaultPolicies[2]) /\ SameConditions(policies[3], DefaultPolicies[3])
    BY DEF PoliciesInv
  <2>4. ASSUME RiskLevelForScore(profile.score) = "High"
        PROVE  MatchesPolicy(policies[2], profile, ServiceHistory) /\ policies[2].id = "high_risk"
    BY <2>1, <2>3, <2>4, Levels, Defaults, LevelAlone DEF SameConditions
  <2>5. ASSUME RiskLevelForScore(profile.score) = "Medium"
        PROVE  MatchesPolicy(policies[3], profile, ServiceHistory) /\ policies[3].id = "medium_risk"
    BY <2>1, <2>3, <2>5, Levels, Defaults, LevelAlone DEF SameConditions
  <2> QED
    BY <2>2, <2>4, <2>5 DEF LevelPolicyApplies
<1> QED
  BY <1>1, Initially, Step, PTL DEF Spec

\* With the same score, more categories and more sources: every policy that matched still
\* does (policy/manager.rs:344-435, matches_policy).
THEOREM MoreMatches == Spec => []MoreEvidenceMatchesMore
<1>1. PoliciesInv => MoreEvidenceMatchesMore
  <2> SUFFICES ASSUME PoliciesInv,
                      NEW categories \in SUBSET Categories, NEW sources \in SUBSET Sources,
                      NEW i \in DOMAIN policies,
                      profile.categories \subseteq categories, profile.sources \subseteq sources,
                      MatchesPolicy(policies[i], profile, ServiceHistory)
               PROVE  MatchesPolicy(policies[i],
                          [profile EXCEPT !.categories = categories, !.sources = sources],
                          ServiceHistory)
    BY DEF MoreEvidenceMatchesMore
  <2> DEFINE richer == [profile EXCEPT !.categories = categories, !.sources = sources]
  <2>1. /\ richer.score = profile.score /\ richer.categories = categories
        /\ richer.sources = sources
    BY DEF PoliciesInv
  <2> HIDE DEF richer
  <2> SUFFICES MatchesPolicy(policies[i], richer, ServiceHistory)
    BY DEF richer
  <2> QED
    BY <2>1 DEF MatchesPolicy
<1> QED
  BY <1>1, Initially, Step, PTL DEF Spec

------------------------------------------------------------------------------
(* The recommended actions                                                   *)

Types == {"RevokeAttestation", "SuspendAttestation", "EscalateToCompliance", "FlagAttestation",
          "RequestAdditionalKyc", "NotifyComplianceTeam", "NotifyUser"}

\* A policy of the defaults that matches the profile.
Matching(policy) ==
    /\ \E i \in 1 .. 5 : SameConditions(policy, DefaultPolicies[i])
    /\ MatchesPolicy(policy, profile, ServiceHistory)

\* Matched policies are different ones.
MatchedInv(matched) ==
    /\ \E m \in Nat : DOMAIN matched = 1 .. m /\ Len(matched) = m
    /\ \A n \in DOMAIN matched : Matching(matched[n])
    /\ \A m, n \in DOMAIN matched : matched[m].id = matched[n].id => m = n

\* Every verdict is that of policies that match the profile, which stays as it is.
VerdictInv ==
    /\ PoliciesInv
    /\ verdict # NoVerdict =>
          /\ MatchedInv(verdict.matched)
          /\ verdict.recommended = RecommendedActions(verdict.matched)

\* The ids tell the default policies apart.
LEMMA DefaultIds ==
    \A i, j \in 1 .. 5 : DefaultPolicies[i].id = DefaultPolicies[j].id => i = j
  BY DEF DefaultPolicies, Policy

\* Each has two actions.
LEMMA DefaultActions ==
    \A i \in 1 .. 5 :
       /\ DOMAIN DefaultPolicies[i].actions = 1 .. 2
       /\ \A k \in 1 .. 2 : /\ DefaultPolicies[i].actions[k].type \in Types
                           /\ DefaultPolicies[i].actions[k].delay \in Nat
<1>1. \A i \in 1 .. 5 : DOMAIN DefaultPolicies[i].actions = 1 .. 2
  BY DEF DefaultPolicies, Policy
<1>2. \A i \in 1 .. 5, k \in 1 .. 2 : DefaultPolicies[i].actions[k].type \in Types
  BY DEF DefaultPolicies, Policy, Action, Types
<1>3. \A i \in 1 .. 5, k \in 1 .. 2 : DefaultPolicies[i].actions[k].delay \in Nat
  BY DEF DefaultPolicies, Policy, Action
<1> QED
  BY <1>1, <1>2, <1>3

\* Which of the automatic ones change the status, and of which policy they are.
LEMMA StatusActions ==
    \A i \in 1 .. 5, k \in 1 .. 2 :
       LET a == DefaultPolicies[i].actions[k] IN
       /\ a.type = "RevokeAttestation" => i = 1 /\ k = 1
       /\ a.type = "SuspendAttestation" => a.requiresApproval
       /\ a.type = "FlagAttestation" => i \in {3, 5} /\ k = 1
  BY DEF DefaultPolicies, Policy, Action

\* Those policies exclude each other.
LEMMA StatusPolicies ==
    /\ DefaultPolicies[1].min = Thresholds.critical
    /\ DefaultPolicies[5].history = TRUE
  BY DEF DefaultPolicies, Policy

\* The matched policies are the active ones that match, in the order of the policies.
LEMMA MatchedAre == PoliciesInv => MatchedInv(MatchedPolicies(policies, profile, ServiceHistory))
<1> SUFFICES ASSUME PoliciesInv
             PROVE  MatchedInv(MatchedPolicies(policies, profile, ServiceHistory))
  OBVIOUS
<1> DEFINE kept == {i \in DOMAIN policies :
                      policies[i].active /\ MatchesPolicy(policies[i], profile, ServiceHistory)}
           list == InOrder(kept, Ascending(kept))
           matched == MatchedPolicies(policies, profile, ServiceHistory)
<1>1. DOMAIN policies = 1 .. 5
  BY DEF PoliciesInv
<1>2. kept \in SUBSET (1 .. 5) /\ kept \in SUBSET Nat
  BY <1>1
<1>3. IsFiniteSet(kept)
  <2>1. IsFiniteSet(1 .. 5)
    BY Intervals
  <2> HIDE DEF kept
  <2> QED
    BY <1>2, <2>1, FS_Subset
<1>4. Orders(Ascending(kept), kept)
  BY <1>2, AscendingOrders
<1>5. Lists(list, kept, Ascending(kept))
  <2> HIDE DEF kept
  <2> QED
    BY <1>3, <1>4, Listed
<1>6. matched = [n \in DOMAIN list |-> policies[list[n]]]
  BY DEF MatchedPolicies, Filter, Elements
<1>7. \A i \in kept : Matching(policies[i])
  BY <1>1 DEF PoliciesInv, Matching
<1>8. \A i, j \in kept : policies[i].id = policies[j].id => i = j
  BY <1>2, DefaultIds DEF PoliciesInv, SameConditions
<1> HIDE DEF list, kept, matched
<1>9. \E m \in Nat : DOMAIN matched = 1 .. m /\ Len(matched) = m
  BY <1>5, <1>6 DEF Lists
<1>10. \A n \in DOMAIN matched : list[n] \in kept /\ matched[n] = policies[list[n]]
  BY <1>5, <1>6 DEF Lists
<1>11. \A m, n \in DOMAIN matched : list[m] = list[n] => m = n
  BY <1>5, <1>6 DEF Lists
<1>12. \A n \in DOMAIN matched : Matching(matched[n])
  BY <1>7, <1>10
<1>13. \A m, n \in DOMAIN matched : matched[m].id = matched[n].id => m = n
  BY <1>8, <1>10, <1>11
<1>14. MatchedInv(matched)
  BY <1>9, <1>12, <1>13 DEF MatchedInv
<1> QED
  BY <1>14 DEF matched

\* A deactivation leaves the last verdict; an evaluation makes a new one.
LEMMA VerdictStep == VerdictInv /\ [Next]_vars => VerdictInv'
<1> SUFFICES ASSUME VerdictInv, [Next]_vars PROVE VerdictInv'
  OBVIOUS
<1>1. PoliciesInv'
  BY Step DEF VerdictInv
<1>2. profile' = profile
  BY DEF Next, vars, DeactivatePolicy, EvaluatePolicy
<1>3. CASE EvaluatePolicy
  <2>1. /\ verdict'.matched = MatchedPolicies(policies, profile, ServiceHistory)
        /\ verdict'.recommended = RecommendedActions(verdict'.matched)
    BY <1>3 DEF EvaluatePolicy
  <2>2. MatchedInv(verdict'.matched)
    BY <2>1, MatchedAre DEF VerdictInv
  <2>3. MatchedInv(verdict.matched)'
    BY <1>2, <2>2 DEF MatchedInv, Matching, ServiceHistory
  <2> QED
    BY <1>1, <2>1, <2>3 DEF VerdictInv, RecommendedActions
<1>4. CASE UNCHANGED verdict
  BY <1>1, <1>2, <1>4
     DEF VerdictInv, MatchedInv, Matching, ServiceHistory, RecommendedActions
<1> QED
  BY <1>3, <1>4 DEF Next, vars, DeactivatePolicy

\* The pairs of places of which one goes first.
PlaceOrder(matched) ==
    {pq \in Places(matched) \X Places(matched) : Precedes(matched, pq[1], pq[2])}

\* An action of a matched policy is one of a default policy that matches.
LEMMA ActionsAre ==
    ASSUME NEW matched, MatchedInv(matched), NEW p \in Places(matched)
    PROVE  \E i \in 1 .. 5 :
              /\ SameConditions(matched[p[1]], DefaultPolicies[i])
              /\ MatchesPolicy(matched[p[1]], profile, ServiceHistory)
              /\ p[1] \in DOMAIN matched /\ p[2] \in 1 .. 2
              /\ ActionAt(matched, p) = DefaultPolicies[i].actions[p[2]]
<1>1. p[1] \in DOMAIN matched /\ p[2] \in 1 .. 2
  BY DEF Places
<1>2. Matching(matched[p[1]])
  BY <1>1 DEF MatchedInv
<1> QED
  BY <1>1, <1>2 DEF Matching, SameConditions, ActionAt

\* Two actions of each matched policy.
LEMMA PlacesAre ==
    ASSUME NEW matched, MatchedInv(matched)
    PROVE  /\ Places(matched) = (DOMAIN matched) \X (1 .. 2)
           /\ IsFiniteSet(Places(matched))
           /\ Cardinality(Places(matched)) = 2 * Len(matched)
<1>1. PICK m \in Nat : DOMAIN matched = 1 .. m /\ Len(matched) = m
  BY DEF MatchedInv
<1>2. ASSUME NEW n \in DOMAIN matched PROVE DOMAIN matched[n].actions = 1 .. 2
  <2>1. PICK i \in 1 .. 5 : matched[n].actions = DefaultPolicies[i].actions
    BY DEF MatchedInv, Matching, SameConditions
  <2> QED
    BY <2>1, DefaultActions
<1>3. Places(matched) = (DOMAIN matched) \X (1 .. 2)
  BY <1>2 DEF Places
<1>4. /\ IsFiniteSet(DOMAIN matched) /\ Cardinality(DOMAIN matched) = m
      /\ IsFiniteSet(1 .. 2) /\ Cardinality(1 .. 2) = 2
  <2>1. IsFiniteSet(1 .. m) /\ Cardinality(1 .. m) = m
    BY Intervals
  <2>2. IsFiniteSet(1 .. 2) /\ Cardinality(1 .. 2) = 2
    BY Intervals
  <2> QED
    BY <1>1, <2>1, <2>2, Zenon
<1>5. IsFiniteSet((DOMAIN matched) \X (1 .. 2))
      /\ Cardinality((DOMAIN matched) \X (1 .. 2)) = m * 2
  BY <1>4, FS_Product
<1>6. m * 2 = 2 * Len(matched)
  BY <1>1
<1> QED
  BY <1>3, <1>5, <1>6, Zenon

\* The sort leaves no two actions undecided, for the places break every tie.
LEMMA PlacesOrdered ==
    ASSUME NEW matched, MatchedInv(matched)
    PROVE  Orders(PlaceOrder(matched), Places(matched))
<1> DEFINE P == Places(matched)
           First(p, q) == Precedes(matched, p, q)
           Prio(p) == ActionPriority(ActionAt(matched, p).type)
           Delay(p) == ActionAt(matched, p).delay
<1>1. \A p \in P : p[1] \in Nat /\ p[2] \in Nat /\ p = <<p[1], p[2]>>
  BY PlacesAre DEF MatchedInv
<1>2. \A p \in P : Prio(p) \in Nat /\ Delay(p) \in Nat
  <2>1. \A t \in Types : ActionPriority(t) \in Nat
    BY DEF Types, ActionPriority
  <2> QED
    BY <2>1, ActionsAre, DefaultActions
<1>3. \A p, q \in P : First(p, q) <=>
         \/ Prio(p) > Prio(q)
         \/ Prio(p) = Prio(q) /\ Delay(p) < Delay(q)
         \/ Prio(p) = Prio(q) /\ Delay(p) = Delay(q) /\ Lexically(p, q)
  <2> SUFFICES ASSUME NEW p \in P, NEW q \in P
               PROVE  First(p, q) <=>
                         \/ Prio(p) > Prio(q)
                         \/ Prio(p) = Prio(q) /\ Delay(p) < Delay(q)
                         \/ Prio(p) = Prio(q) /\ Delay(p) = Delay(q) /\ Lexically(p, q)
    OBVIOUS
  <2>1. /\ Prio(p) \in Nat /\ Prio(q) \in Nat /\ Delay(p) \in Nat /\ Delay(q) \in Nat
        /\ First(p, q) <=>
              \/ Prio(p) > Prio(q) \/ (Prio(p) = Prio(q) /\ Delay(p) < Delay(q))
              \/ /\ ~(Prio(q) > Prio(p) \/ (Prio(q) = Prio(p) /\ Delay(q) < Delay(p)))
                 /\ Lexically(p, q)
    BY <1>2, Zenon DEF Precedes, Before
  <2> HIDE DEF First, Prio, Delay
  <2> QED
    BY <2>1
<1>4. \A p, q \in P : <<p, q>> \in PlaceOrder(matched) <=> First(p, q)
  BY DEF PlaceOrder
<1> HIDE DEF First, Prio, Delay, P
<1>5. \A p \in P : ~First(p, p)
  BY <1>1, <1>2, <1>3 DEF Lexically
<1>6. \A p, q, r \in P : First(p, q) /\ First(q, r) => First(p, r)
  BY <1>1, <1>2, <1>3 DEF Lexically
<1>7. \A p, q \in P : p # q => First(p, q) \/ First(q, p)
  <2>1. \A p, q \in P : p # q => Lexically(p, q) \/ Lexically(q, p)
    BY <1>1 DEF Lexically
  <2> QED
    BY <1>2, <1>3, <2>1
<1>8. Orders(PlaceOrder(matched), P)
  BY <1>4, <1>5, <1>6, <1>7 DEF Orders
<1> QED
  BY <1>8 DEF P

\* So the places are listed in that order, each once.
LEMMA Recommended ==
    ASSUME NEW matched, MatchedInv(matched)
    PROVE  Lists(RecommendedPlaces(matched), Places(matched), PlaceOrder(matched))
<1>1. RecommendedPlaces(matched) = InOrder(Places(matched), PlaceOrder(matched))
  BY DEF RecommendedPlaces, PlaceOrder
<1>2. IsFiniteSet(Places(matched)) /\ Orders(PlaceOrder(matched), Places(matched))
  BY PlacesAre, PlacesOrdered
<1> QED
  BY <1>1, <1>2, Listed

\* Two automatic actions stand at places of the matched policies, in the order of the places.
Pair(matched, automatic, i, j, p, q) ==
    /\ p \in Places(matched) /\ q \in Places(matched) /\ p # q
    /\ Precedes(matched, p, q)
    /\ automatic[i] = ActionAt(matched, p) /\ automatic[j] = ActionAt(matched, q)
    /\ ~ActionAt(matched, p).requiresApproval /\ ~ActionAt(matched, q).requiresApproval

LEMMA AutomaticPairs ==
    ASSUME NEW matched, MatchedInv(matched), NEW r, r = RecommendedActions(matched),
           NEW automatic, automatic = AutomaticActions(r),
           NEW i \in DOMAIN automatic, NEW j \in DOMAIN automatic
    PROVE  /\ i \in Nat /\ j \in Nat
           /\ i < j => \E p, q : Pair(matched, automatic, i, j, p, q)
           /\ \E p \in Places(matched) :
                 automatic[j] = ActionAt(matched, p) /\ ~ActionAt(matched, p).requiresApproval
<1> DEFINE list == RecommendedPlaces(matched)
           kept == {n \in DOMAIN r : ~r[n].requiresApproval}
           order == InOrder(kept, Ascending(kept))
           p == list[order[i]]
           q == list[order[j]]
<1>1. automatic = [n \in DOMAIN order |-> r[order[n]]]
  BY DEF AutomaticActions, Filter, Elements
<1>2. Lists(list, Places(matched), PlaceOrder(matched))
  BY Recommended
<1>3. /\ DOMAIN list = 1 .. Cardinality(Places(matched)) /\ Cardinality(Places(matched)) \in Nat
      /\ DOMAIN r = DOMAIN list /\ \A n \in DOMAIN r : r[n] = ActionAt(matched, list[n])
  BY <1>2 DEF Lists, RecommendedActions
<1>4. kept \in SUBSET (1 .. Cardinality(Places(matched))) /\ kept \in SUBSET Nat
  BY <1>3
<1>5. IsFiniteSet(kept) /\ Orders(Ascending(kept), kept)
  <2>1. IsFiniteSet(1 .. Cardinality(Places(matched)))
    BY <1>3, FS_Interval
  <2> HIDE DEF kept
  <2> QED
    BY <1>4, <2>1, FS_Subset, AscendingOrders
<1>6. Lists(order, kept, Ascending(kept))
  <2> HIDE DEF kept
  <2> QED
    BY <1>5, Listed
<1>7. /\ order[i] \in kept /\ order[j] \in kept
      /\ i < j => <<order[i], order[j]>> \in Ascending(kept)
  <2> HIDE DEF kept
  <2> QED
    BY <1>1, <1>6 DEF Lists
<1>8. automatic[i] = r[order[i]] /\ automatic[j] = r[order[j]]
  BY <1>1
<1>9. /\ order[i] \in DOMAIN r /\ ~r[order[i]].requiresApproval
      /\ order[j] \in DOMAIN r /\ ~r[order[j]].requiresApproval
      /\ i < j => order[i] < order[j]
  BY <1>7 DEF Ascending
<1> HIDE DEF kept, order, list
<1>10. r[order[i]] = ActionAt(matched, p) /\ r[order[j]] = ActionAt(matched, q)
  BY <1>3, <1>9
<1>11. p \in Places(matched) /\ q \in Places(matched)
  BY <1>2, <1>3, <1>9 DEF Lists
<1>12. ASSUME i < j PROVE p # q /\ Precedes(matched, p, q)
  <2>1. order[i] < order[j] /\ order[i] # order[j]
    BY <1>3, <1>9, <1>12
  <2>2. p # q /\ <<p, q>> \in PlaceOrder(matched)
    BY <1>2, <1>3, <1>9, <2>1 DEF Lists
  <2> QED
    BY <2>2 DEF PlaceOrder
<1>13. i \in Nat /\ j \in Nat
  BY <1>1, <1>6 DEF Lists
<1> HIDE DEF p, q
<1> QED
  BY <1>8, <1>9, <1>10, <1>11, <1>12, <1>13 DEF Pair

\* What changes the status and needs no approval is the revocation of the critical policy or
\* the flag of the medium one, for the service knows no history; neither has a delay.
LEMMA AutomaticChange ==
    ASSUME NEW matched, MatchedInv(matched), NEW q \in Places(matched),
           ~ActionAt(matched, q).requiresApproval, ChangesStatus(ActionAt(matched, q))
    PROVE  \E l \in {1, 3} :
              /\ SameConditions(matched[q[1]], DefaultPolicies[l])
              /\ MatchesPolicy(matched[q[1]], profile, ServiceHistory)
              /\ q[1] \in DOMAIN matched /\ q[2] = 1
              /\ ActionAt(matched, q) = DefaultPolicies[l].actions[1]
<1>1. PICK l \in 1 .. 5 :
         /\ SameConditions(matched[q[1]], DefaultPolicies[l])
         /\ MatchesPolicy(matched[q[1]], profile, ServiceHistory)
         /\ q[1] \in DOMAIN matched /\ q[2] \in 1 .. 2
         /\ ActionAt(matched, q) = DefaultPolicies[l].actions[q[2]]
  BY ActionsAre
<1>2. l # 5
  BY <1>1, StatusPolicies DEF MatchesPolicy, SameConditions, ServiceHistory
<1>3. (l = 1 \/ l = 3) /\ q[2] = 1
  BY <1>1, <1>2, StatusActions DEF ChangesStatus
<1>4. CASE l = 1
  BY <1>1, <1>3, <1>4
<1>5. CASE l = 3
  BY <1>1, <1>3, <1>5
<1> QED
  BY <1>3, <1>4, <1>5

\* Of no actions none is automatic.
LEMMA NothingKept == DOMAIN AutomaticActions(<< >>) = {}
<1> DEFINE r == << >>
           kept == {n \in DOMAIN r : ~r[n].requiresApproval}
           order == InOrder(kept, Ascending(kept))
<1>1. kept = {}
  OBVIOUS
<1>2. Cardinality(kept) = 0
  BY <1>1, FS_EmptySet
<1>3. DOMAIN order = {}
  <2> HIDE DEF kept
  <2> QED
    BY <1>2 DEF InOrder
<1>4. AutomaticActions(r) = [n \in DOMAIN order |-> r[order[n]]]
  BY DEF AutomaticActions, Filter, Elements
<1> HIDE DEF order
<1> QED
  BY <1>3, <1>4

\* A measure goes before its follow-up in each of the default policies.
LEMMA OwnOrder ==
    \A i \in 1 .. 5 : Before(DefaultPolicies[i].actions[1], DefaultPolicies[i].actions[2])
<1>1. Before(DefaultPolicies[1].actions[1], DefaultPolicies[1].actions[2])
  BY DEF DefaultPolicies, Policy, Action, Before, ActionPriority
<1>2. Before(DefaultPolicies[2].actions[1], DefaultPolicies[2].actions[2])
  BY DEF DefaultPolicies, Policy, Action, Before, ActionPriority
<1>3. Before(DefaultPolicies[3].actions[1], DefaultPolicies[3].actions[2])
  BY DEF DefaultPolicies, Policy, Action, Before, ActionPriority
<1>4. Before(DefaultPolicies[4].actions[1], DefaultPolicies[4].actions[2])
  BY DEF DefaultPolicies, Policy, Action, Before, ActionPriority
<1>5. Before(DefaultPolicies[5].actions[1], DefaultPolicies[5].actions[2])
  BY DEF DefaultPolicies, Policy, Action, Before, ActionPriority
<1> QED
  BY <1>1, <1>2, <1>3, <1>4, <1>5

\* What the policies of the levels and of sanctions execute by themselves: without a delay,
\* but for what has a priority below every change of the status.
LEMMA Delays ==
    \A i \in 1 .. 4, k \in 1 .. 2 :
       LET a == DefaultPolicies[i].actions[k] IN
       /\ a.type = "RevokeAttestation" => a.delay = 0
       /\ i \in {1, 3, 4} /\ ~a.requiresApproval /\ a.delay # 0 => ActionPriority(a.type) = 1
<1> DEFINE Fits(a) == a.delay # 0 => a.requiresApproval \/ ActionPriority(a.type) = 1
<1>1. \A i \in 1 .. 4, k \in 1 .. 2 : LET a == DefaultPolicies[i].actions[k]
                                     IN  a.type = "RevokeAttestation" => a.delay = 0
  BY DEF DefaultPolicies, Policy, Action
<1>2. Fits(DefaultPolicies[1].actions[1]) /\ Fits(DefaultPolicies[1].actions[2])
  BY DEF DefaultPolicies, Policy, Action, ActionPriority
<1>3. Fits(DefaultPolicies[3].actions[1]) /\ Fits(DefaultPolicies[3].actions[2])
  BY DEF DefaultPolicies, Policy, Action, ActionPriority
<1>4. Fits(DefaultPolicies[4].actions[1]) /\ Fits(DefaultPolicies[4].actions[2])
  BY DEF DefaultPolicies, Policy, Action, ActionPriority
<1>5. \A i \in {1, 3, 4}, k \in 1 .. 2 : Fits(DefaultPolicies[i].actions[k])
  <2> HIDE DEF Fits
  <2> QED
    BY <1>2, <1>3, <1>4
<1> QED
  BY <1>1, <1>5

\* Only a revocation has the highest priority; the flag is above notifications.
LEMMA Priorities ==
    /\ \A t \in Types : ActionPriority(t) \in 1 .. 4
    /\ \A t \in Types : ActionPriority(t) = 4 => t = "RevokeAttestation"
    /\ ActionPriority("RevokeAttestation") = 4
    /\ ActionPriority("FlagAttestation") = 2
  BY DEF Types, ActionPriority

\* The flag is that of the medium policy, with no delay.
LEMMA MediumActions ==
    /\ DefaultPolicies[1].actions[1].type = "RevokeAttestation"
    /\ DefaultPolicies[3].actions[1].type = "FlagAttestation"
    /\ DefaultPolicies[1].actions[1].delay = 0 /\ DefaultPolicies[3].actions[1].delay = 0
    /\ DefaultPolicies[1].levels = {"Critical"}
  BY DEF DefaultPolicies, Policy, Action

\* Merged and sorted, the treatment is that of each policy, and no change of the status
\* waits (policy/manager.rs:304-342, evaluate_policy; actions.rs:64-67, the delay).
THEOREM TreatmentsInOrder == Spec => []TreatmentInOrder
<1>1. VerdictInv => TreatmentInOrder
  <2> SUFFICES ASSUME VerdictInv PROVE TreatmentInOrder
    OBVIOUS
  <2> DEFINE matched == verdict.matched
             r == verdict.recommended
             list == RecommendedPlaces(matched)
             automatic == AutomaticActions(r)
  <2>1. CASE verdict = NoVerdict
    <3>1. r = << >> /\ matched = << >>
      BY <2>1 DEF NoVerdict
    <3>2. DOMAIN automatic = {}
      BY <3>1, NothingKept
    <3> QED
      BY <3>1, <3>2 DEF TreatmentInOrder
  <2>2. CASE verdict # NoVerdict
    <3>1. MatchedInv(matched) /\ r = RecommendedActions(matched)
      BY <2>2 DEF VerdictInv
    <3>2. Lists(list, Places(matched), PlaceOrder(matched))
      BY <3>1, Recommended
    <3>3. DOMAIN list = 1 .. Cardinality(Places(matched)) /\ Cardinality(Places(matched)) \in Nat
      BY <3>2 DEF Lists
    <3>4. DOMAIN r = DOMAIN list /\ \A n \in DOMAIN r : r[n] = ActionAt(matched, list[n])
      BY <3>1 DEF RecommendedActions
    <3>5. ASSUME NEW k \in DOMAIN matched
          PROVE  \E i, j \in DOMAIN r :
                    i < j /\ r[i] = matched[k].actions[1] /\ r[j] = matched[k].actions[2]
      <4> DEFINE p == <<k, 1>>
                 q == <<k, 2>>
                 P == Places(matched)
                 N == Cardinality(P)
                 before == PlaceOrder(matched)
      <4>1. /\ p \in P /\ q \in P
            /\ ActionAt(matched, p) = matched[k].actions[1]
            /\ ActionAt(matched, q) = matched[k].actions[2]
        BY <3>1, PlacesAre DEF ActionAt
      <4>2. Before(matched[k].actions[1], matched[k].actions[2])
        BY <3>1, OwnOrder DEF MatchedInv, Matching, SameConditions
      <4>3. <<p, q>> \in before
        BY <4>1, <4>2 DEF PlaceOrder, Precedes
      <4>4. Orders(before, P)
        BY <3>1, PlacesOrdered
      <4> HIDE DEF p, q, P, N, before, list
      <4>5. PICK i \in 1 .. N, j \in 1 .. N : list[i] = p /\ list[j] = q
        BY <3>2, <4>1 DEF Lists, P, N
      <4>6. <<q, p>> \notin before /\ p # q
        BY <4>1, <4>3, <4>4 DEF Orders
      <4>7. N \in Nat /\ \A m, n \in 1 .. N : m < n => <<list[m], list[n]>> \in before
        BY <3>2 DEF Lists, P, N, before
      <4>8. i < j
        BY <4>5, <4>6, <4>7
      <4>9. i \in DOMAIN r /\ j \in DOMAIN r
        BY <3>3, <3>4, <4>5 DEF P, N
      <4> QED
        BY <3>4, <4>1, <4>5, <4>8, <4>9
    <3>6. Len(r) = 2 * Len(matched)
      <4>1. Cardinality(Places(matched)) = 2 * Len(matched)
        BY <3>1, PlacesAre
      <4>2. Len(r) = Cardinality(Places(matched))
        BY <3>1, <3>3, <3>4 DEF RecommendedActions
      <4> QED
        BY <4>1, <4>2
    <3>7. ASSUME NEW i \in DOMAIN automatic, NEW j \in DOMAIN automatic,
                 ChangesStatus(automatic[j]), i <= j
          PROVE  automatic[i].delay = 0
      <4> HIDE DEF automatic, r, matched
      <4>1. PICK q \in Places(matched) :
               automatic[j] = ActionAt(matched, q) /\ ~ActionAt(matched, q).requiresApproval
        BY <3>1, AutomaticPairs DEF automatic
      <4>2. CASE i = j
        <5>1. PICK l \in {1, 3} : ActionAt(matched, q) = DefaultPolicies[l].actions[1]
          BY <3>1, <3>7, <4>1, AutomaticChange
        <5> QED
          BY <4>1, <4>2, <5>1, MediumActions
      <4>3. CASE i # j
        <5>1. i \in Nat /\ j \in Nat
          BY <3>1, AutomaticPairs DEF automatic
        <5>2. PICK p, s : Pair(matched, automatic, i, j, p, s)
          BY <3>1, <3>7, <4>3, <5>1, AutomaticPairs DEF automatic
        <5>3. PICK k \in 1 .. 5 :
                 /\ SameConditions(matched[p[1]], DefaultPolicies[k])
                 /\ MatchesPolicy(matched[p[1]], profile, ServiceHistory)
                 /\ p[2] \in 1 .. 2
                 /\ ActionAt(matched, p) = DefaultPolicies[k].actions[p[2]]
          BY <3>1, <5>2, ActionsAre DEF Pair
        <5>4. PICK l \in {1, 3} :
                 /\ SameConditions(matched[s[1]], DefaultPolicies[l])
                 /\ MatchesPolicy(matched[s[1]], profile, ServiceHistory)
                 /\ ActionAt(matched, s) = DefaultPolicies[l].actions[1]
          BY <3>1, <3>7, <5>2, AutomaticChange DEF Pair
        <5> DEFINE a == DefaultPolicies[k].actions[p[2]]
                   b == DefaultPolicies[l].actions[1]
        <5>5. ~Before(b, a) \/ Before(a, b)
          BY <5>2, <5>3, <5>4 DEF Pair, Precedes
        <5>6. a.type \in Types /\ a.delay \in Nat /\ b.delay = 0 /\ k # 5
          BY <5>3, DefaultActions, MediumActions, StatusPolicies
             DEF MatchesPolicy, SameConditions, ServiceHistory
        <5>7. ActionPriority(a.type) >= ActionPriority(b.type)
          <6>1. ActionPriority(a.type) \in 1 .. 4 /\ ActionPriority(b.type) \in 1 .. 4
            BY <5>6, MediumActions, Priorities
          <6> QED
            BY <5>5, <6>1 DEF Before
        <5>8. a.delay = 0
          <6>1. CASE l = 1
            <7>1. ActionPriority(a.type) = 4
              BY <5>6, <5>7, <6>1, MediumActions, Priorities
            <7>2. a.type = "RevokeAttestation"
              BY <5>6, <7>1, Priorities
            <7> QED
              BY <5>3, <5>6, <7>2, Delays
          <6>2. CASE l = 3
            <7>1. ActionPriority(a.type) # 1
              BY <5>7, <6>2, MediumActions, Priorities
            <7>2. RiskLevelForScore(profile.score) = "Medium"
              BY <5>4, <6>2, Defaults DEF MatchesPolicy, SameConditions
            <7>3. k # 2
              BY <5>3, <7>2, Defaults DEF MatchesPolicy, SameConditions
            <7> QED
              BY <5>2, <5>3, <5>6, <7>1, <7>3, Delays DEF Pair
          <6> QED
            BY <6>1, <6>2
        <5> QED
          BY <5>2, <5>3, <5>8 DEF Pair
      <4> QED
        BY <4>2, <4>3
    <3> HIDE DEF automatic, r, matched, list
    <3> QED
      BY <3>5, <3>6, <3>7 DEF TreatmentInOrder, automatic, r, matched
  <2> QED
    BY <2>1, <2>2
<1>2. Init => VerdictInv
  BY Initially DEF Init, VerdictInv
<1> QED
  BY <1>1, <1>2, VerdictStep, PTL DEF Spec

\* Where a revocation is executed, no other change of the status is: the policies that would
\* make one automatically do not match such a profile (policy/manager.rs:86-272, the
\* default policies, and service.rs:276-278, the filter on requires_approval).
THEOREM RevocationsStand == Spec => []RevocationStands
<1>1. VerdictInv => RevocationStands
  <2> SUFFICES ASSUME VerdictInv PROVE RevocationStands
    OBVIOUS
  <2> DEFINE matched == verdict.matched
             r == verdict.recommended
             automatic == AutomaticActions(r)
  <2>1. CASE verdict = NoVerdict
    <3>1. r = << >>
      BY <2>1 DEF NoVerdict
    <3>2. DOMAIN automatic = {}
      BY <3>1, NothingKept
    <3> QED
      BY <3>2 DEF RevocationStands
  <2>2. CASE verdict # NoVerdict
    <3>1. MatchedInv(matched) /\ r = RecommendedActions(matched)
      BY <2>2 DEF VerdictInv
    <3>2. ASSUME NEW i \in DOMAIN automatic, NEW j \in DOMAIN automatic,
                 automatic[i].type = "RevokeAttestation", i < j, ChangesStatus(automatic[j])
          PROVE  FALSE
      <4> HIDE DEF automatic, r, matched
      <4>1. PICK p, q : Pair(matched, automatic, i, j, p, q)
        BY <3>1, <3>2, AutomaticPairs DEF automatic
      <4>2. PICK k \in 1 .. 5 :
               /\ SameConditions(matched[p[1]], DefaultPolicies[k])
               /\ MatchesPolicy(matched[p[1]], profile, ServiceHistory)
               /\ p[1] \in DOMAIN matched /\ p[2] \in 1 .. 2
               /\ ActionAt(matched, p) = DefaultPolicies[k].actions[p[2]]
        BY <3>1, <4>1, ActionsAre DEF Pair
      <4>3. PICK l \in {1, 3} :
               /\ SameConditions(matched[q[1]], DefaultPolicies[l])
               /\ MatchesPolicy(matched[q[1]], profile, ServiceHistory)
               /\ q[1] \in DOMAIN matched /\ q[2] = 1
               /\ ActionAt(matched, q) = DefaultPolicies[l].actions[1]
        BY <3>1, <3>2, <4>1, AutomaticChange DEF Pair
      <4>4. k = 1 /\ p[2] = 1
        BY <3>2, <4>1, <4>2, StatusActions DEF Pair
      <4>5. RiskLevelForScore(profile.score) = "Critical"
        BY <4>2, <4>4, MediumActions DEF MatchesPolicy, SameConditions
      <4>6. CASE l = 1
        <5>1. p[1] = q[1]
          BY <3>1, <4>2, <4>3, <4>4, <4>6 DEF MatchedInv, SameConditions
        <5>2. p = q
          BY <3>1, <4>1, <4>3, <4>4, <5>1, PlacesAre DEF Pair
        <5> QED
          BY <4>1, <5>2 DEF Pair
      <4>7. CASE l = 3
        <5>1. RiskLevelForScore(profile.score) = "Medium"
          BY <4>3, <4>7, Defaults DEF MatchesPolicy, SameConditions
        <5> QED
          BY <4>5, <5>1
      <4> QED
        BY <4>6, <4>7
    <3> HIDE DEF automatic
    <3> QED
      BY <3>2 DEF RevocationStands, automatic
  <2> QED
    BY <2>1, <2>2
<1>2. Init => VerdictInv
  BY Initially DEF Init, VerdictInv
<1> QED
  BY <1>1, <1>2, VerdictStep, PTL DEF Spec
=============================================================================
