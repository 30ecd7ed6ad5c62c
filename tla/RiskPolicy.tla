------------------------------ MODULE RiskPolicy ------------------------------
(***************************************************************************)
(* What the policy manager decides about a risk profile: the level of its   *)
(* score (config.rs), the default policies, which of them match, and the    *)
(* order of the actions they recommend (policy/manager.rs).                 *)
(*                                                                         *)
(* Scores and thresholds are f64 in the code and are only compared, so any  *)
(* numbers that realise every order of them will do.  A profile keeps what  *)
(* the policies look at: its score, the categories of its indicators and    *)
(* the sources that answered.                                              *)
(***************************************************************************)
EXTENDS Arrays

CONSTANT Thresholds     \* [critical, high, medium, low : Nat]

\* from_env does not check the order; its defaults (90, 75, 50, 25) keep it.
ASSUME ThresholdsDescend ==
    /\ Thresholds \in [{"critical", "high", "medium", "low"} -> Nat]
    /\ Thresholds.critical > Thresholds.high
    /\ Thresholds.high > Thresholds.medium
    /\ Thresholds.medium > Thresholds.low
    /\ Thresholds.low > 0

Sources == {"TrmLabs", "Chainalysis"}

\* "Technical" stands for every category that no policy names.
Categories == {"Sanctions", "IllicitActivity", "BehavioralAnomaly", "Technical"}

\* The profiles the aggregator can build: without an answer there are no indicators,
\* without indicators the score is 0, and only TRM reports behavioral anomalies.
ProfilesOver(scores) ==
    {p \in [score : scores, categories : SUBSET Categories, sources : SUBSET Sources] :
        /\ p.sources = {} => p.categories = {}
        /\ p.categories = {} => p.score = 0
        /\ "BehavioralAnomaly" \in p.categories => "TrmLabs" \in p.sources}

RiskLevelForScore(score) ==
    CASE score >= Thresholds.critical -> "Critical"
      [] score >= Thresholds.high /\ score < Thresholds.critical -> "High"
      [] score >= Thresholds.medium /\ score < Thresholds.high -> "Medium"
      [] score >= Thresholds.low /\ score < Thresholds.medium -> "Low"
      [] score < Thresholds.low -> "Safe"

------------------------------------------------------------------------------
(* The default policies                                                     *)

Action(type, delay, approval) == [type |-> type, delay |-> delay, requiresApproval |-> approval]

\* The empty set of levels, categories or sources asks for nothing; scores lie in
\* min .. max-1, an absent maximum being above every score.  `history` stands for the
\* conditions on the attestation's age and on the recent volume.
Policy(id, levels, min, max, categories, sources, history, actions) ==
    [id |-> id, levels |-> levels, min |-> min, max |-> max, categories |-> categories,
     sources |-> sources, history |-> history, actions |-> actions, active |-> TRUE]

MaxScore == 100

DefaultPolicies == <<
    Policy("critical_risk", {"Critical"}, Thresholds.critical, MaxScore + 1,
           {"Sanctions", "IllicitActivity"}, Sources, FALSE,
           <<Action("RevokeAttestation", 0, FALSE), Action("NotifyComplianceTeam", 5, FALSE)>>),
    Policy("high_risk", {"High"}, Thresholds.high, Thresholds.critical, {}, {}, FALSE,
           <<Action("SuspendAttestation", 0, TRUE), Action("RequestAdditionalKyc", 60, FALSE)>>),
    Policy("medium_risk", {"Medium"}, Thresholds.medium, Thresholds.high, {}, {}, FALSE,
           <<Action("FlagAttestation", 0, FALSE), Action("NotifyUser", 120, FALSE)>>),
    Policy("sanctions_exposure", {}, 80, MaxScore + 1, {"Sanctions"}, Sources, FALSE,
           <<Action("EscalateToCompliance", 0, FALSE), Action("SuspendAttestation", 30, TRUE)>>),
    Policy("behavioral_anomaly", {}, 60, MaxScore + 1, {"BehavioralAnomaly"}, {}, TRUE,
           <<Action("FlagAttestation", 0, FALSE), Action("RequestAdditionalKyc", 240, FALSE)>>)
>>

\* Mutant: the bounds of the score range on the wrong side.
MatchesUpToMaximum(policy, p, established) ==
    /\ policy.levels # {} => RiskLevelForScore(p.score) \in policy.levels
    /\ policy.min < p.score /\ p.score <= policy.max
    /\ policy.categories # {} => policy.categories \intersect p.categories # {}
    /\ policy.history => established
    /\ policy.sources \subseteq p.sources

\* Mutant: the subset test on the categories turned round.
MatchesNamedOnly(policy, p, established) ==
    /\ policy.levels # {} => RiskLevelForScore(p.score) \in policy.levels
    /\ policy.min <= p.score /\ p.score < policy.max
    /\ policy.categories # {} => p.categories \subseteq policy.categories
    /\ policy.history => established
    /\ policy.sources \subseteq p.sources

\* `established`: the caller passes an age and a volume, and both reach the limits.
MatchesPolicy(policy, p, established) ==
    /\ policy.levels # {} => RiskLevelForScore(p.score) \in policy.levels
    /\ policy.min <= p.score /\ p.score < policy.max
    /\ policy.categories # {} => policy.categories \intersect p.categories # {}
    /\ policy.history => established
    /\ policy.sources \subseteq p.sources

------------------------------------------------------------------------------
(* The recommended actions, in order                                        *)

ActionPriority(type) ==
    CASE type = "RevokeAttestation" -> 4
      [] type \in {"SuspendAttestation", "EscalateToCompliance"} -> 3
      [] type \in {"FlagAttestation", "RequestAdditionalKyc"} -> 2
      [] type \in {"NotifyComplianceTeam", "NotifyUser"} -> 1

\* The comparison given to sort_by: the higher priority first, then the shorter delay.
Before(a, b) ==
    \/ ActionPriority(a.type) > ActionPriority(b.type)
    \/ ActionPriority(a.type) = ActionPriority(b.type) /\ a.delay < b.delay

MatchedPolicies(policies, p, established) ==
    Filter(policies, LAMBDA policy : policy.active /\ MatchesPolicy(policy, p, established))

\* extend: the actions of one policy after those of another.
Places(matched) == {p \in (DOMAIN matched) \X (1 .. 2) : p[2] \in DOMAIN matched[p[1]].actions}

ActionAt(matched, p) == matched[p[1]].actions[p[2]]

Lexically(p, q) == p[1] < q[1] \/ (p[1] = q[1] /\ p[2] < q[2])

\* Mutant: the delays compared the way the priorities are, the longer one first.
PrecedesLongest(matched, p, q) ==
    LET a == ActionAt(matched, p)
        b == ActionAt(matched, q)
        Ahead(x, y) == \/ ActionPriority(x.type) > ActionPriority(y.type)
                       \/ ActionPriority(x.type) = ActionPriority(y.type) /\ x.delay > y.delay
    IN  Ahead(a, b) \/ (~Ahead(b, a) /\ Lexically(p, q))

\* sort_by is stable: equals keep their order.
Precedes(matched, p, q) ==
    LET a == ActionAt(matched, p)
        b == ActionAt(matched, q)
    IN  Before(a, b) \/ (~Before(b, a) /\ Lexically(p, q))

RecommendedPlaces(matched) ==
    InOrder(Places(matched),
            {pq \in Places(matched) \X Places(matched) : Precedes(matched, pq[1], pq[2])})

RecommendedActions(matched) ==
    [n \in DOMAIN RecommendedPlaces(matched) |-> ActionAt(matched, RecommendedPlaces(matched)[n])]

\* What the service executes of them.
AutomaticActions(recommended) == Filter(recommended, LAMBDA a : ~a.requiresApproval)

\* Only the first level of the escalation path that the score reaches is returned.
EscalationPath == <<[level |-> 1, threshold |-> 75],
                    [level |-> 2, threshold |-> 85],
                    [level |-> 3, threshold |-> 95]>>

DetermineEscalationLevel(score) ==
    LET Reached == {i \in DOMAIN EscalationPath : score >= EscalationPath[i].threshold}
    IN  IF Reached = {} THEN 0
        ELSE EscalationPath[CHOOSE i \in Reached : \A j \in Reached : i <= j].level
=============================================================================
