---------------------------- MODULE PolicyManager ----------------------------
(***************************************************************************)
(* The policy manager as an object: the policies, of which some may have    *)
(* been deactivated, and the last result of evaluate_policy for a wallet    *)
(* whose profile does not change.                                          *)
(***************************************************************************)
EXTENDS RiskPolicy

CONSTANT Scores         \* the scores the aggregator may compute

ASSUME ScoresInRange == Scores \subseteq 0 .. MaxScore

VARIABLES
    policies,   \* the policies, in the order in which they are tried
    profile,    \* the wallet's risk profile
    verdict     \* what the last evaluate_policy returned

vars == <<policies, profile, verdict>>

Profiles == ProfilesOver(Scores)

NoVerdict == [matched |-> <<>>, recommended |-> <<>>, escalation |-> 0, evaluated |-> FALSE]

\* Mutant: the two placeholders filled in, for an old attestation and a large volume.
ServiceKnowsHistory == TRUE

\* The service passes neither the attestation's age nor the recent volume.
ServiceHistory == FALSE

Init ==
    /\ policies = DefaultPolicies
    /\ profile \in Profiles
    /\ verdict = NoVerdict

DeactivatePolicy(id) ==
    \E i \in DOMAIN policies :
        /\ policies[i].id = id
        /\ policies' = [policies EXCEPT ![i].active = FALSE]
        /\ UNCHANGED <<profile, verdict>>

EvaluatePolicy ==
    LET matched == MatchedPolicies(policies, profile, ServiceHistory) IN
    /\ verdict' = [matched |-> matched,
                   recommended |-> RecommendedActions(matched),
                   escalation |-> DetermineEscalationLevel(profile.score),
                   evaluated |-> TRUE]
    /\ UNCHANGED <<policies, profile>>

Next ==
    \/ EvaluatePolicy
    \/ \E i \in DOMAIN DefaultPolicies : DeactivatePolicy(DefaultPolicies[i].id)

Spec == Init /\ [][Next]_vars

------------------------------------------------------------------------------
ChangesStatus(action) ==
    action.type \in {"RevokeAttestation", "SuspendAttestation", "FlagAttestation"}

\* Nothing the service executes after a revocation changes the status again, so a
\* revocation that lands stands; no program on chain would refuse the later change.
RevocationStands ==
    LET automatic == AutomaticActions(verdict.recommended) IN
    \A i, j \in DOMAIN automatic :
        automatic[i].type = "RevokeAttestation" /\ i < j => ~ChangesStatus(automatic[j])

\* Merged and sorted over all matched policies, the treatment is still that of each: its
\* own two actions are in the list, the measure ahead of its follow-up, and nothing else is.
\* And no change of the status is put off: the service waits for the delay of each action
\* in turn, and what it executes up to such a change has none.
TreatmentInOrder ==
    LET r         == verdict.recommended
        matched   == verdict.matched
        automatic == AutomaticActions(r)
    IN  /\ \A k \in DOMAIN matched :
              \E i, j \in DOMAIN r :
                 i < j /\ r[i] = matched[k].actions[1] /\ r[j] = matched[k].actions[2]
        /\ Len(r) = 2 * Len(matched)
        /\ \A i, j \in DOMAIN automatic :
              ChangesStatus(automatic[j]) /\ i <= j => automatic[i].delay = 0

\* The ranges of the policies agree with the levels of config.rs at every boundary: a
\* profile of medium or high level always falls under the policy of its level.
LevelPolicyApplies ==
    LET Applies(id) == \E i \in DOMAIN policies :
            policies[i].id = id /\ MatchesPolicy(policies[i], profile, ServiceHistory)
    IN  /\ RiskLevelForScore(profile.score) = "High" => Applies("high_risk")
        /\ RiskLevelForScore(profile.score) = "Medium" => Applies("medium_risk")

\* With the same score, a profile with more categories and more sources is treated at
\* least as severely: no policy stops matching because more is known.
MoreEvidenceMatchesMore ==
    \A categories \in SUBSET Categories, sources \in SUBSET Sources, i \in DOMAIN policies :
        /\ profile.categories \subseteq categories
        /\ profile.sources \subseteq sources
        /\ MatchesPolicy(policies[i], profile, ServiceHistory)
        => MatchesPolicy(policies[i],
                         [profile EXCEPT !.categories = categories, !.sources = sources],
                         ServiceHistory)

\* manager.rs: level 3 of the escalation path has a threshold of 95 and asks for the
\* head of compliance and legal counsel.
EscalatesToThreshold ==
    verdict.evaluated =>
        \A i \in DOMAIN EscalationPath :
            profile.score >= EscalationPath[i].threshold =>
                verdict.escalation >= EscalationPath[i].level
=============================================================================
