---------------------------- MODULE MCRiskMonitor ----------------------------
(* RiskMonitor on small sets.  A profile is named by its level and executes what   *)
(* the default policies recommend for a wallet of that level which has sanctions   *)
(* exposure and was screened by both providers.                                    *)
EXTENDS RiskMonitor, TLC

Policy == INSTANCE RiskPolicy
          WITH Thresholds <- [critical |-> 90, high |-> 75, medium |-> 50, low |-> 25]

Score == [Safe |-> 0, Medium |-> 55, High |-> 78, Critical |-> 95]

ProfileOf(level) ==
    [score |-> Score[level], sources |-> Policy!Sources,
     categories |-> IF level = "Safe" THEN {} ELSE {"Sanctions"}]

Kind(action) ==
    CASE action.type = "RevokeAttestation" -> "Revoke"
      [] action.type = "FlagAttestation" -> "Flag"
      [] OTHER -> "Notify"

ActionsOf(level) ==
    LET matched   == Policy!MatchedPolicies(Policy!DefaultPolicies, ProfileOf(level), FALSE)
        automatic == Policy!AutomaticActions(Policy!RecommendedActions(matched))
    IN  [i \in DOMAIN automatic |-> Kind(automatic[i])]

TwoProfiles == {"Medium", "Critical"}
TwoActionsFor ==
    [p \in TwoProfiles |->
        IF p = "Critical" THEN <<"Revoke", "Notify", "Notify">> ELSE <<"Flag", "Notify">>]

ThreeProfiles == {"Safe", "Medium", "Critical"}
ThreeActionsFor ==
    [p \in ThreeProfiles |-> IF p = "Safe" THEN <<>> ELSE TwoActionsFor[p]]

ASSUME PoliciesDecideActions ==
    \A p \in ThreeProfiles : ThreeActionsFor[p] = ActionsOf(p)

Symmetry == Permutations(Wallets) \union Permutations(Keys) \union Permutations(Loops)
=============================================================================
