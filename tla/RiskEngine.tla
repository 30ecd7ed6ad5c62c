------------------------------ MODULE RiskEngine ------------------------------
(***************************************************************************)
(* The risk engine of engine.ts: six factors of a wallet's profile, each    *)
(* graded 0 to 100, their weighted mean, the level and the recommendations. *)
(* Weights are in hundredths; the mean is exact where the code uses floats. *)
(***************************************************************************)
EXTENDS Integers, Arrays

VARIABLE riskThresholds     \* riskThresholds: lowMax and mediumMax

DefaultThresholds == [lowMax |-> 30, mediumMax |-> 60]

SetThresholds(thresholds) == riskThresholds' = thresholds

\* The contribution of the first step that is hit: whose bound the value exceeds, or lies below.
First(hit, steps, otherwise) ==
    IF hit = {} THEN otherwise ELSE steps[CHOOSE i \in hit : \A j \in hit : i <= j][2]

Above(value, steps, otherwise) ==
    First({i \in DOMAIN steps : value > steps[i][1]}, steps, otherwise)

Below(value, steps, otherwise) ==
    First({i \in DOMAIN steps : value < steps[i][1]}, steps, otherwise)

\* Mutant: graded like the other scales, the larger the riskier.
WalletAgeAscending(age) ==
    Above(age, <<<<365, 80>>, <<180, 50>>, <<90, 30>>, <<30, 15>>>>, 5)

WalletAge(age) ==
    Below(age, <<<<30, 80>>, <<90, 50>>, <<180, 30>>, <<365, 15>>>>, 5)

TransactionVolume(volume) ==
    Above(volume, <<<<100000, 90>>, <<50000, 70>>, <<10000, 50>>, <<1000, 30>>>>, 10)

TransactionCount(count) ==
    Above(count, <<<<10000, 80>>, <<5000, 60>>, <<1000, 40>>, <<100, 20>>>>, 10)

HighRiskInteractions(count) ==
    Above(count, <<<<50, 100>>, <<20, 80>>, <<10, 60>>, <<5, 40>>, <<0, 20>>>>, 0)

AverageTransactionSize(size) ==
    Above(size, <<<<10000, 90>>, <<5000, 70>>, <<1000, 50>>, <<100, 30>>>>, 10)

Patterns == {"defi-interactions", "token-swaps", "nft-trading", "staking",
             "regular-transactions"}

BehavioralPatterns(patterns) ==
    LET Counted(S) == Cardinality({i \in DOMAIN patterns : patterns[i] \in S})
        sum == 40 * Counted({"defi-interactions", "token-swaps"})
               + 20 * Counted({"nft-trading", "staking"})
               + 5 * Counted({"regular-transactions"})
    IN  IF sum > 100 THEN 100 ELSE sum

Factor(id, weight, contribution) == [id |-> id, weight |-> weight, contribution |-> contribution]

\* A profile without behavioural patterns has the first five.
CalculateRiskFactors(profile) ==
    LET factors ==
            <<Factor("wallet_age", 15, WalletAge(profile.age)),
              Factor("transaction_volume", 20, TransactionVolume(profile.volume)),
              Factor("transaction_count", 15, TransactionCount(profile.count)),
              Factor("high_risk_interactions", 25, HighRiskInteractions(profile.interactions)),
              Factor("average_transaction_size", 15, AverageTransactionSize(profile.average)),
              Factor("behavioral_patterns", 10, BehavioralPatterns(profile.patterns))>>
    IN  [n \in 1 .. (IF profile.observed THEN 6 ELSE 5) |-> factors[n]]

\* Math.round of the weighted mean.
WeightedMean(sum, weight) == IF weight = 0 THEN 0 ELSE (2 * sum + weight) \div (2 * weight)

CalculateRiskScore(factors) ==
    WeightedMean(Sum([n \in DOMAIN factors |-> factors[n].contribution * factors[n].weight]),
                 Sum([n \in DOMAIN factors |-> factors[n].weight]))

DetermineRiskLevel(score, thresholds) ==
    CASE score <= thresholds.lowMax -> "LOW"
      [] score > thresholds.lowMax /\ score <= thresholds.mediumMax -> "MEDIUM"
      [] score > thresholds.lowMax /\ score > thresholds.mediumMax /\ score <= 85 -> "HIGH"
      [] OTHER -> "CRITICAL"

\* The factors of 60 and more, the largest first; sort is stable.
HighRiskFactors(factors) ==
    Sorted(factors, {i \in DOMAIN factors : factors[i].contribution >= 60},
           [i \in DOMAIN factors |-> -factors[i].contribution])

Advice(id) ==
    CASE id = "wallet_age"               -> <<"additional_verification">>
      [] id = "high_risk_interactions"   -> <<"review_history", "enhanced_due_diligence">>
      [] id = "transaction_volume"       -> <<"source_of_funds">>
      [] id = "average_transaction_size" -> <<"source_of_large_transactions">>
      [] OTHER                           -> <<"review_factor">>

GenerateRecommendations(factors, level) ==
    IF level = "LOW" THEN <<"standard_verification">>
    ELSE Flat([n \in DOMAIN HighRiskFactors(factors) |->
                  Advice(HighRiskFactors(factors)[n].id)])
         \o CASE level = "CRITICAL" -> <<"manual_review", "consider_rejecting">>
              [] level = "HIGH"     -> <<"due_diligence_recommended">>
              [] OTHER              -> <<>>

AssessRisk(profile, thresholds) ==
    LET factors == CalculateRiskFactors(profile)
        score   == CalculateRiskScore(factors)
        level   == DetermineRiskLevel(score, thresholds)
    IN  [score |-> score, level |-> level,
         recommendations |-> GenerateRecommendations(factors, level)]

\* analyzeWalletHistory: what the engine makes up for a wallet whose profile is not given.
IsMockProfile(p) ==
    /\ p.age >= 30
    /\ p.count \in 100 .. 5099
    /\ p.volume < 10000
    /\ p.average = p.volume \div p.count
    /\ p.interactions \in 0 .. 9
    /\ p.observed /\ Len(p.patterns) \in 1 .. 3
    /\ \A i, j \in DOMAIN p.patterns : p.patterns[i] = p.patterns[j] => i = j
=============================================================================
