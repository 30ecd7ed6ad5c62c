--------------------------- MODULE TemplateRegistry ---------------------------
(***************************************************************************)
(* The compliance templates of registry.ts: rules by type, the evaluation   *)
(* of a template against what is known of a user, and the default          *)
(* templates. A rule keeps the part of its config that its type reads: a    *)
(* number, the listed values that are allowed and those that are denied.    *)
(***************************************************************************)
EXTENDS Integers, Arrays

CONSTANTS
    Today,      \* the date, as year, month and day
    Missing     \* a field of the user data that is not given

VARIABLE templates      \* templates: the rules of each registered id

Rule(id, type, number, allowed, denied) ==
    [id |-> id, type |-> type, number |-> number, allowed |-> allowed, denied |-> denied,
     enabled |-> TRUE]

Age(id, minimum) == Rule(id, "AGE_VERIFICATION", minimum, {}, {})
Country(id, restricted) == Rule(id, "COUNTRY_RESTRICTION", 0, {}, restricted)
Documents(id, number) == Rule(id, "DOCUMENT_VERIFICATION", number, {}, {})
Accreditation(id) == Rule(id, "ACCREDITATION_CHECK", 1, {}, {})
Aml(id) == Rule(id, "AML_SCREENING", 1, {}, {})
Risk(id, maximum) == Rule(id, "RISK_THRESHOLD", maximum, {}, {})

USAccredited == <<Age("age_21", 21), Accreditation("accreditation"), Aml("aml_screening")>>

GlobalBasic ==
    <<Age("age_18", 18), Country("country_check", {"KP", "IR", "SY"}),
      Documents("document_verification", 2)>>

DeFiStandard ==
    <<Age("age_18_defi", 18), Country("country_defi", {"KP", "IR", "SY", "CU", "VN"}),
      Risk("risk_threshold_defi", 50), Aml("aml_defi")>>

NFTMarketplace == <<Age("age_13", 13), Documents("document_nft", 1)>>

ExchangeStandard ==
    <<Age("age_18_exchange", 18), Country("country_exchange", {"KP", "IR", "SY", "CU"}),
      Documents("document_exchange", 3), Aml("aml_exchange"), Risk("risk_exchange", 40)>>

DefaultTemplates ==
    [US_ACCREDITED |-> USAccredited, GLOBAL_BASIC |-> GlobalBasic,
     DEFI_STANDARD |-> DeFiStandard, NFT_MARKETPLACE |-> NFTMarketplace,
     EXCHANGE_STANDARD |-> ExchangeStandard]

Passes == [passed |-> TRUE, penalty |-> 0]

Fails(penalty) == [passed |-> FALSE, penalty |-> penalty]

Unless(condition, penalty) == IF condition THEN Passes ELSE Fails(penalty)

\* Mutant: whoever has the birthday this month is a year older.
CalculateAgeByMonth(birth) ==
    (Today.year - birth.year) - IF Today.month < birth.month THEN 1 ELSE 0

CalculateAge(birth) ==
    (Today.year - birth.year)
    - IF Today.month < birth.month \/ (Today.month = birth.month /\ Today.day < birth.day)
      THEN 1 ELSE 0

\* Without a minimum or a date of birth there is nothing to check.
EvaluateAgeRule(rule, user) ==
    IF rule.number = 0 \/ user.birth = Missing THEN Passes
    ELSE Unless(CalculateAge(user.birth) >= rule.number, 100)

EvaluateCountryRule(rule, user) ==
    IF user.country = Missing THEN Fails(50)
    ELSE Unless(user.country \notin rule.denied
                /\ (rule.allowed = {} \/ user.country \in rule.allowed), 100)

EvaluateDocumentRule(rule, user) == Unless(rule.number = 0 \/ user.documents, 80)

EvaluateAccreditationRule(rule, user) == Unless(rule.number = 0 \/ user.accredited, 100)

EvaluateAMLClearance(rule, user) == Unless(rule.number = 0 \/ user.aml, 100)

\* A score that is not given counts as 0.
EvaluateRiskThreshold(rule, user) ==
    LET score == IF user.risk = Missing THEN 0 ELSE user.risk
    IN  Unless(rule.number = 0 \/ score <= rule.number, IF score > 100 THEN 100 ELSE score)

EvaluateWhitelist(rule, user) == Unless(rule.allowed = {} \/ user.wallet \in rule.allowed, 100)

EvaluateBlacklist(rule, user) == Unless(user.wallet \notin rule.denied, 100)

EvaluateRule(rule, user) ==
    CASE rule.type = "AGE_VERIFICATION"      -> EvaluateAgeRule(rule, user)
      [] rule.type = "COUNTRY_RESTRICTION"   -> EvaluateCountryRule(rule, user)
      [] rule.type = "DOCUMENT_VERIFICATION" -> EvaluateDocumentRule(rule, user)
      [] rule.type = "ACCREDITATION_CHECK"   -> EvaluateAccreditationRule(rule, user)
      [] rule.type = "AML_SCREENING"         -> EvaluateAMLClearance(rule, user)
      [] rule.type = "RISK_THRESHOLD"        -> EvaluateRiskThreshold(rule, user)
      [] rule.type = "WHITELIST"             -> EvaluateWhitelist(rule, user)
      [] rule.type = "BLACKLIST"             -> EvaluateBlacklist(rule, user)
      [] OTHER                               -> Passes

Evaluate(rules, user) ==
    LET failed  == Filter(rules, LAMBDA r : r.enabled /\ ~EvaluateRule(r, user).passed)
        penalty == Sum([n \in DOMAIN failed |-> EvaluateRule(failed[n], user).penalty])
    IN  [passed |-> Len(failed) = 0,
         failed |-> {failed[i].id : i \in DOMAIN failed},
         score  |-> IF penalty > 100 THEN 0 ELSE 100 - penalty]

NotFound == [passed |-> FALSE, failed |-> {"template_not_found"}, score |-> 0]

EvaluateTemplate(id, user) ==
    IF id \in DOMAIN templates THEN Evaluate(templates[id], user) ELSE NotFound

RegisterTemplate(id, rules) == templates' = With(templates, id, rules)

RemoveTemplate(id) == templates' = [t \in DOMAIN templates \ {id} |-> templates[t]]
=============================================================================
