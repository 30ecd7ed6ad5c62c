------------------------------ MODULE Assessment ------------------------------
(***************************************************************************)
(* An application that assesses a wallet with the risk engine, keeps the    *)
(* score, and later evaluates templates with it, while thresholds and      *)
(* templates are reconfigured. returned is what the last call returned.     *)
(***************************************************************************)
EXTENDS RiskEngine, TemplateRegistry

CONSTANTS
    Profiles,       \* the profiles of wallets
    Users,          \* what is known of users, without the risk score
    CustomRules,    \* the rules of custom templates
    CustomIds,      \* the ids they are created under, and templates that are removed
    Thresholds      \* the thresholds setThresholds is called with

\* The types of engine.ts and registry.ts.
ASSUME ProfilesAreProfiles ==
    Profiles \subseteq [age : Nat, volume : Nat, count : Nat, interactions : Nat, average : Nat,
                        observed : BOOLEAN, patterns : Seq(STRING)]

Dates == [year : Int, month : Int, day : Int]

ASSUME DatesAreDates ==
    /\ Today \in Dates
    /\ \A user \in Users :
          "birth" \in DOMAIN user /\ (user.birth = Missing \/ user.birth \in Dates)

IsRules(rules) ==
    /\ Len(rules) \in Nat /\ DOMAIN rules = 1 .. Len(rules)
    /\ \A i \in DOMAIN rules : rules[i].number \in Nat

ASSUME RulesAreRules == \A rules \in CustomRules : IsRules(rules)

ASSUME ThresholdsAreNumbers == Thresholds \subseteq [lowMax : Int, mediumMax : Int]

VARIABLES
    riskScore,      \* the score the application keeps for its next evaluation
    returned        \* the profile or the user of the last call, and its result

assessmentVars == <<riskThresholds, templates, riskScore, returned>>

Nothing == [call |-> "none"]

AssessmentInit ==
    /\ riskThresholds = DefaultThresholds
    /\ templates = DefaultTemplates
    /\ riskScore = Missing
    /\ returned = Nothing

Assess(profile) ==
    LET result == AssessRisk(profile, riskThresholds) IN
    /\ returned = Nothing
    /\ riskScore' = result.score
    /\ returned' = [call |-> "assessRisk", profile |-> profile, result |-> result]
    /\ UNCHANGED <<riskThresholds, templates>>

\* The score is passed on as it was, whatever happened since.
EvaluateUser(id, user) ==
    LET data == With(user, "risk", riskScore) IN
    /\ returned = Nothing
    /\ returned' = [call |-> "evaluateTemplate", id |-> id, user |-> data,
                    result |-> EvaluateTemplate(id, data)]
    /\ UNCHANGED <<riskThresholds, templates, riskScore>>

\* The application takes note of a result before it goes on.
Proceed ==
    /\ returned # Nothing
    /\ returned' = Nothing
    /\ UNCHANGED <<riskThresholds, templates, riskScore>>

Configure ==
    /\ returned = Nothing
    /\ UNCHANGED <<riskScore, returned>>
    /\ \/ \E t \in Thresholds : SetThresholds(t) /\ UNCHANGED templates
       \/ \E id \in CustomIds, rules \in CustomRules :
             RegisterTemplate(id, rules) /\ UNCHANGED riskThresholds
       \/ \E id \in CustomIds \cap DOMAIN templates :
             RemoveTemplate(id) /\ UNCHANGED riskThresholds

AssessmentNext ==
    \/ \E profile \in Profiles : Assess(profile)
    \/ \E id \in DOMAIN DefaultTemplates \cup CustomIds, user \in Users : EvaluateUser(id, user)
    \/ Configure
    \/ Proceed

------------------------------------------------------------------------------
Rank(level) ==
    CASE level = "LOW" -> 1 [] level = "MEDIUM" -> 2 [] level = "HIGH" -> 3 [] OTHER -> 4

\* A profile that is worse in every respect, and has no fewer observed patterns, never
\* gets a lower score or a lower level, whatever the thresholds: none of the graded
\* scales has its steps in the wrong order. With the default thresholds the level, the
\* recommendations and the templates agree: a high level names at least one factor to
\* review, low risk passes the risk rule of every default template and high risk fails it;
\* a profile the engine made up is never high.
RiskierNeverScoresLess ==
    returned.call = "assessRisk" =>
        LET better == returned.profile
            given  == returned.result
            Exceeds(r) == given.score > DefaultTemplates[r[1]][r[2]].number
            RiskRules == {r \in (DOMAIN DefaultTemplates) \X (1 .. 5) :
                             /\ r[2] \in DOMAIN DefaultTemplates[r[1]]
                             /\ DefaultTemplates[r[1]][r[2]].type = "RISK_THRESHOLD"}
        IN  /\ \A worse \in Profiles :
                  LET result == AssessRisk(worse, riskThresholds)
                  IN  /\ worse.observed = better.observed /\ worse.patterns = better.patterns
                      /\ worse.age <= better.age /\ worse.volume >= better.volume
                      /\ worse.count >= better.count /\ worse.average >= better.average
                      /\ worse.interactions >= better.interactions
                      => result.score >= given.score /\ Rank(result.level) >= Rank(given.level)
            /\ riskThresholds = DefaultThresholds =>
                  /\ given.level = "HIGH" => Len(given.recommendations) > 1
                  /\ given.level = "CRITICAL" => Len(given.recommendations) > 2
                  /\ \A r \in RiskRules :
                        /\ given.level = "LOW" => ~Exceeds(r)
                        /\ given.level \in {"HIGH", "CRITICAL"} => Exceeds(r)
                  /\ IsMockProfile(better) => given.level \in {"LOW", "MEDIUM"}

\* A user who passes has everything the template's rules ask for, the age counted in
\* birthdays; only what was not given at all, a date of birth or a score, is excused. A
\* rule whose option is 0, or lists nobody, asks for nothing.
PassedMeetsTemplate ==
    returned.call = "evaluateTemplate" /\ returned.result.passed =>
        LET user == returned.user
            Earlier(a, b) == \/ a.month < b.month
                             \/ a.month = b.month /\ a.day <= b.day
            Birthdays == {y \in user.birth.year + 1 .. Today.year :
                             y < Today.year \/ Earlier(user.birth, Today)}
        IN  /\ returned.id \in DOMAIN templates
            /\ returned.result.score = 100
            /\ \A i \in DOMAIN templates[returned.id] :
                  LET r == templates[returned.id][i] IN r.enabled =>
                  /\ r.type = "AGE_VERIFICATION" =>
                        user.birth = Missing \/ Cardinality(Birthdays) >= r.number
                  /\ r.type = "COUNTRY_RESTRICTION" =>
                        user.country # Missing /\ user.country \notin r.denied
                  /\ r.type = "DOCUMENT_VERIFICATION" /\ r.number # 0 => user.documents
                  /\ r.type = "ACCREDITATION_CHECK" /\ r.number # 0 => user.accredited
                  /\ r.type = "AML_SCREENING" /\ r.number # 0 => user.aml
                  /\ r.type = "RISK_THRESHOLD" /\ r.number # 0 =>
                        user.risk = Missing \/ user.risk <= r.number
                  /\ r.type = "WHITELIST" /\ r.allowed # {} => user.wallet \in r.allowed
                  /\ r.type = "BLACKLIST" => user.wallet \notin r.denied
=============================================================================
