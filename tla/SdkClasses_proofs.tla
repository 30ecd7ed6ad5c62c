-------------------------- MODULE SdkClasses_proofs --------------------------
(* What the SDK's classes answer, for all templates, users, events and         *)
(* profiles: who passes a template meets it, the reports of one audit log       *)
(* agree, and no profile scores less for being worse.                         *)
EXTENDS SdkClasses, Arrays_proofs

------------------------------------------------------------------------------
(* Templates                                                                 *)

\* The templates are arrays of rules, and a result is what they give.
TemplatesInv ==
    /\ \A id \in DOMAIN templates : IsRules(templates[id])
    /\ returned.call = "evaluateTemplate" =>
          /\ returned.user.birth = Missing \/ returned.user.birth \in Dates
          /\ returned.result = EvaluateTemplate(returned.id, returned.user)

\* The templates of loadDefaultTemplates (registry.ts:19-232).
LEMMA DefaultRules == \A id \in DOMAIN DefaultTemplates : IsRules(DefaultTemplates[id])
<1>1. IsRules(USAccredited)
  BY DEF IsRules, USAccredited, Age, Accreditation, Aml, Rule
<1>2. IsRules(GlobalBasic)
  BY DEF IsRules, GlobalBasic, Age, Country, Documents, Rule
<1>3. IsRules(DeFiStandard)
  BY DEF IsRules, DeFiStandard, Age, Country, Risk, Aml, Rule
<1>4. IsRules(NFTMarketplace)
  BY DEF IsRules, NFTMarketplace, Age, Documents, Rule
<1>5. IsRules(ExchangeStandard)
  BY DEF IsRules, ExchangeStandard, Age, Country, Documents, Aml, Risk, Rule
<1> QED
  BY <1>1, <1>2, <1>3, <1>4, <1>5 DEF DefaultTemplates

LEMMA TemplatesInitially == Init => TemplatesInv
  BY DefaultRules DEF Init, AssessmentInit, Nothing, TemplatesInv

\* Templates are reconfigured only after the result was taken note of.
LEMMA TemplatesStep == TemplatesInv /\ [Next]_vars => TemplatesInv'
<1> SUFFICES ASSUME TemplatesInv, [Next]_vars PROVE TemplatesInv'
  OBVIOUS
<1>1. CASE UNCHANGED <<templates, returned>>
  BY <1>1 DEF TemplatesInv, EvaluateTemplate
<1>2. ASSUME NEW profile, Assess(profile) PROVE TemplatesInv'
  BY <1>2 DEF TemplatesInv, Assess
<1>3. ASSUME NEW id, NEW user \in Users, EvaluateUser(id, user) PROVE TemplatesInv'
  <2> DEFINE data == With(user, "risk", riskScore)
             result == EvaluateTemplate(id, data)
  <2>1. data.birth = user.birth /\ (user.birth = Missing \/ user.birth \in Dates)
    BY DatesAreDates DEF With
  <2>2. /\ returned' = [call |-> "evaluateTemplate", id |-> id, user |-> data, result |-> result]
        /\ templates' = templates
    BY <1>3 DEF EvaluateUser
  <2> HIDE DEF data, result
  <2>3. returned'.id = id /\ returned'.user = data /\ returned'.result = result
    BY <2>2
  <2>4. returned'.result = EvaluateTemplate(returned.id, returned.user)'
    BY <2>2, <2>3 DEF EvaluateTemplate, result
  <2> QED
    BY <2>1, <2>2, <2>3, <2>4 DEF TemplatesInv
<1>4. CASE Configure
  <2>1. returned' = returned /\ returned.call = "none"
    BY <1>4 DEF Configure, Nothing
  <2>2. \A id \in DOMAIN templates' : IsRules(templates'[id])
    <3>1. ASSUME NEW id, NEW rules \in CustomRules, RegisterTemplate(id, rules)
          PROVE  \A k \in DOMAIN templates' : IsRules(templates'[k])
      <4>1. templates' = [k \in DOMAIN templates \cup {id} |->
                             IF k = id THEN rules ELSE templates[k]]
        BY <3>1 DEF RegisterTemplate, With
      <4> QED
        BY <4>1, RulesAreRules DEF TemplatesInv
    <3>2. ASSUME NEW id, RemoveTemplate(id)
          PROVE  \A k \in DOMAIN templates' : IsRules(templates'[k])
      BY <3>2 DEF RemoveTemplate, TemplatesInv
    <3> QED
      BY <1>4, <3>1, <3>2 DEF Configure, TemplatesInv
  <2> QED
    BY <2>1, <2>2 DEF TemplatesInv
<1>5. CASE Proceed
  BY <1>5 DEF TemplatesInv, Proceed, Nothing
<1> QED
  BY <1>1, <1>2, <1>3, <1>4, <1>5 DEF Next, AssessmentNext, assessmentVars, vars

\* Nobody passes with a rule that fails, and who passes loses no points.
LEMMA NoneFails ==
    ASSUME NEW rules, IsRules(rules), NEW user, Evaluate(rules, user).passed
    PROVE  /\ Evaluate(rules, user).score = 100
           /\ \A i \in DOMAIN rules : rules[i].enabled => EvaluateRule(rules[i], user).passed
<1> DEFINE kept == {i \in DOMAIN rules : rules[i].enabled /\ ~EvaluateRule(rules[i], user).passed}
           failed == Elements(rules, InOrder(kept, Ascending(kept)))
           penalties == [n \in DOMAIN failed |-> EvaluateRule(failed[n], user).penalty]
           penalty == Sum(penalties)
<1>1. Evaluate(rules, user) =
         [passed |-> Len(failed) = 0,
          failed |-> {failed[i].id : i \in DOMAIN failed},
          score  |-> IF penalty > 100 THEN 0 ELSE 100 - penalty]
  BY DEF Evaluate, Filter
<1>2. kept \in SUBSET Nat /\ IsFiniteSet(kept)
  <2>1. kept \in SUBSET (1 .. Len(rules)) /\ kept \in SUBSET Nat /\ Len(rules) \in Nat
    BY DEF IsRules
  <2> HIDE DEF kept
  <2>2. IsFiniteSet(1 .. Len(rules))
    BY <2>1, Intervals
  <2> QED
    BY <2>1, <2>2, FS_Subset
<1> HIDE DEF kept, failed, penalty
<1>3. Len(failed) = Cardinality(kept) /\ DOMAIN failed = 1 .. Cardinality(kept)
  BY <1>2, KeptAre DEF failed
<1>4. Cardinality(kept) = 0
  <2> DEFINE none == Len(failed) = 0
             names == {failed[i].id : i \in DOMAIN failed}
             points == IF penalty > 100 THEN 0 ELSE 100 - penalty
  <2>1. Evaluate(rules, user) = [passed |-> none, failed |-> names, score |-> points]
    BY <1>1, Zenon
  <2>2. none
    <3> HIDE DEF none, names, points
    <3>1. Evaluate(rules, user).passed = none
      BY <2>1
    <3> QED
      BY <3>1, Zenon
  <2> QED
    BY <1>3, <2>2
<1>5. kept = {}
  BY <1>2, <1>4, FS_EmptySet
<1>6. penalty = 0
  <2>1. DOMAIN failed = {} /\ DOMAIN penalties = {}
    BY <1>3, <1>4
  <2>2. Len(penalties) = 0 /\ \A i \in 1 .. 0 : penalties[i] \in Nat
    BY <2>1
  <2> HIDE DEF penalties
  <2>3. \A i \in 1 .. Len(penalties) : penalties[i] \in Nat
    BY <2>2
  <2> QED
    BY <2>2, <2>3, SumUnfolds DEF penalty
<1>7. \A i \in DOMAIN rules : rules[i].enabled => EvaluateRule(rules[i], user).passed
  BY <1>5 DEF kept
<1> QED
  BY <1>1, <1>6, <1>7

\* calculateAge counts the birthdays until today (registry.ts:443-454).
LEMMA AgeIsBirthdays ==
    ASSUME NEW birth \in Dates, NEW Birthdays,
           Birthdays = {y \in birth.year + 1 .. Today.year :
                           \/ y < Today.year
                           \/ birth.month < Today.month
                           \/ birth.month = Today.month /\ birth.day <= Today.day}
    PROVE  Cardinality(Birthdays) \in Nat /\ CalculateAge(birth) <= Cardinality(Birthdays)
<1> DEFINE before == \/ Today.month < birth.month
                     \/ Today.month = birth.month /\ Today.day < birth.day
           last == IF before THEN Today.year - 1 ELSE Today.year
           first == birth.year + 1
<1>1. /\ Today.year \in Int /\ Today.month \in Int /\ Today.day \in Int
      /\ birth.year \in Int /\ birth.month \in Int /\ birth.day \in Int
  BY DatesAreDates DEF Dates
<1>2. Birthdays = first .. last /\ first \in Int /\ last \in Int
  BY <1>1
<1>3. CalculateAge(birth) = last - birth.year
  BY <1>1 DEF CalculateAge
<1> HIDE DEF last, first
<1>4. Cardinality(first .. last) = IF first > last THEN 0 ELSE last - first + 1
  BY <1>2, FS_Interval
<1>5. Cardinality(Birthdays) = IF first > last THEN 0 ELSE last - first + 1
  BY <1>2, <1>4, Zenon
<1> QED
  BY <1>1, <1>2, <1>3, <1>5 DEF first

\* Who passes has all that the rules ask for (registry.ts:309-440).
THEOREM PassedMeets == Spec => []PassedMeetsTemplate
<1>1. ASSUME TemplatesInv PROVE PassedMeetsTemplate
  <2> DEFINE user == returned.user
             rules == templates[returned.id]
             Earlier(a, b) == \/ a.month < b.month
                              \/ a.month = b.month /\ a.day <= b.day
             Birthdays == {y \in user.birth.year + 1 .. Today.year :
                              y < Today.year \/ Earlier(user.birth, Today)}
  <2> SUFFICES ASSUME returned.call = "evaluateTemplate", returned.result.passed
               PROVE  /\ returned.id \in DOMAIN templates
                      /\ returned.result.score = 100
                      /\ \A i \in DOMAIN rules :
                         LET r == rules[i] IN r.enabled =>
                         /\ r.type = "AGE_VERIFICATION" =>
                               user.birth = Missing \/ Cardinality(Birthdays) >= r.number
                         /\ r.type = "COUNTRY_RESTRICTION" =>
                               user.country # Missing /\ user.country \notin r.denied
                         /\ r.type = "DOCUMENT_VERIFICATION" /\ r.number # 0 => user.documents
                         /\ r.type = "ACCREDITATION_CHECK" /\ r.number # 0 => user.accredited
                         /\ r.type = "AML_SCREENING" /\ r.number # 0 => user.aml
                         /\ r.type = "RISK_THRESHOLD" /\ r.number # 0 =>
                               user.risk = Missing \/ user.risk <= r.number
                         /\ r.type = "WHITELIST" /\ r.allowed # {} => user.wallet \in r.allowed
                         /\ r.type = "BLACKLIST" => user.wallet \notin r.denied
    BY DEF PassedMeetsTemplate
  <2>1. returned.id \in DOMAIN templates /\ returned.result = Evaluate(rules, user)
    BY <1>1 DEF TemplatesInv, EvaluateTemplate, NotFound
  <2>2. IsRules(rules) /\ (user.birth = Missing \/ user.birth \in Dates)
    BY <1>1, <2>1 DEF TemplatesInv
  <2>3. /\ returned.result.score = 100
        /\ \A i \in DOMAIN rules : rules[i].enabled => EvaluateRule(rules[i], user).passed
    <3> HIDE DEF rules, user
    <3>1. Evaluate(rules, user).passed
      BY <2>1, Zenon
    <3> QED
      BY <2>1, <2>2, <3>1, NoneFails
  <2>4. user.birth = Missing \/
           (Cardinality(Birthdays) \in Nat /\ CalculateAge(user.birth) <= Cardinality(Birthdays))
    BY <2>2, AgeIsBirthdays
  <2>5. user.birth = Missing \/ CalculateAge(user.birth) \in Int
    BY <2>2, DatesAreDates DEF CalculateAge, Dates
  <2> HIDE DEF user, rules, Birthdays
  <2> SUFFICES ASSUME NEW i \in DOMAIN rules, rules[i].enabled
               PROVE  LET r == rules[i] IN
                      /\ r.type = "AGE_VERIFICATION" =>
                            user.birth = Missing \/ Cardinality(Birthdays) >= r.number
                      /\ r.type = "COUNTRY_RESTRICTION" =>
                            user.country # Missing /\ user.country \notin r.denied
                      /\ r.type = "DOCUMENT_VERIFICATION" /\ r.number # 0 => user.documents
                      /\ r.type = "ACCREDITATION_CHECK" /\ r.number # 0 => user.accredited
                      /\ r.type = "AML_SCREENING" /\ r.number # 0 => user.aml
                      /\ r.type = "RISK_THRESHOLD" /\ r.number # 0 =>
                            user.risk = Missing \/ user.risk <= r.number
                      /\ r.type = "WHITELIST" /\ r.allowed # {} => user.wallet \in r.allowed
                      /\ r.type = "BLACKLIST" => user.wallet \notin r.denied
    BY <2>1, <2>3 DEF user, rules
  <2> DEFINE r == rules[i]
  <2>6. EvaluateRule(r, user).passed /\ r.number \in Nat
    BY <2>2, <2>3 DEF IsRules
  <2>7. Passes.passed = TRUE /\ \A p : Fails(p).passed = FALSE
    BY DEF Passes, Fails
  <2> HIDE DEF r
  <2>8. CASE r.type = "AGE_VERIFICATION"
    <3>1. EvaluateAgeRule(r, user).passed
      BY <2>6, <2>8 DEF EvaluateRule
    <3>2. r.number = 0 \/ user.birth = Missing \/ CalculateAge(user.birth) >= r.number
      BY <2>7, <3>1, Zenon DEF EvaluateAgeRule, Unless
    <3>3. user.birth = Missing \/ Cardinality(Birthdays) >= r.number
      BY <2>4, <2>5, <2>6, <3>2
    <3> QED
      BY <2>8, <3>3 DEF r
  <2>9. CASE r.type = "COUNTRY_RESTRICTION"
    <3>1. EvaluateCountryRule(r, user).passed
      BY <2>6, <2>9 DEF EvaluateRule
    <3>2. user.country # Missing /\ user.country \notin r.denied
      BY <2>7, <3>1, Zenon DEF EvaluateCountryRule, Unless
    <3> QED
      BY <2>9, <3>2 DEF r
  <2>10. CASE r.type \in {"DOCUMENT_VERIFICATION", "ACCREDITATION_CHECK", "AML_SCREENING"}
    <3>1. r.type = "DOCUMENT_VERIFICATION" => r.number = 0 \/ user.documents
      <4>1. r.type = "DOCUMENT_VERIFICATION" => EvaluateDocumentRule(r, user).passed
        BY <2>6 DEF EvaluateRule
      <4> QED
        BY <2>7, <4>1, Zenon DEF EvaluateDocumentRule, Unless
    <3>2. r.type = "ACCREDITATION_CHECK" => r.number = 0 \/ user.accredited
      <4>1. r.type = "ACCREDITATION_CHECK" => EvaluateAccreditationRule(r, user).passed
        BY <2>6 DEF EvaluateRule
      <4> QED
        BY <2>7, <4>1, Zenon DEF EvaluateAccreditationRule, Unless
    <3>3. r.type = "AML_SCREENING" => r.number = 0 \/ user.aml
      <4>1. r.type = "AML_SCREENING" => EvaluateAMLClearance(r, user).passed
        BY <2>6 DEF EvaluateRule
      <4> QED
        BY <2>7, <4>1, Zenon DEF EvaluateAMLClearance, Unless
    <3> QED
      BY <2>10, <3>1, <3>2, <3>3 DEF r
  <2>11. CASE r.type = "RISK_THRESHOLD"
    <3>1. EvaluateRiskThreshold(r, user).passed
      BY <2>6, <2>11 DEF EvaluateRule
    <3>2. r.number = 0 \/ user.risk = Missing \/ user.risk <= r.number
      BY <2>7, <3>1, Zenon DEF EvaluateRiskThreshold, Unless
    <3> QED
      BY <2>11, <3>2 DEF r
  <2>12. CASE r.type = "WHITELIST"
    <3>1. EvaluateWhitelist(r, user).passed
      BY <2>6, <2>12 DEF EvaluateRule
    <3>2. r.allowed = {} \/ user.wallet \in r.allowed
      BY <2>7, <3>1, Zenon DEF EvaluateWhitelist, Unless
    <3> QED
      BY <2>12, <3>2 DEF r
  <2>13. CASE r.type = "BLACKLIST"
    <3>1. EvaluateBlacklist(r, user).passed
      BY <2>6, <2>13 DEF EvaluateRule
    <3>2. user.wallet \notin r.denied
      BY <2>7, <3>1, Zenon DEF EvaluateBlacklist, Unless
    <3> QED
      BY <2>13, <3>2 DEF r
  <2> QED
    BY <2>8, <2>9, <2>10, <2>11, <2>12, <2>13 DEF r
<1> QED
  BY <1>1, TemplatesInitially, TemplatesStep, PTL DEF Spec
------------------------------------------------------------------------------
(* Reports                                                                   *)

Logged == {With(e, "at", t) : e \in Events, t \in Clock}

Timestamps == [i \in DOMAIN auditLog |-> auditLog[i].at]

\* The places of the events of a wallet, or of any, in a period.
During(w, from, to) ==
    {i \in DOMAIN auditLog :
        /\ w \in {AnyWallet, auditLog[i].wallet}
        /\ from <= auditLog[i].at /\ auditLog[i].at <= to}

\* What the reports of some events have in common.
Agreeing(events) ==
    LET aml    == AMLReport(events)
        audit  == AuditReport(events)
        kyc    == KYCSummaryReport(events)
        fincen == FinCENReport(events)
        sar    == ExportFinCENFormat(fincen)
    IN  /\ aml.suspicious = aml.high + aml.critical
        /\ fincen.suspicious = aml.suspicious /\ fincen.entries = aml.entries
        /\ sar.suspiciousCount = aml.suspicious
        /\ sar.totalAmount = Sum(sar.activities)
        /\ audit.total = audit.verifications + audit.transactions + audit.admin
        /\ kyc.approved <= kyc.total
        /\ kyc.total + kyc.pending = audit.verifications

\* The log holds events that were logged at some time.
LogInv == auditLog \in Seq(Logged)

LEMMA LogStep == LogInv /\ [Next]_vars => LogInv'
<1> SUFFICES ASSUME LogInv, [Next]_vars PROVE LogInv'
  OBVIOUS
<1>1. CASE UNCHANGED auditLog
  BY <1>1 DEF LogInv
<1>2. CASE Log
  <2>1. PICK e \in Events, t \in Clock : auditLog' = Append(auditLog, With(e, "at", t))
    BY <1>2 DEF Log, LogAuditEvent
  <2>2. With(e, "at", t) \in Logged
    BY DEF Logged
  <2> QED
    BY <2>1, <2>2, AppendProperties DEF LogInv
<1>3. CASE ClearAuditLog
  BY <1>3 DEF ClearAuditLog, LogInv
<1> QED
  BY <1>1, <1>2, <1>3 DEF Next, EvidenceNext, evidenceVars, vars

\* An event has one of four types and a time.
LEMMA LogIs ==
    ASSUME LogInv
    PROVE  /\ Len(auditLog) \in Nat /\ DOMAIN auditLog = 1 .. Len(auditLog)
           /\ \A i \in DOMAIN auditLog :
                 auditLog[i].type \in EventTypes /\ auditLog[i].at \in Nat
<1>1. ASSUME NEW x \in Logged PROVE x.type \in EventTypes /\ x.at \in Nat
  <2>1. PICK e \in Events, t \in Clock : x = With(e, "at", t)
    BY DEF Logged
  <2>2. x.type = e.type /\ x.at = t
    BY <2>1, EventsAreEvents DEF With
  <2> QED
    BY <2>2, EventsAreEvents, ClockIsTime
<1> QED
  BY <1>1 DEF LogInv

\* The events of a period are those logged in it, sorted by their times.
LEMMA EventsAre ==
    ASSUME LogInv, NEW w, NEW from, NEW to, NEW kept, kept = During(w, from, to),
           NEW events, events = GetAuditEvents(w, [from |-> from, to |-> to])
    PROVE  /\ kept \in SUBSET Nat /\ kept \in SUBSET DOMAIN auditLog /\ IsFiniteSet(kept)
           /\ Keys(Timestamps, kept)
           /\ events = Sorted(auditLog, kept, Timestamps)
           /\ Cardinality(kept) \in Nat
           /\ Len(events) = Cardinality(kept) /\ DOMAIN events = 1 .. Cardinality(kept)
           /\ \A n \in DOMAIN events : events[n].type \in EventTypes
<1>1. kept \in SUBSET Nat /\ kept \in SUBSET DOMAIN auditLog /\ Keys(Timestamps, kept)
  BY LogIs DEF During, Timestamps, Keys
<1>2. IsFiniteSet(kept)
  BY <1>1, LogIs, Intervals, FS_Subset
<1>3. events = Sorted(auditLog, kept, Timestamps)
  BY DEF GetAuditEvents, ByTimestamp, During, Timestamps
<1> PICK list : list = InOrder(kept, ByKey(kept, Timestamps))
  OBVIOUS
<1>4. /\ Lists(list, kept, ByKey(kept, Timestamps))
      /\ DOMAIN events = DOMAIN list /\ Len(events) = Cardinality(kept)
      /\ \A n \in DOMAIN list : events[n] = auditLog[list[n]]
  <2>1. Lists(list, kept, ByKey(kept, Timestamps))
    BY <1>1, <1>2, ByKeyOrders, Listed
  <2>2. events = [n \in DOMAIN list |-> auditLog[list[n]]]
    BY <1>3 DEF Sorted, Elements
  <2>3. DOMAIN list = 1 .. Cardinality(kept) /\ Cardinality(kept) \in Nat
    BY <2>1 DEF Lists
  <2> QED
    BY <2>1, <2>2, <2>3
<1>5. /\ Cardinality(kept) \in Nat /\ DOMAIN list = 1 .. Cardinality(kept)
      /\ \A n \in DOMAIN list : list[n] \in DOMAIN auditLog
  BY <1>1, <1>4 DEF Lists
<1>6. \A n \in DOMAIN events : events[n].type \in EventTypes
  BY <1>4, <1>5, LogIs
<1> QED
  BY <1>1, <1>2, <1>3, <1>4, <1>5, <1>6

\* Two periods that follow each other share out the events of a wallet, and all events.
LEMMA Periods ==
    ASSUME LogInv, NEW w, NEW t \in Nat, NEW end \in Nat,
           \A i \in DOMAIN auditLog : auditLog[i].at <= end,
           NEW events, events = GetAuditEvents(w, [from |-> 0, to |-> t]),
           NEW later, later = GetAuditEvents(w, [from |-> t + 1, to |-> end])
    PROVE  /\ w # AnyWallet => events \o later = GetAuditTrail(w)
           /\ w = AnyWallet => Len(events) + Len(later) = Len(auditLog)
<1> DEFINE A == During(w, 0, t)
           B == During(w, t + 1, end)
           S == A \cup B
<1>1. /\ A \in SUBSET Nat /\ IsFiniteSet(A) /\ events = Sorted(auditLog, A, Timestamps)
      /\ Len(events) = Cardinality(A)
  BY EventsAre
<1>2. /\ B \in SUBSET Nat /\ IsFiniteSet(B) /\ later = Sorted(auditLog, B, Timestamps)
      /\ Len(later) = Cardinality(B)
  <2> HIDE DEF B
  <2> QED
    BY EventsAre DEF B
<1>3. \A i \in S : i \in A <=> i \notin B
  BY LogIs DEF During
<1>4. S = {i \in DOMAIN auditLog : w \in {AnyWallet, auditLog[i].wallet}}
  BY LogIs DEF During
<1>5. \A i \in A, j \in B : Timestamps[i] < Timestamps[j]
  BY LogIs DEF During, Timestamps
<1> HIDE DEF A, B, S
<1>6. S \in SUBSET Nat /\ A \in SUBSET S /\ B \in SUBSET S /\ S \in SUBSET DOMAIN auditLog
  BY <1>1, <1>2, <1>4 DEF S
<1>7. IsFiniteSet(S)
  BY <1>1, <1>2, FS_Union DEF S
<1>8. Keys(Timestamps, S) /\ Keys(Timestamps, A) /\ Keys(Timestamps, B) /\ Parts(A, B, S)
  BY <1>3, <1>6, LogIs DEF Timestamps, Keys, Parts
<1>9. Cardinality(S) = Cardinality(A) + Cardinality(B)
  BY <1>7, <1>8, Parted
<1>10. CASE w = AnyWallet
  <2>1. S = 1 .. Len(auditLog)
    BY <1>4, <1>10, LogIs
  <2>2. Cardinality(S) = Len(auditLog)
    BY <2>1, LogIs, Intervals, Zenon
  <2> QED
    BY <1>1, <1>2, <1>9, <1>10, <2>2
<1>11. CASE w # AnyWallet
  <2> DEFINE listA == InOrder(A, ByKey(A, Timestamps))
             listB == InOrder(B, ByKey(B, Timestamps))
             listS == InOrder(S, ByKey(S, Timestamps))
  <2>1. GetAuditTrail(w) = Sorted(auditLog, S, Timestamps)
    <3>1. S = {i \in DOMAIN auditLog : auditLog[i].wallet = w}
      BY <1>4, <1>11
    <3> QED
      BY <3>1, Zenon DEF GetAuditTrail, ByTimestamp, Timestamps
  <2>2. listS = listA \o listB
    <3>1. Orders(ByKey(S, Timestamps), S)
      BY <1>6, <1>8, ByKeyOrders
    <3>2. \A x \in A, y \in B : <<x, y>> \in ByKey(S, Timestamps)
      BY <1>5, <1>6 DEF ByKey
    <3>3. /\ SameOrder(ByKey(A, Timestamps), ByKey(S, Timestamps), A)
          /\ SameOrder(ByKey(B, Timestamps), ByKey(S, Timestamps), B)
      BY <1>6 DEF ByKey, SameOrder
    <3> QED
      BY <1>7, <1>8, <3>1, <3>2, <3>3, Joined
  <2>3. listA \in Seq(Nat) /\ listB \in Seq(Nat)
    <3>1. Lists(listA, A, ByKey(A, Timestamps)) /\ Lists(listB, B, ByKey(B, Timestamps))
      <4>1. /\ Orders(ByKey(A, Timestamps), A) /\ Orders(ByKey(B, Timestamps), B)
        BY <1>1, <1>2, <1>6, <1>8, ByKeyOrders
      <4> QED
        BY <1>1, <1>2, <4>1, Listed
    <3> HIDE DEF listA, listB
    <3>2. listA \in [1 .. Cardinality(A) -> Nat] /\ listB \in [1 .. Cardinality(B) -> Nat]
      BY <1>1, <1>2, <3>1 DEF Lists
    <3> DEFINE M == Cardinality(A)
               N == Cardinality(B)
    <3>3. M \in Nat /\ N \in Nat
      BY <3>1 DEF Lists
    <3> HIDE DEF M, N
    <3>4. listA \in [1 .. M -> Nat] /\ listB \in [1 .. N -> Nat]
      BY <3>2 DEF M, N
    <3> QED
      BY <3>3, <3>4
  <2> HIDE DEF listA, listB, listS
  <2>4. Elements(auditLog, listS) = Elements(auditLog, listA) \o Elements(auditLog, listB)
    <3>1. Elements(auditLog, listA \o listB)
             = Elements(auditLog, listA) \o Elements(auditLog, listB)
      BY <2>3, ElementsJoin
    <3> QED
      BY <2>2, <3>1
  <2>5. /\ GetAuditTrail(w) = Elements(auditLog, listS)
        /\ events = Elements(auditLog, listA) /\ later = Elements(auditLog, listB)
    BY <1>1, <1>2, <2>1 DEF Sorted, listS, listA, listB
  <2> QED
    BY <1>11, <2>4, <2>5
<1> QED
  BY <1>10, <1>11

\* Every event is of one type, and every suspicious one of one level.
LEMMA Agree ==
    ASSUME NEW events, NEW n \in Nat, Len(events) = n, DOMAIN events = 1 .. n,
           \A i \in 1 .. n : events[i].type \in EventTypes
    PROVE  Agreeing(events)
<1> DEFINE Of(types) == {i \in DOMAIN events : events[i].type \in types}
           At(levels) == {i \in DOMAIN events : events[i].level \in levels}
           started == Of({"VERIFICATION_STARTED"})
           complete == Of({"VERIFICATION_COMPLETE"})
           verified == {i \in DOMAIN events : /\ events[i].type = "VERIFICATION_COMPLETE"
                                              /\ events[i].status = "VERIFIED"}
           verification == Of({"VERIFICATION_STARTED", "VERIFICATION_COMPLETE"})
           transaction == Of({"TRANSACTION"})
           admin == Of({"ADMIN"})
           other == Of({"TRANSACTION", "ADMIN"})
           high == At({"HIGH"})
           critical == At({"CRITICAL"})
           suspicious == At({"HIGH", "CRITICAL"})
           entries == Elements(events, InOrder(suspicious, Ascending(suspicious)))
           amounts == [i \in DOMAIN entries |-> entries[i].amount]
<1>1. /\ AMLReport(events).suspicious = Cardinality(suspicious)
      /\ AMLReport(events).high = Cardinality(high)
      /\ AMLReport(events).critical = Cardinality(critical)
      /\ AMLReport(events).entries = entries
  <2>1. /\ Count(events, IsSuspicious) = Cardinality(suspicious)
        /\ Filter(events, IsSuspicious) = entries
    BY DEF Count, Filter, IsSuspicious
  <2>2. /\ high = {i \in DOMAIN events : events[i].level = "HIGH"}
        /\ critical = {i \in DOMAIN events : events[i].level = "CRITICAL"}
    OBVIOUS
  <2>3. /\ Cardinality({i \in DOMAIN events : events[i].level = "HIGH"}) = Cardinality(high)
        /\ Cardinality({i \in DOMAIN events : events[i].level = "CRITICAL"})
              = Cardinality(critical)
    BY <2>2, Zenon
  <2> HIDE DEF high, critical, suspicious, entries
  <2> QED
    BY <2>1, <2>3 DEF AMLReport, Count
<1>2. /\ AuditReport(events).total = n
      /\ AuditReport(events).verifications = Cardinality(verification)
      /\ AuditReport(events).transactions = Cardinality(transaction)
      /\ AuditReport(events).admin = Cardinality(admin)
  <2>1. /\ transaction = {i \in DOMAIN events : events[i].type = "TRANSACTION"}
        /\ admin = {i \in DOMAIN events : events[i].type = "ADMIN"}
    OBVIOUS
  <2>2. /\ Cardinality({i \in DOMAIN events : events[i].type = "TRANSACTION"})
              = Cardinality(transaction)
        /\ Cardinality({i \in DOMAIN events : events[i].type = "ADMIN"}) = Cardinality(admin)
    BY <2>1, Zenon
  <2> HIDE DEF transaction, admin
  <2> QED
    BY <2>2 DEF AuditReport, Count
<1>3. /\ KYCSummaryReport(events).total = Cardinality(complete)
      /\ KYCSummaryReport(events).approved = Cardinality(verified)
      /\ KYCSummaryReport(events).pending = Cardinality(started)
  <2>1. /\ complete = {i \in DOMAIN events : events[i].type = "VERIFICATION_COMPLETE"}
        /\ started = {i \in DOMAIN events : events[i].type = "VERIFICATION_STARTED"}
    OBVIOUS
  <2>2. /\ Cardinality({i \in DOMAIN events : events[i].type = "VERIFICATION_COMPLETE"})
              = Cardinality(complete)
        /\ Cardinality({i \in DOMAIN events : events[i].type = "VERIFICATION_STARTED"})
              = Cardinality(started)
    BY <2>1, Zenon
  <2> HIDE DEF complete, started
  <2> QED
    BY <2>2 DEF KYCSummaryReport, Count
<1>4. /\ suspicious \in SUBSET Nat /\ IsFiniteSet(suspicious)
      /\ verification \in SUBSET (1 .. n) /\ IsFiniteSet(verification)
      /\ other \in SUBSET (1 .. n) /\ IsFiniteSet(other)
      /\ IsFiniteSet(1 .. n) /\ Cardinality(1 .. n) = n
      /\ verified \in SUBSET complete /\ IsFiniteSet(complete)
  <2>1. /\ suspicious \in SUBSET (1 .. n) /\ verification \in SUBSET (1 .. n)
        /\ other \in SUBSET (1 .. n) /\ complete \in SUBSET (1 .. n)
        /\ suspicious \in SUBSET Nat /\ verified \in SUBSET complete
    OBVIOUS
  <2>2. IsFiniteSet(1 .. n) /\ Cardinality(1 .. n) = n
    BY Intervals
  <2> HIDE DEF suspicious, verification, other, complete, verified
  <2> QED
    BY <2>1, <2>2, FS_Subset
<1>5. /\ Parts(high, critical, suspicious) /\ Parts(started, complete, verification)
      /\ Parts(transaction, admin, other) /\ Parts(verification, other, 1 .. n)
  BY DEF EventTypes, Parts
<1> HIDE DEF started, complete, verified, verification, transaction, admin, other
<1> HIDE DEF high, critical, suspicious, entries, amounts
<1>6. Cardinality(suspicious) = Cardinality(high) + Cardinality(critical)
  BY <1>4, <1>5, Parted
<1>7. Cardinality(verification) = Cardinality(complete) + Cardinality(started)
  <2>1. /\ Cardinality(verification) = Cardinality(started) + Cardinality(complete)
        /\ Cardinality(started) \in Nat /\ Cardinality(complete) \in Nat
    BY <1>4, <1>5, Parted
  <2> QED
    BY <2>1
<1>8. n = Cardinality(verification) + Cardinality(transaction) + Cardinality(admin)
  <2>1. /\ Cardinality(1 .. n) = Cardinality(verification) + Cardinality(other)
        /\ Cardinality(verification) \in Nat
    BY <1>4, <1>5, Parted
  <2>2. /\ Cardinality(other) = Cardinality(transaction) + Cardinality(admin)
        /\ Cardinality(transaction) \in Nat /\ Cardinality(admin) \in Nat
    BY <1>4, <1>5, Parted
  <2> QED
    BY <1>4, <2>1, <2>2
<1>9. Cardinality(verified) <= Cardinality(complete)
  BY <1>4, FS_Subset
<1>10. Len(entries) = Cardinality(suspicious)
  BY <1>4, KeptAre DEF entries
<1>11. /\ FinCENReport(events).suspicious = Len(entries)
       /\ FinCENReport(events).entries = entries
       /\ ExportFinCENFormat(FinCENReport(events)).suspiciousCount = Len(entries)
       /\ ExportFinCENFormat(FinCENReport(events)).totalAmount = Sum(amounts)
       /\ ExportFinCENFormat(FinCENReport(events)).activities = amounts
  <2>1. Filter(events, IsSuspicious) = entries
    BY DEF Filter, IsSuspicious, entries, suspicious
  <2>2. FinCENReport(events) =
           [suspicious |-> Len(entries), amount |-> Sum(amounts), entries |-> entries]
    BY <2>1 DEF FinCENReport, amounts
  <2> DEFINE sum == Sum(amounts)
             report == [suspicious |-> Len(entries), amount |-> sum, entries |-> entries]
  <2> HIDE DEF sum
  <2>3. /\ report.entries = entries /\ report.amount = sum /\ report.suspicious = Len(entries)
        /\ "amount" \in DOMAIN report
    OBVIOUS
  <2>4. ExportFinCENFormat(report) =
           [suspiciousCount |-> Len(entries), totalAmount |-> sum, activities |-> amounts]
    <3> HIDE DEF report
    <3> QED
      BY <2>3 DEF ExportFinCENFormat, amounts
  <2>5. FinCENReport(events) = report
    BY <2>2 DEF sum
  <2> HIDE DEF report
  <2> QED
    BY <2>3, <2>4, <2>5 DEF sum
<1> QED
  BY <1>1, <1>2, <1>3, <1>6, <1>7, <1>8, <1>9, <1>10, <1>11 DEF Agreeing

\* The reports of a period agree, and those of the next one take up where they end
\* (reporter.ts:60-338).
THEOREM ReportsDoAgree == Spec => []ReportsAgree
<1>1. ASSUME LogInv PROVE ReportsAgree
  <2> SUFFICES ASSUME NEW w \in Wallets \cup {AnyWallet}, NEW t \in Clock
               PROVE  LET events == GetAuditEvents(w, [from |-> 0, to |-> t])
                          aml    == GenerateReport("AML", events)
                          audit  == GenerateReport("AUDIT", events)
                          kyc    == GenerateReport("KYC_SUMMARY", events)
                          fincen == GenerateReport("FINCEN", events)
                          sar    == ExportFinCENFormat(fincen)
                          ofac   == GenerateReport("OFAC", events)
                      IN  /\ \A end \in Clock :
                                (\A i \in DOMAIN auditLog : auditLog[i].at <= end) =>
                                   LET later == GetAuditEvents(w, [from |-> t + 1, to |-> end])
                                   IN  /\ w # AnyWallet => events \o later = GetAuditTrail(w)
                                       /\ w = AnyWallet =>
                                             Len(events) + Len(later) = Len(auditLog)
                          /\ aml.suspicious = aml.high + aml.critical
                          /\ fincen.suspicious = aml.suspicious /\ fincen.entries = aml.entries
                          /\ sar.suspiciousCount = aml.suspicious
                          /\ sar.totalAmount = Sum(sar.activities)
                          /\ audit.total = audit.verifications + audit.transactions + audit.admin
                          /\ kyc.approved <= kyc.total
                          /\ kyc.total + kyc.pending = audit.verifications
                          /\ ofac.matches = Len(ofac.entries)
                          /\ \A i \in DOMAIN aml.entries :
                                AlertReason(aml.entries[i]) = "critical_level"
                                   <=> aml.entries[i].level = "CRITICAL"
    BY Zenon DEF ReportsAgree
  <2> DEFINE events == GetAuditEvents(w, [from |-> 0, to |-> t])
  <2>5. /\ GenerateReport("AML", events) = AMLReport(events)
        /\ GenerateReport("AUDIT", events) = AuditReport(events)
        /\ GenerateReport("KYC_SUMMARY", events) = KYCSummaryReport(events)
        /\ GenerateReport("FINCEN", events) = FinCENReport(events)
        /\ GenerateReport("OFAC", events) = OFACReport(events)
    BY DEF GenerateReport
  <2>1. ASSUME NEW end \in Clock, \A i \in DOMAIN auditLog : auditLog[i].at <= end,
               NEW later, later = GetAuditEvents(w, [from |-> t + 1, to |-> end])
        PROVE  /\ w # AnyWallet => events \o later = GetAuditTrail(w)
               /\ w = AnyWallet => Len(events) + Len(later) = Len(auditLog)
    <3>1. t \in Nat /\ end \in Nat
      BY ClockIsTime
    <3> QED
      BY <1>1, <2>1, <3>1, Periods
  <2>2. Agreeing(events)
    <3> DEFINE n == Cardinality(During(w, 0, t))
    <3>1. /\ n \in Nat /\ Len(events) = n /\ DOMAIN events = 1 .. n
          /\ \A i \in DOMAIN events : events[i].type \in EventTypes
      BY <1>1, EventsAre
    <3> HIDE DEF n
    <3> QED
      BY <3>1, Agree
  <2>3. OFACReport(events).matches = Len(OFACReport(events).entries)
    BY DEF OFACReport
  <2>4. \A e : AlertReason(e) = "critical_level" <=> e.level = "CRITICAL"
    BY DEF AlertReason
  <2> HIDE DEF events
  <2> QED
    BY <2>1, <2>2, <2>3, <2>4, <2>5 DEF Agreeing, events
<1>2. Init => LogInv
  BY DEF Init, EvidenceInit, ReporterInit, LogInv
<1> QED
  BY <1>1, <1>2, LogStep, PTL DEF Spec
------------------------------------------------------------------------------
(* Scales                                                                    *)

\* Contributions that fall from step to step, from 100 at most to the last one.
Descends(steps, otherwise) ==
    /\ otherwise \in 0 .. 100
    /\ \A i \in DOMAIN steps :
          /\ steps[i][2] \in 0 .. 100 /\ otherwise <= steps[i][2]
          /\ \A j \in DOMAIN steps : i <= j => steps[j][2] <= steps[i][2]

\* The first step of those hit.
LEMMA FirstIs ==
    ASSUME NEW hit \in SUBSET Nat, NEW i \in hit, \A j \in hit : i <= j,
           NEW steps, NEW otherwise
    PROVE  First(hit, steps, otherwise) = steps[i][2]
<1> DEFINE k == CHOOSE n \in hit : \A j \in hit : n <= j
<1>1. k \in hit /\ \A j \in hit : k <= j
  OBVIOUS
<1> HIDE DEF k
<1>2. k = i
  BY <1>1
<1> QED
  BY <1>2 DEF First, k

\* Who hits more steps hits the first of them earlier, for no less.
LEMMA FirstRises ==
    ASSUME NEW steps, DOMAIN steps \in SUBSET Nat, NEW otherwise, Descends(steps, otherwise),
           NEW A \in SUBSET DOMAIN steps, NEW B \in SUBSET A
    PROVE  /\ First(A, steps, otherwise) \in 0 .. 100
           /\ First(B, steps, otherwise) <= First(A, steps, otherwise)
<1>1. ASSUME NEW hit \in SUBSET DOMAIN steps, hit # {}
      PROVE  \E i \in hit : (\A j \in hit : i <= j) /\ First(hit, steps, otherwise) = steps[i][2]
  <2>1. hit \in SUBSET Nat
    OBVIOUS
  <2>2. PICK i \in hit : \A j \in hit : i <= j
    BY <1>1, <2>1, Least
  <2> QED
    BY <2>1, <2>2, FirstIs
<1>2. First({}, steps, otherwise) = otherwise
  BY DEF First
<1>3. CASE A = {}
  BY <1>2, <1>3 DEF Descends
<1>4. CASE A # {}
  <2>1. PICK i \in A : (\A j \in A : i <= j) /\ First(A, steps, otherwise) = steps[i][2]
    BY <1>1, <1>4
  <2>2. CASE B = {}
    BY <1>2, <2>1, <2>2 DEF Descends
  <2>3. CASE B # {}
    <3>1. PICK j \in B : First(B, steps, otherwise) = steps[j][2]
      BY <1>1, <2>3
    <3>2. i <= j /\ i \in DOMAIN steps /\ j \in DOMAIN steps
      BY <2>1
    <3> QED
      BY <2>1, <3>1, <3>2 DEF Descends
  <2> QED
    BY <2>2, <2>3
<1> QED
  BY <1>3, <1>4

Bounds(steps) == \A i \in DOMAIN steps : steps[i][1] \in Nat

\* The scale for values that are worse the larger they are.
LEMMA AboveRises ==
    ASSUME NEW steps, DOMAIN steps \in SUBSET Nat, Bounds(steps),
           NEW otherwise, Descends(steps, otherwise), NEW x \in Nat, NEW y \in Nat, x <= y
    PROVE  /\ Above(y, steps, otherwise) \in 0 .. 100
           /\ Above(x, steps, otherwise) <= Above(y, steps, otherwise)
<1> DEFINE A == {i \in DOMAIN steps : y > steps[i][1]}
           B == {i \in DOMAIN steps : x > steps[i][1]}
<1>1. A \in SUBSET DOMAIN steps /\ B \in SUBSET A
  BY DEF Bounds
<1> HIDE DEF A, B
<1>2. /\ First(A, steps, otherwise) \in 0 .. 100
      /\ First(B, steps, otherwise) <= First(A, steps, otherwise)
  BY <1>1, FirstRises
<1> QED
  BY <1>2 DEF Above, A, B

\* The scale for the age, which is worse the smaller it is.
LEMMA BelowFalls ==
    ASSUME NEW steps, DOMAIN steps \in SUBSET Nat, Bounds(steps),
           NEW otherwise, Descends(steps, otherwise), NEW x \in Nat, NEW y \in Nat, x <= y
    PROVE  /\ Below(x, steps, otherwise) \in 0 .. 100
           /\ Below(y, steps, otherwise) <= Below(x, steps, otherwise)
<1> DEFINE A == {i \in DOMAIN steps : x < steps[i][1]}
           B == {i \in DOMAIN steps : y < steps[i][1]}
<1>1. A \in SUBSET DOMAIN steps /\ B \in SUBSET A
  BY DEF Bounds
<1> HIDE DEF A, B
<1>2. /\ First(A, steps, otherwise) \in 0 .. 100
      /\ First(B, steps, otherwise) <= First(A, steps, otherwise)
  BY <1>1, FirstRises
<1> QED
  BY <1>2 DEF Below, A, B

\* The scales of calculateRiskFactors are graded in order (engine.ts:186-239).
LEMMA Scales ==
    ASSUME NEW x \in Nat, NEW y \in Nat, x <= y
    PROVE  /\ WalletAge(x) \in 0 .. 100 /\ WalletAge(y) <= WalletAge(x)
           /\ TransactionVolume(y) \in 0 .. 100 /\ TransactionVolume(x) <= TransactionVolume(y)
           /\ TransactionCount(y) \in 0 .. 100 /\ TransactionCount(x) <= TransactionCount(y)
           /\ HighRiskInteractions(y) \in 0 .. 100
           /\ HighRiskInteractions(x) <= HighRiskInteractions(y)
           /\ AverageTransactionSize(y) \in 0 .. 100
           /\ AverageTransactionSize(x) <= AverageTransactionSize(y)
<1>1. WalletAge(x) \in 0 .. 100 /\ WalletAge(y) <= WalletAge(x)
  <2> DEFINE steps == <<<<30, 80>>, <<90, 50>>, <<180, 30>>, <<365, 15>>>>
  <2>1. DOMAIN steps \in SUBSET Nat /\ Bounds(steps) /\ Descends(steps, 5)
    BY DEF Bounds, Descends
  <2>2. \A v : WalletAge(v) = Below(v, steps, 5)
    BY DEF WalletAge
  <2> HIDE DEF steps
  <2>3. Below(x, steps, 5) \in 0 .. 100 /\ Below(y, steps, 5) <= Below(x, steps, 5)
    BY <2>1, BelowFalls
  <2> QED
    BY <2>2, <2>3
<1>2. TransactionVolume(y) \in 0 .. 100 /\ TransactionVolume(x) <= TransactionVolume(y)
  <2> DEFINE steps == <<<<100000, 90>>, <<50000, 70>>, <<10000, 50>>, <<1000, 30>>>>
  <2>1. DOMAIN steps \in SUBSET Nat /\ Bounds(steps) /\ Descends(steps, 10)
    BY DEF Bounds, Descends
  <2>2. \A v : TransactionVolume(v) = Above(v, steps, 10)
    BY DEF TransactionVolume
  <2> HIDE DEF steps
  <2>3. Above(y, steps, 10) \in 0 .. 100 /\ Above(x, steps, 10) <= Above(y, steps, 10)
    BY <2>1, AboveRises
  <2> QED
    BY <2>2, <2>3
<1>3. TransactionCount(y) \in 0 .. 100 /\ TransactionCount(x) <= TransactionCount(y)
  <2> DEFINE steps == <<<<10000, 80>>, <<5000, 60>>, <<1000, 40>>, <<100, 20>>>>
  <2>1. DOMAIN steps \in SUBSET Nat /\ Bounds(steps) /\ Descends(steps, 10)
    BY DEF Bounds, Descends
  <2>2. \A v : TransactionCount(v) = Above(v, steps, 10)
    BY DEF TransactionCount
  <2> HIDE DEF steps
  <2>3. Above(y, steps, 10) \in 0 .. 100 /\ Above(x, steps, 10) <= Above(y, steps, 10)
    BY <2>1, AboveRises
  <2> QED
    BY <2>2, <2>3
<1>4. HighRiskInteractions(y) \in 0 .. 100 /\ HighRiskInteractions(x) <= HighRiskInteractions(y)
  <2> DEFINE steps == <<<<50, 100>>, <<20, 80>>, <<10, 60>>, <<5, 40>>, <<0, 20>>>>
  <2>1. DOMAIN steps \in SUBSET Nat /\ Bounds(steps) /\ Descends(steps, 0)
    BY DEF Bounds, Descends
  <2>2. \A v : HighRiskInteractions(v) = Above(v, steps, 0)
    BY DEF HighRiskInteractions
  <2> HIDE DEF steps
  <2>3. Above(y, steps, 0) \in 0 .. 100 /\ Above(x, steps, 0) <= Above(y, steps, 0)
    BY <2>1, AboveRises
  <2> QED
    BY <2>2, <2>3
<1>5. /\ AverageTransactionSize(y) \in 0 .. 100
      /\ AverageTransactionSize(x) <= AverageTransactionSize(y)
  <2> DEFINE steps == <<<<10000, 90>>, <<5000, 70>>, <<1000, 50>>, <<100, 30>>>>
  <2>1. DOMAIN steps \in SUBSET Nat /\ Bounds(steps) /\ Descends(steps, 10)
    BY DEF Bounds, Descends
  <2>2. \A v : AverageTransactionSize(v) = Above(v, steps, 10)
    BY DEF AverageTransactionSize
  <2> HIDE DEF steps
  <2>3. Above(y, steps, 10) \in 0 .. 100 /\ Above(x, steps, 10) <= Above(y, steps, 10)
    BY <2>1, AboveRises
  <2> QED
    BY <2>2, <2>3
<1> QED
  BY <1>1, <1>2, <1>3, <1>4, <1>5

\* Where the profiles that the engine makes up end on the scales (engine.ts:349-385).
LEMMA MockGrades ==
    /\ WalletAge(30) = 50 /\ TransactionVolume(9999) = 30 /\ TransactionCount(5099) = 60
    /\ HighRiskInteractions(9) = 40 /\ AverageTransactionSize(99) = 10
<1>1. WalletAge(30) = 50
  <2> DEFINE steps == <<<<30, 80>>, <<90, 50>>, <<180, 30>>, <<365, 15>>>>
             hit == {i \in DOMAIN steps : 30 < steps[i][1]}
  <2>1. hit \in SUBSET Nat /\ 2 \in hit /\ (\A j \in hit : 2 <= j) /\ steps[2][2] = 50
    OBVIOUS
  <2>2. WalletAge(30) = First(hit, steps, 5)
    BY DEF WalletAge, Below
  <2> HIDE DEF hit, steps
  <2> QED
    BY <2>1, <2>2, FirstIs
<1>2. TransactionVolume(9999) = 30
  <2> DEFINE steps == <<<<100000, 90>>, <<50000, 70>>, <<10000, 50>>, <<1000, 30>>>>
             hit == {i \in DOMAIN steps : 9999 > steps[i][1]}
  <2>1. hit \in SUBSET Nat /\ 4 \in hit /\ (\A j \in hit : 4 <= j) /\ steps[4][2] = 30
    OBVIOUS
  <2>2. TransactionVolume(9999) = First(hit, steps, 10)
    BY DEF TransactionVolume, Above
  <2> HIDE DEF hit, steps
  <2> QED
    BY <2>1, <2>2, FirstIs
<1>3. TransactionCount(5099) = 60
  <2> DEFINE steps == <<<<10000, 80>>, <<5000, 60>>, <<1000, 40>>, <<100, 20>>>>
             hit == {i \in DOMAIN steps : 5099 > steps[i][1]}
  <2>1. hit \in SUBSET Nat /\ 2 \in hit /\ (\A j \in hit : 2 <= j) /\ steps[2][2] = 60
    OBVIOUS
  <2>2. TransactionCount(5099) = First(hit, steps, 10)
    BY DEF TransactionCount, Above
  <2> HIDE DEF hit, steps
  <2> QED
    BY <2>1, <2>2, FirstIs
<1>4. HighRiskInteractions(9) = 40
  <2> DEFINE steps == <<<<50, 100>>, <<20, 80>>, <<10, 60>>, <<5, 40>>, <<0, 20>>>>
             hit == {i \in DOMAIN steps : 9 > steps[i][1]}
  <2>1. hit \in SUBSET Nat /\ 4 \in hit /\ (\A j \in hit : 4 <= j) /\ steps[4][2] = 40
    OBVIOUS
  <2>2. HighRiskInteractions(9) = First(hit, steps, 0)
    BY DEF HighRiskInteractions, Above
  <2> HIDE DEF hit, steps
  <2> QED
    BY <2>1, <2>2, FirstIs
<1>5. AverageTransactionSize(99) = 10
  <2> DEFINE steps == <<<<10000, 90>>, <<5000, 70>>, <<1000, 50>>, <<100, 30>>>>
             hit == {i \in DOMAIN steps : 99 > steps[i][1]}
  <2>1. hit = {}
    OBVIOUS
  <2>2. AverageTransactionSize(99) = First(hit, steps, 10)
    BY DEF AverageTransactionSize, Above
  <2> HIDE DEF hit, steps
  <2> QED
    BY <2>1, <2>2 DEF First
<1> QED
  BY <1>1, <1>2, <1>3, <1>4, <1>5
------------------------------------------------------------------------------
(* Scores                                                                    *)

AllProfiles ==
    [age : Nat, volume : Nat, count : Nat, interactions : Nat, average : Nat,
     observed : BOOLEAN, patterns : Seq(STRING)]

LEMMA PatternsInRange ==
    ASSUME NEW patterns \in Seq(STRING)
    PROVE  BehavioralPatterns(patterns) \in 0 .. 100
<1> DEFINE Of(S) == {i \in DOMAIN patterns : patterns[i] \in S}
           a == Cardinality(Of({"defi-interactions", "token-swaps"}))
           b == Cardinality(Of({"nft-trading", "staking"}))
           c == Cardinality(Of({"regular-transactions"}))
<1>1. ASSUME NEW S PROVE Cardinality(Of(S)) \in Nat
  <2>1. Of(S) \in SUBSET (1 .. Len(patterns)) /\ Len(patterns) \in Nat
    OBVIOUS
  <2> HIDE DEF Of
  <2>2. IsFiniteSet(Of(S))
    BY <2>1, Intervals, FS_Subset
  <2> QED
    BY <2>2, FS_CardinalityType
<1>2. a \in Nat /\ b \in Nat /\ c \in Nat
  <2> HIDE DEF Of
  <2> QED
    BY <1>1
<1>3. BehavioralPatterns(patterns) =
         IF 40 * a + 20 * b + 5 * c > 100 THEN 100 ELSE 40 * a + 20 * b + 5 * c
  BY DEF BehavioralPatterns
<1> HIDE DEF a, b, c
<1> QED
  BY <1>2, <1>3

\* The six contributions, and the factors they belong to.
Contributions(p) ==
    <<WalletAge(p.age), TransactionVolume(p.volume), TransactionCount(p.count),
      HighRiskInteractions(p.interactions), AverageTransactionSize(p.average),
      BehavioralPatterns(p.patterns)>>

Weights == <<15, 20, 15, 25, 15, 10>>

Factors(p) == IF p.observed THEN 6 ELSE 5

LEMMA FactorsAre ==
    ASSUME NEW p \in AllProfiles
    PROVE  /\ Factors(p) \in {5, 6} /\ DOMAIN CalculateRiskFactors(p) = 1 .. Factors(p)
           /\ \A n \in 1 .. 6 : Contributions(p)[n] \in 0 .. 100
           /\ \A n \in 1 .. Factors(p) :
                 /\ CalculateRiskFactors(p)[n].contribution = Contributions(p)[n]
                 /\ CalculateRiskFactors(p)[n].weight = Weights[n]
<1>1. /\ p.age \in Nat /\ p.volume \in Nat /\ p.count \in Nat /\ p.interactions \in Nat
      /\ p.average \in Nat /\ p.patterns \in Seq(STRING)
  BY DEF AllProfiles
<1>2. /\ WalletAge(p.age) \in 0 .. 100 /\ TransactionVolume(p.volume) \in 0 .. 100
      /\ TransactionCount(p.count) \in 0 .. 100
      /\ HighRiskInteractions(p.interactions) \in 0 .. 100
      /\ AverageTransactionSize(p.average) \in 0 .. 100
      /\ BehavioralPatterns(p.patterns) \in 0 .. 100
  <2>1. \A x \in Nat : x <= x
    OBVIOUS
  <2> QED
    BY <1>1, <2>1, Scales, PatternsInRange
<1>3. \A n \in 1 .. 6 : Contributions(p)[n] \in 0 .. 100
  BY <1>2 DEF Contributions
<1>4. Factors(p) \in {5, 6} /\ DOMAIN CalculateRiskFactors(p) = 1 .. Factors(p)
  BY DEF Factors, CalculateRiskFactors
<1>5. ASSUME NEW n \in 1 .. Factors(p)
      PROVE  /\ CalculateRiskFactors(p)[n].contribution = Contributions(p)[n]
             /\ CalculateRiskFactors(p)[n].weight = Weights[n]
  <2>1. n \in 1 .. (IF p.observed THEN 6 ELSE 5) /\ n \in {1, 2, 3, 4, 5, 6}
    BY DEF Factors
  <2> QED
    BY <2>1 DEF CalculateRiskFactors, Contributions, Weights, Factor
<1> QED
  BY <1>3, <1>4, <1>5

\* Five or six numbers add up to what they add up to.
LEMMA SumOf ==
    ASSUME NEW k \in {5, 6}, NEW numbers, Len(numbers) = k, \A i \in 1 .. k : numbers[i] \in Nat
    PROVE  Sum(numbers) = numbers[1] + numbers[2] + numbers[3] + numbers[4] + numbers[5]
                             + IF k = 6 THEN numbers[6] ELSE 0
<1>1. PICK sum \in [0 .. k -> Nat] :
         /\ sum[0] = 0 /\ \A n \in 1 .. k : sum[n] = sum[n - 1] + numbers[n]
         /\ Sum(numbers) = sum[k]
  BY SumUnfolds
<1>2. ASSUME NEW m \in Nat, NEW n \in 1 .. k, n - 1 = m PROVE sum[n] = sum[m] + numbers[n]
  BY <1>1, <1>2
<1>3. /\ sum[1] = sum[0] + numbers[1] /\ sum[2] = sum[1] + numbers[2]
      /\ sum[3] = sum[2] + numbers[3] /\ sum[4] = sum[3] + numbers[4]
      /\ sum[5] = sum[4] + numbers[5] /\ (k = 6 => sum[6] = sum[5] + numbers[6])
  <2>1. 1 \in 1 .. k /\ 2 \in 1 .. k /\ 3 \in 1 .. k /\ 4 \in 1 .. k /\ 5 \in 1 .. k
        /\ (k = 6 => 6 \in 1 .. k)
    OBVIOUS
  <2>2. 1 - 1 = 0 /\ 2 - 1 = 1 /\ 3 - 1 = 2 /\ 4 - 1 = 3 /\ 5 - 1 = 4 /\ 6 - 1 = 5
    OBVIOUS
  <2>3. sum[1] = sum[0] + numbers[1]
    BY <1>2, <2>1, <2>2
  <2>4. sum[2] = sum[1] + numbers[2]
    BY <1>2, <2>1, <2>2
  <2>5. sum[3] = sum[2] + numbers[3]
    BY <1>2, <2>1, <2>2
  <2>6. sum[4] = sum[3] + numbers[4]
    BY <1>2, <2>1, <2>2
  <2>7. sum[5] = sum[4] + numbers[5]
    BY <1>2, <2>1, <2>2
  <2>8. k = 6 => sum[6] = sum[5] + numbers[6]
    BY <1>2, <2>1, <2>2
  <2> QED
    BY <2>3, <2>4, <2>5, <2>6, <2>7, <2>8
<1>4. /\ numbers[1] \in Nat /\ numbers[2] \in Nat /\ numbers[3] \in Nat /\ numbers[4] \in Nat
      /\ numbers[5] \in Nat /\ (k = 6 => numbers[6] \in Nat)
  OBVIOUS
<1>5. sum[5] = numbers[1] + numbers[2] + numbers[3] + numbers[4] + numbers[5]
  BY <1>1, <1>3, <1>4
<1> QED
  BY <1>1, <1>3, <1>4, <1>5

\* The sum of the weighted contributions.
Weighted(c, six) ==
    15 * c[1] + 20 * c[2] + 15 * c[3] + 25 * c[4] + 15 * c[5] + IF six THEN 10 * c[6] ELSE 0

\* Rounded half up, over the weights that count.
Mean(c, six) ==
    IF six THEN (2 * Weighted(c, six) + 100) \div 200 ELSE (2 * Weighted(c, six) + 90) \div 180

LEMMA ScoreIs ==
    ASSUME NEW p \in AllProfiles
    PROVE  CalculateRiskScore(CalculateRiskFactors(p)) = Mean(Contributions(p), p.observed)
<1> DEFINE k == Factors(p)
           c == Contributions(p)
           factors == CalculateRiskFactors(p)
           products == [n \in DOMAIN factors |-> factors[n].contribution * factors[n].weight]
           weights == [n \in DOMAIN factors |-> factors[n].weight]
<1>1. /\ k \in {5, 6} /\ (k = 6 <=> p.observed) /\ DOMAIN factors = 1 .. k
      /\ \A n \in 1 .. 6 : c[n] \in 0 .. 100
      /\ \A n \in 1 .. k : factors[n].contribution = c[n] /\ factors[n].weight = Weights[n]
  BY FactorsAre DEF Factors, AllProfiles
<1>2. CalculateRiskScore(factors) = WeightedMean(Sum(products), Sum(weights))
  BY DEF CalculateRiskScore
<1> HIDE DEF k, c, factors
<1>3. /\ products = [n \in 1 .. k |-> c[n] * Weights[n]] /\ weights = [n \in 1 .. k |-> Weights[n]]
  BY <1>1
<1> HIDE DEF products, weights
<1>4. /\ Weights[1] = 15 /\ Weights[2] = 20 /\ Weights[3] = 15 /\ Weights[4] = 25
      /\ Weights[5] = 15 /\ Weights[6] = 10 /\ \A n \in 1 .. 6 : Weights[n] \in Nat
  BY DEF Weights
<1>5. /\ c[1] \in 0 .. 100 /\ c[2] \in 0 .. 100 /\ c[3] \in 0 .. 100 /\ c[4] \in 0 .. 100
      /\ c[5] \in 0 .. 100 /\ c[6] \in 0 .. 100
  BY <1>1
<1>6. /\ Len(products) = k /\ Len(weights) = k
      /\ \A n \in 1 .. k : products[n] = c[n] * Weights[n] /\ weights[n] = Weights[n]
  BY <1>1, <1>3
<1>7. Sum(weights) = IF p.observed THEN 100 ELSE 90
  <2>1. \A n \in 1 .. k : weights[n] \in Nat
    BY <1>1, <1>4, <1>6
  <2>2. Sum(weights) = weights[1] + weights[2] + weights[3] + weights[4] + weights[5]
                          + IF k = 6 THEN weights[6] ELSE 0
    BY <1>1, <1>6, <2>1, SumOf
  <2>3. /\ weights[1] = 15 /\ weights[2] = 20 /\ weights[3] = 15 /\ weights[4] = 25
        /\ weights[5] = 15 /\ (k = 6 => weights[6] = 10)
    BY <1>1, <1>4, <1>6
  <2> QED
    BY <1>1, <2>2, <2>3
<1>8. Sum(products) = Weighted(c, p.observed)
  <2>1. /\ products[1] = 15 * c[1] /\ products[2] = 20 * c[2] /\ products[3] = 15 * c[3]
        /\ products[4] = 25 * c[4] /\ products[5] = 15 * c[5]
        /\ k = 6 => products[6] = 10 * c[6]
    <3>1. \A n \in 1 .. k : products[n] = c[n] * Weights[n]
      BY <1>6
    <3>2. /\ products[1] = c[1] * Weights[1] /\ products[2] = c[2] * Weights[2]
          /\ products[3] = c[3] * Weights[3] /\ products[4] = c[4] * Weights[4]
          /\ products[5] = c[5] * Weights[5] /\ (k = 6 => products[6] = c[6] * Weights[6])
      BY <1>1, <3>1
    <3> QED
      BY <1>4, <1>5, <3>2
  <2>2. \A n \in 1 .. k : products[n] \in Nat
    <3>1. \A n \in 1 .. k : n \in {1, 2, 3, 4, 5} \/ (n = 6 /\ k = 6)
      BY <1>1
    <3> QED
      BY <1>5, <2>1, <3>1
  <2>3. Sum(products) = products[1] + products[2] + products[3] + products[4] + products[5]
                           + IF k = 6 THEN products[6] ELSE 0
    BY <1>1, <1>6, <2>2, SumOf
  <2> QED
    BY <1>1, <2>1, <2>3 DEF Weighted
<1>9. CalculateRiskScore(factors) = Mean(c, p.observed)
  BY <1>1, <1>2, <1>7, <1>8 DEF WeightedMean, Mean
<1> QED
  BY <1>9 DEF c, factors

\* Larger contributions never have a smaller mean, and a mean above 60 has one of 60.
LEMMA MeanRises ==
    ASSUME NEW b, NEW c, NEW six \in BOOLEAN,
           \A n \in 1 .. 6 : b[n] \in 0 .. 100 /\ c[n] \in 0 .. 100
    PROVE  /\ Mean(c, six) \in Nat
           /\ (\A n \in 1 .. 6 : b[n] <= c[n]) => Mean(b, six) <= Mean(c, six)
           /\ Mean(c, six) > 60 => \E n \in 1 .. (IF six THEN 6 ELSE 5) : c[n] >= 60
<1>1. PICK b1 \in 0 .. 100, b2 \in 0 .. 100, b3 \in 0 .. 100, b4 \in 0 .. 100,
           b5 \in 0 .. 100, b6 \in 0 .. 100 :
              /\ b[1] = b1 /\ b[2] = b2 /\ b[3] = b3 /\ b[4] = b4 /\ b[5] = b5 /\ b[6] = b6
  <2>1. /\ b[1] \in 0 .. 100 /\ b[2] \in 0 .. 100 /\ b[3] \in 0 .. 100
        /\ b[4] \in 0 .. 100 /\ b[5] \in 0 .. 100 /\ b[6] \in 0 .. 100
    OBVIOUS
  <2> QED
    BY <2>1, Zenon
<1>2. PICK c1 \in 0 .. 100, c2 \in 0 .. 100, c3 \in 0 .. 100, c4 \in 0 .. 100,
           c5 \in 0 .. 100, c6 \in 0 .. 100 :
              /\ c[1] = c1 /\ c[2] = c2 /\ c[3] = c3 /\ c[4] = c4 /\ c[5] = c5 /\ c[6] = c6
  <2>1. /\ c[1] \in 0 .. 100 /\ c[2] \in 0 .. 100 /\ c[3] \in 0 .. 100
        /\ c[4] \in 0 .. 100 /\ c[5] \in 0 .. 100 /\ c[6] \in 0 .. 100
    OBVIOUS
  <2> QED
    BY <2>1, Zenon
<1> DEFINE fiveb == 15 * b1 + 20 * b2 + 15 * b3 + 25 * b4 + 15 * b5
           fivec == 15 * c1 + 20 * c2 + 15 * c3 + 25 * c4 + 15 * c5
<1>3. /\ Weighted(b, six) = fiveb + IF six THEN 10 * b6 ELSE 0
      /\ Weighted(c, six) = fivec + IF six THEN 10 * c6 ELSE 0
  BY <1>1, <1>2 DEF Weighted
<1>4. fiveb \in Nat /\ fivec \in Nat /\ 10 * b6 \in Nat /\ 10 * c6 \in Nat
  OBVIOUS
<1>5. Weighted(b, six) \in Nat /\ Weighted(c, six) \in Nat
  <2> HIDE DEF fiveb, fivec
  <2> QED
    BY <1>3, <1>4
<1>6. Mean(c, six) \in Nat
  BY <1>5 DEF Mean
<1>7. ASSUME \A n \in 1 .. 6 : b[n] <= c[n] PROVE Mean(b, six) <= Mean(c, six)
  <2>1. b1 <= c1 /\ b2 <= c2 /\ b3 <= c3 /\ b4 <= c4 /\ b5 <= c5 /\ b6 <= c6
    BY <1>7, <1>1, <1>2
  <2>2. fiveb <= fivec /\ 10 * b6 <= 10 * c6
    BY <2>1
  <2>3. Weighted(b, six) <= Weighted(c, six)
    <3> HIDE DEF fiveb, fivec
    <3> QED
      BY <1>3, <1>4, <2>2
  <2> QED
    BY <1>5, <2>3 DEF Mean
<1>8. ASSUME \A n \in 1 .. (IF six THEN 6 ELSE 5) : c[n] < 60 PROVE Mean(c, six) <= 60
  <2>1. c1 < 60 /\ c2 < 60 /\ c3 < 60 /\ c4 < 60 /\ c5 < 60 /\ (six => c6 < 60)
    BY <1>8, <1>2
  <2>2. fivec <= 5310 /\ (six => 10 * c6 <= 590)
    BY <2>1
  <2>3. IF six THEN Weighted(c, six) <= 5900 ELSE Weighted(c, six) <= 5310
    <3> HIDE DEF fivec
    <3> QED
      BY <1>3, <1>4, <2>2
  <2> QED
    BY <1>5, <2>3 DEF Mean
<1>9. Mean(c, six) > 60 => \E n \in 1 .. (IF six THEN 6 ELSE 5) : c[n] >= 60
  <2>1. \A n \in 1 .. (IF six THEN 6 ELSE 5) : c[n] < 60 \/ c[n] >= 60
    <3>1. \A n \in 1 .. (IF six THEN 6 ELSE 5) : n \in 1 .. 6
      OBVIOUS
    <3> QED
      BY <3>1
  <2> QED
    BY <1>6, <1>8, <2>1
<1> QED
  BY <1>6, <1>7, <1>9

Score(p) == CalculateRiskScore(CalculateRiskFactors(p))

\* A profile that is worse in every respect scores no less.
LEMMA WorseScores ==
    ASSUME NEW better \in AllProfiles, NEW worse \in AllProfiles,
           worse.observed = better.observed, worse.patterns = better.patterns,
           worse.age <= better.age, worse.volume >= better.volume, worse.count >= better.count,
           worse.average >= better.average, worse.interactions >= better.interactions
    PROVE  Score(better) \in Nat /\ Score(worse) \in Nat /\ Score(better) <= Score(worse)
<1> DEFINE b == Contributions(better)
           c == Contributions(worse)
<1>1. \A n \in 1 .. 6 : b[n] \in 0 .. 100 /\ c[n] \in 0 .. 100
  BY FactorsAre
<1>2. /\ b[1] <= c[1] /\ b[2] <= c[2] /\ b[3] <= c[3] /\ b[4] <= c[4] /\ b[5] <= c[5]
  <2>1. /\ better.age \in Nat /\ better.volume \in Nat /\ better.count \in Nat
        /\ better.interactions \in Nat /\ better.average \in Nat
        /\ worse.age \in Nat /\ worse.volume \in Nat /\ worse.count \in Nat
        /\ worse.interactions \in Nat /\ worse.average \in Nat
    BY DEF AllProfiles
  <2>2. /\ better.volume <= worse.volume /\ better.count <= worse.count
        /\ better.average <= worse.average /\ better.interactions <= worse.interactions
    BY <2>1
  <2>3. /\ WalletAge(better.age) <= WalletAge(worse.age)
        /\ TransactionVolume(better.volume) <= TransactionVolume(worse.volume)
        /\ TransactionCount(better.count) <= TransactionCount(worse.count)
        /\ HighRiskInteractions(better.interactions) <= HighRiskInteractions(worse.interactions)
        /\ AverageTransactionSize(better.average) <= AverageTransactionSize(worse.average)
    BY <2>1, <2>2, Scales
  <2> QED
    BY <2>3 DEF Contributions
<1>3. b[6] = c[6]
  BY DEF Contributions
<1> HIDE DEF b, c
<1>4. \A n \in 1 .. 6 : b[n] <= c[n]
  <2>1. b[6] <= c[6]
    BY <1>1, <1>3
  <2>2. \A n \in 1 .. 6 : n \in {1, 2, 3, 4, 5, 6}
    OBVIOUS
  <2> QED
    BY <1>2, <2>1, <2>2
<1>5. better.observed \in BOOLEAN
  BY DEF AllProfiles
<1>6. /\ Mean(b, better.observed) \in Nat /\ Mean(c, better.observed) \in Nat
      /\ Mean(b, better.observed) <= Mean(c, better.observed)
  BY <1>1, <1>4, <1>5, MeanRises
<1>7. Score(better) = Mean(b, better.observed) /\ Score(worse) = Mean(c, better.observed)
  BY ScoreIs DEF Score, b, c
<1> QED
  BY <1>6, <1>7

\* A larger score never has a lower level, whatever the thresholds are.
LEMMA LevelsRise ==
    ASSUME NEW thresholds \in [lowMax : Int, mediumMax : Int], NEW x \in Nat, NEW y \in Nat, x <= y
    PROVE  Rank(DetermineRiskLevel(x, thresholds)) <= Rank(DetermineRiskLevel(y, thresholds))
<1>1. thresholds.lowMax \in Int /\ thresholds.mediumMax \in Int
  OBVIOUS
<1> DEFINE Graded(s) ==
        IF s <= thresholds.lowMax THEN 1
        ELSE IF s <= thresholds.mediumMax THEN 2 ELSE IF s <= 85 THEN 3 ELSE 4
<1>2. ASSUME NEW s \in Nat PROVE Rank(DetermineRiskLevel(s, thresholds)) = Graded(s)
  <2>1. CASE s <= thresholds.lowMax
    <3>1. DetermineRiskLevel(s, thresholds) = "LOW"
      BY <1>1, <2>1 DEF DetermineRiskLevel
    <3> QED
      BY <2>1, <3>1 DEF Rank
  <2>2. CASE ~(s <= thresholds.lowMax) /\ s <= thresholds.mediumMax
    <3>1. DetermineRiskLevel(s, thresholds) = "MEDIUM"
      BY <1>1, <2>2 DEF DetermineRiskLevel
    <3> QED
      BY <2>2, <3>1 DEF Rank
  <2>3. CASE ~(s <= thresholds.lowMax) /\ ~(s <= thresholds.mediumMax) /\ s <= 85
    <3>1. DetermineRiskLevel(s, thresholds) = "HIGH"
      BY <1>1, <2>3 DEF DetermineRiskLevel
    <3> QED
      BY <2>3, <3>1 DEF Rank
  <2>4. CASE ~(s <= thresholds.lowMax) /\ ~(s <= thresholds.mediumMax) /\ ~(s <= 85)
    <3>1. DetermineRiskLevel(s, thresholds) = "CRITICAL"
      BY <1>1, <2>4 DEF DetermineRiskLevel
    <3> QED
      BY <2>4, <3>1 DEF Rank
  <2> QED
    BY <2>1, <2>2, <2>3, <2>4
<1>3. Graded(x) <= Graded(y)
  BY <1>1
<1> HIDE DEF Graded
<1> QED
  BY <1>2, <1>3

LEMMA DefaultLevels ==
    ASSUME NEW score \in Nat, NEW level, level = DetermineRiskLevel(score, DefaultThresholds)
    PROVE  /\ level = "LOW" => score <= 30
           /\ level \in {"HIGH", "CRITICAL"} => score > 60
           /\ score <= 60 => level \in {"LOW", "MEDIUM"}
<1>1. DefaultThresholds.lowMax = 30 /\ DefaultThresholds.mediumMax = 60
  BY DEF DefaultThresholds
<1>2. CASE score <= 30
  BY <1>1, <1>2 DEF DetermineRiskLevel
<1>3. CASE score > 30 /\ score <= 60
  BY <1>1, <1>3 DEF DetermineRiskLevel
<1>4. CASE score > 60
  BY <1>1, <1>4 DEF DetermineRiskLevel
<1> QED
  BY <1>2, <1>3, <1>4

\* The risk rules of the default templates (registry.ts:130-190).
LEMMA RiskRulesAre ==
    ASSUME NEW id \in DOMAIN DefaultTemplates, NEW i \in DOMAIN DefaultTemplates[id],
           DefaultTemplates[id][i].type = "RISK_THRESHOLD"
    PROVE  DefaultTemplates[id][i].number \in {40, 50}
<1> DEFINE Limited(rules) ==
        \A k \in DOMAIN rules : rules[k].type = "RISK_THRESHOLD" => rules[k].number \in {40, 50}
<1>1. Limited(USAccredited)
  BY DEF USAccredited, Age, Accreditation, Aml, Rule
<1>2. Limited(GlobalBasic)
  BY DEF GlobalBasic, Age, Country, Documents, Rule
<1>3. Limited(DeFiStandard)
  BY DEF DeFiStandard, Age, Country, Risk, Aml, Rule
<1>4. Limited(NFTMarketplace)
  BY DEF NFTMarketplace, Age, Documents, Rule
<1>5. Limited(ExchangeStandard)
  BY DEF ExchangeStandard, Age, Country, Documents, Aml, Risk, Rule
<1> HIDE DEF Limited
<1>6. Limited(DefaultTemplates[id])
  BY <1>1, <1>2, <1>3, <1>4, <1>5 DEF DefaultTemplates
<1> QED
  BY <1>6 DEF Limited

\* Every factor has one piece of advice or two.
LEMMA Advised == \A id : DOMAIN Advice(id) = 1 .. 1 \/ DOMAIN Advice(id) = 1 .. 2
<1> SUFFICES ASSUME NEW id PROVE DOMAIN Advice(id) = 1 .. 1 \/ DOMAIN Advice(id) = 1 .. 2
  OBVIOUS
<1>1. \A x, y : DOMAIN <<x>> = 1 .. 1 /\ DOMAIN <<x, y>> = 1 .. 2
  OBVIOUS
<1>2. CASE id = "wallet_age"
  BY <1>2 DEF Advice
<1>3. CASE id = "high_risk_interactions"
  BY <1>3 DEF Advice
<1>4. CASE id = "transaction_volume"
  BY <1>4 DEF Advice
<1>5. CASE id = "average_transaction_size"
  BY <1>5 DEF Advice
<1>6. CASE id \notin {"wallet_age", "high_risk_interactions", "transaction_volume",
                      "average_transaction_size"}
  BY <1>6 DEF Advice
<1> QED
  BY <1>2, <1>3, <1>4, <1>5, <1>6

\* A score above 60 has a factor to review.
LEMMA RecommendationsAre ==
    ASSUME NEW p \in AllProfiles, Score(p) > 60, NEW level \in {"HIGH", "CRITICAL"},
           NEW advice, advice = GenerateRecommendations(CalculateRiskFactors(p), level)
    PROVE  /\ level = "HIGH" => Len(advice) > 1
           /\ level = "CRITICAL" => Len(advice) > 2
<1> DEFINE factors == CalculateRiskFactors(p)
           kept == {i \in DOMAIN factors : factors[i].contribution >= 60}
           key == [i \in DOMAIN factors |-> -factors[i].contribution]
           high == HighRiskFactors(factors)
           arrays == [n \in DOMAIN high |-> Advice(high[n].id)]
           N == Cardinality(kept)
           last == IF level = "CRITICAL" THEN <<"manual_review", "consider_rejecting">>
                   ELSE <<"due_diligence_recommended">>
<1>1. /\ Factors(p) \in {5, 6} /\ DOMAIN factors = 1 .. Factors(p)
      /\ \A n \in 1 .. Factors(p) :
            /\ factors[n].contribution = Contributions(p)[n]
            /\ factors[n].contribution \in 0 .. 100
  <2>1. /\ Factors(p) \in {5, 6} /\ DOMAIN factors = 1 .. Factors(p)
        /\ \A n \in 1 .. 6 : Contributions(p)[n] \in 0 .. 100
        /\ \A n \in 1 .. Factors(p) : factors[n].contribution = Contributions(p)[n]
    BY FactorsAre
  <2>2. \A n \in 1 .. Factors(p) : n \in 1 .. 6
    BY <2>1
  <2> HIDE DEF factors
  <2> QED
    BY <2>1, <2>2
<1>2. \E n \in 1 .. Factors(p) : Contributions(p)[n] >= 60
  <2>1. p.observed \in BOOLEAN /\ \A n \in 1 .. 6 : Contributions(p)[n] \in 0 .. 100
    BY FactorsAre DEF AllProfiles
  <2>2. Mean(Contributions(p), p.observed) > 60
    BY ScoreIs DEF Score
  <2>3. \E n \in 1 .. (IF p.observed THEN 6 ELSE 5) : Contributions(p)[n] >= 60
    BY <2>1, <2>2, MeanRises
  <2> QED
    BY <2>3, Zenon DEF Factors
<1>3. high = Sorted(factors, kept, key)
  BY DEF HighRiskFactors
<1> HIDE DEF factors
<1>4. /\ kept \in SUBSET (1 .. Factors(p)) /\ kept \in SUBSET Nat /\ kept # {}
      /\ Keys(key, kept)
  <2>1. kept \in SUBSET (1 .. Factors(p)) /\ kept \in SUBSET Nat
    BY <1>1
  <2> PICK n \in 1 .. Factors(p) : Contributions(p)[n] >= 60
    BY <1>2
  <2>2. n \in kept
    BY <1>1
  <2>3. ASSUME NEW i \in kept PROVE key[i] \in Int
    <3>1. i \in 1 .. Factors(p) /\ i \in DOMAIN factors
      BY <1>1
    <3>2. PICK c \in 0 .. 100 : factors[i].contribution = c
      BY <1>1, <3>1
    <3>3. key[i] = -c
      BY <3>1, <3>2
    <3> HIDE DEF key
    <3> QED
      BY <3>2, <3>3
  <2> HIDE DEF kept, key
  <2> QED
    BY <2>1, <2>2, <2>3 DEF Keys
<1> HIDE DEF kept, key, high
<1>5. IsFiniteSet(kept) /\ N \in Nat /\ N # 0
  <2>1. Factors(p) \in Nat
    BY <1>1
  <2>2. IsFiniteSet(1 .. Factors(p))
    BY <2>1, Intervals
  <2>3. IsFiniteSet(kept)
    BY <1>4, <2>2, FS_Subset
  <2> QED
    BY <1>4, <2>3, FS_CardinalityType, FS_EmptySet
<1>6. DOMAIN high = 1 .. N
  <2> PICK list : list = InOrder(kept, ByKey(kept, key))
    OBVIOUS
  <2>1. DOMAIN high = DOMAIN list /\ Lists(list, kept, ByKey(kept, key))
    BY <1>3, <1>4, <1>5, SortedAre
  <2> QED
    BY <2>1 DEF Lists
<1> HIDE DEF N
<1>7. /\ DOMAIN arrays = 1 .. N
      /\ \A n \in 1 .. N : DOMAIN arrays[n] \in SUBSET (1 .. 2) /\ DOMAIN arrays[n] # {}
  <2>1. /\ DOMAIN arrays = 1 .. N /\ \A n \in 1 .. N : arrays[n] = Advice(high[n].id)
    BY <1>6
  <2>2. \A x : DOMAIN Advice(x) \in SUBSET (1 .. 2) /\ DOMAIN Advice(x) # {}
    BY Advised
  <2> HIDE DEF arrays
  <2> QED
    BY <2>1, <2>2
<1>8. advice = Flat(arrays) \o last
  <2>1. advice = Flat(arrays)
           \o CASE level = "CRITICAL" -> <<"manual_review", "consider_rejecting">>
                [] level = "HIGH"     -> <<"due_diligence_recommended">>
                [] OTHER              -> <<>>
    BY DEF GenerateRecommendations, factors, high
  <2>2. last = CASE level = "CRITICAL" -> <<"manual_review", "consider_rejecting">>
                 [] level = "HIGH"     -> <<"due_diligence_recommended">>
                 [] OTHER              -> <<>>
    <3>1. CASE level = "CRITICAL"
      BY <3>1
    <3>2. CASE level = "HIGH"
      BY <3>2
    <3> QED
      BY <3>1, <3>2
  <2> HIDE DEF last, arrays
  <2> QED
    BY <2>1, <2>2
<1> DEFINE U == {"manual_review", "consider_rejecting", "due_diligence_recommended"}
<1>9. last \in Seq(U) /\ Len(last) = IF level = "CRITICAL" THEN 2 ELSE 1
  <2>1. \A x, y \in U : /\ <<x>> \in Seq(U) /\ Len(<<x>>) = 1
                            /\ <<x, y>> \in Seq(U) /\ Len(<<x, y>>) = 2
    OBVIOUS
  <2>2. /\ "manual_review" \in U /\ "consider_rejecting" \in U
        /\ "due_diligence_recommended" \in U
    OBVIOUS
  <2> HIDE DEF U
  <2>3. CASE level = "CRITICAL"
    <3>1. last = <<"manual_review", "consider_rejecting">>
      BY <2>3
    <3> HIDE DEF last
    <3>2. last \in Seq(U) /\ Len(last) = 2
      BY <2>1, <2>2, <3>1, Zenon
    <3> QED
      BY <2>3, <3>2
  <2>4. CASE level = "HIGH"
    <3>1. last = <<"due_diligence_recommended">> /\ level # "CRITICAL"
      BY <2>4
    <3> HIDE DEF last
    <3>2. last \in Seq(U) /\ Len(last) = 1
      BY <2>1, <2>2, <3>1, Zenon
    <3> QED
      BY <3>1, <3>2
  <2> QED
    BY <2>3, <2>4
<1> HIDE DEF arrays, last, U
<1>10. PICK S : Flat(arrays) \in Seq(S) /\ Len(Flat(arrays)) >= 1
  <2>1. 2 \in Nat /\ 1 \in 1 .. N
    BY <1>5
  <2> QED
    BY <1>5, <1>7, <2>1, FlatIs
<1>11. Len(advice) = Len(Flat(arrays)) + Len(last)
  <2> DEFINE T == S \cup U
             flat == Flat(arrays)
  <2> HIDE DEF flat
  <2>1. flat \in Seq(T) /\ last \in Seq(T)
    BY <1>9, <1>10 DEF flat
  <2> HIDE DEF T
  <2>2. Len(flat \o last) = Len(flat) + Len(last)
    BY <2>1, ConcatProperties
  <2> QED
    BY <1>8, <2>2 DEF flat
<1>12. Len(Flat(arrays)) \in Nat
  BY <1>10
<1> QED
  BY <1>9, <1>10, <1>11, <1>12

\* A made up profile is nowhere graded high enough for a score above 60.
LEMMA MockScores ==
    ASSUME NEW p \in AllProfiles, IsMockProfile(p)
    PROVE  Score(p) <= 60
<1> DEFINE c == Contributions(p)
<1>1. /\ p.age \in Nat /\ p.volume \in Nat /\ p.count \in Nat /\ p.interactions \in Nat
      /\ p.average \in Nat
  BY DEF AllProfiles
<1>2. /\ p.age >= 30 /\ p.count \in 100 .. 5099 /\ p.volume < 10000
      /\ p.average = p.volume \div p.count /\ p.interactions \in 0 .. 9 /\ p.observed
  BY DEF IsMockProfile
<1>3. p.count \in Nat /\ p.count >= 100 /\ p.count <= 5099
  <2> DEFINE n == p.count
  <2>1. n \in 100 .. 5099
    BY DEF IsMockProfile
  <2> HIDE DEF c, n
  <2>2. n \in Nat /\ n >= 100 /\ n <= 5099
    BY <2>1
  <2> QED
    BY <2>2 DEF n
<1>4. p.average <= 99
  <2>1. ASSUME NEW v \in Nat, NEW n \in Nat, v < 10000, n >= 100 PROVE v \div n <= 99
    <3>1. v \div n \in Nat /\ n * (v \div n) <= v
      BY <2>1
    <3> DEFINE q == v \div n
    <3> HIDE DEF q
    <3>2. q >= 100 => n * q >= 10000
      BY <2>1, <3>1 DEF q
    <3> QED
      BY <2>1, <3>1, <3>2 DEF q
  <2> QED
    BY <1>1, <1>2, <1>3, <2>1
<1>5. \A n \in 1 .. 6 : c[n] \in 0 .. 100
  BY FactorsAre
<1>6. WalletAge(p.age) <= 50
  BY <1>1, <1>2, Scales, MockGrades
<1>7. TransactionVolume(p.volume) <= 30
  <2>1. p.volume <= 9999 /\ 9999 \in Nat
    BY <1>1, <1>2
  <2> QED
    BY <1>1, <2>1, Scales, MockGrades
<1>8. TransactionCount(p.count) <= 60
  <2>1. 5099 \in Nat
    OBVIOUS
  <2> QED
    BY <1>3, <2>1, Scales, MockGrades
<1>9. HighRiskInteractions(p.interactions) <= 40
  <2>1. p.interactions <= 9 /\ 9 \in Nat
    BY <1>2
  <2> QED
    BY <1>1, <2>1, Scales, MockGrades
<1>10. AverageTransactionSize(p.average) <= 10
  <2>1. 99 \in Nat
    OBVIOUS
  <2> QED
    BY <1>1, <1>4, <2>1, Scales, MockGrades
<1>11. c[1] <= 50 /\ c[2] <= 30 /\ c[3] <= 60 /\ c[4] <= 40 /\ c[5] <= 10
  BY <1>6, <1>7, <1>8, <1>9, <1>10 DEF Contributions
<1>12. PICK c1 \in 0 .. 100, c2 \in 0 .. 100, c3 \in 0 .. 100, c4 \in 0 .. 100,
            c5 \in 0 .. 100, c6 \in 0 .. 100 :
              /\ c[1] = c1 /\ c[2] = c2 /\ c[3] = c3 /\ c[4] = c4 /\ c[5] = c5 /\ c[6] = c6
  <2>1. /\ c[1] \in 0 .. 100 /\ c[2] \in 0 .. 100 /\ c[3] \in 0 .. 100
        /\ c[4] \in 0 .. 100 /\ c[5] \in 0 .. 100 /\ c[6] \in 0 .. 100
    BY <1>5
  <2> HIDE DEF c
  <2> QED
    BY <2>1, Zenon
<1> DEFINE total == 15 * c1 + 20 * c2 + 15 * c3 + 25 * c4 + 15 * c5 + 10 * c6
<1>13. total \in Nat /\ total <= 4400
  <2>1. c1 <= 50 /\ c2 <= 30 /\ c3 <= 60 /\ c4 <= 40 /\ c5 <= 10
    <3> HIDE DEF c
    <3> QED
      BY <1>11, <1>12
  <2> QED
    BY <2>1
<1>14. Score(p) = (2 * total + 100) \div 200
  <2>1. Score(p) = Mean(c, p.observed)
    BY ScoreIs, Zenon DEF Score
  <2> HIDE DEF c
  <2>2. ASSUME NEW six, six PROVE Weighted(c, six) = total
    BY <1>12, <2>2 DEF Weighted
  <2> DEFINE Rounded(sum) == (2 * sum + 100) \div 200
  <2>3. ASSUME NEW six, six PROVE Mean(c, six) = Rounded(Weighted(c, six))
    BY <2>3 DEF Mean
  <2>4. p.observed
    BY <1>2
  <2> HIDE DEF total, Rounded
  <2>5. Score(p) = Rounded(total)
    BY <2>1, <2>2, <2>3, <2>4, Zenon
  <2> QED
    BY <2>5 DEF Rounded
<1> HIDE DEF total
<1> QED
  BY <1>13, <1>14
------------------------------------------------------------------------------
(* Assessments                                                               *)

\* The thresholds are numbers, and a result is what they give.
RiskInv ==
    /\ riskThresholds \in [lowMax : Int, mediumMax : Int]
    /\ returned.call = "assessRisk" =>
          /\ returned.profile \in Profiles
          /\ returned.result = AssessRisk(returned.profile, riskThresholds)

LEMMA RiskInitially == Init => RiskInv
  BY DEF Init, AssessmentInit, Nothing, DefaultThresholds, RiskInv

\* The thresholds are set only after the result was taken note of.
LEMMA RiskStep == RiskInv /\ [Next]_vars => RiskInv'
<1> SUFFICES ASSUME RiskInv, [Next]_vars PROVE RiskInv'
  OBVIOUS
<1>1. CASE UNCHANGED <<riskThresholds, returned>>
  BY <1>1 DEF RiskInv
<1>2. ASSUME NEW profile \in Profiles, Assess(profile) PROVE RiskInv'
  <2> DEFINE result == AssessRisk(profile, riskThresholds)
  <2>1. /\ returned' = [call |-> "assessRisk", profile |-> profile, result |-> result]
        /\ riskThresholds' = riskThresholds
    BY <1>2 DEF Assess
  <2> HIDE DEF result
  <2>2. returned'.profile = profile /\ returned'.result = result
    BY <2>1
  <2>3. returned'.result = AssessRisk(returned.profile, riskThresholds)'
    BY <2>1, <2>2 DEF result
  <2> QED
    BY <2>1, <2>2, <2>3 DEF RiskInv
<1>3. ASSUME NEW id, NEW user, EvaluateUser(id, user) PROVE RiskInv'
  <2>1. returned'.call = "evaluateTemplate" /\ riskThresholds' = riskThresholds
    BY <1>3 DEF EvaluateUser
  <2> QED
    BY <2>1 DEF RiskInv
<1>4. CASE Configure
  <2>1. returned' = returned /\ returned.call = "none"
    BY <1>4 DEF Configure, Nothing
  <2>2. riskThresholds' \in [lowMax : Int, mediumMax : Int]
    BY <1>4, ThresholdsAreNumbers DEF Configure, SetThresholds, RiskInv
  <2> QED
    BY <2>1, <2>2 DEF RiskInv
<1>5. CASE Proceed
  BY <1>5 DEF RiskInv, Proceed, Nothing
<1> QED
  BY <1>1, <1>2, <1>3, <1>4, <1>5 DEF Next, AssessmentNext, assessmentVars, vars

\* Assessments: a profile that is worse in every respect scores no less and has no lower
\* level, for all thresholds; with the default ones the level agrees with the
\* recommendations and with the risk rules of the default templates, and a profile the
\* engine made up is never high (engine.ts:28-60, 180-346; registry.ts:130-190).
THEOREM RiskierScoresNoLess == Spec => []RiskierNeverScoresLess
<1>1. RiskInv => RiskierNeverScoresLess
  <2> SUFFICES ASSUME RiskInv, returned.call = "assessRisk" PROVE RiskierNeverScoresLess
    BY DEF RiskierNeverScoresLess
  <2> DEFINE better == returned.profile
             given == returned.result
             factors == CalculateRiskFactors(better)
  <2>1. /\ better \in Profiles /\ given = AssessRisk(better, riskThresholds)
        /\ riskThresholds \in [lowMax : Int, mediumMax : Int]
    BY DEF RiskInv
  <2>2. Profiles \subseteq AllProfiles
    BY ProfilesAreProfiles DEF AllProfiles
  <2>3. ASSUME NEW p, NEW thresholds
        PROVE  /\ AssessRisk(p, thresholds).score = Score(p)
               /\ AssessRisk(p, thresholds).level = DetermineRiskLevel(Score(p), thresholds)
               /\ AssessRisk(p, thresholds).recommendations =
                     GenerateRecommendations(CalculateRiskFactors(p),
                                             DetermineRiskLevel(Score(p), thresholds))
    BY DEF AssessRisk, Score
  <2>4. Score(better) \in Nat
    <3>1. better \in AllProfiles
      BY <2>1, <2>2
    <3> QED
      BY <3>1, FactorsAre, MeanRises, ScoreIs DEF Score, AllProfiles
  <2>5. ASSUME NEW worse \in Profiles,
               worse.observed = better.observed, worse.patterns = better.patterns,
               worse.age <= better.age, worse.volume >= better.volume,
               worse.count >= better.count, worse.average >= better.average,
               worse.interactions >= better.interactions,
               NEW result, result = AssessRisk(worse, riskThresholds)
        PROVE  result.score >= given.score /\ Rank(result.level) >= Rank(given.level)
    <3>1. better \in AllProfiles /\ worse \in AllProfiles
      BY <2>1, <2>2
    <3>2. /\ Score(better) \in Nat /\ Score(worse) \in Nat /\ Score(better) <= Score(worse)
      BY <2>5, <3>1, WorseScores
    <3>3. Rank(DetermineRiskLevel(Score(better), riskThresholds))
             <= Rank(DetermineRiskLevel(Score(worse), riskThresholds))
      BY <2>1, <3>2, LevelsRise
    <3>4. Rank(given.level) \in Int /\ Rank(result.level) \in Int
      BY DEF Rank
    <3>5. /\ given.score = Score(better) /\ result.score = Score(worse)
          /\ given.level = DetermineRiskLevel(Score(better), riskThresholds)
          /\ result.level = DetermineRiskLevel(Score(worse), riskThresholds)
      BY <2>1, <2>3, <2>5
    <3> HIDE DEF better, given
    <3>6. Rank(given.level) <= Rank(result.level)
      BY <3>3, <3>5, Zenon
    <3> QED
      BY <3>2, <3>4, <3>5, <3>6
  <2>6. ASSUME riskThresholds = DefaultThresholds
        PROVE  /\ given.level = "HIGH" => Len(given.recommendations) > 1
               /\ given.level = "CRITICAL" => Len(given.recommendations) > 2
               /\ \A r \in (DOMAIN DefaultTemplates) \X (1 .. 5) :
                     /\ r[2] \in DOMAIN DefaultTemplates[r[1]]
                     /\ DefaultTemplates[r[1]][r[2]].type = "RISK_THRESHOLD"
                     => /\ given.level = "LOW" =>
                              ~(given.score > DefaultTemplates[r[1]][r[2]].number)
                        /\ given.level \in {"HIGH", "CRITICAL"} =>
                              given.score > DefaultTemplates[r[1]][r[2]].number
               /\ IsMockProfile(better) => given.level \in {"LOW", "MEDIUM"}
    <3>1. /\ given.score = Score(better)
          /\ given.level = DetermineRiskLevel(Score(better), DefaultThresholds)
          /\ given.recommendations = GenerateRecommendations(factors, given.level)
      BY <2>1, <2>3, <2>6
    <3>2. better \in AllProfiles
      BY <2>1, <2>2
    <3>3. /\ given.level = "LOW" => Score(better) <= 30
          /\ given.level \in {"HIGH", "CRITICAL"} => Score(better) > 60
          /\ Score(better) <= 60 => given.level \in {"LOW", "MEDIUM"}
      BY <2>4, <3>1, DefaultLevels
    <3>4. ASSUME given.level \in {"HIGH", "CRITICAL"}
          PROVE  /\ given.level = "HIGH" => Len(given.recommendations) > 1
                 /\ given.level = "CRITICAL" => Len(given.recommendations) > 2
      BY <3>1, <3>2, <3>3, <3>4, RecommendationsAre
    <3>5. ASSUME NEW r \in (DOMAIN DefaultTemplates) \X (1 .. 5),
                 r[2] \in DOMAIN DefaultTemplates[r[1]],
                 DefaultTemplates[r[1]][r[2]].type = "RISK_THRESHOLD"
          PROVE  /\ given.level = "LOW" =>
                       ~(given.score > DefaultTemplates[r[1]][r[2]].number)
                 /\ given.level \in {"HIGH", "CRITICAL"} =>
                       given.score > DefaultTemplates[r[1]][r[2]].number
      <4>1. r[1] \in DOMAIN DefaultTemplates
        OBVIOUS
      <4>2. DefaultTemplates[r[1]][r[2]].number \in {40, 50}
        BY <3>5, <4>1, RiskRulesAre
      <4> HIDE DEF given, better
      <4> QED
        BY <2>4, <3>1, <3>3, <4>2
    <3>6. IsMockProfile(better) => given.level \in {"LOW", "MEDIUM"}
      BY <3>2, <3>3, MockScores
    <3> HIDE DEF given, better
    <3> QED
      BY <3>4, <3>5, <3>6
  <2> HIDE DEF factors
  <2> QED
    BY <2>5, <2>6 DEF RiskierNeverScoresLess
<1> QED
  BY <1>1, RiskInitially, RiskStep, PTL DEF Spec
------------------------------------------------------------------------------
(* Heights and paths                                                         *)

LEMMA TwoTos ==
    /\ TwoTo[0] = 1 /\ \A n \in 0 .. Depth : TwoTo[n] \in Nat /\ TwoTo[n] >= 1
    /\ \A n \in 1 .. Depth : TwoTo[n] = 2 * TwoTo[n - 1]
<1> DEFINE step == [x \in Nat |-> 2 * x]
           Correct == {n \in Nat : n <= Depth => TwoTo[n] \in Nat /\ TwoTo[n] >= 1}
<1>1. Depth \in Nat /\ 0 \in 0 .. Depth
  BY DepthIsPositive
<1>2. PICK f \in [0 .. Depth -> Nat] : Unfolds(f, 1, step, Depth)
  <2>1. step \in [Nat -> Nat] /\ 1 \in Nat
    OBVIOUS
  <2> HIDE DEF step
  <2> QED
    BY <1>1, <2>1, Recursion
<1>3. f = [n \in 0 .. Depth |-> IF n = 0 THEN 1 ELSE 2 * f[n - 1]]
  <2>1. \A v \in Nat : step[v] = 2 * v
    OBVIOUS
  <2>2. \A n \in 0 .. Depth : n # 0 => f[n - 1] \in Nat
    BY <1>1
  <2> HIDE DEF step
  <2>3. f = [n \in 0 .. Depth |-> IF n = 0 THEN 1 ELSE step[f[n - 1]]]
    BY <1>2 DEF Unfolds
  <2> QED
    BY <2>1, <2>2, <2>3
<1>4. TwoTo = [n \in 0 .. Depth |-> IF n = 0 THEN 1 ELSE 2 * TwoTo[n - 1]]
  BY <1>3 DEF TwoTo
<1>5. TwoTo[0] = 1 /\ \A n \in 1 .. Depth : TwoTo[n] = 2 * TwoTo[n - 1]
  <2>1. \A n \in 0 .. Depth : TwoTo[n] = IF n = 0 THEN 1 ELSE 2 * TwoTo[n - 1]
    BY <1>4
  <2>2. \A n \in 1 .. Depth : n \in 0 .. Depth /\ n # 0
    BY <1>1
  <2> QED
    BY <1>1, <2>1, <2>2
<1>6. \A n \in Nat : n \in Correct
  <2>1. 0 \in Correct
    BY <1>5
  <2>2. ASSUME NEW n \in Nat, n \in Correct PROVE n + 1 \in Correct
    BY <1>1, <1>5, <2>2
  <2> HIDE DEF Correct
  <2> QED
    BY <2>1, <2>2, Naturally
<1> QED
  BY <1>1, <1>5, <1>6

\* The nodes below a node, and the one node at the top.
LEMMA Levels ==
    /\ Nodes(Depth) = {0}
    /\ \A level \in 0 .. Depth : \A i \in Nodes(level) : i \in Nat
    /\ \A level \in 1 .. Depth : \A i \in Nodes(level) :
          2 * i \in Nodes(level - 1) /\ 2 * i + 1 \in Nodes(level - 1)
    /\ \A level \in 1 .. Depth : \A j \in Nodes(level - 1) : j \div 2 \in Nodes(level)
<1>1. Depth \in Nat /\ TwoTo[0] = 1 /\ (\A n \in 0 .. Depth : TwoTo[n] \in Nat)
      /\ \A n \in 1 .. Depth : TwoTo[n] = 2 * TwoTo[n - 1]
  BY TwoTos, DepthIsPositive
<1>2. Nodes(Depth) = {0}
  <2>1. Depth - Depth = 0
    BY <1>1
  <2>2. Nodes(Depth) = 0 .. 1 - 1
    BY <1>1, <2>1 DEF Nodes
  <2> QED
    BY <2>2
<1>3. ASSUME NEW level \in 0 .. Depth, NEW i \in Nodes(level) PROVE i \in Nat
  BY DEF Nodes
<1>4. ASSUME NEW level \in 1 .. Depth
      PROVE  /\ TwoTo[Depth - level] \in Nat
             /\ TwoTo[Depth - (level - 1)] = 2 * TwoTo[Depth - level]
  <2>1. Depth - level \in 0 .. Depth /\ Depth - level + 1 \in 1 .. Depth
        /\ Depth - (level - 1) = Depth - level + 1 /\ Depth - level + 1 - 1 = Depth - level
    BY <1>1
  <2> QED
    BY <1>1, <2>1
<1>5. ASSUME NEW level \in 1 .. Depth, NEW i \in Nodes(level)
      PROVE  2 * i \in Nodes(level - 1) /\ 2 * i + 1 \in Nodes(level - 1)
  BY <1>4 DEF Nodes
<1>6. ASSUME NEW level \in 1 .. Depth, NEW j \in Nodes(level - 1) PROVE j \div 2 \in Nodes(level)
  BY <1>4 DEF Nodes
<1> QED
  BY <1>2, <1>3, <1>5, <1>6

\* From a leaf up to the top, halving the index.
Climbs(path, index) ==
    /\ path[0] = index
    /\ \A level \in 1 .. Depth : path[level] = path[level - 1] \div 2
    /\ \A level \in 0 .. Depth : path[level] \in Nodes(level)

LEMMA Paths == ASSUME NEW index \in Nodes(0) PROVE Climbs(Path(index), index)
<1> DEFINE step == [x \in Nat |-> x \div 2]
           path == Path(index)
           Correct == {n \in Nat : n <= Depth => path[n] \in Nodes(n)}
<1>1. Depth \in Nat /\ 0 \in 0 .. Depth /\ index \in Nat
  BY Levels, DepthIsPositive
<1>2. PICK f \in [0 .. Depth -> Nat] : Unfolds(f, index, step, Depth)
  <2>1. step \in [Nat -> Nat]
    OBVIOUS
  <2> HIDE DEF step
  <2> QED
    BY <1>1, <2>1, Recursion
<1>3. f = [n \in 0 .. Depth |-> IF n = 0 THEN index ELSE f[n - 1] \div 2]
  <2>1. \A v \in Nat : step[v] = v \div 2
    OBVIOUS
  <2>2. \A n \in 0 .. Depth : n # 0 => f[n - 1] \in Nat
    BY <1>1
  <2> HIDE DEF step
  <2>3. f = [n \in 0 .. Depth |-> IF n = 0 THEN index ELSE step[f[n - 1]]]
    BY <1>2 DEF Unfolds
  <2> QED
    BY <2>1, <2>2, <2>3
<1>4. path = [n \in 0 .. Depth |-> IF n = 0 THEN index ELSE path[n - 1] \div 2]
  BY <1>3 DEF Path
<1> HIDE DEF path
<1>5. path[0] = index /\ \A n \in 1 .. Depth : path[n] = path[n - 1] \div 2
  <2>1. \A n \in 0 .. Depth : path[n] = IF n = 0 THEN index ELSE path[n - 1] \div 2
    BY <1>4
  <2>2. \A n \in 1 .. Depth : n \in 0 .. Depth /\ n # 0
    BY <1>1
  <2> QED
    BY <1>1, <2>1, <2>2
<1>6. \A n \in Nat : n \in Correct
  <2>1. 0 \in Correct
    BY <1>5
  <2>2. ASSUME NEW n \in Nat, n \in Correct PROVE n + 1 \in Correct
    <3> SUFFICES ASSUME n + 1 <= Depth PROVE path[n + 1] \in Nodes(n + 1)
      OBVIOUS
    <3>1. n + 1 \in 1 .. Depth /\ n + 1 - 1 = n /\ path[n] \in Nodes(n)
      BY <1>1, <2>2
    <3> QED
      BY <1>5, <3>1, Levels
  <2> HIDE DEF Correct
  <2> QED
    BY <2>1, <2>2, Naturally
<1>7. \A n \in 0 .. Depth : path[n] \in Nodes(n)
  BY <1>1, <1>6
<1> QED
  BY <1>5, <1>7 DEF Climbs, path

\* The zero value of a level is hashed from the one below with itself.
LEMMA ZeroValues ==
    /\ zeroValues[0] = <<"0">>
    /\ \A n \in 1 .. Depth - 1 : zeroValues[n] = <<zeroValues[n - 1], zeroValues[n - 1]>>
<1> DEFINE At(f, n) == IF n = 0 THEN <<"0">> ELSE <<f[n - 1], f[n - 1]>>
           Solves(f, n) == DOMAIN f = 0 .. n /\ \A k \in 0 .. n : f[k] = At(f, k)
           Solved == {n \in Nat : \E f : Solves(f, n)}
           top == Depth - 1
<1>1. top \in Nat
  BY DepthIsPositive
<1>2. 0 \in Solved
  <2>1. Solves([k \in 0 .. 0 |-> <<"0">>], 0)
    OBVIOUS
  <2> HIDE DEF Solves
  <2> QED
    BY <2>1
<1>3. ASSUME NEW n \in Nat, n \in Solved PROVE n + 1 \in Solved
  <2>1. PICK f : Solves(f, n)
    <3> HIDE DEF Solves
    <3> QED
      BY <1>3
  <2> DEFINE g == [k \in 0 .. n + 1 |-> IF k = n + 1 THEN <<f[n], f[n]>> ELSE f[k]]
  <2>2. ASSUME NEW k \in 0 .. n + 1 PROVE g[k] = At(g, k)
    <3>1. CASE k = n + 1
      BY <3>1
    <3>2. CASE k \in 0 .. n
      BY <2>1, <3>2
    <3> QED
      BY <3>1, <3>2
  <2>3. Solves(g, n + 1)
    BY <2>2
  <2> HIDE DEF Solves
  <2> QED
    BY <2>3
<1>4. PICK f : Solves(f, top)
  <2> HIDE DEF Solved, top
  <2>1. top \in Solved
    BY <1>1, <1>2, <1>3, Naturally
  <2> HIDE DEF Solves
  <2> QED
    BY <2>1 DEF Solved
<1>5. \E h : h = [i \in 0 .. Depth - 1 |-> IF i = 0 THEN <<"0">> ELSE Hash(h[i - 1], h[i - 1])]
  <2> DEFINE h == [i \in 0 .. Depth - 1 |-> f[i]]
  <2>1. h = [i \in 0 .. Depth - 1 |-> IF i = 0 THEN <<"0">> ELSE Hash(h[i - 1], h[i - 1])]
    <3>1. ASSUME NEW i \in 0 .. Depth - 1
          PROVE  f[i] = IF i = 0 THEN <<"0">> ELSE Hash(h[i - 1], h[i - 1])
      <4>1. i # 0 => i - 1 \in 0 .. Depth - 1
        BY <1>1
      <4>2. i # 0 => h[i - 1] = f[i - 1]
        BY <4>1
      <4>3. f[i] = At(f, i)
        BY <1>4
      <4> HIDE DEF h
      <4> QED
        BY <4>2, <4>3 DEF Hash
    <3> QED
      BY <3>1, Zenon
  <2> QED
    BY <2>1, Zenon
<1>6. zeroValues = [i \in 0 .. Depth - 1 |->
                       IF i = 0 THEN <<"0">> ELSE Hash(zeroValues[i - 1], zeroValues[i - 1])]
  BY <1>5, Zenon DEF zeroValues
<1>7. \A n \in 0 .. Depth - 1 :
         zeroValues[n] = IF n = 0 THEN <<"0">> ELSE Hash(zeroValues[n - 1], zeroValues[n - 1])
  BY <1>6, Zenon
<1>8. 0 \in 0 .. Depth - 1 /\ \A n \in 1 .. Depth - 1 : n \in 0 .. Depth - 1 /\ n # 0
  BY <1>1
<1> QED
  BY <1>7, <1>8 DEF Hash

\* What is hashed on the way up: with a neighbour of each level, on one side or the other.
Hashed(f, x, right, other) ==
    \A n \in 0 .. Depth :
       f[n] = IF n = 0 THEN x
              ELSE IF right[n] THEN <<f[n - 1], other[n]>> ELSE <<other[n], f[n - 1]>>

LEMMA Hashes ==
    ASSUME NEW x, NEW right, NEW other
    PROVE  \E f : DOMAIN f = 0 .. Depth /\ Hashed(f, x, right, other)
<1> DEFINE At(f, n) == IF n = 0 THEN x
                       ELSE IF right[n] THEN <<f[n - 1], other[n]>> ELSE <<other[n], f[n - 1]>>
           Solves(f, n) == DOMAIN f = 0 .. n /\ \A k \in 0 .. n : f[k] = At(f, k)
           Solved == {n \in Nat : \E f : Solves(f, n)}
<1>1. 0 \in Solved
  <2>1. Solves([k \in 0 .. 0 |-> x], 0)
    OBVIOUS
  <2> HIDE DEF Solves
  <2> QED
    BY <2>1
<1>2. ASSUME NEW n \in Nat, n \in Solved PROVE n + 1 \in Solved
  <2>1. PICK f : Solves(f, n)
    <3> HIDE DEF Solves
    <3> QED
      BY <1>2
  <2> DEFINE v == IF right[n + 1] THEN <<f[n], other[n + 1]>> ELSE <<other[n + 1], f[n]>>
             g == [k \in 0 .. n + 1 |-> IF k = n + 1 THEN v ELSE f[k]]
  <2>2. ASSUME NEW k \in 0 .. n + 1 PROVE g[k] = At(g, k)
    <3>1. CASE k = n + 1
      <4>1. k # 0 /\ k - 1 = n /\ n \in 0 .. n + 1 /\ n # n + 1
        BY <3>1
      <4>2. g[k] = v /\ g[k - 1] = f[n]
        BY <3>1, <4>1
      <4>3. v = IF right[k] THEN <<f[n], other[k]>> ELSE <<other[k], f[n]>>
        BY <3>1
      <4> HIDE DEF g, v
      <4> QED
        BY <4>1, <4>2, <4>3
    <3>2. CASE k \in 0 .. n
      <4>1. f[k] = At(f, k) /\ g[k] = f[k]
        BY <2>1, <3>2
      <4>2. k # 0 => g[k - 1] = f[k - 1]
        BY <3>2
      <4> HIDE DEF g
      <4> QED
        BY <4>1, <4>2
    <3> QED
      BY <3>1, <3>2
  <2>3. Solves(g, n + 1)
    BY <2>2
  <2> HIDE DEF Solves
  <2> QED
    BY <2>3
<1>3. Depth \in Solved
  <2> HIDE DEF Solved
  <2> QED
    BY <1>1, <1>2, Naturally, DepthIsPositive
<1>4. PICK f : Solves(f, Depth)
  <2> HIDE DEF Solves
  <2> QED
    BY <1>3
<1> QED
  BY <1>4 DEF Hashed

------------------------------------------------------------------------------
(* The tree over the leaves                                                  *)

\* The two nodes that a node of a level is hashed from.
Children(t, level, i) == <<t[level - 1][2 * i], t[level - 1][2 * i + 1]>>

\* updateTree writes the nodes of the path, each hashed from the one it wrote below and
\* that one's sibling.
Writes(node, t, path) ==
    \A level \in 1 .. Depth :
       /\ path[level - 1] % 2 = 0 =>
             node[level] = <<node[level - 1], t[level - 1][path[level - 1] + 1]>>
       /\ path[level - 1] % 2 # 0 =>
             node[level] = <<t[level - 1][path[level - 1] - 1], node[level - 1]>>

LEMMA Updated ==
    ASSUME NEW t, \A level \in 0 .. Depth : DOMAIN t[level] = Nodes(level),
           NEW k \in Nodes(0), NEW value, NEW u, u = UpdateTree(t, k, value)
    PROVE  \E node :
              /\ node[0] = value /\ Writes(node, t, Path(k))
              /\ \A level \in 0 .. Depth : DOMAIN u[level] = Nodes(level)
              /\ \A level \in 0 .. Depth : \A i \in Nodes(level) :
                    u[level][i] = IF i = Path(k)[level] THEN node[level] ELSE t[level][i]
<1> DEFINE path == Path(k)
           At(f, level) ==
              IF level = 0 THEN value
              ELSE LET sibling == t[level - 1][Sibling(path[level - 1])]
                   IN  IF path[level - 1] % 2 = 0 THEN Hash(f[level - 1], sibling)
                                                  ELSE Hash(sibling, f[level - 1])
           node == CHOOSE f : f = [level \in 0 .. Depth |-> At(f, level)]
           right == [n \in 1 .. Depth |-> path[n - 1] % 2 = 0]
           other == [n \in 1 .. Depth |-> t[n - 1][Sibling(path[n - 1])]]
<1>1. Depth \in Nat /\ 0 \in 0 .. Depth
  BY DepthIsPositive
<1>2. PICK f : DOMAIN f = 0 .. Depth /\ Hashed(f, value, right, other)
  <2> HIDE DEF right, other
  <2> QED
    BY Hashes
<1>3. \E h : h = [level \in 0 .. Depth |-> At(h, level)]
  <2> DEFINE h == [level \in 0 .. Depth |-> f[level]]
  <2>1. ASSUME NEW level \in 0 .. Depth PROVE f[level] = At(h, level)
    <3>1. CASE level = 0
      BY <1>2, <3>1 DEF Hashed
    <3>2. CASE level # 0
      <4>1. level \in 1 .. Depth /\ level - 1 \in 0 .. Depth
        BY <1>1, <3>2
      <4>2. h[level - 1] = f[level - 1]
        BY <4>1
      <4>3. f[level] = IF right[level] THEN <<f[level - 1], other[level]>>
                       ELSE <<other[level], f[level - 1]>>
        <5> HIDE DEF right, other
        <5> QED
          BY <1>2, <3>2 DEF Hashed
      <4>4. right[level] = (path[level - 1] % 2 = 0)
            /\ other[level] = t[level - 1][Sibling(path[level - 1])]
        BY <4>1, Zenon
      <4> HIDE DEF right, other, h
      <4> QED
        BY <3>2, <4>2, <4>3, <4>4 DEF Hash
    <3> QED
      BY <3>1, <3>2
  <2>2. h = [level \in 0 .. Depth |-> At(h, level)]
    BY <2>1, Zenon
  <2> QED
    BY <2>2, Zenon
<1>4. node = [level \in 0 .. Depth |-> At(node, level)]
  <2> HIDE DEF At
  <2> QED
    BY <1>3, Zenon
<1>5. u = [level \in 0 .. Depth |-> [t[level] EXCEPT ![path[level]] = node[level]]]
  BY Zenon DEF UpdateTree
<1> HIDE DEF node, path
<1>6. \A level \in 0 .. Depth : node[level] = At(node, level)
  <2> HIDE DEF At
  <2> QED
    BY <1>4, Zenon
<1>7. node[0] = value
  BY <1>1, <1>6
<1>8. Writes(node, t, path)
  <2> SUFFICES ASSUME NEW level \in 1 .. Depth
               PROVE  /\ path[level - 1] % 2 = 0 =>
                            node[level] = <<node[level - 1], t[level - 1][path[level - 1] + 1]>>
                      /\ path[level - 1] % 2 # 0 =>
                            node[level] = <<t[level - 1][path[level - 1] - 1], node[level - 1]>>
    BY DEF Writes
  <2>1. level \in 0 .. Depth /\ level # 0
    BY <1>1
  <2>2. node[level] = At(node, level)
    BY <1>6, <2>1
  <2> QED
    BY <2>1, <2>2 DEF Hash, Sibling
<1>9. ASSUME NEW level \in 0 .. Depth
      PROVE  /\ DOMAIN u[level] = Nodes(level)
             /\ \A i \in Nodes(level) :
                   u[level][i] = IF i = path[level] THEN node[level] ELSE t[level][i]
  <2>1. DOMAIN t[level] = Nodes(level) /\ u[level] = [t[level] EXCEPT ![path[level]] = node[level]]
    BY <1>5
  <2> QED
    BY <2>1
<1> QED
  BY <1>7, <1>8, <1>9 DEF path

\* The complete binary tree over the leaves, whose top is only there once it was written.
IsTree(t, s) ==
    /\ \A level \in 0 .. Depth : DOMAIN t[level] = Nodes(level)
    /\ \A i \in Nodes(0) : t[0][i] = IF i < Len(s) THEN s[i + 1] ELSE <<"0">>
    /\ \A level \in 1 .. Depth : \A i \in Nodes(level) :
          level < Depth \/ Len(s) # 0 => t[level][i] = Children(t, level, i)
    /\ Len(s) = 0 => t[Depth][0] = <<>>

LEMMA EmptyIsTree == IsTree(EmptyTree, <<>>)
<1>1. Depth \in Nat /\ Depth # 0 /\ 0 \in 0 .. Depth
  BY DepthIsPositive
<1>2. ASSUME NEW level \in 0 .. Depth
      PROVE  EmptyTree[level] =
                [i \in Nodes(level) |-> IF level < Depth THEN zeroValues[level] ELSE Null]
  BY DEF EmptyTree
<1>3. \A i \in Nodes(0) : EmptyTree[0][i] = <<"0">>
  <2>1. 0 < Depth
    BY <1>1
  <2>2. EmptyTree[0] = [i \in Nodes(0) |-> IF 0 < Depth THEN zeroValues[0] ELSE Null]
    BY <1>1, <1>2, Zenon
  <2> HIDE DEF EmptyTree
  <2>3. \A i \in Nodes(0) : EmptyTree[0][i] = zeroValues[0]
    BY <2>1, <2>2
  <2> QED
    BY <2>3, ZeroValues, Zenon
<1>4. ASSUME NEW level \in 1 .. Depth, NEW i \in Nodes(level), level < Depth
      PROVE  EmptyTree[level][i] = Children(EmptyTree, level, i)
  <2>1. /\ level \in 0 .. Depth /\ level - 1 \in 0 .. Depth /\ level \in 1 .. Depth - 1
        /\ level - 1 < Depth
    BY <1>1, <1>4
  <2>2. 2 * i \in Nodes(level - 1) /\ 2 * i + 1 \in Nodes(level - 1)
    BY Levels
  <2>3. EmptyTree[level][i] = zeroValues[level]
    BY <1>2, <1>4, <2>1
  <2>4. /\ EmptyTree[level - 1][2 * i] = zeroValues[level - 1]
        /\ EmptyTree[level - 1][2 * i + 1] = zeroValues[level - 1]
    BY <1>2, <2>1, <2>2
  <2>5. zeroValues[level] = <<zeroValues[level - 1], zeroValues[level - 1]>>
    BY <2>1, ZeroValues
  <2> QED
    BY <2>3, <2>4, <2>5 DEF Children
<1>5. EmptyTree[Depth][0] = <<>>
  <2>1. Depth \in 0 .. Depth /\ ~(Depth < Depth) /\ 0 \in Nodes(Depth)
    BY <1>1, Levels
  <2> QED
    BY <1>2, <2>1 DEF Null
<1>6. \A level \in 0 .. Depth : DOMAIN EmptyTree[level] = Nodes(level)
  BY <1>2
<1>7. Len(<<>>) = 0
  OBVIOUS
<1> HIDE DEF EmptyTree
<1>8. \A i \in Nodes(0) : ~(i < 0)
  BY DEF Nodes
<1>9. \A i \in Nodes(0) : EmptyTree[0][i] = IF i < Len(<<>>) THEN <<>>[i + 1] ELSE <<"0">>
  BY <1>3, <1>7, <1>8, Zenon
<1> QED
  BY <1>4, <1>5, <1>6, <1>7, <1>9, Zenon DEF IsTree

\* An insertion into a complete tree leaves it complete: what is not on the path is
\* hashed from nodes that did not change.
LEMMA TreeGrows ==
    ASSUME NEW S, NEW s \in Seq(S), NEW value \in S, NEW t, IsTree(t, s),
           Len(s) < TwoTo[Depth], NEW u, u = UpdateTree(t, Len(s), value)
    PROVE  IsTree(u, Append(s, value))
<1> DEFINE k == Len(s)
           path == Path(k)
           longer == Append(s, value)
<1>1. Depth \in Nat /\ Depth # 0 /\ 0 \in 0 .. Depth /\ k \in Nat
  BY DepthIsPositive
<1>2. k \in Nodes(0)
  BY <1>1, TwoTos DEF Nodes
<1>3. Climbs(path, k)
  BY <1>2, Paths
<1>4. PICK node :
         /\ node[0] = value /\ Writes(node, t, path)
         /\ \A level \in 0 .. Depth : DOMAIN u[level] = Nodes(level)
         /\ \A level \in 0 .. Depth : \A i \in Nodes(level) :
               u[level][i] = IF i = path[level] THEN node[level] ELSE t[level][i]
  BY <1>2, Updated DEF IsTree
<1>5. Len(longer) = k + 1 /\ longer[k + 1] = value /\ \A i \in 1 .. k : longer[i] = s[i]
  OBVIOUS
<1> HIDE DEF k, path, longer
<1>6. ASSUME NEW i \in Nodes(0)
      PROVE  u[0][i] = IF i < Len(longer) THEN longer[i + 1] ELSE <<"0">>
  <2>1. i \in Nat /\ path[0] = k /\ u[0][i] = IF i = path[0] THEN node[0] ELSE t[0][i]
    BY <1>1, <1>3, <1>4, Levels DEF Climbs
  <2>2. t[0][i] = IF i < k THEN s[i + 1] ELSE <<"0">>
    BY DEF IsTree, k
  <2>3. CASE i = k
    <3>1. i < Len(longer)
      BY <1>1, <1>5, <2>3
    <3> QED
      BY <1>4, <1>5, <2>1, <2>3, <3>1
  <2>4. CASE i < k
    <3>1. i < Len(longer) /\ i # k /\ i + 1 \in 1 .. k
      BY <1>1, <1>5, <2>1, <2>4
    <3> QED
      BY <1>5, <2>1, <2>2, <2>4, <3>1
  <2>5. CASE i > k
    <3>1. ~(i < Len(longer)) /\ i # k /\ ~(i < k)
      BY <1>1, <1>5, <2>1, <2>5
    <3> QED
      BY <2>1, <2>2, <3>1
  <2> QED
    BY <1>1, <2>1, <2>3, <2>4, <2>5
<1>7. ASSUME NEW level \in 1 .. Depth, NEW i \in Nodes(level)
      PROVE  u[level][i] = Children(u, level, i)
  <2> DEFINE j == path[level - 1]
  <2>1. level \in 0 .. Depth /\ level - 1 \in 0 .. Depth
    BY <1>1
  <2>2. j \in Nodes(level - 1) /\ j \in Nat /\ i \in Nat /\ path[level] = j \div 2
    BY <1>3, <2>1, Levels DEF Climbs
  <2>3. 2 * i \in Nodes(level - 1) /\ 2 * i + 1 \in Nodes(level - 1)
    BY Levels
  <2>4. /\ u[level][i] = IF i = path[level] THEN node[level] ELSE t[level][i]
        /\ u[level - 1][2 * i] = IF 2 * i = j THEN node[level - 1] ELSE t[level - 1][2 * i]
        /\ u[level - 1][2 * i + 1] =
              IF 2 * i + 1 = j THEN node[level - 1] ELSE t[level - 1][2 * i + 1]
    BY <1>4, <2>1, <2>3
  <2>5. /\ j % 2 = 0 => node[level] = <<node[level - 1], t[level - 1][j + 1]>>
        /\ j % 2 # 0 => node[level] = <<t[level - 1][j - 1], node[level - 1]>>
    BY <1>4 DEF Writes
  <2> HIDE DEF j
  <2>6. CASE i = path[level] /\ j % 2 = 0
    <3>1. i = j \div 2 /\ 2 * i = j /\ 2 * i + 1 = j + 1 /\ 2 * i + 1 # j
      BY <2>2, <2>6
    <3> QED
      BY <2>4, <2>5, <2>6, <3>1 DEF Children
  <2>7. CASE i = path[level] /\ j % 2 # 0
    <3>1. i = j \div 2 /\ 2 * i = j - 1 /\ 2 * i + 1 = j /\ 2 * i # j
      BY <2>2, <2>7
    <3> QED
      BY <2>4, <2>5, <2>7, <3>1 DEF Children
  <2>8. CASE i # path[level]
    <3>1. 2 * i # j /\ 2 * i + 1 # j
      BY <2>2, <2>8
    <3>2. level < Depth
      <4>1. (i = 0 /\ path[level] = 0) \/ level # Depth
        BY <1>3, <2>1, Levels DEF Climbs
      <4> QED
        BY <1>1, <2>8, <4>1
    <3>3. t[level][i] = Children(t, level, i)
      BY <3>2 DEF IsTree
    <3> QED
      BY <2>4, <2>8, <3>1, <3>3 DEF Children
  <2> QED
    BY <2>6, <2>7, <2>8
<1>8. Len(longer) # 0
  BY <1>1, <1>5
<1> QED
  BY <1>4, <1>6, <1>7, <1>8 DEF IsTree, longer

\* The tops of complete trees over the same leaves are the same, however they were built.
LEMMA TopIsRoot ==
    ASSUME NEW s, NEW t, IsTree(t, s), Len(s) # 0, NEW e, Len(e) = Len(s),
           \A i \in Nodes(0) : i < Len(s) => s[i + 1] = <<e[i + 1]>>
    PROVE  Registry!RootOf(e) = t[Depth][0]
<1> DEFINE At(f, l) ==
              [i \in 0 .. TwoTo[Depth - l] - 1 |->
                  IF l = 0 THEN IF i < Len(e) THEN <<e[i + 1]>> ELSE <<"0">>
                  ELSE <<f[l - 1][2 * i], f[l - 1][2 * i + 1]>>]
           layer == CHOOSE f : f = [l \in 0 .. Depth |-> At(f, l)]
           h == [l \in 0 .. Depth |-> [i \in Nodes(l) |-> t[l][i]]]
           Same == {n \in Nat : n <= Depth => \A i \in Nodes(n) : layer[n][i] = t[n][i]}
<1>1. Depth \in Nat /\ 0 \in 0 .. Depth /\ Depth \in 0 .. Depth
  BY DepthIsPositive
<1>2. Registry!TwoTo = TwoTo
  BY Zenon DEF Registry!TwoTo, TwoTo
<1>3. Registry!RootOf(e) = layer[Depth][0]
  BY <1>2, Zenon DEF Registry!RootOf, Registry!Leaf, Registry!ZeroLeaf, Registry!Hash
<1>4. ASSUME NEW l \in 1 .. Depth, NEW i \in Nodes(l)
      PROVE  t[l][i] = <<t[l - 1][2 * i], t[l - 1][2 * i + 1]>>
  BY DEF IsTree, Children
<1>5. \A i \in Nodes(0) : t[0][i] = IF i < Len(e) THEN <<e[i + 1]>> ELSE <<"0">>
  BY DEF IsTree
<1>6. h = [l \in 0 .. Depth |-> At(h, l)]
  <2>1. ASSUME NEW l \in 0 .. Depth PROVE [i \in Nodes(l) |-> t[l][i]] = At(h, l)
    <3>1. ASSUME NEW i \in Nodes(l)
          PROVE  t[l][i] = IF l = 0 THEN IF i < Len(e) THEN <<e[i + 1]>> ELSE <<"0">>
                           ELSE <<h[l - 1][2 * i], h[l - 1][2 * i + 1]>>
      <4>1. CASE l = 0
        BY <1>5, <4>1
      <4>2. CASE l # 0
        <5>1. l \in 1 .. Depth /\ l - 1 \in 0 .. Depth
          BY <1>1, <4>2
        <5>2. 2 * i \in Nodes(l - 1) /\ 2 * i + 1 \in Nodes(l - 1)
          BY <5>1, Levels
        <5>3. h[l - 1][2 * i] = t[l - 1][2 * i] /\ h[l - 1][2 * i + 1] = t[l - 1][2 * i + 1]
          BY <5>1, <5>2
        <5> HIDE DEF h
        <5> QED
          BY <1>4, <4>2, <5>1, <5>3
      <4> QED
        BY <4>1, <4>2
    <3>2. Nodes(l) = 0 .. TwoTo[Depth - l] - 1
      BY DEF Nodes
    <3> QED
      BY <3>1, <3>2, Zenon
  <2> HIDE DEF At
  <2> QED
    BY <2>1, Zenon
<1>7. layer = [l \in 0 .. Depth |-> At(layer, l)]
  <2> HIDE DEF At, h
  <2> QED
    BY <1>6, Zenon
<1> HIDE DEF layer, h
<1>8. \A n \in Nat : n \in Same
  <2>1. ASSUME NEW l \in 0 .. Depth, NEW i \in Nodes(l)
        PROVE  layer[l][i] = IF l = 0 THEN IF i < Len(e) THEN <<e[i + 1]>> ELSE <<"0">>
                             ELSE <<layer[l - 1][2 * i], layer[l - 1][2 * i + 1]>>
    <3>1. layer[l] = At(layer, l)
      <4> HIDE DEF At
      <4> QED
        BY <1>7, Zenon
    <3>2. i \in 0 .. TwoTo[Depth - l] - 1
      BY DEF Nodes
    <3> QED
      BY <3>1, <3>2, Zenon
  <2>2. 0 \in Same
    BY <1>1, <1>5, <2>1
  <2>3. ASSUME NEW n \in Nat, n \in Same PROVE n + 1 \in Same
    <3> SUFFICES ASSUME n + 1 <= Depth, NEW i \in Nodes(n + 1)
                 PROVE  layer[n + 1][i] = t[n + 1][i]
      OBVIOUS
    <3>1. n + 1 \in 1 .. Depth /\ n + 1 \in 0 .. Depth /\ n + 1 - 1 = n /\ n + 1 # 0
      BY <1>1
    <3>2. 2 * i \in Nodes(n) /\ 2 * i + 1 \in Nodes(n)
      BY <3>1, Levels
    <3>3. layer[n][2 * i] = t[n][2 * i] /\ layer[n][2 * i + 1] = t[n][2 * i + 1]
      BY <1>1, <2>3, <3>1, <3>2
    <3>4. layer[n + 1][i] = <<layer[n][2 * i], layer[n][2 * i + 1]>>
      <4> DEFINE l == n + 1
      <4>1. l \in 0 .. Depth /\ l # 0 /\ l - 1 = n
        BY <3>1
      <4> HIDE DEF l
      <4>2. layer[l][i] = <<layer[l - 1][2 * i], layer[l - 1][2 * i + 1]>>
        BY <2>1, <4>1, Zenon DEF l
      <4> QED
        BY <4>1, <4>2 DEF l
    <3>5. t[n + 1][i] = <<t[n][2 * i], t[n][2 * i + 1]>>
      BY <1>4, <3>1
    <3> QED
      BY <3>3, <3>4, <3>5
  <2> HIDE DEF Same
  <2> QED
    BY <2>2, <2>3, Naturally
<1>9. layer[Depth][0] = t[Depth][0]
  BY <1>1, <1>8, Levels
<1> QED
  BY <1>3, <1>9

------------------------------------------------------------------------------
(* Insertions and proofs                                                     *)

\* The tree is the complete tree over the leaves, of which there are as many as fit.
MerkleInv ==
    /\ leaves \in Seq({<<v>> : v \in Values}) /\ Len(leaves) <= TwoTo[Depth]
    /\ IsTree(tree, leaves)

\* What the abstract registry holds of the leaves.
Entries == [i \in DOMAIN leaves |-> leaves[i][1]]

LEMMA MerkleInitially == Init => MerkleInv
<1> SUFFICES ASSUME Init PROVE MerkleInv
  OBVIOUS
<1>1. leaves = <<>> /\ tree = EmptyTree
  BY DEF Init, EvidenceInit, MerkleInit
<1>2. <<>> \in Seq({<<v>> : v \in Values}) /\ Len(<<>>) = 0
  OBVIOUS
<1>3. TwoTo[Depth] \in Nat
  BY TwoTos, DepthIsPositive
<1> QED
  BY <1>1, <1>2, <1>3, EmptyIsTree DEF MerkleInv

\* An insertion appends a leaf and keeps the tree complete.
LEMMA Inserted ==
    ASSUME MerkleInv, NEW v \in Values, AddIdentity(v)
    PROVE  MerkleInv' /\ leaves' = Append(leaves, <<v>>) /\ Len(leaves) < TwoTo[Depth]
<1> DEFINE S == {<<w>> : w \in Values}
           value == <<v>>
<1>1. /\ leaves \in Seq(S) /\ value \in S /\ Len(leaves) < TwoTo[Depth]
      /\ leaves' = Append(leaves, value) /\ tree' = UpdateTree(tree, Len(leaves), value)
      /\ IsTree(tree, leaves)
  BY DEF MerkleInv, AddIdentity, HashIdentity
<1> HIDE DEF S, value
<1>2. IsTree(tree', leaves')
  BY <1>1, TreeGrows
<1>3. leaves' \in Seq(S) /\ Len(leaves') = Len(leaves) + 1
  BY <1>1
<1>4. TwoTo[Depth] \in Nat /\ Len(leaves) \in Nat
  BY <1>1, TwoTos, DepthIsPositive
<1>5. Len(leaves') <= TwoTo[Depth]
  BY <1>1, <1>3, <1>4
<1>6. IsTree(tree, leaves)'
  BY <1>2 DEF IsTree, Children
<1> QED
  BY <1>1, <1>3, <1>5, <1>6 DEF MerkleInv, S, value

LEMMA MerkleStep == MerkleInv /\ [Next]_vars => MerkleInv'
<1> SUFFICES ASSUME MerkleInv, [Next]_vars PROVE MerkleInv'
  OBVIOUS
<1>1. CASE UNCHANGED merkleVars
  BY <1>1 DEF MerkleInv, merkleVars, IsTree, Children
<1>2. ASSUME NEW v \in Values, AddIdentity(v) PROVE MerkleInv'
  BY <1>2, Inserted
<1> QED
  BY <1>1, <1>2 DEF Next, EvidenceNext, Log, evidenceVars, vars

\* The root of a tree with leaves is the root that the registry promises.
LEMMA RootIs ==
    ASSUME MerkleInv, leaves # <<>>
    PROVE  GetRoot = tree[Depth][0] /\ GetRoot = Registry!RootOf(Entries)
<1>1. /\ leaves \in Seq({<<v>> : v \in Values}) /\ Len(leaves) # 0 /\ IsTree(tree, leaves)
      /\ Len(leaves) \in Nat
  BY DEF MerkleInv
<1>2. DOMAIN leaves = 1 .. Len(leaves) /\ \A i \in 1 .. Len(leaves) : \E v : leaves[i] = <<v>>
  BY <1>1
<1>3. Len(Entries) = Len(leaves)
  BY <1>1, <1>2 DEF Entries
<1>4. \A i \in Nodes(0) : i < Len(leaves) => leaves[i + 1] = <<Entries[i + 1]>>
  <2> SUFFICES ASSUME NEW i \in Nodes(0), i < Len(leaves)
               PROVE  leaves[i + 1] = <<Entries[i + 1]>>
    OBVIOUS
  <2>1. i \in Nat /\ i + 1 \in 1 .. Len(leaves)
    BY <1>1, Levels, DepthIsPositive
  <2> PICK v : leaves[i + 1] = <<v>>
    BY <1>2, <2>1
  <2> QED
    BY <1>2, <2>1 DEF Entries
<1>5. Registry!RootOf(Entries) = tree[Depth][0]
  BY <1>1, <1>3, <1>4, TopIsRoot
<1>6. tree[Depth][0] # Null
  <2>1. Depth \in 1 .. Depth /\ 0 \in Nodes(Depth)
    BY DepthIsPositive, Levels
  <2>2. tree[Depth][0] = Children(tree, Depth, 0)
    BY <1>1, <2>1 DEF IsTree
  <2> QED
    BY <2>2 DEF Children, Null
<1> QED
  BY <1>5, <1>6 DEF GetRoot

\* The Merkle tree: updating one path per insertion keeps the root of the tree that is
\* rebuilt from all leaves, for trees of every depth (proofs.ts:85-139).
THEOREM ImplementsTheRegistry == Spec => ImplementsRegistry
<1>1. Init => Registry!Init
  BY DEF Init, EvidenceInit, MerkleInit, Registry!Init
<1>2. MerkleInv /\ [Next]_vars => [Registry!Next]_Registry!vars
  <2> SUFFICES ASSUME MerkleInv, [Next]_vars PROVE [Registry!Next]_Registry!vars
    OBVIOUS
  <2>1. CASE UNCHANGED merkleVars
    BY <2>1 DEF merkleVars, Registry!vars, GetRoot
  <2>2. ASSUME NEW v \in Values, AddIdentity(v) PROVE Registry!Insert(v)
    <3>1. /\ leaves' = Append(leaves, <<v>>) /\ Len(leaves) < TwoTo[Depth] /\ MerkleInv'
          /\ leaves \in Seq({<<w>> : w \in Values})
      BY <2>2, Inserted DEF MerkleInv
    <3>2. Len(Entries) < Registry!Capacity
      <4>1. Registry!Capacity = TwoTo[Depth]
        BY Zenon DEF Registry!Capacity, Registry!TwoTo, TwoTo
      <4>2. Len(Entries) = Len(leaves)
        BY <3>1 DEF Entries
      <4> QED
        BY <3>1, <4>1, <4>2
    <3>3. Entries' = Append(Entries, v)
      BY <3>1 DEF Entries
    <3>4. GetRoot' = Registry!RootOf(Entries')
      <4>1. leaves' # <<>>
        BY <3>1
      <4>2. (MerkleInv /\ leaves # <<>> => GetRoot = Registry!RootOf(Entries))'
        BY RootIs, PTL
      <4> QED
        BY <3>1, <4>1, <4>2
    <3> QED
      BY <3>2, <3>3, <3>4 DEF Registry!Insert, Entries
  <2> QED
    BY <2>1, <2>2 DEF Next, EvidenceNext, Log, evidenceVars, vars, Registry!Next
<1> QED
  BY <1>1, <1>2, MerkleInitially, MerkleStep, PTL DEF Spec, ImplementsRegistry, Registry!Spec

\* Going up the path of a leaf, the node of each level is hashed from the one below and
\* its sibling.
LEMMA PathHashes ==
    ASSUME NEW s, NEW t, IsTree(t, s), Len(s) # 0, NEW index \in Nodes(0),
           NEW path, path = Path(index), NEW level \in 1 .. Depth
    PROVE  t[level][path[level]] =
              IF path[level - 1] % 2 = 0
              THEN <<t[level - 1][path[level - 1]], t[level - 1][Sibling(path[level - 1])]>>
              ELSE <<t[level - 1][Sibling(path[level - 1])], t[level - 1][path[level - 1]]>>
<1> DEFINE i == path[level]
           j == path[level - 1]
<1>1. /\ level \in 0 .. Depth /\ level - 1 \in 0 .. Depth
  BY DepthIsPositive
<1>2. i \in Nodes(level) /\ j \in Nat /\ i = j \div 2
  BY <1>1, Paths, Levels DEF Climbs
<1>3. t[level][i] = <<t[level - 1][2 * i], t[level - 1][2 * i + 1]>>
  BY <1>2 DEF IsTree, Children
<1> HIDE DEF i, j
<1>4. CASE j % 2 = 0
  <2>1. 2 * i = j /\ 2 * i + 1 = Sibling(j)
    BY <1>2, <1>4 DEF Sibling
  <2> QED
    BY <1>3, <1>4, <2>1 DEF i, j
<1>5. CASE j % 2 # 0
  <2>1. 2 * i = Sibling(j) /\ 2 * i + 1 = j
    BY <1>2, <1>5 DEF Sibling
  <2> QED
    BY <1>3, <1>5, <2>1 DEF i, j
<1> QED
  BY <1>4, <1>5

\* Proofs: the one of every leaf opens to the root by the bits of its index, and the mock
\* proof built from it passes both checks, for trees of every depth (proofs.ts:146-169,
\* 343-419; program.ts:149-170).
THEOREM ProofsAreOpen == Spec => []ProofsOpen
<1>1. MerkleInv => ProofsOpen
  <2> SUFFICES ASSUME MerkleInv, NEW index \in 0 .. Len(leaves) - 1
               PROVE  LET p == GetProof(index)
                          opened[n \in 0 .. Depth] ==
                              IF n = 0 THEN p.leaf
                              ELSE IF Path(index)[n - 1] % 2 = 0 THEN Hash(opened[n - 1], p.proof[n])
                                                                 ELSE Hash(p.proof[n], opened[n - 1])
                      IN  /\ opened[Depth] = p.root
                          /\ \A w \in Wallets :
                                LET proof == MockProof(p, Nullifier(w, index), "BASIC")
                                IN  BasicVerify(proof) /\ VerifyProofLocally(proof)
    BY DEF ProofsOpen
  <2> DEFINE p == GetProof(index)
             path == Path(index)
             At(f, n) == IF n = 0 THEN p.leaf
                         ELSE IF Path(index)[n - 1] % 2 = 0 THEN Hash(f[n - 1], p.proof[n])
                                                            ELSE Hash(p.proof[n], f[n - 1])
             opened == CHOOSE f : f = [n \in 0 .. Depth |-> At(f, n)]
             h == [n \in 0 .. Depth |-> tree[n][path[n]]]
             Same == {n \in Nat : n <= Depth => opened[n] = h[n]}
  <2>1. Depth \in Nat /\ 0 \in 0 .. Depth /\ Depth \in 0 .. Depth
    BY DepthIsPositive
  <2>2. /\ leaves \in Seq({<<v>> : v \in Values}) /\ Len(leaves) \in Nat /\ Len(leaves) # 0
        /\ IsTree(tree, leaves) /\ leaves # <<>> /\ Len(leaves) <= TwoTo[Depth]
    BY DEF MerkleInv
  <2>3. index \in Nodes(0) /\ index < Len(leaves)
    BY <2>1, <2>2, TwoTos DEF Nodes
  <2>4. Climbs(path, index)
    BY <2>3, Paths
  <2>5. p = [root      |-> GetRoot,
             proof     |-> [n \in 1 .. Depth |-> tree[n - 1][Sibling(path[n - 1])]],
             leafIndex |-> index,
             leaf      |-> leaves[index + 1]]
    BY Zenon DEF GetProof
  <2> HIDE DEF p
  <2>6. /\ p.root = tree[Depth][0] /\ p.leaf = tree[0][path[0]]
        /\ \A n \in 1 .. Depth : p.proof[n] = tree[n - 1][Sibling(path[n - 1])]
    <3> HIDE DEF path
    <3>1. p.root = GetRoot /\ p.leaf = leaves[index + 1]
          /\ p.proof = [n \in 1 .. Depth |-> tree[n - 1][Sibling(path[n - 1])]]
      BY <2>5
    <3>2. GetRoot = tree[Depth][0]
      BY <2>2, RootIs
    <3>3. tree[0][index] = leaves[index + 1]
      BY <2>2, <2>3 DEF IsTree
    <3>4. path[0] = index
      BY <2>4 DEF Climbs
    <3> QED
      BY <3>1, <3>2, <3>3, <3>4, Zenon
  <2>7. ASSUME NEW n \in 0 .. Depth PROVE tree[n][path[n]] = At(h, n)
    <3>1. CASE n = 0
      BY <2>6, <3>1
    <3>2. CASE n # 0
      <4>1. n \in 1 .. Depth /\ n - 1 \in 0 .. Depth
        BY <2>1, <3>2
      <4>2. h[n - 1] = tree[n - 1][path[n - 1]]
        BY <4>1, Zenon
      <4>3. p.proof[n] = tree[n - 1][Sibling(path[n - 1])]
        BY <2>6, <4>1
      <4>4. tree[n][path[n]] =
               IF path[n - 1] % 2 = 0
               THEN <<tree[n - 1][path[n - 1]], tree[n - 1][Sibling(path[n - 1])]>>
               ELSE <<tree[n - 1][Sibling(path[n - 1])], tree[n - 1][path[n - 1]]>>
        BY <2>2, <2>3, <4>1, PathHashes
      <4>5. At(h, n) = IF path[n - 1] % 2 = 0 THEN <<h[n - 1], p.proof[n]>>
                                               ELSE <<p.proof[n], h[n - 1]>>
        BY <3>2 DEF Hash
      <4> HIDE DEF At, h, path
      <4> QED
        BY <4>2, <4>3, <4>4, <4>5
    <3> QED
      BY <3>1, <3>2
  <2>8. h = [n \in 0 .. Depth |-> At(h, n)]
    <3> HIDE DEF At
    <3> QED
      BY <2>7, Zenon
  <2>9. opened = [n \in 0 .. Depth |-> At(opened, n)]
    <3> HIDE DEF At, h
    <3> QED
      BY <2>8, Zenon
  <2> HIDE DEF opened, h
  <2>10. opened[Depth] = h[Depth]
    <3>1. \A n \in 0 .. Depth : opened[n] = At(opened, n) /\ h[n] = At(h, n)
      <4> HIDE DEF At
      <4> QED
        BY <2>8, <2>9, Zenon
    <3>2. 0 \in Same
      BY <2>1, <3>1
    <3>3. ASSUME NEW n \in Nat, n \in Same PROVE n + 1 \in Same
      <4> SUFFICES ASSUME n + 1 <= Depth PROVE opened[n + 1] = h[n + 1]
        OBVIOUS
      <4> DEFINE m == n + 1
      <4>1. m \in 0 .. Depth /\ m # 0 /\ m - 1 = n
        OBVIOUS
      <4>2. opened[n] = h[n]
        BY <2>1, <3>3
      <4> HIDE DEF m
      <4>3. At(opened, m) = At(h, m)
        BY <4>1, <4>2
      <4> HIDE DEF At
      <4>4. opened[m] = h[m]
        BY <3>1, <4>1, <4>3
      <4> QED
        BY <4>4 DEF m
    <3>4. Depth \in Same
      <4> HIDE DEF Same
      <4> QED
        BY <2>1, <3>2, <3>3, Naturally
    <3> QED
      BY <2>1, <3>4
  <2>11. h[Depth] = p.root
    <3>1. h[Depth] = tree[Depth][path[Depth]]
      BY <2>1, Zenon DEF h
    <3>2. path[Depth] = 0
      BY <2>1, <2>4, Levels DEF Climbs
    <3> QED
      BY <2>6, <3>1, <3>2
  <2>12. opened[Depth] = p.root
    BY <2>10, <2>11
  <2>13. ASSUME NEW w \in Wallets
         PROVE  LET proof == MockProof(p, Nullifier(w, index), "BASIC")
                IN  BasicVerify(proof) /\ VerifyProofLocally(proof)
    <3> DEFINE nullifier == Nullifier(w, index)
               proof == MockProof(p, nullifier, "BASIC")
    <3> HIDE DEF nullifier
    <3>1. /\ proof.merkleRoot = p.root /\ proof.nullifier = nullifier
          /\ proof.publicSignals = <<p.root, nullifier, <<"BASIC">>>>
      BY DEF MockProof
    <3> HIDE DEF proof
    <3>2. Len(proof.publicSignals) = 3 /\ DOMAIN proof.publicSignals = 1 .. 3
          /\ proof.publicSignals[1] = p.root /\ proof.publicSignals[2] = nullifier
      BY <3>1
    <3>3. p.root \in Signals(proof) /\ nullifier \in Signals(proof)
      BY <3>2 DEF Signals
    <3> QED
      BY <3>1, <3>2, <3>3 DEF BasicVerify, VerifyProofLocally, proof, nullifier
  <2> QED
    BY <2>12, <2>13, Zenon DEF opened, p
<1> QED
  BY <1>1, MerkleInitially, MerkleStep, PTL DEF Spec
=============================================================================
