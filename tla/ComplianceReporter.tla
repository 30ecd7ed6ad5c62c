-------------------------- MODULE ComplianceReporter --------------------------
(***************************************************************************)
(* The compliance reporter of reporter.ts: the audit log and the reports    *)
(* that are computed from it. An event is a record of its type, wallet,     *)
(* status, risk level, risk score, amount and timestamp.                    *)
(***************************************************************************)
EXTENDS Arrays

CONSTANT AnyWallet      \* a report that names no wallet

VARIABLE auditLog       \* auditLog: the events in the order in which they were logged

EventTypes == {"VERIFICATION_STARTED", "VERIFICATION_COMPLETE", "TRANSACTION", "ADMIN"}

ReporterInit == auditLog = <<>>

LogAuditEvent(event) == auditLog' = Append(auditLog, event)

ClearAuditLog == auditLog' = <<>>

ByTimestamp(kept) == Sorted(auditLog, kept, [i \in DOMAIN auditLog |-> auditLog[i].at])

GetAuditEvents(wallet, period) ==
    ByTimestamp({i \in DOMAIN auditLog :
        /\ wallet \in {AnyWallet, auditLog[i].wallet}
        /\ period.from <= auditLog[i].at /\ auditLog[i].at <= period.to})

GetAuditTrail(wallet) == ByTimestamp({i \in DOMAIN auditLog : auditLog[i].wallet = wallet})

Count(events, Test(_)) == Cardinality({i \in DOMAIN events : Test(events[i])})

KYCSummaryReport(events) ==
    [total    |-> Count(events, LAMBDA e : e.type = "VERIFICATION_COMPLETE"),
     approved |-> Count(events, LAMBDA e : e.type = "VERIFICATION_COMPLETE"
                                           /\ e.status = "VERIFIED"),
     rejected |-> Count(events, LAMBDA e : e.status = "REJECTED"),
     pending  |-> Count(events, LAMBDA e : e.type = "VERIFICATION_STARTED")]

\* Mutant: critical events have a class of their own.
IsSuspiciousHigh(e) == e.level = "HIGH"

IsSuspicious(e) == e.level \in {"HIGH", "CRITICAL"}

AMLReport(events) ==
    [transactions |-> Count(events, LAMBDA e : e.type = "TRANSACTION"),
     suspicious   |-> Count(events, IsSuspicious),
     high         |-> Count(events, LAMBDA e : e.level = "HIGH"),
     critical     |-> Count(events, LAMBDA e : e.level = "CRITICAL"),
     entries      |-> Filter(events, IsSuspicious)]

AuditReport(events) ==
    [total         |-> Len(events),
     wallets       |-> Cardinality({events[i].wallet : i \in DOMAIN events}),
     verifications |-> Count(events, LAMBDA e : e.type \in {"VERIFICATION_STARTED",
                                                            "VERIFICATION_COMPLETE"}),
     transactions  |-> Count(events, LAMBDA e : e.type = "TRANSACTION"),
     admin         |-> Count(events, LAMBDA e : e.type = "ADMIN")]

FinCENReport(events) ==
    LET suspicious == Filter(events, IsSuspicious) IN
    [suspicious |-> Len(suspicious),
     amount     |-> Sum([n \in DOMAIN suspicious |-> suspicious[n].amount]),
     entries    |-> suspicious]

\* Nothing is screened for it.
OFACReport(events) ==
    [screenings |-> 0, matches |-> 0, cleared |-> 0, pending |-> 0, entries |-> <<>>]

\* The events are those of the period, and of the wallet if one is given.
GenerateReport(type, events) ==
    CASE type = "FINCEN" -> FinCENReport(events)
      [] type = "OFAC"   -> OFACReport(events)
      [] type = "AUDIT"  -> AuditReport(events)
      [] type = "AML"    -> AMLReport(events)
      [] OTHER           -> KYCSummaryReport(events)

\* A report of any other type is exported too; its summary has no total amount.
ExportFinCENFormat(report) ==
    [suspiciousCount |-> Len(report.entries),
     totalAmount     |-> IF "amount" \in DOMAIN report THEN report.amount ELSE 0,
     activities      |-> [i \in DOMAIN report.entries |-> report.entries[i].amount]]

AlertReason(e) ==
    IF e.level = "CRITICAL" THEN "critical_level"
    ELSE IF e.score > 80 THEN "high_score" ELSE "threshold"
=============================================================================
