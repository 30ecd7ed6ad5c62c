------------------------------- MODULE Evidence -------------------------------
(***************************************************************************)
(* What is kept of the verifications: the identities in the Merkle tree of  *)
(* the proof generator, and the audit log of the reporter with the events   *)
(* that applications log beside those of the SDK.                           *)
(***************************************************************************)
EXTENDS MerkleTree, ComplianceReporter

CONSTANTS
    Wallets,    \* the wallets that events and proofs name
    Events,     \* the events, without their timestamps
    Clock,      \* the values of Date.now()
    MaxEvents   \* bounds the audit log

ASSUME ClockIsTime == Clock \subseteq Nat

ASSUME EventsAreEvents ==
    \A e \in Events : {"type", "wallet", "status", "level", "score", "amount"} = DOMAIN e
                       /\ e.type \in EventTypes

evidenceVars == <<merkleVars, auditLog>>

EvidenceInit == MerkleInit /\ ReporterInit

\* The wall clock may be set back between two events.
Log ==
    /\ Len(auditLog) < MaxEvents
    /\ \E e \in Events, t \in Clock : LogAuditEvent(With(e, "at", t))
    /\ UNCHANGED merkleVars

EvidenceNext ==
    \/ (\E v \in Values : AddIdentity(v)) /\ UNCHANGED auditLog
    \/ Log
    \/ auditLog # <<>> /\ ClearAuditLog /\ UNCHANGED merkleVars

------------------------------------------------------------------------------
Registry ==
    INSTANCE MerkleRegistry WITH
        entries <- [i \in DOMAIN leaves |-> leaves[i][1]],
        root <- GetRoot

\* Updating one path per insertion keeps the root of the tree rebuilt from all leaves.
ImplementsRegistry == Registry!Spec

\* The proof of each leaf, also of those inserted before others, opens to the root when
\* the bits of the leaf's index choose the sides; the mock proof built from it passes
\* the generator's check and, being the same proof, the Anchor client's.
ProofsOpen ==
    \A index \in 0 .. Len(leaves) - 1 :
        LET p == GetProof(index)
            opened[n \in 0 .. Depth] ==
                IF n = 0 THEN p.leaf
                ELSE IF Path(index)[n - 1] % 2 = 0 THEN Hash(opened[n - 1], p.proof[n])
                                               ELSE Hash(p.proof[n], opened[n - 1])
        IN  /\ opened[Depth] = p.root
            /\ \A w \in Wallets :
                  LET proof == MockProof(p, Nullifier(w, index), "BASIC")
                  IN  BasicVerify(proof) /\ VerifyProofLocally(proof)

\* core.test.ts, 'should verify merkle proof': what getProof returns for a leaf of the
\* tree is accepted by verifyProof.
ProofsVerify == \A index \in 0 .. Len(leaves) - 1 : VerifyProof(GetProof(index))

\* The reports of one set of events agree: the AML alerts are the high and the critical
\* events, FinCEN counts the same ones and its export adds up to the reported amount,
\* the audit report sorts every event into one class, and no summary approves more than
\* it verified. Consecutive periods partition the events of a wallet, and the wallets those
\* of a period: none falls between two reports or into both, even if the clock was set back.
ReportsAgree ==
    \A w \in Wallets \cup {AnyWallet}, t \in Clock :
        LET events == GetAuditEvents(w, [from |-> 0, to |-> t])
            aml    == GenerateReport("AML", events)
            audit  == GenerateReport("AUDIT", events)
            kyc    == GenerateReport("KYC_SUMMARY", events)
            fincen == GenerateReport("FINCEN", events)
            sar    == ExportFinCENFormat(fincen)
        IN  /\ \A end \in Clock : (\A i \in DOMAIN auditLog : auditLog[i].at <= end) =>
                  LET later == GetAuditEvents(w, [from |-> t + 1, to |-> end])
                  IN  /\ w # AnyWallet => events \o later = GetAuditTrail(w)
                      /\ w = AnyWallet => Len(events) + Len(later) = Len(auditLog)
            /\ aml.suspicious = aml.high + aml.critical
            /\ fincen.suspicious = aml.suspicious /\ fincen.entries = aml.entries
            /\ sar.suspiciousCount = aml.suspicious
            /\ sar.totalAmount = Sum(sar.activities)
            /\ audit.total = audit.verifications + audit.transactions + audit.admin
            /\ kyc.approved <= kyc.total
            /\ kyc.total + kyc.pending = audit.verifications
            /\ GenerateReport("OFAC", events).matches = Len(GenerateReport("OFAC", events).entries)
            /\ \A i \in DOMAIN aml.entries :
                  AlertReason(aml.entries[i]) = "critical_level"
                      <=> aml.entries[i].level = "CRITICAL"
=============================================================================
