SPECIFICATION Spec
CONSTANTS
    Wallets = {w1, w2}
    None = None
    Amounts <- MCAmounts
    Requests = {q1, q2}
    Retries = 2
    FailureLogs <- MCFailureLogs
    Connects = {k1, k2}
    Listeners = {l1}
    QueueItems = {i1, i2}
    QueueRuns = {r1, r2}
    Clusters = {"localnet", "devnet"}
    Programs <- MCPrograms
    ProgramIds = {"kycVerifier", "sas"}
    ChecklistFiles <- MCChecklistFiles
    Owners = {"alice", "bob"}
    Files = 2
SYMMETRY Symmetric
CHECK_DEADLOCK FALSE
INVARIANTS
    QuietApprovalHolds
    RetriesAreSafe
    QuietAdapterIsCurrent
    ReportsAreReal
    QuietVerdictIsRight
    QuietRecordIsCurrent
    QuietItemsSurvive
    DeploymentInfoIsTrue
    QuietReportIsTrue
    ChecklistAddsUp
