SPECIFICATION FairSpec
CONSTANTS
    Submissions = {s1, s2}
    Runs = {r1}
INVARIANTS
    QuietSubmissionsSurvive
    QueueInv
PROPERTIES
    QuietSubmissionsAreUploaded
