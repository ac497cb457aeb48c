\* Two terminals run migrate, schema, baseline and verify in any order; one of
\* them may baseline, one command is killed or one file edited, one file is merged.
SPECIFICATION FairSpec
CONSTANTS
    Files <- MCFiles
    LedgerFile = 2
    Object <- MCObject
    DataOnly = {4}
    Again = {3, 4}
    Merged <- MCMerged
    Runs = {r1, r2}
    Baseliners = {r1}
    r1 = r1
    r2 = r2
    MaxFaults = 1
INVARIANTS
    LedgerTrue
    GuardHolds
PROPERTIES
    VerifyDetects
    CatchesUp
CHECK_DEADLOCK FALSE
