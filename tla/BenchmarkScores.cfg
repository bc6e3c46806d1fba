SPECIFICATION FairSpec
CONSTANTS
    p1 = p1
    p2 = p2
    None = None
    Plan = {p1, p2}
    Dataset <- MCDataset
    Workloads <- MCWorkloads
    Code = {"one", "two"}
    NoCode = "none"
    MaxAttempts = 2
    MaxRetries = 1
    MaxCrashes = 1
INVARIANTS InputSplitsPass ClassesInEveryPart ScoresAreOfTheFrozenTest RefusedForACause
PROPERTIES PipelinesEnd
CHECK_DEADLOCK FALSE
