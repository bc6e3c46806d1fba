SPECIFICATION FairSpec
CONSTANTS
    File <- MCFile
    Content <- MCContent
    Original <- MCOriginal
    Score <- MCScore
    RawSpecs <- MCRawSpecs
    Guards = 1
    MinDelta = 1
    Target = 2
    NoScore = NoScore
    NoInput = NoInput
    DefaultTrials = 2
    MaxTrialsLimit = 2
    SearchRunsLimit = 2
    ValidationRunsLimit = 2
    MaxFaults = 2
INVARIANTS BestIsOnDisk HandOversAgree ValidationIsOfCandidate
PROPERTIES RunSettles ImplementsSearch
CHECK_DEADLOCK FALSE
