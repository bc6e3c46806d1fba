SPECIFICATION FairSpec
CONSTANTS
    Strategy <- Routes
    Param = {"p"}
    Size = 2
    DefaultValue = 1
    Score = {0, 1}
    NoScore = NoScore
    MinDelta = 1
    Target = 1
    NoCandidate = NoCandidate
    Specs <- MCSpecs
    MaxTrialsLimit = 3
    WorkersLimit = 2
    BeamLimit = 2
    SlotsLimit = 1
    ValidationRunsLimit = 1
    DefaultBeamWidth = 1
    DefaultSlots = 1
    MaxFaults = 1
    MaxCampaigns = 2
INVARIANTS TypeOK OrderlySearch ExperienceIsSound
PROPERTIES SearchEnds ImplementsSearch
CHECK_DEADLOCK FALSE
