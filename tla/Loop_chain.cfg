\* Two edits and the enhance step, run to the end without a kill.
SPECIFICATION FairSpec
CONSTANTS
    NSteps = 3
    MaxRetries = 1
    MaxIterations = 8
    Limit = 13
    GenEstimates = {3}
    WriterEstimate = 1
    Costs = {2}
    MaxSim = 3
    Floor = 1
    Target = 3
    MaxKills = 0
INVARIANTS
    KeepBestPerStep
    ChainsOnPredecessor
PROPERTIES
    RunReachesOutcome
