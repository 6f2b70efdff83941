\* An edit and the enhance step; the run is killed once, anywhere.
SPECIFICATION Spec
CONSTANTS
    NSteps = 2
    MaxRetries = 1
    MaxIterations = 8
    Limit = 9
    GenEstimates = {3}
    WriterEstimate = 1
    Costs = {0, 4}
    MaxSim = 2
    Floor = 1
    Target = 2
    MaxKills = 1
INVARIANTS
    MoneyInv
    KeptFramesDeliverable
    DeliversLastCompletedStep
    OutcomeAgrees
    AttemptsBounded
PROPERTIES
    CompletedStepsAreFinal
    BudgetSpec
