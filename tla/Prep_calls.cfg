\* Two texts, one of them unsafe; one re-ask; one kill, anywhere.
SPECIFICATION FairSpec
CONSTANTS
    Texts = {"plain", "override"}
    Unsafe = {"override"}
    NoText = "none"
    Limit = 8
    Estimate <- FlatEstimates
    Costs = {3}
    MaxReasks = 1
    MaxChanges = 2
    MaxKills = 1
INVARIANTS
    MoneyInv
    CallsBounded
    SlotsAreClean
PROPERTIES
    ReachesApproval
    BudgetSpec
CHECK_DEADLOCK FALSE
