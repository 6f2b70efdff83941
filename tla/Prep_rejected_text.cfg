\* An unsafe brief is rejected and the user is asked again.
SPECIFICATION Spec
CONSTANTS
    Texts = {"plain", "override"}
    Unsafe = {"override"}
    NoText = "none"
    Limit = 8
    Estimate <- FlatEstimates
    Costs = {3}
    MaxReasks = 1
    MaxChanges = 2
    MaxKills = 0
INVARIANTS
    RejectedTextIsGone
CHECK_DEADLOCK FALSE
