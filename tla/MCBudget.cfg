SPECIFICATION Spec
CONSTANTS
    Callers = {c1, c2, c3}
    Limit = 9
    Estimates = {2, 3}
    Costs = {0, 1, 3, 5}
SYMMETRY CallerSymmetry
INVARIANTS
    NoOverdraft
    LedgerBalances
CHECK_DEADLOCK FALSE
