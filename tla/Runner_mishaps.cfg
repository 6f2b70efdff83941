\* An exception and a shutdown, an unknown composition, and a cancel.
SPECIFICATION Spec
CONSTANTS
    Requests = {"start", "approveLater", "badcomp", "cancel"}
    Kind <- KindOf
    Key <- KeyOf
    Procs = {"p1", "p2"}
    Home <- HomeOf
    None = None
    SerialClient = FALSE
    MaxReasks = 1
    MaxMishaps <- FaultAndShutdown
INVARIANTS
    DriverHoldsLock
    GateMatchesState
PROPERTIES
    OutcomeIsFinal
CHECK_DEADLOCK FALSE
