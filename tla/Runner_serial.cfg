\* A client that answers each question once, in turn; a wall clock, an
\* exception and a SIGKILL.
SPECIFICATION FairSpec
CONSTANTS
    Requests = {"start", "input", "inputLater", "approve"}
    Kind <- KindOf
    Key <- KeyOf
    Procs = {"p1", "p2"}
    Home <- HomeOf
    None = None
    SerialClient = TRUE
    MaxReasks = 1
    MaxMishaps <- TimeoutFaultCrash
INVARIANTS
    StreamTellsState
PROPERTIES
    WorkingSettles
    LockIsFreed
CHECK_DEADLOCK FALSE
