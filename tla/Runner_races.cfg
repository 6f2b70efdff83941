\* A duplicated answer and competing decisions on two replicas; nothing fails.
SPECIFICATION Spec
CONSTANTS
    Requests = {"start", "input", "inputAgain", "approve", "reject"}
    Kind <- KindOf
    Key <- KeyOf
    Procs = {"p1", "p2"}
    Home <- HomeOf
    None = None
    SerialClient = FALSE
    MaxReasks = 2
    MaxMishaps <- NoMishaps
INVARIANTS
    OneTerminalEvent
PROPERTIES
    FsmSpec
CHECK_DEADLOCK FALSE
