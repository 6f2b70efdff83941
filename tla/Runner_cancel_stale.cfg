\* An answer that passed its state check before the cancel.
SPECIFICATION Spec
CONSTANTS
    Requests = {"start", "input", "cancel"}
    Kind <- KindOf
    Key <- KeyOf
    Procs = {"p1", "p2"}
    Home <- HomeOf
    None = None
    SerialClient = FALSE
    MaxReasks = 2
    MaxMishaps <- NoMishaps
PROPERTIES
    CancelledIsFinal
CHECK_DEADLOCK FALSE
