\* A follower whose connection breaks twice, on a stream shorter than the
\* session's events.
SPECIFICATION FairSpec
CONSTANTS
    Clients = {"ui"}
    MaxLen = 2
    MaxEvents = 4
    MaxDrops = 2
INVARIANTS
    StreamInv
PROPERTIES
    NewestArrives
    RelayReturns
CHECK_DEADLOCK FALSE
