\* One claim at a time: the others are commented out.
SPECIFICATION Spec
CONSTANTS
    Fds = {f1, f2}
    None = None
    Other = Other
    Event = Event
    Monitor = monitor
    Pushers = {monitor}
    MaxConns = 2
    MaxVersion = 1
    MaxPieces = 2
INVARIANTS
    PacketsInStep
    \* FinishedAreRemoved
    \* ListedAreConnected
CHECK_DEADLOCK FALSE
