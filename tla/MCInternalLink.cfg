SPECIFICATION Spec
CONSTANTS
    Fds = {f1, f2}
    None = None
    Other = Other
    Event = Event
    Monitor = monitor
    Pushers = {monitor, beacon}
    MaxConns = 2
    MaxVersion = 1
    MaxPieces = 2
SYMMETRY Symmetry
INVARIANTS
    TypeOK
    ServedAreListed
    JoinNeverWaits
    ConnectionsOwned
    CurrentFdIsOpen
CHECK_DEADLOCK FALSE
