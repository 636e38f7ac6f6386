SPECIFICATION Spec
CONSTANTS
    SubPis = {d1}
    Fds = {f1, f2}
    None = None
    Clients = {c1, c2}
    MaxUnread = 1
    MaxCrashes = 2
    Faults <- AnyFault
SYMMETRY Symmetry
INVARIANTS
    HalfFrameHasWriter
    StatusHasIp
CHECK_DEADLOCK FALSE
