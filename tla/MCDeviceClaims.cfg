\* One claim at a time: the others are commented out.
SPECIFICATION Spec
CONSTANTS
    SubPis = {d1, d2}
    Fds = {f1, f2}
    None = None
    Clients = {c1}
    MaxUnread = 1
    MaxCrashes = 1
    Faults <- AnyFault
SYMMETRY Symmetry
INVARIANTS
    CommandsReachTarget
    \* FramesAreWhole
    \* EventsLabelledRight
    \* OnlineIsMounted
    \* OfflineIsUnmounted
    \* NoZombie
    \* FinishedAreDone
CHECK_DEADLOCK FALSE
