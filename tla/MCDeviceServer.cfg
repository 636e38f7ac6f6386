SPECIFICATION Spec
CONSTANTS
    SubPis = {d1, d2}
    Fds = {f1, f2}
    None = None
    Clients <- NoClients
    MaxUnread = 1
    MaxCrashes = 2
    Faults <- AllEndings
SYMMETRY Symmetry
INVARIANTS
    TypeOK
    OnlineOwnsSocket
    DescriptorsAccounted
    MonitorTargetsFresh
    RelayPortAgrees
    ListenerCoversOnline
PROPERTIES
    HealthyNeverClosed
CHECK_DEADLOCK FALSE
