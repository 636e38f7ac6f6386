SPECIFICATION Spec
CONSTANTS
    Fds = {f1, f2}
    None = None
    Reserved = Reserved
    Casters = {mainLoop, linkThread}
    MainLoop = mainLoop
    TlsModes = {FALSE, TRUE}
    Requests = {"LOGIN", "AI", "malformed", "other"}
    MaxConns = 2
    MaxStalls = 0
    SslFails = TRUE
    Signals = {}
SYMMETRY Symmetry
INVARIANTS
    TypeOK
    MapsAreCurrent
    NothingLeftBehind
    EndedAreAnnounced
    RecordsInOrder
    RoleStaysWhileSending
CHECK_DEADLOCK FALSE
