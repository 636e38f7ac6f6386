SPECIFICATION FairSpec
CONSTANTS
    Fds = {f1, f2}
    None = None
    Reserved = Reserved
    Casters = {mainLoop}
    MainLoop = mainLoop
    TlsModes = {TRUE}
    Requests = {"LOGIN"}
    MaxConns = 2
    MaxStalls = 1
    SslFails = FALSE
    Signals = {}
PROPERTIES
    StatusArrives
CHECK_DEADLOCK FALSE
