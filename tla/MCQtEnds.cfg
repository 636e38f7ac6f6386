SPECIFICATION StopSpec
CONSTANTS
    Fds = {f1, f2}
    None = None
    Reserved = Reserved
    Casters = {mainLoop, linkThread}
    MainLoop = mainLoop
    TlsModes = {FALSE, TRUE}
    Requests = {"LOGIN", "AI", "malformed"}
    MaxConns = 1
    MaxStalls = 1
    SslFails = TRUE
    Signals = {"idle"}
PROPERTIES
    HandlersEnd
    StopsCleanly
CHECK_DEADLOCK FALSE
