\* One claim at a time: the others are commented out.
SPECIFICATION Spec
CONSTANTS
    Fds = {f1, f2}
    None = None
    Reserved = Reserved
    Casters = {mainLoop, linkThread}
    MainLoop = mainLoop
    TlsModes = {FALSE, TRUE}
    Requests = {"LOGIN", "AI", "malformed", "other"}
    MaxConns = 2
    MaxStalls = 0
    SslFails = TRUE
    Signals = {}
INVARIANTS
    OnlyToLoggedIn
    \* AnswerBeforeRecords
    \* PacketsWhole
    \* AllEndedAreAnnounced
CHECK_DEADLOCK FALSE
