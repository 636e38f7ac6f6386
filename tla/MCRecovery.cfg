SPECIFICATION FairSpec
CONSTANTS
    SubPis = {d1}
    Fds = {f1, f2}
    None = None
    Clients <- NoClients
    MaxUnread = 1
    MaxCrashes = 2
    Faults <- Orderly
PROPERTIES
    DisconnectNoticed
    EveryoneRecovers
CHECK_DEADLOCK FALSE
