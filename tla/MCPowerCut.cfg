SPECIFICATION FairSpec
CONSTANTS
    SubPis = {d1}
    Fds = {f1, f2}
    None = None
    Clients <- NoClients
    MaxUnread = 1
    MaxCrashes = 1
    Faults <- PowerCut
PROPERTIES
    EveryoneRecovers
CHECK_DEADLOCK FALSE
