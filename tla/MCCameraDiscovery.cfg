SPECIFICATION FairSpec
CONSTANTS
    ours = ours
    theirs = theirs
    Ips <- OursAndTheirs
    Foreign = {theirs}
    Streams <- OurStreams
    MaxChannels = 2
    MaxChanges = 3
    MayExhaust = TRUE
    None = None
INVARIANTS
    TypeOK
    ForeignCamerasSpared
    SameVerdict
PROPERTIES
    CamerasTracked
    StopReturns
CHECK_DEADLOCK FALSE
