SPECIFICATION FairSpec
CONSTANTS
    ours = ours
    theirs = theirs
    Ips <- JustOurs
    Foreign = {}
    Streams <- OurStreamsOnly
    MaxChannels = 2
    MaxChanges = 2
    MayExhaust = FALSE
    None = None
PROPERTIES
    KnownCamerasReturn
CHECK_DEADLOCK FALSE
