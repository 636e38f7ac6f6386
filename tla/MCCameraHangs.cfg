SPECIFICATION FairSpec
CONSTANTS
    ours = ours
    theirs = theirs
    Ips <- JustOurs
    Foreign = {}
    Streams <- OurStreamsOnly
    MaxChannels = 2
    MaxChanges = 2
    MayExhaust = FALSE
    None = None
PROPERTIES
    StopAlwaysReturns
CHECK_DEADLOCK FALSE
