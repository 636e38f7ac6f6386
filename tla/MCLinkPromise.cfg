SPECIFICATION FairSpec
CONSTANTS
    Fds = {f1, f2}
    None = None
    Other = Other
    Event = Event
    Monitor = monitor
    Pushers = {monitor}
    MaxConns = 2
    MaxVersion = 1
    MaxPieces = 1
PROPERTIES
    KeepsPromise
    ConnectedIsServed
    CommandsTaken
CHECK_DEADLOCK FALSE
