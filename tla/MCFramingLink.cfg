SPECIFICATION Spec
CONSTANTS
    MaxBody = 2
    MaxJpeg = 2
    TlsAdds = 1
    None = None
    Packets <- MCPackets
    QtCommands <- MCQtCommands
    MaxPackets = 4
INVARIANTS
    LinkInStep
CHECK_DEADLOCK FALSE
