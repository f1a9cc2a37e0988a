SPECIFICATION WireSpec
CONSTANTS
    Packets <- SharedLink
    MaxPackets = 3
    SocketBuffer = 64
INVARIANT RequestsArrive
CHECK_DEADLOCK FALSE
