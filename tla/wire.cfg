SPECIFICATION WireSpec
CONSTANTS
    Packets <- Links
    MaxPackets = 2
    SocketBuffer = 16
INVARIANT StreamsInBounds
PROPERTIES ImplementsChannel DeadPeerNoticed
