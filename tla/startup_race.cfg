SPECIFICATION ConnectionsSpec
CONSTANTS
    Consoles = {c1, c2}
    Nobody = Nobody
    Starts = {"runner"}
INVARIANT HandshakeIsWithCpu
CHECK_DEADLOCK FALSE
