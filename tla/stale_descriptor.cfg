SPECIFICATION ConnectionsSpec
CONSTANTS
    Consoles = {c1, c2}
    Nobody = Nobody
    Starts = {"staggered"}
INVARIANT SuccessIsReal
CHECK_DEADLOCK FALSE
