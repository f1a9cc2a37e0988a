SPECIFICATION ConnectionsSpec
CONSTANTS
    Consoles = {c1, c2}
    Nobody = Nobody
    Starts = {"runner", "staggered"}
INVARIANT ResultsAreTrue
PROPERTY StaggeredStartServes
