SPECIFICATION Spec
CONSTANTS
    Hashes = {h1, h2, h3}
    None = None
    Clients = {c1, c2}
    Moves = {"edit", "materialize", "restore"}
    PerUserRunning = 1
    MaxSeq = 3
    MaxBuilds = 3
SYMMETRY SchedulerSymmetry
INVARIANTS PendingIsDriven DesiredIsExact
PROPERTY ShownOnlyExact
CHECK_DEADLOCK FALSE
