SPECIFICATION FairSpec
CONSTANTS
    Hashes = {h1, h2, h3}
    None = None
    Clients = {c1}
    Moves = {"edit", "materialize"}
    PerUserRunning = 1
    MaxSeq = 3
    MaxBuilds = 3
INVARIANT NoLostSubmission
PROPERTY Resolved
CHECK_DEADLOCK FALSE
