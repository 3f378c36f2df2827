SPECIFICATION FairSpec
CONSTANTS
    Edits = {u1}
    Clients = {c1, c2}
    None = None
    Faults = {}
    SnapshotEvery = 2
    MaxEpoch = 2
    MaxRooms = 2
INVARIANT EpochFence
PROPERTIES EditIsStored NothingReplacedUnsaved
CHECK_DEADLOCK FALSE
