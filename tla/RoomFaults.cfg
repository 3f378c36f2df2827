SPECIFICATION Spec
CONSTANTS
    Edits = {u1, u2}
    Clients = {c1, c2}
    None = None
    Faults = {"crash", "database", "drop"}
    SnapshotEvery = 2
    MaxEpoch = 1
    MaxRooms = 1
SYMMETRY RoomSymmetry
INVARIANTS TypeOK LogRecovered FileHasTheLog
PROPERTY ToldIsKept
CHECK_DEADLOCK FALSE
