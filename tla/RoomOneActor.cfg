SPECIFICATION Spec
CONSTANTS
    Edits = {u1, u2}
    Clients = {c1, c2}
    None = None
    Faults = {}
    SnapshotEvery = 2
    MaxEpoch = 2
    MaxRooms = 3
INVARIANT OneActor
CHECK_DEADLOCK FALSE
