SPECIFICATION FairSpec
CONSTANTS
    Edits = {u1}
    Others = {v1}
    Flushes = {f1}
    None = None
    Faults = {"drop", "freeze", "restore", "leave", "error"}
    MaxEpoch = 2
    MaxConnections = 2
INVARIANTS
    TypeOK
    
    
PROPERTIES
    EditStored
    OldEpochPreserved
CHECK_DEADLOCK FALSE
