SPECIFICATION FairSpec
CONSTANTS
    Papers = {p, q}
    Names = {m}
    Edits = {u1}
    None = None
    Panels = {"rounds"}
    Kinds = {"setMain", "details", "manual", "accept"}
    Faults = {"flush", "restore", "others"}
    MaxSessions = 2
    MaxChanges = 1
    MaxBuilds = 1
INVARIANTS
    TypeOK
    
    
    
PROPERTIES
    
    PdfSettles
CHECK_DEADLOCK FALSE
