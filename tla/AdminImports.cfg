SPECIFICATION Spec
CONSTANTS
    s = s  g = g  a1 = a1  a2 = a2
    Students = {s}
    Groups = {g}
    Admins = {a1, a2}
    None = None
    Faults = {"drop", "crash"}
    Uploads <- TwoUploads
    MaxBatches = 2
    MaxCalls = 2
INVARIANTS
    HandedOnce
    
    Referenced
PROPERTIES
    AddKeepsExisting
    AppliedOnce
SYMMETRY Symmetry
CHECK_DEADLOCK FALSE
