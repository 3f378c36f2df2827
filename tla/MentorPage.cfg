SPECIFICATION Spec
CONSTANTS
    p = p  q = q  f1 = f1  f2 = f2  g1 = g1
    Papers = {p, q}
    Files = {f1, f2, g1}
    PaperOf <- TwoAndOne
    None = None
    Faults = {"drop"}
    MaxSessions = 2
    MaxBehind = 1
    MaxBuilds = 1
INVARIANTS
    TypeOK
    
    
    

    
SYMMETRY Symmetry
CHECK_DEADLOCK FALSE
