SPECIFICATION Spec
CONSTANTS
    p = p  q = q  f1 = f1  f2 = f2  g1 = g1
    Papers = {p, q}
    Files = {f1, g1}
    PaperOf <- TwoAndOne
    None = None
    Faults = {}
    MaxSessions = 2
    MaxBehind = 1
    MaxBuilds = 1
PROPERTIES
    AnchoredIsTaken
CHECK_DEADLOCK FALSE
