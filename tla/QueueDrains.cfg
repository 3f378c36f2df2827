SPECIFICATION FairSpec
CONSTANTS
    j1 = j1  j2 = j2  j3 = j3  u1 = u1  u2 = u2  k1 = k1  k2 = k2
    p1 = p1  r1 = r1  r2 = r2  w1 = w1  w2 = w2  w3 = w3
    NoJob = NoJob  NoPaper = NoPaper  NoWorker = NoWorker
    Jobs = {j1, j2, j3}
    Users = {u1, u2}
    Keys = {k1, k2}
    Papers = {p1}
    Requests = {r1, r2}
    UserOf <- MixedUser
    KeyOf <- MixedKey
    PaperOf <- MixedPaper
    RequestOf <- OwnRequest
    Priority <- MixedPriority
    Workers = {w1, w2}
    Slots = {1}
    GlobalRunning = 1
    PerUserRunning = 1
    PerUserOutstanding = 1
    MaxAttempts = 2
    Faults = {}
PROPERTY Drains
CHECK_DEADLOCK FALSE
