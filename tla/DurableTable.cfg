SPECIFICATION Spec
CONSTANTS
    c1 = c1  c2 = c2  x = x  y = y  a = a  b = b
    Absent = Absent
    Client = {c1, c2}
    Id = {x, y}
    Payload = {a, b}
    Misfit = {}
    CanWrite <- OwnIds
    Hnsw = TRUE
    TornFiles = FALSE
    CounterModulus = 16
    ReindexNum = 1
    ReindexDen = 2
    MaxBatch = 1
    MaxLog = 3
    MaxCrashes = 1
INVARIANT TypeOK PromiseKept CrashSafe FilesKeepPromise SearchReturnsStored
PROPERTY ImplementsDurableMap
