SPECIFICATION FairSpec
CONSTANTS
    c1 = c1  c2 = c2  x = x  y = y  a = a  b = b
    Absent = Absent
    Client = {c1}
    Id = {x, y}
    Payload = {a, b}
    Misfit = {b}
    CanWrite <- OneWriter
    Hnsw = FALSE
    TornFiles = FALSE
    CounterModulus = 16
    ReindexNum = 1
    ReindexDen = 2
    MaxBatch = 2
    MaxLog = 4
    MaxCrashes = 0
INVARIANT StoredIsSearchable StatsCountStored
PROPERTY ShutdownCompletes
