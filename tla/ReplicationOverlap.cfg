SPECIFICATION Spec
CONSTANTS
    c1 = c1  c2 = c2  x = x  y = y  a = a  b = b
    Absent = Absent
    Client = {c1}
    Id = {x}
    Payload = {a}
    Misfit = {}
    CanWrite <- OnlyX
    NumReplicas = 1
    RetryCount = 3
    OnlyEffective = TRUE
    MaxLog = 3
    MaxLosses = 0
    ShutdownBound = 3
INVARIANT InSyncAtClear
CHECK_DEADLOCK FALSE
