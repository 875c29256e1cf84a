SPECIFICATION FairSpec
CONSTANTS
    c1 = c1  c2 = c2  x = x  y = y  a = a  b = b
    Absent = Absent
    Client = {c1}
    Id = {x}
    Payload = {a}
    Misfit = {}
    CanWrite <- OnlyX
    NumReplicas = 2
    RetryCount = 3
    OnlyEffective = FALSE
    MaxLog = 4
    MaxLosses = 1
    ShutdownBound = 3
INVARIANT TypeOK ReplicaHoldsPrefix
PROPERTY FlagClearedWhenSent FlaggedLinesArrive ImplementsStateFollower QuietShutdownSyncs
CHECK_DEADLOCK FALSE
