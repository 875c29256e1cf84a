SPECIFICATION ReplicatedSpec
CONSTANTS
    d1 = d1  d2 = d2
    Dim = {d1, d2}
    NoTable = NoTable
    MaxLives = 2
    MaxCrashes = 0
    MaxReplicaStops = 0
    MaxLosses = 0
    MaxLog = 3
    RetryCount = 3
INVARIANT CreatedReachesReplica
