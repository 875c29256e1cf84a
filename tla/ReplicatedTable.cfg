\* A start that replays a drop line never returns: a hung primary is left as it is
\* once the crashes are used up.
CHECK_DEADLOCK FALSE
SPECIFICATION ReplicatedSpec
CONSTANTS
    d1 = d1  d2 = d2
    Dim = {d1}
    NoTable = NoTable
    MaxLives = 1
    MaxCrashes = 1
    MaxReplicaStops = 1
    MaxLosses = 1
    MaxLog = 3
    RetryCount = 2
INVARIANT ReplicatedTypeOK 
