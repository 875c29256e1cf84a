\* A start that replays a drop line never returns: a hung primary is left as it is
\* once the crashes are used up.
CHECK_DEADLOCK FALSE
SPECIFICATION Spec
CONSTANTS
    d1 = d1  d2 = d2
    Dim = {d1, d2}
    NoTable = NoTable
    MaxLives = 3
    MaxCrashes = 3
    MaxLog = 4
INVARIANT TypeOK ServedTableIsTheLast NoValueFromOlderLife HangsOnlyAfterTornDrop
