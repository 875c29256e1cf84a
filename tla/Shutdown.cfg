\* The process ends.
CHECK_DEADLOCK FALSE
SPECIFICATION FairSpec
CONSTANTS
    c1 = c1  c2 = c2  w1 = w1  t1 = t1  t2 = t2
    Caller = {c1, c2}
    Worker = {w1}
    Table = {t1, t2}
    Nothing = Nothing
    MaxChanges = 1
INVARIANT TypeOK SavedIsFinal QuietWhileSaved MembersOutliveThreads
PROPERTY ShutdownEnds
