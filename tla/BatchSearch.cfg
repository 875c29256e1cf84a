SPECIFICATION FairSpec
CONSTANTS
    s1 = s1  s2 = s2  w1 = w1  w2 = w2  u1 = u1  u2 = u2  p = p  q = q
    Nothing = Nothing
    Searcher = {s1, s2}
    Writer = {w1}
    Worker = {u1}
    Batch <- FourBatches
    Asks <- SomeAsks
    Capacity = 2
    Replicated = TRUE
    Roles <- BothRoles
    MaxVersion = 1
INVARIANT TypeOK TasksAccounted LeastRecentlyUsed EntryAnswersOneBatch StaleOnlyIfRaced
PROPERTY CallsReturn
