SPECIFICATION Spec
CONSTANTS
    s1 = s1  s2 = s2  w1 = w1  w2 = w2  u1 = u1  u2 = u2  p = p  q = q
    Nothing = Nothing
    Searcher = {s1}
    Writer = {w1}
    Worker = {u1}
    Batch <- TwoBatches
    Asks <- OneAsks
    Capacity = 2
    Replicated = FALSE
    Roles <- Replica
    MaxVersion = 2
INVARIANT CachedSeesAnswered
