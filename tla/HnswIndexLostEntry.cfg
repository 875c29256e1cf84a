SPECIFICATION Spec
CONSTANTS
    Id = {1, 2}
    Point <- Points
    Query = {1}
    Beam = {1}
    VectorOf <- SomeVectors
    Distance <- OnALine
    Level <- ThreeLevels
    MaxLevel = 2
    M = 1
    M0 = 2
    EfConstruction = 3
    Reinserts = TRUE
INVARIANT LoadedEntryUsable
