SPECIFICATION Spec
CONSTANTS
    Id = {1, 2, 3, 4, 5}
    Point <- Points
    Query = {1, 3, 5}
    Beam = {1, 2}
    VectorOf <- SomeVectors
    Distance <- OnALine
    Level <- ThreeLevels
    MaxLevel = 2
    M = 1
    M0 = 2
    EfConstruction = 3
    Reinserts = FALSE
INVARIANT TypeOK EntryHighest GraphSound SearchLocalOptimum ExactUntilCrowded
PROPERTY CleanupInvisible ImplementsMembership
