SPECIFICATION FairSpec
CONSTANTS N = 3  Mutex = TRUE  MaxRaces = 2
INVARIANTS ExclusionBound
 
