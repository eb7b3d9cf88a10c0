SPECIFICATION Spec
CONSTANTS
    Paths = {1, 2, 3, 4, 5, 6, 7, 8, 9}
    Requests <- MCRequests
    Estimate <- MCEstimate
    CountExact <- MCCountExact
    HighTier <- MCHighTier
    LowTier <- MCLowTier
    RelatedHits <- MCRelatedHits
    DirOf <- MCDirOf
    DocPaths = {3}
INVARIANTS AssemblyTypeOK KeptApart NothingLost LimitsHold RelatedApart BestComesFirst
PROPERTY Assembles
CHECK_DEADLOCK FALSE
