\* Two, three and four parts of one to three vertices; up to three edges are
\* deleted.  A graph without deleted edges has nothing left to do.
SPECIFICATION Spec
CONSTANTS
    StartParts <- SmallParts
    Sources <- SmallSources
    MaxDeleted = 3
INVARIANTS
    TypeOK
    I2AndI3Count
    I4Counts
    PtCounts
    ContractEdgeContracts
    OrientationsCount
    EquivalentGraphsAreNotRejected
PROPERTIES
    SwapChangesNoInvariant
CHECK_DEADLOCK FALSE
