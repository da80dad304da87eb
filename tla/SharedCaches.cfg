SPECIFICATION CachesSpec
CONSTANTS
    Threads = {t1, t2}
    NoThread = NoThread
    Vectors <- MCVectors
    Calls <- MCCalls
    Sums <- MCSums
    Count <- MCCount
    Leaves <- MCLeaves
    GrowsAt = {0, 2}
    Components <- MCComponents
    Private <- MCPrivate
    Value <- MCValue
    MaxArgument = 3
    Pairs <- MCPairs
    Modulus = 40
    MaxCalls = 2
INVARIANTS
    FactorialsAreRight
    BinomialsAreRight
    AnswersAreBinomials
    CountsAreRight
    SharedAnswersAreRight
PROPERTIES
    LockedAnswersAreCounts
    CallsReturn
CHECK_DEADLOCK FALSE
