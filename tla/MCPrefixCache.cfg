CONSTANTS
    a = a
    b = b
    Block <- MCBlock
    Inputs <- MCInputs
    Page = {p1, p2, p3, p4}
    Client = {c1, c2}
    NoHandle = NoHandle
SPECIFICATION MCSpec
SYMMETRY MCSymmetry
INVARIANTS
    TypeOK
    PagesDistinct
    RefCountsHolders
    HandlesCached
    CountersExact
    HandlesExact
PROPERTIES
    ProtectedStays
    RefinesPrefixCache
    EvictsOldest
