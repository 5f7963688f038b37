CONSTANTS
    t1 = t1
    t2 = t2
    NumClients = 1
    OutLen <- AloneOutput
    EosEnds = {}
    Complete <- AloneComplete
    PartialAt <- AlonePartial
    Kind <- AloneKind
    MaybeLong = {}
    Streaming = {}
    Tokenizer = {t1}
    Sizes = {1}
    MaxStep = 2
    MaxCounts = 1
SPECIFICATION Spec
INVARIANTS
    NothingTwice
