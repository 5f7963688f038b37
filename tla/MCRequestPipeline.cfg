CONSTANTS
    t1 = t1
    t2 = t2
    NumClients = 2
    OutLen <- Outputs
    EosEnds = {1}
    Complete <- Completes
    PartialAt <- Partials
    Kind <- Kinds
    MaybeLong = {1}
    Streaming = {0}
    Tokenizer = {t1, t2}
    Sizes = {1, 2}
    MaxStep = 2
    MaxCounts = 2
SPECIFICATION FairSpec
INVARIANTS
    TypeOK
    StreamUnbroken
    RanksAgree
PROPERTIES
    EveryClientAnswered
