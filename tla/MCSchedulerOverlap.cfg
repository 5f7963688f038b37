CONSTANTS
    r1 = r1
    r2 = r2
    r3 = r3
    x = x
    y = y
    e = e
    NoReq = NoReq
    Uid = {r1, r2, r3}
    Prompt <- MixedPrompts
    MaxTokens <- MixedTokens
    After <- ThirdAfter
    Aborters = {}
    IgnoreEos = {r3}
    Token = {x, e}
    Eos = e
    PageSize = 2
    NumPages = 5
    NumRows = 2
    MaxSeqLen = 8
    PrefillBudget = 2
    DecodeBudget = 1
SPECIFICATION Spec
INVARIANTS
    TypeOK
    PagesConserved
    RowReadsCache
    ValidRegionNotFree
    ReservationsHold
    FinishedMeansComplete
PROPERTIES
    SilentAfterEnd
