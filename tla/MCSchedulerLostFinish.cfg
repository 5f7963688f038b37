CONSTANTS
    r1 = r1
    r2 = r2
    r3 = r3
    x = x
    y = y
    e = e
    NoReq = NoReq
    Uid = {r1, r2}
    Prompt <- TwinPrompts
    MaxTokens <- TwinTokens
    After <- AnyOrder
    Aborters = {}
    IgnoreEos = {}
    Token = {x, e}
    Eos = e
    PageSize = 2
    NumPages = 6
    NumRows = 2
    MaxSeqLen = 8
    PrefillBudget = 8
    DecodeBudget = 1
SPECIFICATION FairSpec
PROPERTIES
    EventuallyEnded
