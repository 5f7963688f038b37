CONSTANTS
    r1 = r1
    r2 = r2
    r3 = r3
    x = x
    y = y
    e = e
    NoReq = NoReq
    Uid = {r1, r2, r3}
    Prompt <- AbortPrompts
    MaxTokens <- AbortTokens
    After <- AnyOrder
    Aborters = {r1, r2, r3}
    IgnoreEos = {}
    Token = {x, e}
    Eos = e
    PageSize = 4
    NumPages = 4
    NumRows = 3
    MaxSeqLen = 8
    PrefillBudget = 3
    DecodeBudget = 2
SPECIFICATION Spec
INVARIANTS
    PagesConserved
    LocksMatchRequests
    RowsConserved
