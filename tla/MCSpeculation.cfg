CONSTANTS
    u1 = u1
    u2 = u2
    u3 = u3
    NoState = NoState
    NoReq = NoReq
    Junk = Junk
    Uid = {u1, u2, u3}
    PromptLen <- Prompts
    PromptRows <- Chunks
    MaxTokens <- Limits
    Sampling = {u2, u3}
    IgnoreEos = {u1, u3}
    Aborters = {u2}
    K = 2
    Window = 3
    TokenBudget = 4
    NumRows = 3
    Planes = {"nccl", "local"}
    Memory = 100
    Ratio = 90
    Weights = 20
    DrafterBytes = 15
    PageBytes = 2
    StateBytes = 2
SPECIFICATION FairSpec
INVARIANTS
    TypeOK
    DraftsContinue
    PoolHoldsWindow
    HiddenRight
    StepFits
    MemoryAccounted
PROPERTIES
    EveryRequestEnds
