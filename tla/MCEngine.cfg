SPECIFICATION Spec

CONSTANTS
    QHeads = 4
    KVHeads = 2
    KeyHeads = 4
    ValueHeads = 8
    Experts = 2
    Neurons = 4
    TpSizes = {2, 4}
    VocabSizes = {6, 8}
    Requests = {1, 2, 3}
    PromptLen <- MCPromptLen
    OutputLen <- MCOutputLen
    NumRows = 2
    MaxSeqLen = 6
    PageSize = 2
    K = 2
    GraphLists <- MCGraphLists
    Wrong = 8
    Nobody = 9
    TopK = 2
    NumExperts = 3
    MaxTokens = 4
    Intermediate = 2
    Hidden = 5
    SmallConfig <- MCSmallConfig
    LargeConfig <- MCLargeConfig
INVARIANTS
    LayersCompose
    TokensFollow
    CacheHolds
    PairsOnce
CHECK_DEADLOCK FALSE
