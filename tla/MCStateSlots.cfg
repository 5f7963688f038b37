CONSTANTS
    r1 = r1
    r2 = r2
    x = x
    y = y
    Row = {r1, r2}
    Text <- Texts
    Prompt <- Prompts
    PageSize = 3
    NumPages = 4
    Drafts = 1
    KernelChunk = 3
    MaxRequests = 3
    NoSlot = NoSlot
    NoReq = NoReq
    Junk = Junk
SPECIFICATION Spec
INVARIANTS
    TypeOK
    SlotsConserved
    CheckpointsExact
    BaselineExact
    StatesSuffice
PROPERTIES
