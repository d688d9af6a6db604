SPECIFICATION Spec
CONSTANTS
    k1 = k1  k2 = k2  n1 = n1  n2 = n2  None = None
    Keys = {k1, k2}
    DefaultChunkSize = 4
    MaxChunks = 2
    Classes = {"plain", "file", "topic"}
    Data <- SomeData
    ChunkSizes = {2, 3}
    NodeLists <- OneOrTwoNodes
    Proxies = 2
    MaxAttempts = 2
    MaxCalls <- Calls
    MaxExecutes <- Executes
    MaxGenerated = 2
SYMMETRY KeysAlike
VIEW LiveState
INVARIANTS RightRequest SignedByAll SignaturesAuthentic PayerSigns
           EffectsPerId FileInOrder
PROPERTIES ReturnMeansAccepted RestoredAsSaved
CHECK_DEADLOCK FALSE
