SPECIFICATION ObservedSpec
CONSTANTS
    a = a  b = b  r1 = r1  r2 = r2
    Nodes = {a, b}
    Threads = {r1}
    NoThread = NoThread
    MinNodeBackoff = 1  MaxNodeBackoff = 2  BadStatusCap = 1
    NodeLists <- OneOrder
    Kind <- AllTransactions
    GrpcCodes = {"UNAVAILABLE"}
    Replies <- FewReplies
    MaxAttempts = 3
    MinBackoff = 1  MaxBackoff = 2
    GrpcDeadline = 2  RequestTimeout = 4  ConnectTimeout = 1
    RegenerateTransactionId = FALSE
    Reconfigurable = TRUE
INVARIANTS ConnectedMeansChannel
