SPECIFICATION ObservedFairSpec
CONSTANTS
    a = a  b = b  r1 = r1  r2 = r2
    NoThread = NoThread
    MinNodeBackoff = 1  MaxNodeBackoff = 2  BadStatusCap = 1
    Nodes = {a, b}
    Threads = {r1, r2}
    NodeLists <- OneOrder
    Kind <- OneOfEach
    GrpcCodes = {"UNAVAILABLE"}
    Replies <- ReceiptReplies
    MaxAttempts = 2
    MinBackoff = 1  MaxBackoff = 1
    GrpcDeadline = 1  RequestTimeout = 2  ConnectTimeout = 1
    RegenerateTransactionId = FALSE
    Reconfigurable = TRUE
INVARIANTS TypeOK OneCallPerNode ReceiptIsFinal MutexHeldWhileBlocking
PROPERTIES BackoffRespected Termination
CHECK_DEADLOCK FALSE
