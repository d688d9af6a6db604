SPECIFICATION ObservedSpec
CONSTANTS
    a = a  b = b  c = c  r1 = r1
    Nodes = {a, b, c}
    Threads = {r1}
    NoThread = NoThread
    MinNodeBackoff = 1  MaxNodeBackoff = 2  BadStatusCap = 1
    NodeLists <- OneOrder
    Kind <- AllTransactions
    GrpcCodes = {"UNAVAILABLE"}
    Replies <- TransactionReplies
    MaxAttempts = 4
    MinBackoff = 1  MaxBackoff = 2
    GrpcDeadline = 3  RequestTimeout = 6  ConnectTimeout = 1
    RegenerateTransactionId = TRUE
    Reconfigurable = FALSE
INVARIANTS AllBusyBacksOff
PROPERTIES KeepsPromise BacksOffOnlyWhenAllBusy
