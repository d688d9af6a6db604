SPECIFICATION FairSpec
CONSTANTS
    a = a  b = b  k1 = k1  k2 = k2  t1 = t1  t2 = t2
    Nodes = {a, b}
    Threads = {t1, t2}
    Callers = {t1, t2}
    NoThread = NoThread
    MinNodeBackoff = 2  MaxNodeBackoff = 2  BadStatusCap = 1
    Keys = {k1, k2}
    KeyOf <- Accounts
    MaxNodeReadmitTime = 2
    AttemptLimits = {0, 1}
    MaxNodesPerRequest = 2
    NodeSets <- EitherNetwork
    SecureAddress = {}
    Calls = {"getNodeAccountIdsForExecute", "getNodeProxies", "setNetwork", "close", "setTransportSecurity"}
INVARIANTS TypeOK PickedFromNetwork FoundByKey
PROPERTIES SelectionIsolated NextReadmissionIsFirst CallsReturnUnpruned
CHECK_DEADLOCK FALSE
