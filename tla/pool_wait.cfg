SPECIFICATION FairSpec
CONSTANTS
    a = a  b = b  k1 = k1  k2 = k2  t1 = t1  t2 = t2
    Nodes = {a, b}
    Threads = {t1}
    Callers = {t1}
    NoThread = NoThread
    MinNodeBackoff = 1  MaxNodeBackoff = 1  BadStatusCap = 1
    Keys = {k1, k2}
    KeyOf <- Accounts
    MaxNodeReadmitTime = 2
    AttemptLimits = {1}
    MaxNodesPerRequest = 2
    NodeSets <- BothNodes
    SecureAddress = {}
    Calls = {"getNodeAccountIdsForExecute"}
PROPERTIES CallsReturn
CHECK_DEADLOCK FALSE
