SPECIFICATION Spec
CONSTANTS
    PaymentRequired = {TRUE, FALSE}
    Costs = {1, 2}
    Limits = {1, 2}
    DefaultMaxQueryPayment = 1
    NodeCounts = {1, 2}
    Proxies = 2
    Unset = Unset
    MaxAttempts = 2
    MaxCalls = 3
INVARIANTS PaysTheNodeAsked
PROPERTIES NeverAboveMaximum AnswerWasPaidFor
CHECK_DEADLOCK FALSE
