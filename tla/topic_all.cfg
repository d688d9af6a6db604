SPECIFICATION FairSpec
CONSTANTS
    Topic <- Interleaved
    Limits = {0, 2}
    Errors = {"UNAVAILABLE", "PERMISSION_DENIED"}
    MaxAttempts = 2
    MinBackoff = 1  MaxBackoff = 4
INVARIANT AllMessagesGiven
