SPECIFICATION MCSpec
CONSTANTS
    Accounts = {a1, a2}
    Tokens = {t1, t2}
    Serials = {1, 2}
    Amounts <- MCAmounts
    Decimals = {0, 2}
    MaxSets = 2
    MaxCalls = 3
    MaxQuerySets = 2
    Ledgers = {l1, l2}
    HexBase = 4
    DecBase = 3
SYMMETRY MCSymmetry
INVARIANTS  ScheduledAsMade TransfersNetOut ForeignNeverSent AskedAsSet AnswerKept EntityKept
CHECK_DEADLOCK FALSE
