SPECIFICATION Spec
CONSTANTS
    Accounts = {a1, a2}
    Tokens = {t1, t2}
    Serials = {1, 2}
    Amounts <- MCAmounts
    Decimals = {0, 2}
    MaxSets = 2
    MaxCalls = 3
SYMMETRY MCSymmetry
INVARIANT AlwaysRecognized
