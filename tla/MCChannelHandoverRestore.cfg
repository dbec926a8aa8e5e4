SPECIFICATION Spec
CONSTANTS
    tg = tg
    qq = qq
    Names <- TwoNames
    MaxConns = 2
    MaxGen = 3
    MaxWork = 2
    MaxFailures = 2
INVARIANT OnlyWhileConfigured
CHECK_DEADLOCK FALSE
