SPECIFICATION FairSpec
CONSTANTS
    tg = tg
    qq = qq
    Names <- TwoNames
    MaxConns = 2
    MaxGen = 3
    MaxWork = 2
    MaxFailures = 2
INVARIANTS OneLive RepliesReachOrigin NoStrayTurn Settled
PROPERTIES ApplyEnds RetirementEnds
CHECK_DEADLOCK FALSE
