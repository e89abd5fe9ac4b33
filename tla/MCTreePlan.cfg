CONSTANTS
    FanOuts = {2, 3}
    Limits = {1, 3, 9}
    MaxChunks = 9
    MaxRebuilds = 1
    NoNode = NoNode
SPECIFICATION TreeSpec
INVARIANTS TreeIsWhole SummariesDescribeChildren BudgetBuysProgress
CHECK_DEADLOCK FALSE
