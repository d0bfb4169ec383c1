SPECIFICATION FairSpec
CONSTANTS
    Fires = 15
    Ticks = 6
    SlowestAnswer = 14
INVARIANTS
    NoDoubleIssue
    OneChain
PROPERTIES
    KeepsTicking
    DeathIsEarned
CHECK_DEADLOCK FALSE
