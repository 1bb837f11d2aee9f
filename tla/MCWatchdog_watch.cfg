SPECIFICATION FairSpec
CONSTANTS
    x = x  y = y
    Record = {x, y}
    Interval <- TwoIntervals
    Timeout <- TwoTimeouts
    Jitter <- TwoJitters
    MayRefuse = {y}
    Silent = {y}
    MaxCycle = 2
INVARIANTS
    OnePlace
    NoFalseAlarm
PROPERTY KeepsAsking
CHECK_DEADLOCK FALSE
