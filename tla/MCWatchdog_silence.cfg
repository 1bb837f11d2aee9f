SPECIFICATION Spec
CONSTANTS
    x = x  y = y
    Record = {x, y}
    Interval <- TwoIntervals
    Timeout <- TwoTimeouts
    Jitter <- TwoJitters
    MayRefuse = {y}
    Silent = {y}
    MaxCycle = 2
PROPERTY SilenceIsReported
CHECK_DEADLOCK FALSE
