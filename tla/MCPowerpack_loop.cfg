SPECIFICATION FairSpec
CONSTANTS
    Hook = {timer, monitor}
    Failing = {monitor}
    SkipLoad = TRUE
    MaxCycle = 2
INVARIANT TokensPaired
PROPERTIES
    HooksAroundServices
    CallsReturn
CHECK_DEADLOCK FALSE
