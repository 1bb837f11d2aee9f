SPECIFICATION FairSpec
CONSTANTS
    Record = {r1, r2, r3}
    MayFail = {"push", "init", "start", "send"}
    None = None
INVARIANTS
    RecordsSound
    AnsweredOnce
PROPERTIES
    Answered
    ExitReturns
CHECK_DEADLOCK FALSE
