SPECIFICATION FairSpec
CONSTANTS
    Service = {a, b}
    Call = {c, d, e}
    MayRefuse = {c}
    None = None
INVARIANTS
    RecordsSound
    ResumedWhenReady
    ResumeAccepted
    RefsExact
PROPERTY CallReturns
CHECK_DEADLOCK FALSE
