SPECIFICATION Spec
CONSTANTS
    a = a  b = b  l = l  q = q  r = r  u = u  c = c
    Service = {a, b}
    NumGroup = 2
    Table <- PairTable
    Alive = {}
    Lazy = {}
    Capacity <- Capacity1
    Client = {}
    Main = Main
    External = External
    NoService = NoService
    NoMsg = NoMsg
    Request = {q, r, u}
    From <- PairFrom
    To <- PairTo
    SendVeto = {}
    HandleVeto = {}
    MayYield = {}
    Resumer = {}
    Quitter = {Main}
    QuitOps = {"exit"}
    MaxYield = 0
    MaxResume = 0
    MaxQuit = 1
SYMMETRY PairSymmetry
INVARIANTS
    RequestsBounded
    ListsAgree
    NoLostWakeup
    ExitIsNoticed
    QueuedOnce
    RefCountExact
    LoadedIsInitialised
CHECK_DEADLOCK FALSE
