SPECIFICATION FairSpec
CONSTANTS
    a = a  b = b  l = l  q = q  r = r  u = u  c = c
    Service = {a, b}
    NumGroup = 2
    Table <- PairTable
    Alive = {}
    Lazy = {}
    Capacity <- Capacity1
    Client = {}
    Main = Main
    External = External
    NoService = NoService
    NoMsg = NoMsg
    Request = {q}
    From <- ExitFrom
    To <- ExitTo
    SendVeto = {}
    HandleVeto = {}
    MayYield = {}
    Resumer = {}
    Quitter = {1}
    QuitOps = {"exit", "teardown"}
    MaxYield = 0
    MaxResume = 0
    MaxQuit = 2
PROPERTIES
    Delivered
    CleanupReturns
    LoadReturns
CHECK_DEADLOCK FALSE
