SPECIFICATION Spec
CONSTANTS
    a = a  b = b  l = l  q = q  r = r  u = u  c = c
    Service = {a, l}
    NumGroup = 1
    Table <- SoloTable
    Alive = {l}
    Lazy = {l}
    Capacity <- Capacity1
    Client = {c}
    Main = Main
    External = External
    NoService = NoService
    NoMsg = NoMsg
    Request = {q, r}
    From <- SoloFrom
    To <- SoloTo
    SendVeto = {}
    HandleVeto <- SoloVeto
    MayYield <- SoloYield
    Resumer = {c}
    Quitter = {Main}
    QuitOps = {"exit", "teardown"}
    MaxYield = 1
    MaxResume = 1
    MaxQuit = 2
INVARIANTS
    FullInv
    DispatchedIsBusy
    QueuedIsScheduled
    CurrentMatchesState
PROPERTIES
    ExitIsFinal
    ImplementsMailbox
CHECK_DEADLOCK FALSE
