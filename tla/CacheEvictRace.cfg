SPECIFICATION Spec
CONSTANTS
    Client = {c1, c2}
    NoPath = NoPath
    NoNode = NoNode
    Path <- OnePath
    KeyOrder <- OneKey
    Ino <- MCIno
    Sig <- MCSig
    MaxIno = 2
    MaxVer = 2
    MaxRef = 3
    MaxInFlight = 1
    Evicts = TRUE
    MaxRestarts = 1
    Ops <- CrashOps
    Objects <- ItsObject
    Faults = {}
    RenameReplaces = FALSE
    Crashes = {}
SYMMETRY Symmetry
INVARIANT ClosedSurvives
