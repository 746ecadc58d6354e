SPECIFICATION Spec
CONSTANTS
    Client = {c1}
    NoPath = NoPath
    NoNode = NoNode
    Path <- OnePath
    KeyOrder <- OneKey
    Ino <- MCIno
    Sig <- MCSig
    MaxIno = 2
    MaxVer = 2
    MaxRef = 3
    MaxInFlight = 1
    Evicts = TRUE
    MaxRestarts = 2
    Ops <- CrashOps
    Objects <- ItsObject
    Faults = {}
    RenameReplaces = FALSE
    Crashes = {"download"}
INVARIANT Durable
