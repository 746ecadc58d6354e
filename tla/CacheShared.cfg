SPECIFICATION Spec
CONSTANTS
    Client = {c1, c2}
    NoPath = NoPath
    NoNode = NoNode
    Path <- TreePath
    KeyOrder <- TreeOrder
    Ino <- MCIno
    Sig <- MCSig
    MaxIno = 3
    MaxVer = 2
    MaxRef = 3
    MaxInFlight = 1
    Evicts = FALSE
    MaxRestarts = 1
    Ops <- SharedOps
    Objects <- TreeObjects
    Faults = {}
    RenameReplaces = FALSE
    Crashes = {}
SYMMETRY Symmetry
INVARIANTS CrashSafe HandleCoherent
PROPERTY WritesBack
