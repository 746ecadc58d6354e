SPECIFICATION FairSpec
CONSTANTS
    Client = {c1}
    NoPath = NoPath
    NoNode = NoNode
    Path <- DirPath
    KeyOrder <- DirOrder
    Ino <- MCIno
    Sig <- MCSig
    MaxIno = 2
    MaxVer = 2
    MaxRef = 3
    MaxInFlight = 1
    Evicts = TRUE
    MaxRestarts = 2
    Ops <- DirOps
    Objects <- DirObjects
    Faults = {"read", "write"}
    RenameReplaces = FALSE
    Crashes = {"boundary", "upload", "make"}
INVARIANTS Durable CrashSafe HandleCoherent ListingsComplete
PROPERTIES WritesBack EventuallyUploaded
