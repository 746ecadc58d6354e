SPECIFICATION Spec
CONSTANTS
    Client = {c1}
    NoPath = NoPath
    NoNode = NoNode
    Path <- MCPath
    KeyOrder <- MCKeyOrder
    Ino <- MCIno
    Sig <- MCSig
    MaxIno = 2
    MaxVer = 2
    MaxRef = 3
    MaxInFlight = 1
    Evicts = TRUE
    MaxRestarts = 2
    Ops <- FileOps
    Objects <- OneObject
    Faults = {"stat", "create", "read", "write", "remove", "rename", "lost"}
    RenameReplaces = TRUE
    Crashes = {"boundary", "download", "upload", "make", "remove", "rename"}
INVARIANTS HandlesCounted Tracked CatalogConsistent 
