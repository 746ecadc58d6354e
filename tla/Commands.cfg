SPECIFICATION Spec
CONSTANTS
    Caller = {"t1", "t2"}
    RetryCount = 2
    Outcomes = {"answer", "busy", "broken", "seek"}
    Default <- Options0
    Path = {"p", "q"}
    Account = {"a1", "a2"}
    Service = {"drive"}
    DataDir = {"home", "d2"}
    HomeDir = "home"
    Nobody = "none"
    FlagSetsOf <- TwoFlags
    File <- TwoSections
    Keys <- TwoKeys
    Settings <- SomeSettings
    Passes <- SomePasses
    AuthPaths <- SomeAuthPaths
    CommandsOf <- SomeCommands
    Shells = {"t1"}
    MaxStarts = 2
    MaxCommands = 2
    MaxVer = 1
CHECK_DEADLOCK FALSE
INVARIANTS Precedence Isolation ExitHonest ConfigKept SentOnce
PROPERTIES CommandsEnd
