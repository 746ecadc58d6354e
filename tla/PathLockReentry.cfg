SPECIFICATION Spec
CONSTANTS
    Thread = {t1, t2}
    Mux = {m1, m2, m3, m4, m5, m6}
    NoMux = NoMux
    NoThread = NoThread
    Path <- MCPath
    Rank <- MCRank
    Requests <- RenameAndGetattr
INVARIANT DeadlockFree
CHECK_DEADLOCK FALSE
