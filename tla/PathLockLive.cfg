SPECIFICATION FairSpec
CONSTANTS
    Thread = {t1, t2, t3}
    Mux = {m1, m2, m3, m4}
    NoMux = NoMux
    NoThread = NoThread
    Path <- MCPath
    Rank <- MCRank
    Requests <- DirAndFile
INVARIANT TypeOK
PROPERTY EveryRequestServed
