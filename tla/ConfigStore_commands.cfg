\* Two commands in flight and crashes; imported files list no proxies.
CONSTANTS
    Tasks = {t1, t2}
    Free = Free
    Conns = {DefaultConn, k1}
    DefaultConn = DefaultConn
    NoRow = NoRow
    Proxies = {x1}
    ImportLists <- NoProxies
    Crashes = TRUE
SPECIFICATION FairSpec
INVARIANTS TypeOK MixedOnlyByInterruption
PROPERTIES LanguageChangesOnlyItself EveryCommandEnds
