\* One command at a time, no crash; imported files may list a proxy.
\* The app stops for good once it waits for itself.
CONSTANTS
    Tasks = {t1}
    Free = Free
    Conns = {DefaultConn, k1}
    DefaultConn = DefaultConn
    NoRow = NoRow
    Proxies = {x1}
    ImportLists <- SomeProxies
    Crashes = FALSE
SPECIFICATION FairSpec
PROPERTY BatchEnds
CHECK_DEADLOCK FALSE
