\* Linux build: an frpc of an earlier run is not found.
CONSTANTS
    Pids = {p1, p2}
    NoPid = NoPid
    Callers = {c1}
    Guardian = Guardian
    HasWaiter = TRUE
    ProbeSees = FALSE
    Faults = {}
SPECIFICATION FairSpec
PROPERTY LeftoverDetected
