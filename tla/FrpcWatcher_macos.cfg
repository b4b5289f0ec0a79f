\* macOS build: what the renderer shows and the user is told.
CONSTANTS
    Pids = {p1, p2}
    NoPid = NoPid
    Callers = {c1}
    Guardian = Guardian
    HasWaiter = FALSE
    ProbeSees = FALSE
    Faults = {"start", "net"}
SPECIFICATION WatchedFairSpec
PROPERTIES StatusFollowsProcess ExitNotified Spec
INVARIANT WatcherTypeOK
