\* macOS build: no waiter, no probe; every failure, none of them for ever.
CONSTANTS
    Pids = {p1, p2}
    NoPid = NoPid
    Callers = {c1, c2}
    Guardian = Guardian
    HasWaiter = FALSE
    ProbeSees = FALSE
    Faults = {"start", "kill", "net", "probe"}
SPECIFICATION FairSpec
PROPERTIES GuardianKeepsPolling GuardianRestarts
