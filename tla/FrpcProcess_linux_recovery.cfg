\* Linux build: the waiter clears the start time the guardian looks at.
CONSTANTS
    Pids = {p1, p2}
    NoPid = NoPid
    Callers = {c1}
    Guardian = Guardian
    HasWaiter = TRUE
    ProbeSees = FALSE
    Faults = {}
SPECIFICATION FairSpec
PROPERTY GuardianRestarts
