\* Windows build: waiters and a working probe; two calls in flight, every failure.
CONSTANTS
    Pids = {p1, p2, p3}
    NoPid = NoPid
    Callers = {c1, c2}
    Guardian = Guardian
    HasWaiter = TRUE
    ProbeSees = TRUE
    Faults = {"start", "kill", "net", "probe"}
SPECIFICATION Spec
SYMMETRY Symmetry
INVARIANTS TypeOK RecordedIsStarted NoOrphan RecoveryFlagHeld
PROPERTIES ForgetsOnlyTheDead StoppedStaysStopped
