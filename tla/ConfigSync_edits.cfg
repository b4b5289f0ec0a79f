\* Two commands and a start at the same time.
CONSTANTS
    Numerals <- Texts
    Ranges = {"1-2"}
    None = None
    Editors = {e1, e2}
    Launcher = Launcher
    Ids = {x1}
    Samples <- TwoRows
    Rows <- TwoRows
    Servers <- SomeServers
    NoRow = NoRow
    Absent = Absent
    Faults = {"version", "disk"}
SPECIFICATION Spec
SYMMETRY Symmetry
INVARIANTS TypeOK EditsHeld DriftHasCause AdminReachable ExportComesBack
