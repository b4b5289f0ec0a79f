\* The builds for macOS and Linux: a download ends, and its binary cannot run.
SPECIFICATION Spec
CONSTANTS
    Releases = {r1, r2}
    Bundled = {r1}
    Tasks = {t1, t2}
    Ids = {i1, i2, i3, i4}
    None = None
    Zip = FALSE
SYMMETRY Symmetry
INVARIANT InstalledRuns
