\* Old stores after an uneventful or an eventful session of the old app.
SPECIFICATION Spec
CONSTANTS
    x1 = x1
    x2 = x2
    a = a
    Ids = {x1, x2}
    Vals = {a}
    Default = Default
    None = None
    Invalid = Invalid
    Absent = Absent
    Logs <- SessionLogs

PROPERTY RefusedOnlyIfInvalid
