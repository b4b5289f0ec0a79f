\* Old stores after an uneventful or an eventful session of the old app, and
\* three releases installed in any order.
SPECIFICATION StartupSpec
CONSTANTS
    x1 = x1
    x2 = x2
    a = a
    Ids = {x1, x2}
    Vals = {a}
    Default = Default
    None = None
    Invalid = Invalid
    Absent = Absent
    Logs <- SessionLogs
    Migrations <- SomeMigrations
    Shipped <- SomeReleases
    NoRelease = NoRelease
INVARIANTS TypeOK ConstraintsHold OpenOnlyAfterImport StartupTypeOK OpensOnItsSchema HistoryIsPrefix
PROPERTIES ArchivedOnlyAfterCommit ImportsOnce ContinuesOwnHistory
