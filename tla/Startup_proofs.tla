--------------------------- MODULE Startup_proofs ---------------------------
(***************************************************************************)
(* Theorems about Startup, for any releases whose lists are sorted and any *)
(* old store: which schema the app opens on, and that it runs the NeDB     *)
(* import as NedbMigration says.                                           *)
(***************************************************************************)
EXTENDS Startup, NedbMigration_proofs, FiniteSetTheorems

Increasing(s) == \A m, n \in DOMAIN s : m < n => s[m].version < s[n].version

LEMMA ShippedFacts ==
  ASSUME NEW r \in Shipped
  PROVE  r \in Seq(Migrations) /\ Increasing(r) /\ Len(r) \in Nat
         /\ DOMAIN r = 1 .. Len(r)
  BY ShippedAssumption DEF Increasing

LEMMA VersionsAreNumbers ==
  ASSUME NEW r \in Seq(Migrations), NEW n \in DOMAIN r
  PROVE  r[n] \in Migrations /\ r[n].version \in Nat
  BY ShippedAssumption

\* The history in the order of application is one that some release has.
LEMMA AppliedFacts ==
  ASSUME StartupTypeOK, HistoryIsPrefix
  PROVE  applied \in Seq(Migrations) /\ Increasing(applied)
<1>1. PICK r \in Shipped : IsPrefix(applied, r)
  BY DEF HistoryIsPrefix
<1>2. \A n \in DOMAIN applied : n \in DOMAIN r /\ applied[n] = r[n]
  BY <1>1, ShippedFacts DEF IsPrefix, StartupTypeOK
<1> QED BY <1>2, ShippedFacts DEF Increasing, StartupTypeOK

\* Ordered by version it is in the order of application.
LEMMA PlaceOfRow ==
  ASSUME StartupTypeOK, HistoryIsPrefix, NEW n \in DOMAIN applied
  PROVE  Place(applied[n]) = n
<1> DEFINE earlier == {v \in Versions : v < applied[n].version}
           f == [k \in 1 .. (n - 1) |-> applied[k].version]
<1>1. /\ applied \in Seq(Migrations) /\ DOMAIN applied = 1 .. Len(applied)
      /\ Increasing(applied) /\ Len(applied) \in Nat
  BY AppliedFacts
<1>2. n \in 1 .. Len(applied) /\ n \in Nat /\ n - 1 \in Nat
  BY <1>1
<1>3. \A k \in 1 .. Len(applied) : applied[k].version \in Nat
  BY <1>1, VersionsAreNumbers
<1>4. \A v : v \in Versions <=> \E k \in 1 .. Len(applied) : v = applied[k].version
  BY <1>1 DEF Versions, Rows
<1>5. \A k, m \in 1 .. Len(applied) : k < m <=> applied[k].version < applied[m].version
  BY <1>1, <1>3 DEF Increasing
<1>6. \A k \in 1 .. (n - 1) : k \in 1 .. Len(applied) /\ k < n
  BY <1>1, <1>2
<1>7. f \in [1 .. (n - 1) -> earlier]
  BY <1>2, <1>4, <1>5, <1>6
<1>8. \A k, m \in 1 .. (n - 1) : f[k] = f[m] => k = m
  BY <1>3, <1>5, <1>6
<1>9. \A v \in earlier : \E k \in 1 .. (n - 1) : f[k] = v
  <2> SUFFICES ASSUME NEW v \in earlier PROVE \E k \in 1 .. (n - 1) : f[k] = v
    OBVIOUS
  <2>1. PICK k \in 1 .. Len(applied) : v = applied[k].version
    BY <1>4
  <2>2. k < n
    BY <1>2, <1>5, <2>1
  <2> QED BY <1>1, <1>2, <2>1, <2>2
<1>10. ExistsBijection(1 .. (n - 1), earlier)
  <2> HIDE DEF f, earlier
  <2>1. f \in Injection(1 .. (n - 1), earlier)
    BY <1>7, <1>8 DEF Injection, IsInjective
  <2>2. f \in Surjection(1 .. (n - 1), earlier)
    BY <1>7, <1>9 DEF Surjection
  <2> QED BY <2>1, <2>2 DEF ExistsBijection, Bijection
<1>11. Cardinality(earlier) = n - 1
  BY <1>2, <1>10, FS_Bijection, FS_Interval
<1> QED BY <1>2, <1>11 DEF Place

LEMMA ValidIsPrefix ==
  ASSUME StartupTypeOK, HistoryIsPrefix, release \in Shipped
  PROVE  ValidHistory <=> IsPrefix(applied, release)
<1>1. /\ applied \in Seq(Migrations) /\ DOMAIN applied = 1 .. Len(applied)
      /\ Increasing(applied) /\ Len(applied) \in Nat
  BY AppliedFacts
<1>2. release \in Seq(Migrations) /\ DOMAIN release = 1 .. Len(release)
      /\ Increasing(release) /\ Len(release) \in Nat
  BY ShippedFacts
<1>3. \A k \in DOMAIN applied : applied[k].version \in Nat
  BY <1>1, VersionsAreNumbers
<1>4. \A k \in DOMAIN release : release[k].version \in Nat
  BY <1>2, VersionsAreNumbers
<1>5. ValidHistory <=>
        \A n \in DOMAIN applied :
           /\ \E m \in DOMAIN release : release[m] = applied[n]
           /\ n \in DOMAIN release => release[n].version = applied[n].version
  BY PlaceOfRow DEF ValidHistory, Rows
<1>6. ASSUME ValidHistory PROVE IsPrefix(applied, release)
  <2>1. \A n \in DOMAIN applied : n \in DOMAIN release => release[n] = applied[n]
    <3> SUFFICES ASSUME NEW n \in DOMAIN applied, n \in DOMAIN release
                 PROVE  release[n] = applied[n]
      OBVIOUS
    <3>1. PICK m \in DOMAIN release : release[m] = applied[n]
      BY <1>5, <1>6
    <3>2. release[n].version = release[m].version
      BY <1>5, <1>6, <3>1
    <3>3. m = n
      BY <1>2, <1>4, <3>2 DEF Increasing
    <3> QED BY <3>1, <3>3
  <2>2. Len(applied) <= Len(release)
    <3> SUFFICES ASSUME Len(release) < Len(applied) PROVE FALSE
      BY <1>1, <1>2
    <3> DEFINE n == Len(release) + 1
    <3>1. n \in DOMAIN applied
      BY <1>1, <1>2
    <3>2. PICK m \in DOMAIN release : release[m] = applied[n]
      BY <1>5, <1>6, <3>1
    <3>3. m \in DOMAIN applied /\ m < n
      BY <1>1, <1>2
    <3>4. applied[m] = applied[n]
      BY <2>1, <3>2, <3>3
    <3> QED BY <1>1, <1>3, <3>1, <3>3, <3>4 DEF Increasing
  <2> QED BY <1>1, <1>2, <2>1, <2>2 DEF IsPrefix
<1>7. ASSUME IsPrefix(applied, release) PROVE ValidHistory
  BY <1>1, <1>2, <1>5, <1>7 DEF IsPrefix
<1> QED BY <1>6, <1>7

-----------------------------------------------------------------------------
(* The schema.                                                              *)

SchemaInv ==
    /\ HistoryIsPrefix
    /\ stage \in {"migrate", "done"} => IsPrefix(applied, release)
    /\ stage = "done" => applied = release

LEMMA TypeInit == StartupInit => StartupTypeOK /\ SchemaInv
<1> SUFFICES ASSUME StartupInit PROVE StartupTypeOK /\ SchemaInv
  OBVIOUS
<1>1. applied = << >> /\ stage = "off" /\ release = NoRelease /\ pc = "off"
  BY DEF StartupInit, Init
<1>2. StartupTypeOK
  BY <1>1, ShippedAssumption DEF StartupTypeOK
<1>3. HistoryIsPrefix
  BY <1>1, ShippedFacts, ShippedAssumption DEF HistoryIsPrefix, IsPrefix
<1> QED BY <1>1, <1>2, <1>3 DEF SchemaInv

LEMMA TypeNext ==
  StartupTypeOK /\ SchemaInv /\ [StartupNext]_startupVars => StartupTypeOK'
<1> SUFFICES ASSUME StartupTypeOK, SchemaInv, [StartupNext]_startupVars
             PROVE  StartupTypeOK'
  OBVIOUS
<1> USE DEF StartupTypeOK
<1>1. ASSUME NEW r \in Shipped, Open(r) PROVE StartupTypeOK'
  BY <1>1, ShippedAssumption DEF Open, vars
<1>2. CASE Validate
  BY <1>2 DEF Validate, vars
<1>3. CASE RefuseHistory
  BY <1>3 DEF RefuseHistory, Quit, vars
<1>4. CASE Migration
  <2>1. PICK n \in Pending : applied' = Append(applied, release[n])
    BY <1>4 DEF Migration
  <2>2. release \in Shipped /\ n \in DOMAIN release
    BY <1>4 DEF Migration, Pending
  <2>3. release[n] \in Migrations
    BY <2>2, ShippedFacts, VersionsAreNumbers
  <2> QED BY <1>4, <2>1, <2>3 DEF Migration, vars
<1>5. CASE Migrated
  BY <1>5 DEF Migrated, Launch, Goto
<1>6. CASE ImportRefused \/ End
  BY <1>6 DEF ImportRefused, Refuse, End, Stop, Quit, Goto, vars
<1>7. CASE Running
  BY <1>7 DEF Running, schema, Check, Import, Archive, Archived, SaveServer, EditProxy,
     EditVersion, ResetData, OldAppRuns, Goto
<1>8. CASE UNCHANGED startupVars
  BY <1>8 DEF startupVars, vars, schema
<1> QED BY <1>1, <1>2, <1>3, <1>4, <1>5, <1>6, <1>7, <1>8 DEF StartupNext

\* The first pending migration continues the history.
LEMMA FirstPending ==
  ASSUME StartupTypeOK, HistoryIsPrefix, release \in Shipped, IsPrefix(applied, release)
  PROVE  Pending = (Len(applied) + 1) .. Len(release)
<1>1. /\ applied \in Seq(Migrations) /\ DOMAIN applied = 1 .. Len(applied)
      /\ Len(applied) \in Nat
  BY AppliedFacts
<1>2. release \in Seq(Migrations) /\ DOMAIN release = 1 .. Len(release)
      /\ Increasing(release) /\ Len(release) \in Nat
  BY ShippedFacts
<1>3. \A k \in DOMAIN release : release[k].version \in Nat
  BY <1>2, VersionsAreNumbers
<1>4. \A n \in DOMAIN release :
         release[n].version \in Versions <=>
            \E k \in DOMAIN applied : release[n].version = applied[k].version
  BY DEF Versions, Rows
<1>5. \A k \in DOMAIN applied : k \in DOMAIN release /\ applied[k] = release[k]
  BY <1>1, <1>2 DEF IsPrefix
<1>6. \A n, k \in DOMAIN release : release[n].version = release[k].version => n = k
  BY <1>2, <1>3 DEF Increasing
<1>7. \A n \in DOMAIN release : release[n].version \in Versions <=> n \in DOMAIN applied
  BY <1>4, <1>5, <1>6
<1>8. Pending = {n \in DOMAIN release : n \notin DOMAIN applied}
  BY <1>7 DEF Pending
<1> QED BY <1>1, <1>2, <1>8 DEF IsPrefix

LEMMA SchemaNext ==
  StartupTypeOK /\ SchemaInv /\ [StartupNext]_startupVars => SchemaInv'
<1> SUFFICES ASSUME StartupTypeOK, SchemaInv, [StartupNext]_startupVars
             PROVE  SchemaInv'
  OBVIOUS
<1> USE DEF SchemaInv, HistoryIsPrefix
<1>1. ASSUME NEW r \in Shipped, Open(r) PROVE SchemaInv'
  BY <1>1 DEF Open
<1>2. CASE Validate
  <2>1. release \in Shipped
    BY <1>2 DEF Validate, StartupTypeOK
  <2> QED BY <1>2, <2>1, ValidIsPrefix DEF Validate, IsPrefix
<1>3. CASE RefuseHistory \/ ImportRefused \/ End
  BY <1>3 DEF RefuseHistory, ImportRefused, End, Quit
<1>4. CASE Migration
  <2>1. release \in Shipped /\ release' = release /\ stage' = "migrate"
    BY <1>4 DEF Migration, StartupTypeOK
  <2>2. IsPrefix(applied, release)
    BY <1>4 DEF Migration
  <2>3. Pending = (Len(applied) + 1) .. Len(release)
    BY <2>1, <2>2, FirstPending
  <2>4. Len(applied) \in Nat /\ Len(release) \in Nat /\ applied \in Seq(Migrations)
        /\ DOMAIN release = 1 .. Len(release)
    BY <2>1, ShippedFacts DEF StartupTypeOK
  <2>5. PICK n \in Pending : /\ \A m \in Pending : n <= m
                             /\ applied' = Append(applied, release[n])
    BY <1>4 DEF Migration
  <2>6. n = Len(applied) + 1
    BY <2>3, <2>4, <2>5
  <2>7. IsPrefix(applied', release')
    BY <2>1, <2>2, <2>3, <2>4, <2>5, <2>6 DEF IsPrefix
  <2> QED BY <2>1, <2>7
<1>5. CASE Migrated
  <2>1. release \in Shipped /\ IsPrefix(applied, release) /\ Pending = {}
    BY <1>5 DEF Migrated, StartupTypeOK
  <2>2. Pending = (Len(applied) + 1) .. Len(release)
    BY <2>1, FirstPending
  <2>3. Len(applied) \in Nat /\ Len(release) \in Nat /\ applied \in Seq(Migrations)
        /\ release \in Seq(Migrations)
    BY <2>1, ShippedFacts DEF StartupTypeOK
  <2>4. Len(applied) = Len(release)
    BY <2>1, <2>2, <2>3 DEF IsPrefix
  <2>5. applied = release
    BY <2>1, <2>3, <2>4 DEF IsPrefix
  <2> QED BY <1>5, <2>1, <2>5 DEF Migrated
<1>6. CASE Running \/ UNCHANGED startupVars
  BY <1>6 DEF Running, startupVars, schema
<1> QED BY <1>1, <1>2, <1>3, <1>4, <1>5, <1>6 DEF StartupNext

LEMMA SchemaHolds == StartupSpec => [](StartupTypeOK /\ SchemaInv)
<1>1. StartupInit => StartupTypeOK /\ SchemaInv
  BY TypeInit
<1>2. (StartupTypeOK /\ SchemaInv) /\ [StartupNext]_startupVars
        => (StartupTypeOK /\ SchemaInv)'
  BY TypeNext, SchemaNext
<1> QED BY <1>1, <1>2, PTL DEF StartupSpec

\* The stages of initialize and those of the rest of the startup follow each
\* other, and the applied migrations are embedded ones.
THEOREM StartupTypes == StartupSpec => []StartupTypeOK
  BY SchemaHolds, PTL

\* The app reads and writes rows only on the schema of its own release.
THEOREM OwnSchema == StartupSpec => []OpensOnItsSchema
<1>1. StartupTypeOK /\ SchemaInv => OpensOnItsSchema
  BY DEF StartupTypeOK, SchemaInv, OpensOnItsSchema
<1> QED BY <1>1, SchemaHolds, PTL

\* What a database has applied is what some release would have applied.
THEOREM HistoryOfARelease == StartupSpec => []HistoryIsPrefix
<1>1. StartupTypeOK /\ SchemaInv => HistoryIsPrefix
  BY DEF SchemaInv
<1> QED BY <1>1, SchemaHolds, PTL

\* A release that continues the history of a database is not refused.
THEOREM OwnHistoryContinues == StartupSpec => ContinuesOwnHistory
<1>1. StartupTypeOK /\ SchemaInv /\ [StartupNext]_startupVars
        => [RefuseHistory => ~IsPrefix(applied, release)]_startupVars
  <2> SUFFICES ASSUME StartupTypeOK, SchemaInv, RefuseHistory
               PROVE  ~IsPrefix(applied, release)
    OBVIOUS
  <2>1. release \in Shipped /\ ~ValidHistory
    BY DEF RefuseHistory, StartupTypeOK
  <2> QED BY <2>1, ValidIsPrefix DEF SchemaInv
<1> QED BY <1>1, SchemaHolds, PTL DEF StartupSpec, ContinuesOwnHistory

\* With everything that comes before it, the import of an old store still does
\* nothing but what NedbMigration says: its theorems hold of every start.
THEOREM ImplementsNedbMigration == StartupSpec => Spec
<1>1. StartupInit => Init
  BY DEF StartupInit
<1>2. [StartupNext]_startupVars => [Next]_vars
  <2> SUFFICES ASSUME StartupNext PROVE [Next]_vars
    BY DEF startupVars
  <2>1. CASE (\E r \in Shipped : Open(r)) \/ Validate \/ RefuseHistory \/ Migration
    BY <2>1 DEF Open, Validate, RefuseHistory, Migration
  <2>2. CASE Migrated \/ ImportRefused
    BY <2>2 DEF Migrated, ImportRefused, Next, Migrate
  <2>3. CASE End
    BY <2>3 DEF End, Next
  <2>4. CASE Running
    BY <2>4 DEF Running, Next, Migrate
  <2> QED BY <2>1, <2>2, <2>3, <2>4 DEF StartupNext
<1> QED BY <1>1, <1>2, PTL DEF StartupSpec, Spec

\* So an import that follows the migrations of a release, in whatever order
\* releases were installed, opens the app only on a store taken over, writes only
\* what the schema lets in, archives only what is committed and takes over the
\* old documents once.
THEOREM ImportSafeInStartup ==
  StartupSpec => [](TypeOK /\ OpenOnlyAfterImport /\ ConstraintsHold)
                   /\ ArchivedOnlyAfterCommit /\ ImportsOnce
  BY ImplementsNedbMigration, TypeCorrect, OpensAfterImport, ConstraintsKept,
     NothingLost, ImplementsOneTimeImport, PTL
=============================================================================
