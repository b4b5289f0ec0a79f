------------------------------ MODULE Startup ------------------------------
(***************************************************************************)
(* The start of the app on its database: DatabaseManager.initialize, which *)
(* brings the schema up to date, before NedbMigration and everything else. *)
(*                                                                         *)
(* A release embeds the list of its migrations.  What a database has       *)
(* applied is kept in its table t_frpcd_schema_migrations, one row for     *)
(* each migration, in the order of application here.  The user may install *)
(* any release over any other, and the app may be killed between two       *)
(* migrations: each is a transaction of its own.                           *)
(*                                                                         *)
(* This commit embeds one migration.  The runner is written for lists, and *)
(* is modelled for the releases that are to come.                          *)
(***************************************************************************)
EXTENDS NedbMigration, FiniteSets

CONSTANTS
    Migrations,  \* the migrations of all releases, by version and name
    Shipped,     \* the lists that the releases embed
    NoRelease    \* the app does not run

IsPrefix(s, t) == Len(s) <= Len(t) /\ \A n \in DOMAIN s : s[n] = t[n]

\* MIGRATIONS is "sorted by version": a comment says so, and no code sorts it.
ASSUME ShippedAssumption ==
    /\ Migrations \subseteq [version : Nat, name : STRING]
    /\ Shipped \subseteq Seq(Migrations) \ {<< >>}
    /\ Shipped # {}
    /\ NoRelease \notin Shipped
    /\ \A r \in Shipped : \A m, n \in DOMAIN r :
            m < n => r[m].version < r[n].version

VARIABLES
    release,  \* the list of the release that runs
    stage,    \* where initialize is: off, validate, migrate, done
    applied   \* t_frpcd_schema_migrations

schema == <<release, stage, applied>>
startupVars == <<vars, schema>>

-----------------------------------------------------------------------------
Rows == {applied[n] : n \in DOMAIN applied}
Versions == {row.version : row \in Rows}

\* Where a row is in the history ordered by version.
Place(row) == 1 + Cardinality({v \in Versions : v < row.version})

\* Faulty variant: a migration may be anywhere in the list.
ValidAnywhere ==
    \A row \in Rows : \E n \in DOMAIN release : release[n] = row

\* Faulty variant: the places in the history are counted from 1, those in the
\* list from 0.
ValidOffByOne ==
    \A row \in Rows :
        /\ \E n \in DOMAIN release : release[n] = row
        /\ Place(row) + 1 \in DOMAIN release =>
              release[Place(row) + 1].version = row.version

\* Every applied migration is embedded, with the same name, and the list does
\* not have another one in its place.
ValidHistory ==
    \A row \in Rows :
        /\ \E n \in DOMAIN release : release[n] = row
        /\ Place(row) \in DOMAIN release =>
              release[Place(row)].version = row.version

\* The migrations that are not applied yet.
Pending == {n \in DOMAIN release : release[n].version \notin Versions}

-----------------------------------------------------------------------------
StartupInit ==
    /\ Init
    /\ release = NoRelease
    /\ stage = "off"
    /\ applied = << >>

\* The app of some release starts and opens the database.
Open(r) ==
    /\ stage = "off"
    /\ release' = r
    /\ stage' = "validate"
    /\ UNCHANGED <<vars, applied>>

Quit == release' = NoRelease /\ stage' = "off"

Validate ==
    /\ stage = "validate"
    /\ ValidHistory
    /\ stage' = "migrate"
    /\ UNCHANGED <<vars, release, applied>>

\* init_state fails and with it the start of the app.
RefuseHistory ==
    /\ stage = "validate"
    /\ ~ValidHistory
    /\ Quit
    /\ UNCHANGED <<vars, applied>>

\* One transaction: the statements of a migration and its row.
Migration ==
    /\ stage = "migrate"
    /\ \E n \in Pending :
          /\ \A m \in Pending : n <= m
          /\ applied' = Append(applied, release[n])
    /\ UNCHANGED <<vars, release, stage>>

\* Faulty variant: the app opens before every migration is applied.
MigratedInPart ==
    /\ stage = "migrate"
    /\ Launch
    /\ stage' = "done"
    /\ UNCHANGED <<release, applied>>

\* verify_database finds nothing, and the rest of the startup follows.
Migrated ==
    /\ stage = "migrate"
    /\ Pending = {}
    /\ Launch
    /\ stage' = "done"
    /\ UNCHANGED <<release, applied>>

\* The app ends, is killed, or has a statement or the verification fail.
End ==
    /\ stage # "off"
    /\ Quit
    /\ pc # "off" => Stop
    /\ pc = "off" => UNCHANGED vars
    /\ UNCHANGED applied

\* Faulty variant: a refused import leaves the database open.
ImportRefusedStays ==
    /\ Refuse
    /\ UNCHANGED schema

\* The import is refused, and again the start of the app fails.
ImportRefused ==
    /\ Refuse
    /\ Quit
    /\ UNCHANGED applied

\* What else NedbMigration has between a launch and a stop.
Running ==
    /\ \/ Check \/ Import \/ (\E k \in Kinds : Archive(k)) \/ Archived
       \/ SaveServer \/ EditProxy \/ EditVersion \/ ResetData
       \/ \E k \in Kinds : OldAppRuns(k)
    /\ UNCHANGED schema

StartupNext ==
    \/ \E r \in Shipped : Open(r)
    \/ Validate \/ RefuseHistory \/ Migration \/ Migrated
    \/ ImportRefused \/ End
    \/ Running

StartupSpec == StartupInit /\ [][StartupNext]_startupVars

-----------------------------------------------------------------------------
(* Properties.                                                              *)

\* The documents of the old store wait for the schema: NedbMigration runs only
\* when initialize is done.
StartupTypeOK ==
    /\ release \in Shipped \cup {NoRelease}
    /\ stage \in {"off", "validate", "migrate", "done"}
    /\ applied \in Seq(Migrations)
    /\ release = NoRelease <=> stage = "off"
    /\ pc # "off" <=> stage = "done"

\* The app reads and writes rows, and imports an old store, only on the schema
\* of its own release: not on that of an older or newer one, nor on one that a
\* crash left between the two, whatever was installed over what before.
OpensOnItsSchema == pc # "off" => applied = release

\* What was applied, in this order, is what some release would have applied:
\* no migration is run twice, or after one that was written on top of it.
HistoryIsPrefix == \E r \in Shipped : IsPrefix(applied, r)

\* No start is refused that need not be: a release that continues the history
\* of a database, after a crash, an update or a detour, takes it.
ContinuesOwnHistory == [][RefuseHistory => ~IsPrefix(applied, release)]_startupVars
=============================================================================
