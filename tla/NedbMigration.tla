--------------------------- MODULE NedbMigration ---------------------------
(***************************************************************************)
(* NedbMigrationService.migrate and the startup around it: the files of    *)
(* the Electron app's NeDB store are imported into SQLite in one           *)
(* transaction, marked as imported and archived, before the app opens.     *)
(*                                                                         *)
(* A NeDB file is an append-only log: inserting and updating a document    *)
(* append it whole, deleting one appends {"$$deleted": true, "_id": ...}.  *)
(* NeDB compacts the log when it loads it, so what the old app leaves      *)
(* behind is a snapshot followed by the changes of its last session.       *)
(***************************************************************************)
EXTENDS NedbStore, Naturals, Sequences

CONSTANTS
    Invalid,  \* a document that fails the validation of its fields
    Absent,   \* the file does not exist
    Logs      \* per kind of file, the logs the old app may leave behind

Kinds == {"server", "proxy", "version"}

Line == [op : {"put", "del", "skip"}, id : Ids, val : Vals \cup {Invalid}]

ASSUME ConstantsAssumption ==
    /\ Default \notin Vals /\ None \notin Vals /\ Invalid \notin Vals
    /\ Default # None /\ Invalid # None /\ Invalid # Default
    /\ Logs \in [Kinds -> SUBSET Seq(Line)]
    /\ \A k \in Kinds : Absent \notin Logs[k]

\* NeDB deletes only what is there.
ASSUME DeletionsFollowInsertions ==
    \A k \in Kinds : \A log \in Logs[k] : \A n \in DOMAIN log :
        log[n].op = "del" =>
            \E m \in 1 .. (n - 1) : log[m].op = "put" /\ log[m].id = log[n].id

VARIABLES
    file,       \* what each of the three files holds, or Absent
    marker,     \* the key nedb_v2_imported
    rows,       \* the tables of the database
    pc,         \* where the startup is: off, check, import, archive, running
    toArchive   \* the files backup_files still has to rename

vars == <<file, marker, rows, pc, toArchive>>

-----------------------------------------------------------------------------
(* Reading a file.                                                          *)

LogOf(k) == IF file[k] = Absent THEN << >> ELSE file[k]

\* load_documents: every line is a document, but for the ones that start with
\* $$$ or are no JSON.
Documents(log) == {n \in DOMAIN log : log[n].op # "skip"}

\* What a line says of its document, and a deletion line says `deleted`.
ValueOf(line, deleted) == IF line.op = "put" THEN line.val ELSE deleted

Take(table, line, deleted) ==
    IF line.op = "skip" THEN table
                        ELSE [table EXCEPT ![line.id] = ValueOf(line, deleted)]

\* What the first n lines make of a table.
TableAfter(log, table, deleted) ==
    LET after[n \in 0 .. Len(log)] ==
            IF n = 0 THEN table ELSE Take(after[n - 1], log[n], deleted)
    IN  after

\* The code upserts the documents in turn.  A deletion line is read as a
\* document that has only its id: every other field gets its default.
UpsertedRows(log, table) == TableAfter(log, table, Default)

Upserted(log, table) == UpsertedRows(log, table)[Len(log)]

\* What NeDB itself answers to find({}).
Effective(log) == TableAfter(log, EmptyTable, None)[Len(log)]

\* The server document, whatever its id: its row gets the id "1".
ServerOf(table) ==
    IF \E i \in Ids : table[i] # None
    THEN table[CHOOSE i \in Ids : table[i] # None]
    ELSE None

\* What NeDB would return of the three files.
OldDocuments ==
    [server   |-> ServerOf(Effective(LogOf("server"))),
     proxies  |-> Effective(LogOf("proxy")),
     versions |-> Effective(LogOf("version"))]

\* The first server document, if there is one.
ServerRead ==
    LET log == LogOf("server")
        docs == Documents(log)
    IN  IF docs = {} THEN None
        ELSE ValueOf(log[CHOOSE n \in docs : \A m \in docs : n <= m], Default)

\* Faulty variant: proxies may be without a server.
NewServerAsRead == ServerRead

\* Proxies without a server get the default one.
NewServer ==
    IF ServerRead = None /\ Documents(LogOf("proxy")) # {} THEN Default ELSE ServerRead

\* What the transaction writes.
Imported ==
    [server   |-> IF NewServer # None THEN NewServer ELSE rows.server,
     desktop  |-> OrDefault(NewServer),
     proxies  |-> Upserted(LogOf("proxy"), rows.proxies),
     versions |-> Upserted(LogOf("version"), rows.versions)]

-----------------------------------------------------------------------------
(* Validation.                                                              *)

\* normalize_server, normalize_proxy, normalize_version.
Valid(log) == \A n \in Documents(log) : log[n].val # Invalid

\* assert_unique.
UniqueIds(log) ==
    \A m, n \in Documents(log) : log[m].id = log[n].id => m = n

\* Not more than one server.
AtMostOne(log) == \A m, n \in Documents(log) : m = n

\* A version needs a release id, which a deletion line has not, and no other
\* document may have the same.
Releases(log) ==
    /\ \A n \in Documents(log) : log[n].op = "put"
    /\ \A m, n \in Documents(log) : log[m].val = log[n].val => m = n

\* The unique index on github_release_id: when a document is upserted, another
\* row has its release.
IndexClash(log, table) ==
    \E n \in Documents(log), i \in Ids :
        i # log[n].id /\ UpsertedRows(log, table)[n - 1][i] = ValueOf(log[n], Default)

\* Faulty variant: ids are not compared.
AcceptedUnlessInvalid ==
    \A k \in Kinds : Valid(LogOf(k))

Accepted ==
    /\ \A k \in Kinds : Valid(LogOf(k))
    /\ AtMostOne(LogOf("server"))
    /\ UniqueIds(LogOf("proxy"))
    /\ UniqueIds(LogOf("version"))
    /\ Releases(LogOf("version"))
    /\ ~IndexClash(LogOf("version"), rows.versions)

-----------------------------------------------------------------------------
Init ==
    /\ file \in [Kinds -> {Absent} \cup UNION {Logs[k] : k \in Kinds}]
    /\ \A k \in Kinds : file[k] \in {Absent} \cup Logs[k]
    /\ marker = FALSE
    /\ rows = EmptyStore
    /\ pc = "off"
    /\ toArchive = {}

Goto(step) == pc' = step

\* The app is started; the schema of the database is brought up to date.
Launch ==
    /\ pc = "off"
    /\ Goto("check")
    /\ UNCHANGED <<file, marker, rows, toArchive>>

NoFiles == \A k \in Kinds : file[k] = Absent

\* Imported already, or nothing to import?
Check ==
    /\ pc = "check"
    /\ Goto(IF marker \/ NoFiles THEN "running" ELSE "import")
    /\ UNCHANGED <<file, marker, rows, toArchive>>

\* One transaction: the rows and the marker.
Import ==
    /\ pc = "import"
    /\ Accepted
    /\ rows' = Imported
    /\ marker' = TRUE
    /\ toArchive' = {k \in Kinds : file[k] # Absent}
    /\ Goto("archive")
    /\ UNCHANGED file

\* Faulty variant: the app opens after a failed migration.
RefuseOpens ==
    /\ pc = "import"
    /\ ~Accepted
    /\ Goto("running")
    /\ UNCHANGED <<file, marker, rows, toArchive>>

\* A document is refused: the transaction, if it was begun, is rolled back,
\* init_state fails and with it the start of the app.
Refuse ==
    /\ pc = "import"
    /\ ~Accepted
    /\ Goto("off")
    /\ UNCHANGED <<file, marker, rows, toArchive>>

\* Faulty variant: files are archived before the transaction.
ArchiveEarly(k) ==
    /\ pc \in {"import", "archive"}
    /\ file' = [file EXCEPT ![k] = Absent]
    /\ toArchive' = toArchive \ {k}
    /\ UNCHANGED <<marker, rows, pc>>

\* backup_files renames the files one by one; a failure is logged and the file
\* stays.
Archive(k) ==
    /\ pc = "archive"
    /\ k \in toArchive
    /\ \/ file' = [file EXCEPT ![k] = Absent]
       \/ UNCHANGED file
    /\ toArchive' = toArchive \ {k}
    /\ UNCHANGED <<marker, rows, pc>>

\* Faulty variant: the app does not wait for the archiving.
ArchivedEarly ==
    /\ pc = "archive"
    /\ Goto("running")
    /\ UNCHANGED <<file, marker, rows, toArchive>>

Archived ==
    /\ pc = "archive"
    /\ toArchive = {}
    /\ Goto("running")
    /\ UNCHANGED <<file, marker, rows, toArchive>>

-----------------------------------------------------------------------------
(* The app is open.                                                         *)

\* Saving the configuration creates the server if need be.
SaveServer ==
    /\ pc = "running"
    /\ \E v \in Vals \cup {Default}, w \in Vals \cup {Default} :
          rows' = [rows EXCEPT !.server = v, !.desktop = w]
    /\ UNCHANGED <<file, marker, pc, toArchive>>

\* Inserting, changing and deleting a proxy; the foreign key asks for a server.
EditProxy ==
    /\ pc = "running"
    /\ \E i \in Ids, v \in Vals \cup {None} :
          /\ v # None => rows.server # None
          /\ rows' = [rows EXCEPT !.proxies[i] = v]
    /\ UNCHANGED <<file, marker, pc, toArchive>>

\* Downloading a version, which the unique index refuses for a release that has
\* a row, and deleting one.
EditVersion ==
    /\ pc = "running"
    /\ \E i \in Ids, v \in Vals \cup {None} :
          /\ v # None => \A j \in Ids : rows.versions[j] # v
          /\ rows' = [rows EXCEPT !.versions[i] = v]
    /\ UNCHANGED <<file, marker, pc, toArchive>>

\* reset_data empties the tables and keeps the marker.
ResetData ==
    /\ pc = "running"
    /\ rows' = EmptyStore
    /\ UNCHANGED <<file, marker, pc, toArchive>>

\* The app ends, is killed at any point of the startup, or cannot read a file:
\* a transaction that was not committed is rolled back.
Stop ==
    /\ pc # "off"
    /\ Goto("off")
    /\ toArchive' = {}
    /\ UNCHANGED <<file, marker, rows>>

\* The user goes back to the Electron app for a session.
OldAppRuns(k) ==
    /\ pc = "off"
    /\ \E log \in Logs[k] : file' = [file EXCEPT ![k] = log]
    /\ UNCHANGED <<marker, rows, pc, toArchive>>

-----------------------------------------------------------------------------
Migrate == Check \/ Import \/ Refuse \/ (\E k \in Kinds : Archive(k)) \/ Archived

Next ==
    \/ Launch \/ Migrate
    \/ SaveServer \/ EditProxy \/ EditVersion \/ ResetData
    \/ Stop
    \/ \E k \in Kinds : OldAppRuns(k)

Spec == Init /\ [][Next]_vars

-----------------------------------------------------------------------------
(* Properties.                                                              *)

TypeOK ==
    /\ file \in [Kinds -> {Absent} \cup UNION {Logs[k] : k \in Kinds}]
    /\ \A k \in Kinds : file[k] \in {Absent} \cup Logs[k]
    /\ marker \in BOOLEAN
    /\ rows \in Store
    /\ pc \in {"off", "check", "import", "archive", "running"}
    /\ toArchive \in SUBSET Kinds
    /\ toArchive # {} => pc = "archive"

\* What the schema asks of the rows, whatever was imported over whatever rows:
\* proxies have a server, and no release has two versions.  So a transaction
\* that Accepted lets through is not refused by SQLite.
ConstraintsHold ==
    /\ rows.proxies # EmptyTable => rows.server # None
    /\ \A i, j \in Ids :
          rows.versions[i] # None /\ rows.versions[i] = rows.versions[j] => i = j

\* The app is never open on an old store that was not taken over: a failed,
\* refused or interrupted migration keeps it shut, or has left the marker
\* behind that says everything was committed.
OpenOnlyAfterImport ==
    /\ pc = "running" => marker \/ NoFiles
    /\ pc = "archive" => marker
    /\ pc = "import" => ~marker

\* An old file goes away only once its documents are committed: whatever step
\* of the migration fails or is cut off, the documents are in one of the two
\* stores.
ArchivedOnlyAfterCommit ==
    [][\A k \in Kinds : file[k] # Absent /\ file'[k] = Absent => marker]_vars

\* The migration does what OneTimeImport promises: exactly the documents NeDB
\* itself would return are taken over, all at once and before the app opens,
\* never a second time, and after that only the user changes the data.
Abstract == INSTANCE OneTimeImport WITH
    data <- rows,
    source <- OldDocuments,
    imported <- marker,
    open <- pc = "running"

ImportsOnce == Abstract!Spec

\* The documents NeDB itself would return are ones the new store can take.
EffectiveAccepted ==
    LET server == Effective(LogOf("server"))
        versions == Effective(LogOf("version"))
    IN  /\ \A k \in Kinds, i \in Ids : Effective(LogOf(k))[i] # Invalid
        /\ \A i, j \in Ids : server[i] # None /\ server[j] # None => i = j
        /\ \A i, j \in Ids :
              versions[i] # None /\ versions[i] \in {versions[j], rows.versions[j]}
                => i = j

\* DATABASES.md, 6.2: NeDB itself loads the files and answers with the
\* effective documents; the files are not parsed line by line.  So no store
\* is refused whose effective documents are fine.
RefusedOnlyIfInvalid == [][Refuse => ~EffectiveAccepted]_vars
=============================================================================
