# Verification of Frpc-Desktop (Tauri)

TLA+ models of the concurrent, persistent and failure-prone parts of
Frpc-Desktop, the desktop client that manages an `frpc` child process, its
configuration and the installed frp versions. TLC checks the models on small
instances; TLAPS proves the most important properties for every instance.

Paths below are relative to the repository; `S/` stands for
`src-tauri/src/`.

## 1. Inventory

### Components, their state and operations

| Component (source) | State | Operations |
| --- | --- | --- |
| frpc process service (`S/service/frpc_process_service.rs`) | `process` (mutex, `Option<FrpcChild>`), `last_start_time` (atomic, -1 = not started), `recovery_checking` (atomic), `last_recovery_time`; the operating system's processes | `is_running` (may adopt a leftover process), `start_frpc_process`, `stop_frpc_process`, `reload_frpc_process`, one waiter thread per child, the guardian loop |
| process watcher (same file, `watch_frpc_process`) | `last_notification`, local `running` | poll every second, notify an unexpected exit, emit the status event |
| configuration store (`S/db/server_repository.rs`, `app_config_repository.rs`, `proxy_repository.rs`, `S/service/server_service.rs`) | tables `t_frpcd_servers` (one row), `t_frpcd_app_config`, `t_frpcd_proxies`; one connection behind a mutex | save and read the configuration, save the language, import TOML, insert/update/delete proxies, reset |
| NeDB migration (`S/db/nedb_migration.rs`, `S/app.rs`) | the three NeDB files of the Electron version, the key `migration/nedb_v2_imported`, the tables | check, import, refuse, archive |
| frp version service (`S/service/version_service.rs`, `S/db/version_repository.rs`) | cache of the last GitHub listing, `t_frpcd_versions`, archives and binaries on disk | list (and clean up), download, import, delete |
| proxy service (`S/service/proxy_service.rs`) and reload | table, TOML file, configuration of the running frpc | write a proxy, regenerate the TOML file, `frpc reload` |
| TOML generation and import (`S/service/server_service.rs`) | none (pure) | configuration to TOML, TOML to configuration |
| database manager (`S/db/database_manager.rs`) | schema version | open, migrate, verify, reset, close |
| log, system, GitHub services | a file watcher; none | read logs, open paths, unpack archives, HTTP requests |
| command layer (`S/ipc/commands.rs`) | none | parses arguments, calls services, wraps results |
| application setup (`S/app.rs`) | `QUITTING` | startup order, auto-connect, tray, quit |
| renderer IPC and stores (`src/utils/ipcUtils.ts`, `src/store`) | listeners per path and channel, the shown status | `on`, `send`, `onListener`, `removeRouterListeners` |
| views, layout, translations, build | forms | user interface |

### Interaction

Views send commands through `ipcUtils`; a Tauri command runs on a thread pool,
so commands interleave. All repositories share one SQLite connection behind a
`std::sync::Mutex`, which a repository call takes for each of its parts. The
process service is cloned into the commands, the auto-connect thread, the
guardian, the watcher and the tray; the clones share a mutex and three atomics.
The watcher pushes status events to the renderer. A proxy edit ends in
`reload_frpc_process`, which rewrites the TOML file and runs `frpc reload`.

### What is hard, and what makes each component correct

* **Process service.** Seven kinds of threads between critical sections of a
  mutex that is not held across a start or a stop. Correct: one frpc of ours at
  a time and never lost track of; the record of a living frpc is not dropped by
  a late waiter or stop; a recovery ends and the guardian is not switched off;
  a stopped frpc stays stopped, a dead one is started again.
* **Watcher.** It reads the process, then the start time. Correct: the status
  shown follows the process, an unexpected exit is notified, and the watcher
  itself disturbs nothing.
* **Configuration store.** A save is two critical sections and five
  autocommitted statements. Correct: no mixture of two saves unless something
  cut one short; no command waits for ever.
* **NeDB migration.** It runs once over files of another program, with crashes,
  refusals and a user who may go back to the old app. Correct: all documents,
  once, before the app opens, and nothing archived before it is committed.
* **Version service.** Network, disk and table are changed one after the other,
  and several downloads can overlap. Correct: a version is recorded once its
  binary is in place, a listing says what is so and removes what is stale, and
  no stale read removes what a download has just recorded, but for the failures
  the code drops.
* **Proxy service and reload.** The table, `frpc.toml` and the running frpc each
  hold a copy of the tunnels, and commands and a start renew them in no common
  order. Correct: with no command in flight frpc serves what is stored, or
  something that can be named kept an edit from it; the file names the address
  at which frpc answers reloads.
* **TOML generation and import.** Correct: what is written can be read back.
* **Schema migrations.** Releases are installed over each other and killed
  between two migrations. Correct: the app runs on exactly its own schema, and
  no release refuses a database whose history it continues.
* **Renderer.** Correct: one handler call per event; replies reach the view
  that asked. (Not modelled, see section 5.)

`PROJECT.json` lists every hazard at its line with the properties that cover it.

## 2. Modules

| Module | Models |
| --- | --- |
| `FrpcProcess` | the process service and the operating system's processes |
| `FrpcProcess_proofs` | theorems about it and about `FrpcWatcher`, the refinement between them included |
| `FrpcWatcher` | the watcher beside everything in `FrpcProcess` |
| `ConfigStore` | the configuration store and its commands |
| `ConfigStore_proofs` | theorems about it |
| `NedbStore` | what the old and the new store hold, and the merge of the two |
| `OneTimeImport` | abstract specification: documents are taken over once |
| `NedbMigration` | the migration, the startup around it, the edits after it |
| `NedbMigration_proofs` | theorems about it, the refinement included |
| `Startup` | the start of the app: schema migrations, then `NedbMigration` |
| `Startup_proofs` | theorems about it, the refinement of `NedbMigration` included |
| `FrpcToml` | generation and import of `frpc.toml` as functions on data |
| `FrpcToml_proofs` | theorems on what an export and an import restore |
| `ConfigSync` | proxy edits, reload, `frpc.toml`, the running frpc |
| `ConfigSync_proofs` | theorems about it |
| `VersionStore` | the version service: rows, directories and archives of frp releases |
| `VersionStore_proofs` | theorems about it |
| `LoopTheorems` | induction over the steps of a loop, for the proofs |
| `MCFrpcProcess`, `MCFrpcWatcher`, `MCConfigStore`, `MCNedbMigration`, `MCStartup`, `MCConfigSync`, `MCVersionStore` | instances for TLC |

### FrpcProcess

`process`, `started` (`last_start_time # -1`), `recoveryChecking` and `cooling`
are the shared variables of the service; `proc` is the process table of the
operating system; `pc` and `pid` are the program counter and the local pid of
each thread; `waiting` is the set of pids whose waiter thread lives. `intent`
and `overlapped` are history variables: the user's last completed start or last
stop (a start that completes while a stop is in flight does not count: the stop
is about to clear what it recorded), and whether two start calls were ever between their check and their
record at the same time.

An action is one critical section, one atomic access or one call to the
operating system. `start_frpc_process` is `Check`, `Prepare` (or
`PrepareFails`), `Spawn` (or `SpawnFails`, or on macOS `SpawnWithoutPid`),
`Record`, `Stamp`; `stop_frpc_process` is `Stop`, `Kill` (or `KillFails`),
`Reset`; the guardian's loop is `Poll`, `Decide`, `Mark`, `NetCheck`, a start,
`Clear`; the waiter is `Waiter`. `Restart` ends the app at any point and begins
its next run; frpc survives it.

The three builds differ in two constants. `HasWaiter`: Windows and Linux spawn
a child and a thread that waits for it; macOS starts a root process through a
helper. `ProbeSees`: `tasklist` on Windows finds frpc by its image name; `pgrep
-x` with the 32-letter file name does not, because the kernel keeps 15 letters.

### FrpcWatcher

Extends `FrpcProcess` with the watcher's own variables. `WatchPoll` calls
`is_running` (and so may adopt a process), `Notify` decides on the
notification, `Emit` stores what the renderer is told. The property `Spec` says
that the composition implements `FrpcProcess`.

### ConfigStore

`server`, `desktop` and `proxies` are the tables, `holder` is who holds the
connection's mutex between two actions, `pc`, `op`, `cfg` and `batch` are the
commands in flight. A critical section with one statement or one transaction is
one action. `save_system_config` holds the mutex over several statements
(`SaveStartup`, `SaveLanguageKey`); `insert_many` holds it and calls a function
that takes it again, so a task at `insertRow` has no action. The columns of the
server row are one value, the four desktop keys two. `last` and `torn` are
history: what the last finished write left, and whether a save was cut short or
met another write; `crossed` is history, too: the saves of the language in
flight whose read failed or which another write came across. `save_language`
reads, changes and writes back a whole configuration, and takes a failed read
(`ReadFails`) for an empty store.

### NedbMigration and OneTimeImport

`file` holds a log per NeDB file or `Absent`; `marker` is the key
`nedb_v2_imported`; `rows` are the tables; `pc` is the progress of the startup.
`Upserted` is what the loop of upserts makes of a log, line by line; `Effective`
is what NeDB itself answers. Both are loops over the lines (`TableAfter`) and
differ in what a deletion line does: the code reads it as a document without
fields. `IndexClash` looks at the rows before each upsert. `Import` is the one transaction, guarded by `Accepted`
(the normalisations, `assert_unique`, the single server, the unique index);
`Archive` renames a file or fails to; `Stop` may happen at every point.
`OneTimeImport` knows nothing of logs, validation or archives. The refinement
maps its `data` to `rows`, its `source` to the effective documents, its
`imported` to `marker` and its `open` to `pc = "running"`.

### Startup

Extends `NedbMigration` with `DatabaseManager.initialize`, which comes first.
`release` is the list of migrations that the running release embeds, `stage`
where `initialize` is, `applied` the rows of `t_frpcd_schema_migrations` in the
order of their application. `ValidHistory` is the loop over the applied rows: a
row's `Place` is its index in the history ordered by version. `Migration` is one
transaction. `Open` starts any release on the database, so a sequence of starts
is a sequence of updates and downgrades, and `End` kills the app at any point.
The repository embeds one migration; the runner is written for lists and is
modelled for them, with the one assumption its comment states (sorted by
version). `verify_database` finds an error or not: the former is an `End`.

### FrpcToml

No state: `CommonToToml`, `ProxyToToml`, `VisitorToToml` and `RangePortTemplate`
are what is written, `ServerFromToml`, `ProxyFromToml` and `VisitorFromToml`
what is read. A stored row and a TOML table are functions from keys to values;
nested keys carry their path. Numbers are their decimal texts, since ports are
stored as texts and parsed when they are written (`Parse`: 0 if it is no
number). Types of TOML values are kept, and the conversions between them.

### ConfigSync

`server` and `proxies` are the tables; `toml` is the file: whole, empty
(created anew or truncated), or torn (the end of a longer text remains after
two writers); `frpc` is down, booting, or up with the tunnels it has `loaded`
and the address `web` at which it answers a reload. `conf` and `prox` are what
each actor has read and not yet written. `missed` and `resaved` are history:
something kept an edit from the running frpc, or the admin address may differ
from the one frpc was started with.

A proxy command is `Edit` (the row) and then `Check`, `Version`, `ReadServer`,
`ReadProxies`, `Truncate`, `Write`, `Reload`, `Apply`, each with its failure;
the result of the reload is dropped, so a failure only sets `missed`. A start is
`Launch`, the same from `Version` to `Write`, `Spawn`, `Record`; frpc reads the
file in `Boot`, at any time after `Spawn`. `SaveConfig` and `ImportToml` change
the row and reload nothing; `ResetAll` and `Wipe` are the full reset. What
`frpc reload` does is external: it reads the admin address from the file and
asks the frpc listening there to read the file again.

`missed` is set by exactly these steps, which are the causes that
`DriftHasCause` names: a reload fails (no version, no row, disk, torn or empty
file, no frpc at the address); `Check` finds no recorded frpc although one is
starting with, or has read, older tunnels; a write leaves an older read in the
file and no other command is about to write; the tables are emptied while frpc
runs or starts. It is cleared when frpc reads a current file.

### VersionStore

`rows` is the table (the id of each release's row), `files` what the directory
of each release has, `archive` the file a release is downloaded to, `cache` the
list that downloads and imports look releases up in. Each command in flight has
a program counter, a release, the rows it has `seen`, and, if it is a listing,
the releases `left` to look at, those it found downloaded (`out`) and whether
GitHub answered (`online`). `dropped` has the commands that went on although what
they were to remove stayed, or although the archive had no frpc.

An action is one statement on the database, one file operation or one wait for
the network. A listing is `GetVersions`, `Answer` (GitHub's releases or the
bundled ones; the rows are read), `Examine` per release, `Clean` for a stale
record, `Deliver`. A download is `Download` (lookup, removal of the directory),
`Create`, `Received` or `DownloadFails`, then `Unpack`, `Write` (tar.gz only),
`Rename`, `Insert`; an import is `ImportLocal` and the same from `Unpack` on. A
deletion is `Delete`, `RemoveDir`, `Unrecord`; the check before a launch is
`Launch`, `Look` and, if the binary is missing, `Unrecord`; a full reset is
`ResetRows`, `ResetArchives`, `ResetVersions`. `Restart` ends the app at any
point.

File operations and statements may fail at any time. Where the code returns the
error, so does the command: `AnswerFails`, `UnpackFails` (a zip may have been
unpacked in part), `WriteFails`, `RenameFails`, `InsertFails` (also what the
unique index refuses), `UnrecordFails`. Where the code drops the error, the
command goes on: `AfterRemoval` is what `remove_dir_all` may leave of a
directory, the program of a running frpc.exe among others, in `Download`,
`RemoveDir` and `ResetVersions`; an archive may stay in `ResetArchives` and
`Rename`; a listing leaves a stale record it cannot delete (`CleanFails`). An
archive without an entry `frpc` unpacks to nothing, the rename is skipped and
the version is recorded all the same (`UnpackNothing`).

Two downloads of one version write to one file. `archive[r]` is the command
that created the file last: only when that one finishes is the file complete;
another that finishes earlier may read a complete or a broken file. A server
may answer with something else than the asset, since the status of the answer
is not looked at: no archive, or one without frpc (`"other"`). A rename and the removal of the tar.gz after it are one
action; the order in which a listing goes through the releases is arbitrary.

`intact` and `quiet` are history: the releases whose record has had its binary
in place ever since it was written, and, per command, the releases it is about
that no other command has changed meanwhile.

## 3. Runs

| Run | Instance | Shows |
| --- | --- | --- |
| `FrpcProcess_windows` | 3 pids, 2 callers, all faults, symmetry; about 920,000 states | `TypeOK`, `RecordedIsStarted`, `NoOrphan`, `RecoveryFlagHeld`, `ForgetsOnlyTheDead`, `StoppedStaysStopped` |
| `FrpcProcess_macos` | 2 pids, 2 callers, all faults, fairness | `GuardianKeepsPolling`, `GuardianRestarts` |
| `FrpcWatcher_macos` | 2 pids, 1 caller, start and network faults, fairness | `StatusFollowsProcess`, `ExitNotified`, implements `FrpcProcess!Spec` |
| `ConfigStore_commands` | 2 commands, 2 server rows, crashes, fairness | `TypeOK`, `MixedOnlyByInterruption`, `LanguageChangesOnlyItself`, `EveryCommandEnds` |
| `Startup_sessions` | 3 releases, 2 ids, 1 value, 3 to 5 logs per file; about 0.28 million states | `TypeOK`, `OpenOnlyAfterImport`, `ConstraintsHold`, `ArchivedOnlyAfterCommit`, `ImportsOnce` of the import; `StartupTypeOK`, `OpensOnItsSchema`, `HistoryIsPrefix`, `ContinuesOwnHistory` of the schema |
| `ConfigSync_edits` | 2 commands and a start, 1 id, 2 configurations, failures, symmetry; about 0.7 million states | `TypeOK`, `EditsHeld`, `DriftHasCause`, `AdminReachable`, `ExportComesBack`; `FrpcToml` over samples |
| `VersionStore_commands` | 3 commands, 1 release, 3 row ids, tar.gz build, all failures, symmetry; about 0.75 million states | `TypeOK`, `RecordFollowsBinary`, `ListingIsTrue`, `IntactStays` |
| `FrpcProcess_linux_recovery` | Linux build, no faults | violates `GuardianRestarts` |
| `FrpcProcess_linux_leftover` | Linux build, no faults | violates `LeftoverDetected` |
| `ConfigStore_insert_many` | 1 command, files that list a proxy | violates `BatchEnds` |
| `NedbMigration_lines` | as `Startup_sessions` without the schema, more logs | violates `RefusedOnlyIfInvalid` |
| `VersionStore_mode` | 2 commands, 2 releases (one not in the bundled list), 4 row ids, tar.gz build | violates `InstalledRuns` |

### Bounds, and why they are enough

* Three pids: a recorded child, an older one whose waiter is late, and a third
  being spawned or left behind. Two callers and the guardian make three threads
  that can start or stop at the same time. The liveness runs need the fairness
  of every thread and are smaller: two pids for an old and a new child, and in
  the run of the watcher, which is one thread more, one caller.
* Two commands: every property of `ConfigStore` is about one command and at
  most one that interferes. Two values per column group tell apart old and new.
* The logs of the migration contain every way two lines can relate: one
  document, two documents, an update, a deletion, a deletion and another
  document with the same release, an invalid document, a skipped line, nothing.
  One value suffices because only equality with the default, absence and the
  release of another row matter.

* Three releases: one that another continues, and one that has a migration in
  between, so that a history can be continued, be ahead of a release, and
  disagree with it. `Startup_sessions` leaves out the logs that only
  `NedbMigration_lines` needs; what each log relates is there.
* Two proxy commands and a start: an edit, what overtakes it, and a start that
  meets both. One id is enough because an edit of another id differs only in
  that both edits are in the file. Two configurations, with different admin
  ports; one row, which may be there, disabled or absent. A command may follow
  another in the same place. There is one start at a time: overlapping starts
  are the subject of `FrpcProcess`, and on the assumption that no process is
  adopted the recorded frpc is the one that runs.
* `FrpcToml` is evaluated over 21504 rows (all types, both visitor models, ports
  that are numbers, ranges and neither, empty and mixed lists, every switch) and
  144 configurations: `ImportRestores` and `ImportRestoresServer` (what comes
  back is exactly what `Restorable` and `ServerRestorable` describe),
  `OneTableEach` (an enabled proxy is one table, a disabled one none) and
  `ImportSettles` (what an import loses is lost the first time).
* Three commands of the version service about one release: a stale read, what
  makes it stale and what is written instead can be three commands, and commands
  follow one another in each of the three places. Releases share the cache and
  the loop of a listing, nothing else. Three ids are what the row and the reads
  of the other two commands leave a new row at the least; a fourth adds no
  state. What a command does to other releases, a list that lacks some, and the
  zip build are covered by the proofs.

The proofs remove these bounds for everything but liveness. The samples of
`FrpcToml` stay as a check of the assumptions the theorems make.

### Fairness

`FrpcProcess!Fairness`: threads are scheduled (weak fairness of each thread's
next step), a signalled process ends, cooldowns pass. Strong fairness is asked
of what the guardian tries repeatedly: the network check succeeds, the
configuration and the port are fine and the spawn succeeds, if each is tried
again and again. Nothing is asked of the user, and nothing has to crash.
`FrpcWatcher` needs only its own thread. `ConfigStore!FairSpec` assumes strong
fairness of each command's next step: a command that finds the mutex free again
and again gets it. `std::sync::Mutex` promises no order, but the operating
system's futex or SRW lock wakes waiters, and commands are finite.

### What the violations show

* `FrpcProcess_linux_recovery`: the waiter of a dead child clears the record
  and the start time; the guardian takes the missing start time for "not meant
  to run". On builds with a waiter frpc is recovered only if the guardian polls
  in the short time between exit and waiter. The notification of an unexpected
  exit depends on the same start time.
* `FrpcProcess_linux_leftover`: the probe for leftover processes cannot match
  on Linux, so an frpc left by a crashed app is not adopted.
* `ConfigStore_insert_many`: `insert_many` locks the connection and calls
  `upsert_for_migration`, which locks it again. The import of a file that lists
  a proxy never returns, and every later database call waits for it.
* `NedbMigration_lines`: NeDB files are append-only logs. The code reads every
  line as a document; a store whose last session saved the server twice, or
  changed or deleted a proxy or version, is refused, and the app does not start
  until the files are repaired. The design document asks for the effective
  documents. What is accepted is imported right: that is `ImportsOnce`, and `ReadsLikeNeDB` says for
  which logs the two ways of reading agree.
* `VersionStore_mode`: a tar.gz is unpacked by writing the bytes of `frpc` to a
  new file, which is not executable, and nothing makes it so. On macOS and
  Linux a version the app has downloaded or imported cannot be started; only
  those the Electron app left behind can.

Five more disagreements show in the properties that hold. A crash or an error
between the server row and the desktop settings leaves a mixture of two saves,
where `docs/DATABASES.md` asks for one transaction: `MixedOnlyByInterruption`
holds only with its condition. And a save while frpc runs is not followed by a
reload: a changed admin port is in the file after the next edit, whose reload
then fails, as do all later ones until frpc is started again: `AdminReachable`
holds only while the address is not changed. And saving the language reads and
writes the whole configuration, where `docs/DATABASES.md` (line 280) asks for the
language alone: `LanguageChangesOnlyItself` holds only if no other write comes
across and no read fails (then the defaults are written over everything), and an
empty store gets a default server from it. The deletion of a version drops the
failure to remove its directory (`version_service.rs:263`, for instance because
frpc.exe runs from it) and deletes the record all the same: it reports success
and leaves a binary the app does not list, which the next download replaces. And
an archive that opens but has no frpc is recorded as installed (the test at line
385 skips the rename, not the insert); the next listing or launch removes the
record. `IntactStays` names the first as its exception, `RecordFollowsBinary` both.

What an export and an import of the app's own file do not restore, exactly:
ranges of ports (the file is no TOML then, and is refused), providers of stcp,
sudp and xtcp (they come back as visitors), the `https2http` plugin, the
credentials of basic authentication, the fallback of an xtcp visitor,
metadatas besides the token, and an authentication method `none` (it comes back
as the empty method, which is written to the next file).

## 4. Proofs

All theorems hold for every value of the constants that meets the named
assumptions: `NoPid`, `Guardian`, `Free` and the other markers differ from the
values they are compared with, `Faults` and `ImportLists` have their types, a
NeDB log deletes only what it inserted before (`DeletionsFollowInsertions`),
every release embeds migrations sorted by version (`ShippedAssumption`), and the
default numbers are numbers while no number has a comma or a dash
(`TextAssumption`).

* `FrpcProcess_proofs`: `TypeCorrect`; `RecoveryFlagSafe` and
  `RecordedStaysStarted`, inductive with the types; `NeverOrphaned`, whose
  inductive invariant is `NoOrphan /\ InHand`. `InHand` is needed because
  `NoOrphan` alone does not say that a start call past its check is the only
  one and that no frpc but its own child lives, nor that a stop about to forget
  its process has signalled it. `OnlyStartsForget` and `QuietUntilLaunch` are
  action properties that follow from these invariants step by step; the latter
  says nothing of a recovery under way, which overruns a stop.
* `ConfigStore_proofs`: `TypeCorrect`, whose last conjunct ties the mutex to
  the two places it is held between steps, and `MixedOnlyWhenInterrupted`. The
  invariant says what the store holds at each step of an undisturbed save, so
  it is inductive as it stands. `LanguageAlone` needs more: `LanguageInv` says
  what a language command has in hand at each of its steps, first compared with
  the tables it has read, then with what the last write left, and that settings
  without a row are the defaults as long as nothing was torn.
* `LoopTheorems`: the induction theorems of the library take an operator as a
  parameter, which the provers cannot instantiate. `SetInduction` takes a set of
  numbers instead, and `LoopExists` a function for the body of a loop: with them
  what a recursive function computes is proved for inputs of any length.
* `NedbMigration_proofs`: `TypeCorrect`, `OpensAfterImport`, `NothingLost`,
  `ConstraintsKept` and `ImplementsOneTimeImport`. They rest on what reading a
  log amounts to, for logs of any length: `LastLineCounts` (a row is what the
  last line about it says, by induction over the lines), `ReadsLikeNeDB`
  (the code and NeDB read the same if and only if no document was deleted last)
  and `ImportedIdsPresent` (`verify_imported_ids` never fails). If no two
  documents of a log share an id, the log has no deletion line, because a
  deletion follows an insertion of the same id (`UniqueHasNoDeletion`), so an
  accepted import writes what NeDB would return. So `assert_unique`, meant as a
  sanity check, is what keeps the line parser from importing stale or deleted
  documents. `ConstraintsKept` is inductive with the types; its step for the
  import is an induction over the upserts (`ReleasesStayApart`).
* `VersionStore_proofs`: `TypeCorrect`; `IntactRecordsStay`, whose invariant
  `IntactInv` says that a command about to remove a record never holds the id
  of an intact one, unless it has let a directory stay (`TakesStale`), which
  rests on new records having ids nobody has read;
  `RecordsFollowBinaries` and `ListingsAreTrue`, whose invariant `QuietInv` says
  what an undisturbed command knows after each of its steps, in particular that
  a listing's reads are still true of the releases it has not looked at. The
  assumption `VersionAssumption` says that the markers differ from the ids,
  releases and commands. Both builds are covered (`Zip` is arbitrary).

* `FrpcProcess_proofs`, second part: `WatcherImplements`: every step of the
  watcher is a status query or nothing to `FrpcProcess`, so the theorems above
  hold beside it, which `SafeBesideWatcher` states; `WatcherTypes` takes the
  types of the process service from there.
* `ConfigSync_proofs`: `TypeCorrect`; `EditsAreHeld`, whose invariant `EditsHeld`
  is inductive with the types: until something is missed, for each copy that is
  not current some command is at a step before the one that renews it. It
  implies `DriftHasCause`. `AdminStaysReachable` rests on `Agree`: every actor
  about to write holds a configuration, and the row, all of these, the file of
  an frpc that starts or runs, and that frpc name one address.
  `ExportsComeBack` carries the theorems on files over to the rows the commands
  leave behind, for which it needs that each row was made by an edit, a save or
  an import (`RowsTyped`). It is about what is written and parsed; the import
  command itself does not return from storing proxies (`ConfigStore_insert_many`).
* `FrpcToml_proofs`: `ServerRestoredIff` and `RestoredIff` prove in both
  directions, for every value of every field, what the runs evaluate over
  samples: a configuration, and an enabled proxy of any type, comes back from an
  export and an import if and only if it is `ServerRestorable`, `Restorable`.
  `ImportSettles` (what an import loses is lost the first time), `FileComesBack`
  (the same of a whole file with any number of proxies) and `OneTableEach` rest
  on them. They assume that booleans are booleans, that lists are lists and that
  number texts are numbers, as the types of the Rust structures say. The lists
  that are filtered when they are written (`locations`) need an induction over
  the texts: filtering twice is filtering once.
* `Startup_proofs`: `StartupTypes`, `OwnSchema`, `HistoryOfARelease`,
  `OwnHistoryContinues`, from `SchemaInv`: the history is a prefix of some
  release's list, of this release's once it is validated, and all of it once
  the app runs. `PlaceOfRow` says that a history ordered by application is
  ordered by version, and `ValidIsPrefix` that the loop in `run_migrations`,
  which compares index by index, decides exactly whether it is a prefix.
  `ImplementsNedbMigration` carries the theorems of `NedbMigration_proofs` over,
  which `ImportSafeInStartup` states.

Only model-checked: the liveness properties (`GuardianKeepsPolling`,
`GuardianRestarts`, `StatusFollowsProcess`, `ExitNotified`,
`EveryCommandEnds`), which need fairness and `ENABLED`.

## 5. Not modelled

* The reuse of a pid that the app still refers to; the operating system model
  does not hand one out.
* The durability of a WAL commit against a rename after a power loss
  (`synchronous = NORMAL`).
* Times: cooldowns and polling intervals are "over" or "not over" at any point.
  What `Instant::now() - cooldown` does shortly after the boot of the machine
  depends on the standard library of the platform and is not modelled.
* Installing the macOS helper, reading the connection error from the log, the
  views, translations, logger, paths and build: no state the others depend on.
* Rows with a path from elsewhere than the directory of their release.
* The field-by-field normalisation of NeDB documents and the columns of a
  configuration are abstracted to one value each; a document is valid or not.
* The renderer (`ipcUtils.ts`, the stores and views): its two hazards, a second
  listener before `listen()` resolves and replies matched by path, depend on
  when Vue mounts views and which of them ask for the same path at once. A model
  would assume the answer.
* Floats and nested metadatas in TOML, the layout of the file, the text of a
  range-port template.
* Overlapping starts together with reloads, and a reload of an adopted process:
  `FrpcProcess` has the former, `ConfigSync` assumes there is neither.
* The log service (its file watcher has no caller), system usage, port lists,
  file dialogs, the check for updates: they read and report.

## 6. Plan

The plan of this project was, in this order: `FrpcProcess` and `FrpcWatcher`,
`ConfigStore`, `NedbMigration`, `VersionStore`, `ConfigSync` on `FrpcToml`,
`Startup`; all of it is done, with the proofs of section 4. What is left is the
composition of `ConfigSync` with the starts of `FrpcProcess`: two starts, one of
them the guardian's, both writing the file.
