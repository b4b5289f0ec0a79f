---------------------------- MODULE VersionStore ----------------------------
(***************************************************************************)
(* VersionService and VersionRepository: the frp releases the app lists,   *)
(* downloads, imports, deletes and checks before a launch.                 *)
(*                                                                         *)
(* A version is kept in three places that no transaction holds together:   *)
(* a row of t_frpcd_versions, a directory with the binary, and, while it   *)
(* is being downloaded, an archive.  Commands run side by side on the      *)
(* threads of the async runtime; an action is one statement on the         *)
(* database, one file operation, or one wait for the network.              *)
(*                                                                         *)
(* Release names and asset names tell releases apart, so a release has one *)
(* directory and one archive, and every row points to the directory of its *)
(* release.                                                                *)
(*                                                                         *)
(* A file operation or a statement may fail at any time.  Where the code   *)
(* drops the failure and goes on, so does the command.                     *)
(***************************************************************************)
EXTENDS FiniteSets

CONSTANTS
    Releases,  \* the releases GitHub lists that have an asset for this computer
    Bundled,   \* those among them that the list built into the app has
    Tasks,     \* the commands that can be in flight together
    Ids,       \* the row ids (uuids)
    None,      \* no row, no release, no file
    Zip        \* the assets are .zip files (the Windows build), not .tar.gz

ASSUME VersionAssumption ==
    /\ Bundled \subseteq Releases
    /\ None \notin Ids \cup Releases \cup Tasks
    /\ {"whole", "other"} \cap Tasks = {}
    /\ Zip \in BOOLEAN

VARIABLES
    rows,     \* t_frpcd_versions: the id of the row of each release
    files,    \* what the directory of each release has
    archive,  \* the file the asset of each release is downloaded to: what it
              \* holds ("other": an archive without frpc, None: no archive), or
              \* the command that writes it
    cache,    \* VersionService.versions
    pc,       \* where each command is
    rel,      \* the release it is about
    seen,     \* the rows it has read
    left,     \* the releases a listing has yet to look at
    out,      \* the releases it found downloaded
    online,   \* GitHub answered it
    dropped,  \* the commands that went on although a record or a binary they
              \* were to remove stayed, or the archive had no binary
    intact,   \* history: recorded with the binary in place, and so ever since
    quiet     \* history: those it is about and no other has touched meanwhile

stored == <<rows, files, archive>>
local == <<pc, rel, seen, left, out, online, dropped>>
vars == <<stored, cache, local, intact, quiet>>

-----------------------------------------------------------------------------
(* "dir": the directory exists; "unpacked": it has frpc under the name the  *)
(* archive gives it; "binary": under the name the app starts; "exec": and   *)
(* the operating system would start it.                                     *)
Content == {"dir", "unpacked", "binary", "exec"}
FrpcVersionExists(r) == "binary" \in files[r]

Steps == {"idle", "ask", "examine", "clean", "request", "stream",
          "readArchive", "readFile", "write", "rename", "insert",
          "rmdir", "look", "unrecord", "rmarchives", "rmversions"}

Listed(t) == IF online[t] THEN Releases ELSE Bundled

TypeOK ==
    /\ rows \in [Releases -> Ids \cup {None}]
    /\ files \in [Releases -> SUBSET Content]
    /\ archive \in [Releases -> Tasks \cup {"whole", "other", None}]
    /\ cache \in SUBSET Releases
    /\ pc \in [Tasks -> Steps]
    /\ rel \in [Tasks -> Releases \cup {None}]
    /\ seen \in [Tasks -> [Releases -> Ids \cup {None}]]
    /\ left \in [Tasks -> SUBSET Releases]
    /\ out \in [Tasks -> SUBSET Releases]
    /\ online \in [Tasks -> BOOLEAN]
    /\ dropped \in SUBSET Tasks
    /\ intact \in SUBSET Releases
    /\ quiet \in [Tasks -> SUBSET Releases]
    /\ \A t \in Tasks :
        pc[t] \notin {"idle", "ask", "examine", "rmarchives", "rmversions"}
            => rel[t] \in Releases

Nothing == [r \in Releases |-> None]

\* The versions the Electron app left behind, whose records the migration took
\* over: it kept the mode of the files it unpacked.
Init ==
    /\ rows \in [Releases -> Ids \cup {None}]
    /\ \A r, s \in Releases : rows[r] = rows[s] => r = s \/ rows[r] = None
    /\ files = [r \in Releases |->
                    IF rows[r] = None THEN {} ELSE {"dir", "binary", "exec"}]
    /\ archive = Nothing
    /\ cache = {}
    /\ pc = [t \in Tasks |-> "idle"]
    /\ rel = [t \in Tasks |-> None]
    /\ seen = [t \in Tasks |-> Nothing]
    /\ left = [t \in Tasks |-> {}]
    /\ out = [t \in Tasks |-> {}]
    /\ online = [t \in Tasks |-> FALSE]
    /\ dropped = {}
    /\ intact = {r \in Releases : rows[r] # None}
    /\ quiet = [t \in Tasks |-> {}]

-----------------------------------------------------------------------------
(* Moving on, starting with a release, and returning.                       *)

MoveTo(t, step) ==
    /\ pc' = [pc EXCEPT ![t] = step]
    /\ UNCHANGED <<rel, seen, left, out, online>>

Goto(t, step) == MoveTo(t, step) /\ UNCHANGED dropped

\* The code goes on although what it has just done was in vain.
GoOnRegardless(t, step) == MoveTo(t, step) /\ dropped' = dropped \cup {t}

Begin(t, step, r, read) ==
    /\ pc[t] = "idle"
    /\ pc' = [pc EXCEPT ![t] = step]
    /\ rel' = [rel EXCEPT ![t] = r]
    /\ seen' = [seen EXCEPT ![t] = read]
    /\ dropped' = dropped \ {t}
    /\ UNCHANGED <<left, out, online>>

Return(t) ==
    /\ pc' = [pc EXCEPT ![t] = "idle"]
    /\ rel' = [rel EXCEPT ![t] = None]
    /\ seen' = [seen EXCEPT ![t] = Nothing]
    /\ left' = [left EXCEPT ![t] = {}]
    /\ out' = [out EXCEPT ![t] = {}]
    /\ online' = [online EXCEPT ![t] = FALSE]
    /\ dropped' = dropped \ {t}

\* The row of r alone.
RowOf(r) == [Nothing EXCEPT ![r] = rows[r]]

\* Faulty variant: DELETE ... WHERE github_release_id = ?
DeleteByRelease(t) == rows' = [rows EXCEPT ![rel[t]] = None]

\* DELETE ... WHERE id = ?, with the id the command has read.
DeleteById(t) ==
    rows' = [rows EXCEPT
        ![rel[t]] = IF @ = seen[t][rel[t]] THEN None ELSE @]

\* What remove_dir_all may leave of a directory, its result being dropped: the
\* directory and the files in it that could not be removed (the program of a
\* running frpc, on Windows).
AfterRemoval(content) ==
    {{}} \cup {content \ UNION gone :
                    gone \in SUBSET {{"unpacked"}, {"binary", "exec"}}}

-----------------------------------------------------------------------------
(* version_get_versions.                                                    *)

GetVersions(t) ==
    /\ Begin(t, "ask", None, Nothing)
    /\ UNCHANGED <<stored, cache>>

\* The releases have come, or the bundled ones serve instead; the rows are read.
Answer(t) ==
    /\ pc[t] = "ask"
    /\ pc' = [pc EXCEPT ![t] = "examine"]
    /\ seen' = [seen EXCEPT ![t] = rows]
    /\ \E answered \in BOOLEAN :
        /\ online' = [online EXCEPT ![t] = answered]
        /\ left' = [left EXCEPT ![t] = IF answered THEN Releases ELSE Bundled]
    /\ UNCHANGED <<stored, cache, rel, out, dropped>>

\* The rows cannot be read, for the bundled list either.
AnswerFails(t) ==
    /\ pc[t] = "ask"
    /\ Return(t)
    /\ UNCHANGED <<stored, cache>>

\* Faulty variant: the record to remove is not kept.
ExamineLosesRelease(t) ==
    /\ pc[t] = "examine"
    /\ \E r \in left[t] :
        IF seen[t][r] # None /\ ~FrpcVersionExists(r)
        THEN /\ pc' = [pc EXCEPT ![t] = "clean"]
             /\ UNCHANGED <<left, out>>
        ELSE /\ left' = [left EXCEPT ![t] = @ \ {r}]
             /\ out' = [out EXCEPT
                    ![t] = IF seen[t][r] # None THEN @ \cup {r} ELSE @]
             /\ UNCHANGED pc
    /\ UNCHANGED <<stored, cache, rel, seen, online, dropped>>

\* The order in which the releases are listed does not matter.
Examine(t) ==
    /\ pc[t] = "examine"
    /\ \E r \in left[t] :
        IF seen[t][r] # None /\ ~FrpcVersionExists(r)
        THEN /\ pc' = [pc EXCEPT ![t] = "clean"]
             /\ rel' = [rel EXCEPT ![t] = r]
             /\ UNCHANGED <<left, out>>
        ELSE /\ left' = [left EXCEPT ![t] = @ \ {r}]
             /\ out' = [out EXCEPT
                    ![t] = IF seen[t][r] # None THEN @ \cup {r} ELSE @]
             /\ UNCHANGED <<pc, rel>>
    /\ UNCHANGED <<stored, cache, seen, online, dropped>>

\* Faulty variant: the stale record is not removed.
CleanForgets(t) ==
    /\ pc[t] = "clean"
    /\ pc' = [pc EXCEPT ![t] = "examine"]
    /\ rel' = [rel EXCEPT ![t] = None]
    /\ left' = [left EXCEPT ![t] = @ \ {rel[t]}]
    /\ UNCHANGED <<stored, cache, seen, out, online, dropped>>

\* "Binary missing ..., removing stale DB record".
Clean(t) ==
    /\ pc[t] = "clean"
    /\ DeleteById(t)
    /\ pc' = [pc EXCEPT ![t] = "examine"]
    /\ rel' = [rel EXCEPT ![t] = None]
    /\ left' = [left EXCEPT ![t] = @ \ {rel[t]}]
    /\ UNCHANGED <<files, archive, cache, seen, out, online, dropped>>

\* The listing goes on if the record cannot be removed.
CleanFails(t) ==
    /\ pc[t] = "clean"
    /\ pc' = [pc EXCEPT ![t] = "examine"]
    /\ rel' = [rel EXCEPT ![t] = None]
    /\ left' = [left EXCEPT ![t] = @ \ {rel[t]}]
    /\ dropped' = dropped \cup {t}
    /\ UNCHANGED <<stored, cache, seen, out, online>>

\* Only what GitHub listed goes to the cache.
Deliver(t) ==
    /\ pc[t] = "examine"
    /\ left[t] = {}
    /\ cache' = IF online[t] THEN Releases ELSE cache
    /\ Return(t)
    /\ UNCHANGED stored

-----------------------------------------------------------------------------
(* version_download_version.                                                *)

\* The version is looked up in the cache, and its directory removed, if it can
\* be.
Download(t) ==
    \E r \in cache :
        /\ Begin(t, "request", r, Nothing)
        /\ \E content \in AfterRemoval(files[r]) :
            files' = [files EXCEPT ![r] = content]
        /\ UNCHANGED <<rows, archive, cache>>

\* The server answers, with whatever status, and the file is created.
Create(t) ==
    /\ pc[t] = "request"
    /\ archive' = [archive EXCEPT ![rel[t]] = t]
    /\ Goto(t, "stream")
    /\ UNCHANGED <<rows, files, cache>>

\* What task t leaves of the archive when it stops writing: nothing of its own
\* if the file was created anew, or removed, since.
Left(t, r, result) == IF archive[r] = t THEN result ELSE archive[r]

\* The stream ends.  The answer may have been something else than the asset:
\* no archive, or one without frpc.
Received(t) ==
    /\ pc[t] = "stream"
    /\ \E result \in {"whole", "other", None} :
        archive' = [archive EXCEPT ![rel[t]] = Left(t, rel[t], result)]
    /\ Goto(t, "readArchive")
    /\ UNCHANGED <<rows, files, cache>>

\* The request, or the stream, fails.
DownloadFails(t) ==
    /\ pc[t] \in {"request", "stream"}
    /\ archive' = [archive EXCEPT ![rel[t]] = Left(t, rel[t], None)]
    /\ Return(t)
    /\ UNCHANGED <<rows, files, cache>>

-----------------------------------------------------------------------------
(* version_import_local_frpc_version: an archive whose checksum is known,   *)
(* for this computer, in the cache and not recorded.                        *)

ImportLocal(t) ==
    \E r \in cache :
        /\ rows[r] = None
        /\ Begin(t, "readFile", r, Nothing)
        /\ UNCHANGED <<stored, cache>>

-----------------------------------------------------------------------------
(* decompress_frp.                                                          *)

\* While another download writes the file, what is in it may be complete.
Readable(t) ==
    \/ pc[t] = "readFile"
    \/ /\ pc[t] = "readArchive"
       /\ archive[rel[t]] \in Tasks \cup {"whole"}

\* The checksum of an imported archive is known.
LacksFrpc(t) ==
    /\ pc[t] = "readArchive"
    /\ archive[rel[t]] \in Tasks \cup {"other"}

\* A zip is unpacked to the directory; of a tar.gz the binary is read first.
Unpack(t) ==
    /\ Readable(t)
    /\ files' = [files EXCEPT
            ![rel[t]] = @ \cup (IF Zip THEN {"dir", "unpacked"} ELSE {"dir"})]
    /\ Goto(t, IF Zip THEN "rename" ELSE "write")
    /\ UNCHANGED <<rows, archive, cache>>

\* No entry of the archive is frpc, and nothing asks for one.
UnpackNothing(t) ==
    /\ LacksFrpc(t)
    /\ files' = [files EXCEPT ![rel[t]] = @ \cup {"dir"}]
    /\ GoOnRegardless(t, "rename")
    /\ UNCHANGED <<rows, archive, cache>>

\* The archive is broken, or the disk is full; a zip may be unpacked in part.
UnpackFails(t) ==
    /\ pc[t] \in {"readFile", "readArchive"}
    /\ \E made \in {{}, {"dir"}} \cup (IF Zip THEN {{"dir", "unpacked"}} ELSE {}) :
        files' = [files EXCEPT ![rel[t]] = @ \cup made]
    /\ Return(t)
    /\ UNCHANGED <<rows, archive, cache>>

Write(t) ==
    /\ pc[t] = "write"
    /\ "dir" \in files[rel[t]]
    /\ files' = [files EXCEPT ![rel[t]] = @ \cup {"unpacked"}]
    /\ Goto(t, "rename")
    /\ UNCHANGED <<rows, archive, cache>>

\* The directory has gone, or the disk is full.
WriteFails(t) ==
    /\ pc[t] = "write"
    /\ \/ UNCHANGED files
       \/ /\ "dir" \in files[rel[t]]
          /\ files' = [files EXCEPT ![rel[t]] = @ \cup {"unpacked"}]
    /\ Return(t)
    /\ UNCHANGED <<rows, archive, cache>>

\* Faulty variant: frpc keeps the name it has in the archive.
RenamedNot(content) == content

\* fs::write gives the file no mode of its own: it is not executable.
Renamed(content) ==
    IF "unpacked" \in content
    THEN {"dir", "binary"} \cup (IF Zip THEN {"exec"} ELSE {})
    ELSE content

\* The archive of a tar.gz is removed, if it can be, also after an import.
Rename(t) ==
    /\ pc[t] = "rename"
    /\ files' = [files EXCEPT ![rel[t]] = Renamed(@)]
    /\ \/ UNCHANGED archive
       \/ ~Zip /\ archive' = [archive EXCEPT ![rel[t]] = None]
    /\ Goto(t, "insert")
    /\ UNCHANGED <<rows, cache>>

\* There is a file to rename, and the one it would replace is in use.
RenameFails(t) ==
    /\ pc[t] = "rename"
    /\ "unpacked" \in files[rel[t]]
    /\ Return(t)
    /\ UNCHANGED <<stored, cache>>

\* A uuid nobody holds.
NewIds ==
    Ids \ ({rows[r] : r \in Releases}
           \cup {seen[t][r] : t \in Tasks, r \in Releases})

Insert(t) ==
    /\ pc[t] = "insert"
    /\ rows[rel[t]] = None
    /\ \E i \in NewIds : rows' = [rows EXCEPT ![rel[t]] = i]
    /\ Return(t)
    /\ UNCHANGED <<files, archive, cache>>

\* Among others, the unique index refuses a second row for a release.
InsertFails(t) ==
    /\ pc[t] = "insert"
    /\ Return(t)
    /\ UNCHANGED <<stored, cache>>

-----------------------------------------------------------------------------
(* version_delete_downloaded_version, the check of start_frpc_process, and  *)
(* the part of server_reset_all_config that is about versions.              *)

Delete(t) ==
    \E r \in Releases :
        /\ rows[r] # None
        /\ Begin(t, "rmdir", r, RowOf(r))
        /\ UNCHANGED <<stored, cache>>

\* The record is removed next, whether or not the directory has gone.
RemoveDir(t) ==
    /\ pc[t] = "rmdir"
    /\ \E content \in AfterRemoval(files[rel[t]]) :
        /\ files' = [files EXCEPT ![rel[t]] = content]
        /\ IF "binary" \in content
           THEN GoOnRegardless(t, "unrecord")
           ELSE Goto(t, "unrecord")
    /\ UNCHANGED <<rows, archive, cache>>

Launch(t) ==
    \E r \in Releases :
        /\ rows[r] # None
        /\ Begin(t, "look", r, RowOf(r))
        /\ UNCHANGED <<stored, cache>>

\* With the binary in place the launch goes on (FrpcProcess has the rest).
Look(t) ==
    /\ pc[t] = "look"
    /\ IF FrpcVersionExists(rel[t]) THEN Return(t) ELSE Goto(t, "unrecord")
    /\ UNCHANGED <<stored, cache>>

Unrecord(t) ==
    /\ pc[t] = "unrecord"
    /\ DeleteById(t)
    /\ Return(t)
    /\ UNCHANGED <<files, archive, cache>>

UnrecordFails(t) ==
    /\ pc[t] = "unrecord"
    /\ Return(t)
    /\ UNCHANGED <<stored, cache>>

ResetRows(t) ==
    /\ Begin(t, "rmarchives", None, Nothing)
    /\ rows' = Nothing
    /\ UNCHANGED <<files, archive, cache>>

\* Of both directories that is removed which can be.
ResetArchives(t) ==
    /\ pc[t] = "rmarchives"
    /\ \E stay \in SUBSET Releases :
        archive' = [r \in Releases |-> IF r \in stay THEN archive[r] ELSE None]
    /\ Goto(t, "rmversions")
    /\ UNCHANGED <<rows, files, cache>>

ResetVersions(t) ==
    /\ pc[t] = "rmversions"
    /\ files' \in [Releases -> SUBSET Content]
    /\ \A r \in Releases : files'[r] \in AfterRemoval(files[r])
    /\ Return(t)
    /\ UNCHANGED <<rows, archive, cache>>

-----------------------------------------------------------------------------
(* The app ends at any point, and is started again.                         *)

Restart ==
    /\ cache' = {}
    /\ pc' = [t \in Tasks |-> "idle"]
    /\ rel' = [t \in Tasks |-> None]
    /\ seen' = [t \in Tasks |-> Nothing]
    /\ left' = [t \in Tasks |-> {}]
    /\ out' = [t \in Tasks |-> {}]
    /\ online' = [t \in Tasks |-> FALSE]
    /\ dropped' = {}
    /\ archive' = [r \in Releases |->
            IF archive[r] \in Tasks THEN None ELSE archive[r]]
    /\ UNCHANGED <<rows, files>>

-----------------------------------------------------------------------------
(* The history variables, and the specification.                            *)

Touched ==
    {r \in Releases : \/ rows'[r] # rows[r]
                      \/ files'[r] # files[r]
                      \/ archive'[r] # archive[r]}

\* The releases recorded with the binary in place by the step, or so before.
KeepIntact ==
    intact' = {r \in Releases :
        /\ rows'[r] # None
        /\ "binary" \in files'[r]
        /\ r \in intact \/ rows[r] = None}

\* The releases a command is about once it has read their rows or been given
\* one of them.
Concern(t) ==
    IF pc[t] = "ask" THEN left'[t]
    ELSE IF pc[t] = "idle" THEN {rel'[t]} \cap Releases
    ELSE quiet[t]

KeepQuiet(t) ==
    quiet' = [u \in Tasks |->
        IF pc'[u] = "idle" THEN {}
        ELSE IF u = t THEN Concern(u)
        ELSE quiet[u] \ Touched]

Listing(t) ==
    \/ GetVersions(t) \/ Answer(t) \/ AnswerFails(t)
    \/ Examine(t) \/ Clean(t) \/ CleanFails(t) \/ Deliver(t)

Installing(t) ==
    \/ Download(t) \/ Create(t) \/ Received(t) \/ DownloadFails(t)
    \/ ImportLocal(t)
    \/ Unpack(t) \/ UnpackNothing(t) \/ UnpackFails(t)
    \/ Write(t) \/ WriteFails(t) \/ Rename(t) \/ RenameFails(t)
    \/ Insert(t) \/ InsertFails(t)

Removing(t) ==
    \/ Delete(t) \/ RemoveDir(t) \/ Launch(t) \/ Look(t)
    \/ Unrecord(t) \/ UnrecordFails(t)
    \/ ResetRows(t) \/ ResetArchives(t) \/ ResetVersions(t)

CommandStep(t) == Listing(t) \/ Installing(t) \/ Removing(t)

Next ==
    \/ \E t \in Tasks :
        /\ CommandStep(t)
        /\ KeepIntact
        /\ KeepQuiet(t)
    \/ /\ Restart
       /\ KeepIntact
       /\ quiet' = [t \in Tasks |-> {}]

Spec == Init /\ [][Next]_vars

-----------------------------------------------------------------------------
(* Properties.                                                              *)

\* A record whose binary has been in place since it was written goes only when
\* the binary goes, with a full reset, or with the user's deletion of just this
\* record, whose directory could not be removed: the failure is dropped
\* (version_service.rs:263), and the binary stays without a record.  A listing
\* or a launch that looked at an earlier record of the release, and found no
\* binary, does not take the record a download has written since, nor does the
\* deletion of an earlier record (they delete by id).
IntactStays ==
    [][\A r \in intact :
        \/ r \in intact'
        \/ "binary" \notin files'[r]
        \/ \E t \in Tasks : ResetRows(t)
        \/ \E t \in dropped :
            Unrecord(t) /\ rel[t] = r /\ seen[t][r] = rows[r]]_vars

\* A download or an import records a version only with its binary in place,
\* unless the archive had none (the rename is then skipped, the insert is not),
\* and a record is removed as stale only with the binary gone, and as deleted
\* too, unless the directory could not be removed (that failure is dropped),
\* whatever earlier commands, failures and crashes have left, if no other
\* command touches the same release meanwhile.
RecordFollowsBinary ==
    \A t \in Tasks : rel[t] \in quiet[t] =>
        /\ pc[t] = "insert" /\ t \notin dropped => FrpcVersionExists(rel[t])
        /\ pc[t] = "clean" => ~FrpcVersionExists(rel[t])
        /\ pc[t] = "unrecord" /\ t \notin dropped => ~FrpcVersionExists(rel[t])

\* What a listing delivers is so: the releases it calls downloaded have a record
\* and a binary, and of those it lists no other has a record any more, as long
\* as the records it took for stale could be removed, and unless another command
\* touches the release meanwhile.
ListingIsTrue ==
    \A t \in Tasks : pc[t] = "examine" /\ left[t] = {} =>
        \A r \in Listed(t) \cap quiet[t] :
            /\ r \in out[t] => rows[r] # None /\ FrpcVersionExists(r)
            /\ rows[r] # None => r \in out[t] \/ t \in dropped

\* What is recorded with its binary in place can be started: the app is a
\* cross-platform client that starts the frpc it has downloaded.
InstalledRuns ==
    \A r \in Releases :
        rows[r] # None /\ FrpcVersionExists(r) => "exec" \in files[r]
=============================================================================
