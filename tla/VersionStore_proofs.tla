------------------------ MODULE VersionStore_proofs ------------------------
(***************************************************************************)
(* Proofs about VersionStore, for any releases, commands and builds.       *)
(***************************************************************************)
EXTENDS VersionStore, TLAPS

(* Types.                                                                   *)

\* The types of what commands work on and of their locals, that is all but the
\* history variables.
StateTypeOK ==
    /\ rows \in [Releases -> Ids \cup {None}]
    /\ files \in [Releases -> SUBSET Content]
    /\ archive \in [Releases -> Tasks \cup {"whole", "other", None}]
    /\ cache \in SUBSET Releases
    /\ pc \in [Tasks -> Steps]
    /\ rel \in [Tasks -> Releases \cup {None}]
    /\ seen \in [Tasks -> [Releases -> Ids \cup {None}]]
    /\ left \in [Tasks -> SUBSET Releases]
    /\ out \in [Tasks -> SUBSET Releases]
    /\ online \in [Tasks -> BOOLEAN]
    /\ dropped \in SUBSET Tasks
    /\ \A t \in Tasks :
        pc[t] \notin {"idle", "ask", "examine", "rmarchives", "rmversions"}
            => rel[t] \in Releases

\* Beginning, going on and returning keep the types of the locals.
LEMMA BeginType ==
    ASSUME TypeOK, NEW t \in Tasks, NEW step \in Steps,
           NEW r \in Releases \cup {None},
           NEW read \in [Releases -> Ids \cup {None}],
           step \notin {"ask", "rmarchives"} => r \in Releases,
           Begin(t, step, r, read)
    PROVE  /\ pc' \in [Tasks -> Steps]
           /\ rel' \in [Tasks -> Releases \cup {None}]
           /\ seen' \in [Tasks -> [Releases -> Ids \cup {None}]]
           /\ left' \in [Tasks -> SUBSET Releases]
           /\ out' \in [Tasks -> SUBSET Releases]
           /\ online' \in [Tasks -> BOOLEAN]
           /\ dropped' \in SUBSET Tasks
           /\ \A u \in Tasks :
                pc'[u] \notin {"idle", "ask", "examine", "rmarchives",
                               "rmversions"} => rel'[u] \in Releases
BY DEF TypeOK, Begin

LEMMA GotoType ==
    ASSUME TypeOK, NEW t \in Tasks, NEW step \in Steps,
           Goto(t, step) \/ GoOnRegardless(t, step),
           rel[t] \in Releases \/ step = "rmversions"
    PROVE  /\ pc' \in [Tasks -> Steps]
           /\ rel' \in [Tasks -> Releases \cup {None}]
           /\ seen' \in [Tasks -> [Releases -> Ids \cup {None}]]
           /\ left' \in [Tasks -> SUBSET Releases]
           /\ out' \in [Tasks -> SUBSET Releases]
           /\ online' \in [Tasks -> BOOLEAN]
           /\ dropped' \in SUBSET Tasks
           /\ \A u \in Tasks :
                pc'[u] \notin {"idle", "ask", "examine", "rmarchives",
                               "rmversions"} => rel'[u] \in Releases
BY DEF TypeOK, Goto, MoveTo, GoOnRegardless

LEMMA NothingType == Nothing \in [Releases -> Ids \cup {None}]
BY DEF Nothing

LEMMA ReturnType ==
    ASSUME TypeOK, NEW t \in Tasks, Return(t)
    PROVE  /\ pc' \in [Tasks -> Steps]
           /\ rel' \in [Tasks -> Releases \cup {None}]
           /\ seen' \in [Tasks -> [Releases -> Ids \cup {None}]]
           /\ left' \in [Tasks -> SUBSET Releases]
           /\ out' \in [Tasks -> SUBSET Releases]
           /\ online' \in [Tasks -> BOOLEAN]
           /\ dropped' \in SUBSET Tasks
           /\ \A u \in Tasks :
                pc'[u] \notin {"idle", "ask", "examine", "rmarchives",
                               "rmversions"} => rel'[u] \in Releases
BY NothingType DEF TypeOK, Return, Steps

\* A command in flight, unless it is about all releases, has one.
LEMMA ReleaseKnown ==
    ASSUME TypeOK, NEW t \in Tasks,
           pc[t] \notin {"idle", "ask", "examine", "rmarchives", "rmversions"}
    PROVE  rel[t] \in Releases
BY DEF TypeOK

LEMMA RemovalType ==
    ASSUME TypeOK, NEW r \in Releases, NEW content \in AfterRemoval(files[r])
    PROVE  content \subseteq Content
BY DEF TypeOK, AfterRemoval

LEMMA RowOfType ==
    ASSUME TypeOK, NEW r \in Releases
    PROVE  RowOf(r) \in [Releases -> Ids \cup {None}]
BY NothingType DEF TypeOK, RowOf

LEMMA ListingType ==
    ASSUME TypeOK, NEW t \in Tasks, Listing(t)
    PROVE  StateTypeOK'
<1>1. CASE GetVersions(t)
    BY <1>1, BeginType, NothingType
    DEF TypeOK, StateTypeOK, GetVersions, stored, Steps
<1>2. CASE Answer(t)
    BY <1>2, VersionAssumption DEF TypeOK, StateTypeOK, Answer, stored, Steps
<1>6. CASE AnswerFails(t)
    BY <1>6, ReturnType DEF TypeOK, StateTypeOK, AnswerFails, stored
<1>3. CASE Examine(t)
    <2>1. PICK r \in left[t] :
            IF seen[t][r] # None /\ ~FrpcVersionExists(r)
            THEN /\ pc' = [pc EXCEPT ![t] = "clean"]
                 /\ rel' = [rel EXCEPT ![t] = r]
                 /\ UNCHANGED <<left, out>>
            ELSE /\ left' = [left EXCEPT ![t] = @ \ {r}]
                 /\ out' = [out EXCEPT
                        ![t] = IF seen[t][r] # None THEN @ \cup {r} ELSE @]
                 /\ UNCHANGED <<pc, rel>>
        BY <1>3 DEF Examine
    <2>2. r \in Releases
        BY <2>1 DEF TypeOK
    <2>3. UNCHANGED <<rows, files, archive, cache, seen, online, dropped>>
        BY <1>3 DEF Examine, stored
    <2>4. CASE seen[t][r] # None /\ ~FrpcVersionExists(r)
        <3>1. /\ pc' = [pc EXCEPT ![t] = "clean"]
              /\ rel' = [rel EXCEPT ![t] = r]
              /\ UNCHANGED <<left, out>>
            BY <2>1, <2>4
        <3>2. pc' \in [Tasks -> Steps] /\ rel' \in [Tasks -> Releases \cup {None}]
            BY <2>2, <3>1 DEF TypeOK, Steps
        <3>3. \A u \in Tasks :
                 pc'[u] \notin {"idle", "ask", "examine", "rmarchives",
                                "rmversions"} => rel'[u] \in Releases
            BY <2>2, <3>1 DEF TypeOK
        <3> QED
            BY <2>3, <3>1, <3>2, <3>3 DEF TypeOK, StateTypeOK
    <2>5. CASE ~(seen[t][r] # None /\ ~FrpcVersionExists(r))
        <3> DEFINE L == left[t] \ {r}
                   O == IF seen[t][r] # None THEN out[t] \cup {r} ELSE out[t]
        <3>1. L \in SUBSET Releases /\ O \in SUBSET Releases
            BY <2>2 DEF TypeOK
        <3>2. /\ left' = [left EXCEPT ![t] = L]
              /\ out' = [out EXCEPT ![t] = O]
              /\ UNCHANGED <<pc, rel>>
            BY <2>1, <2>5
        <3> HIDE DEF L, O
        <3>3. /\ left' \in [Tasks -> SUBSET Releases]
              /\ out' \in [Tasks -> SUBSET Releases]
              /\ UNCHANGED <<pc, rel>>
            BY <3>1, <3>2 DEF TypeOK
        <3> QED
            BY <2>3, <3>3 DEF TypeOK, StateTypeOK
    <2> QED
        BY <2>4, <2>5
<1>4. CASE Clean(t)
    BY <1>4, ReleaseKnown
    DEF TypeOK, StateTypeOK, Clean, DeleteById, Steps
<1>7. CASE CleanFails(t)
    BY <1>7, ReleaseKnown DEF TypeOK, StateTypeOK, CleanFails, stored, Steps
<1>5. CASE Deliver(t)
    BY <1>5, ReturnType DEF TypeOK, StateTypeOK, Deliver, stored
<1> QED
    BY <1>1, <1>2, <1>3, <1>4, <1>5, <1>6, <1>7 DEF Listing

LEMMA InstallingType ==
    ASSUME TypeOK, NEW t \in Tasks, Installing(t)
    PROVE  StateTypeOK'
<1>1. CASE Download(t)
    <2>1. PICK r \in cache :
            /\ Begin(t, "request", r, Nothing)
            /\ \E content \in AfterRemoval(files[r]) :
                files' = [files EXCEPT ![r] = content]
            /\ UNCHANGED <<rows, archive, cache>>
        BY <1>1 DEF Download
    <2>2. r \in Releases
        BY <2>1 DEF TypeOK
    <2>3. files' \in [Releases -> SUBSET Content]
        BY <2>1, <2>2, RemovalType DEF TypeOK
    <2> QED
        BY <2>1, <2>2, <2>3, BeginType, NothingType
        DEF TypeOK, StateTypeOK, Steps
<1>2. CASE Create(t)
    BY <1>2, GotoType, ReleaseKnown DEF TypeOK, StateTypeOK, Create, Steps
<1>3. CASE Received(t)
    <2>1. rel[t] \in Releases
        BY <1>3, ReleaseKnown DEF Received
    <2>2. archive' \in [Releases -> Tasks \cup {"whole", "other", None}]
        BY <1>3, <2>1 DEF Received, Left, TypeOK
    <2> QED
        BY <1>3, <2>1, <2>2, GotoType DEF TypeOK, StateTypeOK, Received, Steps
<1>4. CASE DownloadFails(t)
    <2>1. rel[t] \in Releases
        BY <1>4, ReleaseKnown DEF DownloadFails
    <2>2. archive' \in [Releases -> Tasks \cup {"whole", "other", None}]
        BY <1>4, <2>1 DEF DownloadFails, Left, TypeOK
    <2> QED
        BY <1>4, <2>2, ReturnType DEF TypeOK, StateTypeOK, DownloadFails
<1>5. CASE ImportLocal(t)
    <2>1. PICK r \in cache :
            /\ Begin(t, "readFile", r, Nothing)
            /\ UNCHANGED <<stored, cache>>
        BY <1>5 DEF ImportLocal
    <2>2. r \in Releases
        BY <2>1 DEF TypeOK
    <2> QED
        BY <2>1, <2>2, BeginType, NothingType
        DEF TypeOK, StateTypeOK, stored, Steps
<1>6. CASE Unpack(t)
    <2>1. rel[t] \in Releases
        BY <1>6, ReleaseKnown DEF Unpack, Readable
    <2>2. files' \in [Releases -> SUBSET Content]
        BY <1>6, <2>1 DEF Unpack, TypeOK, Content
    <2> QED
        BY <1>6, <2>1, <2>2, GotoType DEF TypeOK, StateTypeOK, Unpack, Steps
<1>7. CASE UnpackNothing(t)
    <2>1. rel[t] \in Releases
        BY <1>7, ReleaseKnown DEF UnpackNothing, LacksFrpc
    <2>2. files' \in [Releases -> SUBSET Content]
        BY <1>7, <2>1 DEF UnpackNothing, TypeOK, Content
    <2> QED
        BY <1>7, <2>1, <2>2, GotoType
        DEF TypeOK, StateTypeOK, UnpackNothing, Steps
<1>8. CASE UnpackFails(t)
    <2>1. rel[t] \in Releases
        BY <1>8, ReleaseKnown DEF UnpackFails
    <2>2. PICK made \in {{}, {"dir"}} \cup
                        (IF Zip THEN {{"dir", "unpacked"}} ELSE {}) :
            files' = [files EXCEPT ![rel[t]] = @ \cup made]
        BY <1>8 DEF UnpackFails
    <2>3. made \subseteq Content
        BY <2>2 DEF Content
    <2>4. files' \in [Releases -> SUBSET Content]
        BY <2>1, <2>2, <2>3 DEF TypeOK
    <2> QED
        BY <1>8, <2>4, ReturnType DEF TypeOK, StateTypeOK, UnpackFails
<1>9. CASE Write(t) \/ WriteFails(t)
    <2>1. rel[t] \in Releases
        BY <1>9, ReleaseKnown DEF Write, WriteFails
    <2>2. files' \in [Releases -> SUBSET Content]
        BY <1>9, <2>1 DEF Write, WriteFails, TypeOK, Content
    <2>3. CASE Write(t)
        BY <2>1, <2>2, <2>3, GotoType DEF TypeOK, StateTypeOK, Write, Steps
    <2>4. CASE WriteFails(t)
        BY <2>2, <2>4, ReturnType DEF TypeOK, StateTypeOK, WriteFails
    <2> QED
        BY <1>9, <2>3, <2>4
<1>10. CASE Rename(t)
    <2>1. rel[t] \in Releases
        BY <1>10, ReleaseKnown DEF Rename
    <2>2. files' \in [Releases -> SUBSET Content]
        BY <1>10, <2>1 DEF Rename, Renamed, TypeOK, Content
    <2>3. archive' \in [Releases -> Tasks \cup {"whole", "other", None}]
        BY <1>10, <2>1 DEF Rename, TypeOK
    <2> QED
        BY <1>10, <2>1, <2>2, <2>3, GotoType
        DEF TypeOK, StateTypeOK, Rename, Steps
<1>11. CASE Insert(t)
    <2>1. rel[t] \in Releases
        BY <1>11, ReleaseKnown DEF Insert
    <2>2. rows' \in [Releases -> Ids \cup {None}]
        BY <1>11, <2>1 DEF Insert, NewIds, TypeOK
    <2> QED
        BY <1>11, <2>2, ReturnType DEF TypeOK, StateTypeOK, Insert
<1>12. CASE RenameFails(t) \/ InsertFails(t)
    BY <1>12, ReturnType
    DEF TypeOK, StateTypeOK, RenameFails, InsertFails, stored
<1> QED
    BY <1>1, <1>2, <1>3, <1>4, <1>5, <1>6, <1>7, <1>8, <1>9, <1>10, <1>11,
       <1>12
    DEF Installing

LEMMA RemovingType ==
    ASSUME TypeOK, NEW t \in Tasks, Removing(t)
    PROVE  StateTypeOK'
<1>1. CASE Delete(t)
    BY <1>1, BeginType, RowOfType DEF TypeOK, StateTypeOK, Delete, stored, Steps
<1>2. CASE RemoveDir(t)
    <2>1. rel[t] \in Releases
        BY <1>2, ReleaseKnown DEF RemoveDir
    <2>2. files' \in [Releases -> SUBSET Content]
        BY <1>2, <2>1, RemovalType DEF TypeOK, RemoveDir
    <2>3. Goto(t, "unrecord") \/ GoOnRegardless(t, "unrecord")
        BY <1>2 DEF RemoveDir
    <2> QED
        BY <1>2, <2>1, <2>2, <2>3, GotoType
        DEF TypeOK, StateTypeOK, RemoveDir, Steps
<1>3. CASE Launch(t)
    BY <1>3, BeginType, RowOfType DEF TypeOK, StateTypeOK, Launch, stored, Steps
<1>4. CASE Look(t)
    BY <1>4, GotoType, ReturnType, ReleaseKnown
    DEF TypeOK, StateTypeOK, Look, stored, Steps
<1>5. CASE Unrecord(t)
    BY <1>5, ReturnType, ReleaseKnown
    DEF TypeOK, StateTypeOK, Unrecord, DeleteById
<1>9. CASE UnrecordFails(t)
    BY <1>9, ReturnType DEF TypeOK, StateTypeOK, UnrecordFails, stored
<1>6. CASE ResetRows(t)
    BY <1>6, BeginType, NothingType DEF TypeOK, StateTypeOK, ResetRows, Steps
<1>7. CASE ResetArchives(t)
    BY <1>7, GotoType
    DEF TypeOK, StateTypeOK, ResetArchives, Nothing, Steps
<1>8. CASE ResetVersions(t)
    BY <1>8, ReturnType DEF TypeOK, StateTypeOK, ResetVersions
<1> QED
    BY <1>1, <1>2, <1>3, <1>4, <1>5, <1>6, <1>7, <1>8, <1>9 DEF Removing

LEMMA RestartType == TypeOK /\ Restart => StateTypeOK'
BY NothingType DEF TypeOK, StateTypeOK, Restart, Steps

LEMMA HistoryType ==
    ASSUME TypeOK, StateTypeOK', NEW t \in Tasks, KeepIntact, KeepQuiet(t)
    PROVE  TypeOK'
<1>1. intact' \in SUBSET Releases
    BY DEF KeepIntact
<1>2. Concern(t) \in SUBSET Releases
    BY DEF TypeOK, StateTypeOK, Concern
<1>3. quiet' \in [Tasks -> SUBSET Releases]
    BY <1>2 DEF TypeOK, KeepQuiet
<1> QED
    BY <1>1, <1>3 DEF TypeOK, StateTypeOK

LEMMA StepType ==
    ASSUME TypeOK, [Next]_vars
    PROVE  TypeOK'
<1>1. CASE Next
    <2>1. ASSUME NEW t \in Tasks, CommandStep(t), KeepIntact, KeepQuiet(t)
          PROVE  TypeOK'
        BY <2>1, ListingType, InstallingType, RemovingType, HistoryType
        DEF CommandStep
    <2>2. ASSUME Restart, KeepIntact, quiet' = [t \in Tasks |-> {}]
          PROVE  TypeOK'
        <3>1. StateTypeOK'
            BY <2>2, RestartType
        <3>2. intact' \in SUBSET Releases /\ quiet' \in [Tasks -> SUBSET Releases]
            BY <2>2 DEF KeepIntact
        <3> QED
            BY <3>1, <3>2 DEF StateTypeOK, TypeOK
    <2> QED
        BY <1>1, <2>1, <2>2 DEF Next
<1>2. CASE UNCHANGED vars
    BY <1>2 DEF TypeOK, vars, stored, local
<1> QED
    BY <1>1, <1>2

LEMMA InitType == Init => TypeOK
BY NothingType DEF Init, TypeOK, Steps, Content, Nothing

\* Every variable keeps its type.
THEOREM TypeCorrect == Spec => []TypeOK
<1>1. TypeOK /\ [Next]_vars => TypeOK'
    BY StepType
<1> QED
    BY <1>1, InitType, PTL DEF Spec

-----------------------------------------------------------------------------
(* What a step of one command does to another, and to the table.            *)

LEMMA OthersStay ==
    ASSUME TypeOK, NEW t \in Tasks, CommandStep(t), NEW u \in Tasks, u # t
    PROVE  /\ pc'[u] = pc[u] /\ rel'[u] = rel[u] /\ seen'[u] = seen[u]
           /\ left'[u] = left[u] /\ out'[u] = out[u] /\ online'[u] = online[u]
           /\ u \in dropped' <=> u \in dropped
<1>1. CASE Listing(t)
    BY <1>1 DEF TypeOK, Listing, GetVersions, Answer, AnswerFails, Examine,
                Clean,
                CleanFails, Deliver,
                Begin, Return
<1>2. CASE Installing(t)
    BY <1>2 DEF TypeOK, Installing, Download, Create, Received, DownloadFails,
                ImportLocal, Unpack, UnpackNothing, UnpackFails,
                Write, WriteFails, Rename, RenameFails, Insert, InsertFails,
                Begin, Goto, MoveTo, GoOnRegardless, Return
<1>3. CASE Removing(t)
    BY <1>3 DEF TypeOK, Removing, Delete, RemoveDir, Launch, Look, Unrecord,
                UnrecordFails,
                ResetRows, ResetArchives, ResetVersions, Begin, Goto, MoveTo,
                GoOnRegardless, Return
<1> QED
    BY <1>1, <1>2, <1>3 DEF CommandStep

\* A row stays, goes, or is inserted under an id nobody holds.
LEMMA RowsChange ==
    ASSUME TypeOK, NEW t \in Tasks, CommandStep(t), NEW r \in Releases
    PROVE  \/ rows'[r] = rows[r]
           \/ rows'[r] = None
           \/ rows'[r] \in NewIds
<1>1. CASE Listing(t)
    BY <1>1 DEF TypeOK, Listing, GetVersions, Answer, AnswerFails, Examine,
                Clean,
                CleanFails, Deliver,
                DeleteById, stored
<1>2. CASE Installing(t)
    BY <1>2 DEF TypeOK, Installing, Download, Create, Received, DownloadFails,
                ImportLocal, Unpack, UnpackNothing, UnpackFails,
                Write, WriteFails, Rename, RenameFails, Insert, InsertFails,
                stored
<1>3. CASE Removing(t)
    BY <1>3 DEF TypeOK, Removing, Delete, RemoveDir, Launch, Look, Unrecord,
                UnrecordFails,
                ResetRows, ResetArchives, ResetVersions, DeleteById, Nothing,
                stored
<1> QED
    BY <1>1, <1>2, <1>3 DEF CommandStep

\* It goes by its id, or with all others.
LEMMA RowsGo ==
    ASSUME TypeOK, NEW t \in Tasks, CommandStep(t), NEW r \in Releases,
           rows[r] # None, rows'[r] = None
    PROVE  \/ ResetRows(t)
           \/ /\ pc[t] = "clean" \/ Unrecord(t)
              /\ r = rel[t]
              /\ rows[r] = seen[t][r]
<1>1. CASE Listing(t)
    BY <1>1 DEF TypeOK, Listing, GetVersions, Answer, AnswerFails, Examine,
                Clean,
                CleanFails, Deliver,
                DeleteById, stored
<1>2. CASE Installing(t)
    BY <1>2, VersionAssumption
    DEF TypeOK, Installing, Download, Create, Received, DownloadFails,
        ImportLocal, Unpack, UnpackNothing, UnpackFails,
                Write, WriteFails, Rename, RenameFails, Insert, InsertFails,
                stored
<1>3. CASE Removing(t)
    BY <1>3 DEF TypeOK, Removing, Delete, RemoveDir, Launch, Look, Unrecord,
                UnrecordFails,
                ResetArchives, ResetVersions, DeleteById, stored
<1> QED
    BY <1>1, <1>2, <1>3 DEF CommandStep

\* About to remove a record, and not as the deletion whose directory could not be
\* removed.
TakesStale(t) ==
    \/ pc[t] = "clean"
    \/ pc[t] = "unrecord" /\ t \notin dropped

\* Such a command has seen that the binary is missing.
LEMMA MissingWhenSeen ==
    ASSUME TypeOK, NEW t \in Tasks, CommandStep(t),
           TakesStale(t)'
    PROVE  "binary" \notin files'[rel'[t]]
<1> USE DEF TakesStale
<1>1. CASE Listing(t)
    BY <1>1 DEF TypeOK, Listing, GetVersions, Answer, AnswerFails, Examine,
                Clean,
                CleanFails, Deliver,
                Begin, Return, FrpcVersionExists, stored
<1>2. CASE Installing(t)
    BY <1>2 DEF TypeOK, Installing, Download, Create, Received, DownloadFails,
                ImportLocal, Unpack, UnpackNothing, UnpackFails,
                Write, WriteFails, Rename, RenameFails, Insert, InsertFails,
                Begin, Goto, MoveTo, GoOnRegardless, Return
<1>3. CASE Removing(t)
    <2>1. CASE RemoveDir(t)
        <3>1. PICK content \in AfterRemoval(files[rel[t]]) :
                /\ files' = [files EXCEPT ![rel[t]] = content]
                /\ IF "binary" \in content
                   THEN GoOnRegardless(t, "unrecord")
                   ELSE Goto(t, "unrecord")
            BY <2>1 DEF RemoveDir
        <3>2. rel'[t] = rel[t] /\ rel[t] \in Releases
            BY <2>1, <3>1, ReleaseKnown
            DEF RemoveDir, Goto, MoveTo, GoOnRegardless
        <3>3. "binary" \notin content
            BY <2>1, <3>1 DEF TypeOK, RemoveDir, GoOnRegardless, MoveTo
        <3> QED
            BY <3>1, <3>2, <3>3 DEF TypeOK
    <2>2. CASE Look(t)
        BY <2>2 DEF TypeOK, Look, Goto, MoveTo, GoOnRegardless, Return,
                    FrpcVersionExists, stored
    <2> QED
        BY <1>3, <2>1, <2>2
        DEF TypeOK, Removing, Delete, Launch, Unrecord, UnrecordFails,
            ResetRows,
            ResetArchives, ResetVersions, Begin, Goto, MoveTo, GoOnRegardless,
            Return
<1> QED
    BY <1>1, <1>2, <1>3 DEF CommandStep

-----------------------------------------------------------------------------
(* Intact records.                                                          *)

\* What keeps them: no command is about to remove one, although it may be
\* about to remove an earlier record of the same release, unless it is the
\* deletion of this very record, whose directory could not be removed.
IntactInv ==
    /\ TypeOK
    /\ \A r \in intact : rows[r] # None /\ FrpcVersionExists(r)
    /\ \A t \in Tasks :
        TakesStale(t) /\ rel[t] \in intact => rows[rel[t]] # seen[t][rel[t]]

LEMMA InitIntact == Init => IntactInv
BY InitType DEF Init, IntactInv, TakesStale, FrpcVersionExists

LEMMA StepIntact ==
    ASSUME IntactInv, [Next]_vars
    PROVE  IntactInv'
<1>1. TypeOK /\ TypeOK'
    BY StepType DEF IntactInv
<1>2. ASSUME NEW t \in Tasks, CommandStep(t), KeepIntact
      PROVE  IntactInv'
    <2>1. \A r \in intact' : rows'[r] # None /\ "binary" \in files'[r]
        BY <1>2 DEF KeepIntact
    <2>2. ASSUME NEW u \in Tasks, TakesStale(u)', rel'[u] \in intact'
          PROVE  rows'[rel'[u]] # seen'[u][rel'[u]]
        <3>1. CASE u = t
            BY <1>1, <1>2, <2>1, <2>2, <3>1, MissingWhenSeen
        <3>2. CASE u # t
            <4>1. TakesStale(u) /\ rel'[u] = rel[u] /\ seen'[u] = seen[u]
                BY <1>1, <1>2, <2>2, <3>2, OthersStay DEF TakesStale
            <4>2. rel[u] \in Releases
                BY <1>1, <4>1, ReleaseKnown DEF TakesStale
            <4>3. rel[u] \in intact \/ rows[rel[u]] = None
                BY <1>2, <2>2, <4>1 DEF KeepIntact
            <4>4. rows'[rel[u]] # None
                BY <2>1, <2>2, <4>1
            <4>5. CASE rows'[rel[u]] = rows[rel[u]]
                BY <4>1, <4>3, <4>4, <4>5 DEF IntactInv
            <4>6. CASE rows'[rel[u]] \in NewIds
                BY <4>1, <4>2, <4>6 DEF NewIds
            <4> QED
                BY <1>1, <1>2, <4>2, <4>4, <4>5, <4>6, RowsChange
        <3> QED
            BY <3>1, <3>2
    <2> QED
        BY <1>1, <2>1, <2>2 DEF IntactInv, FrpcVersionExists
<1>3. ASSUME Restart, KeepIntact
      PROVE  IntactInv'
    BY <1>1, <1>3 
    DEF IntactInv, TakesStale, Restart, KeepIntact, FrpcVersionExists
<1>4. CASE UNCHANGED vars
    BY <1>4, <1>1
    DEF IntactInv, TakesStale, vars, stored, local, FrpcVersionExists
<1> QED
    BY <1>2, <1>3, <1>4 DEF Next

LEMMA StepKeepsIntact ==
    ASSUME IntactInv, [Next]_vars, NEW r \in intact, r \notin intact',
           "binary" \in files'[r]
    PROVE  \/ \E t \in Tasks : ResetRows(t)
           \/ \E t \in dropped :
                Unrecord(t) /\ rel[t] = r /\ seen[t][r] = rows[r]
<1>1. TypeOK /\ r \in Releases /\ rows[r] # None
    BY DEF IntactInv, TypeOK
<1>2. ASSUME NEW t \in Tasks, CommandStep(t), KeepIntact
      PROVE  \/ ResetRows(t)
             \/ /\ t \in dropped
                /\ Unrecord(t) /\ rel[t] = r /\ seen[t][r] = rows[r]
    <2>1. rows'[r] = None
        BY <1>1, <1>2 DEF KeepIntact
    <2>2. ~(TakesStale(t) /\ r = rel[t] /\ rows[r] = seen[t][r])
        BY DEF IntactInv
    <2>3. CASE ResetRows(t)
        BY <2>3
    <2>4. CASE /\ pc[t] = "clean" \/ Unrecord(t)
               /\ r = rel[t]
               /\ rows[r] = seen[t][r]
        BY <2>2, <2>4 DEF TakesStale, Unrecord
    <2> QED
        BY <1>1, <1>2, <2>1, <2>3, <2>4, RowsGo
<1>3. ASSUME Restart, KeepIntact
      PROVE  FALSE
    BY <1>1, <1>3 DEF Restart, KeepIntact
<1>4. CASE UNCHANGED vars
    BY <1>4 DEF vars
<1> QED
    BY <1>2, <1>3, <1>4 DEF Next

\* A record whose binary has stayed in place since it was written goes only with
\* the binary, with a full reset, or with the deletion of just this record whose
\* directory could not be removed (version_service.rs:263 drops that failure),
\* for any number of commands side by side and whatever file operations and
\* statements fail.
THEOREM IntactRecordsStay == Spec => IntactStays
<1>1. IntactInv /\ [Next]_vars => IntactInv'
    BY StepIntact
<1>2. IntactInv /\ [Next]_vars =>
        [\A r \in intact :
            \/ r \in intact'
            \/ "binary" \notin files'[r]
            \/ \E t \in Tasks : ResetRows(t)
            \/ \E t \in dropped :
                Unrecord(t) /\ rel[t] = r /\ seen[t][r] = rows[r]]_vars
    BY StepKeepsIntact
<1> QED
    BY <1>1, <1>2, InitIntact, PTL DEF Spec, IntactStays

-----------------------------------------------------------------------------
(* Undisturbed commands.                                                    *)

\* What a command that works on a release relies on from step to step.
Follows(t) ==
    rel[t] \in quiet[t] =>
        /\ pc[t] = "rename" /\ t \notin dropped => "unpacked" \in files[rel[t]]
        /\ pc[t] = "insert" /\ t \notin dropped => "binary" \in files[rel[t]]
        /\ TakesStale(t) => "binary" \notin files[rel[t]]

\* A listing knows the rows of the releases it has not looked at, and has
\* judged, and if need be cleaned, the others.
Knows(t, r) ==
    IF r \in left[t]
    THEN seen[t][r] = rows[r]
    ELSE /\ r \in out[t] => rows[r] # None /\ "binary" \in files[r]
         /\ rows[r] # None => r \in out[t] \/ t \in dropped

Lists(t) ==
    /\ pc[t] \notin {"examine", "clean"} => out[t] = {}
    /\ pc[t] \in {"examine", "clean"} =>
        /\ left[t] \cap out[t] = {}
        /\ \A r \in Listed(t) \cap quiet[t] : Knows(t, r)
    /\ pc[t] = "clean" => rel[t] \in left[t]

QuietInv ==
    /\ TypeOK
    /\ \A t \in Tasks : Follows(t) /\ Lists(t)

LEMMA InitQuiet == Init => QuietInv
BY InitType DEF Init, QuietInv, Follows, TakesStale, Lists

\* The step of another command leaves alone what a command still counts on.
LEMMA QuietOthers ==
    ASSUME TypeOK, NEW t \in Tasks, CommandStep(t), KeepQuiet(t),
           NEW u \in Tasks, u # t
    PROVE  /\ quiet'[u] \subseteq quiet[u]
           /\ \A r \in quiet'[u] : rows'[r] = rows[r] /\ files'[r] = files[r]
BY DEF TypeOK, KeepQuiet, Touched

LEMMA OthersQuiet ==
    ASSUME QuietInv, NEW t \in Tasks, CommandStep(t), KeepQuiet(t),
           NEW u \in Tasks, u # t
    PROVE  Follows(u)' /\ Lists(u)'
<1>1. /\ pc'[u] = pc[u] /\ rel'[u] = rel[u] /\ seen'[u] = seen[u]
      /\ left'[u] = left[u] /\ out'[u] = out[u] /\ online'[u] = online[u]
      /\ u \in dropped' <=> u \in dropped
    BY OthersStay DEF QuietInv
<1>2. /\ quiet'[u] \subseteq quiet[u]
      /\ \A r \in quiet'[u] : rows'[r] = rows[r] /\ files'[r] = files[r]
    BY QuietOthers DEF QuietInv
<1>3. Follows(u)'
    BY <1>1, <1>2 DEF QuietInv, Follows, TakesStale
<1>4. Lists(u)'
    BY <1>1, <1>2 DEF QuietInv, Lists, Listed, Knows
<1> QED
    BY <1>3, <1>4

\* Its own steps: the releases it counts on become fewer, unless it begins.
LEMMA QuietOwn ==
    ASSUME TypeOK, NEW t \in Tasks, KeepQuiet(t)
    PROVE  quiet'[t] = IF pc'[t] = "idle" THEN {} ELSE Concern(t)
BY DEF KeepQuiet

LEMMA OwnFollows ==
    ASSUME QuietInv, NEW t \in Tasks, CommandStep(t), KeepQuiet(t)
    PROVE  Follows(t)'
<1>1. TypeOK
    BY DEF QuietInv
<1>2. ASSUME pc'[t] = "rename", t \notin dropped', rel'[t] \in quiet'[t]
      PROVE  "unpacked" \in files'[rel'[t]]
    <2>1. CASE Listing(t)
        BY <1>1, <1>2, <2>1
        DEF TypeOK, Listing, GetVersions, Answer, AnswerFails, Examine, Clean,
                CleanFails, Deliver,
            Begin, Return
    <2>2. CASE Unpack(t)
        BY <1>1, <1>2, <2>2, ReleaseKnown DEF TypeOK, Unpack, Readable, Goto,
            MoveTo, GoOnRegardless
    <2>3. CASE Write(t)
        BY <1>1, <1>2, <2>3, ReleaseKnown DEF TypeOK, Write, Goto, MoveTo,
            GoOnRegardless, Return
    <2>5. CASE UnpackNothing(t)
        BY <1>2, <2>5 DEF UnpackNothing, GoOnRegardless
    <2>4. CASE Removing(t)
        BY <1>1, <1>2, <2>4
        DEF TypeOK, Removing, Delete, RemoveDir, Launch, Look, Unrecord,
            UnrecordFails,
            ResetRows, ResetArchives, ResetVersions, Begin, Goto, MoveTo,
            GoOnRegardless, Return
    <2> QED
        BY <1>1, <1>2, <2>1, <2>2, <2>3, <2>4, <2>5
        DEF CommandStep, TypeOK, Installing, Download, Create, Received,
            DownloadFails, ImportLocal, UnpackFails, WriteFails, Rename,
            RenameFails, Insert, InsertFails, Begin,
            Goto, MoveTo, GoOnRegardless, Return
<1>3. ASSUME pc'[t] = "insert", t \notin dropped', rel'[t] \in quiet'[t]
      PROVE  "binary" \in files'[rel'[t]]
    <2>1. Rename(t)
        <3>1. ~Listing(t)
            BY <1>1, <1>3
            DEF TypeOK, Listing, GetVersions, Answer, AnswerFails, Examine,
                Clean,
                CleanFails, Deliver,
                Begin, Return
        <3>2. ~Removing(t)
            BY <1>1, <1>3
            DEF TypeOK, Removing, Delete, RemoveDir, Launch, Look, Unrecord,
                UnrecordFails,
                ResetRows, ResetArchives, ResetVersions, Begin, Goto, MoveTo,
                GoOnRegardless, Return
        <3> QED
            BY <1>1, <1>3, <3>1, <3>2
            DEF CommandStep, TypeOK, Installing, Download, Create, Received,
                DownloadFails, ImportLocal, Unpack, UnpackNothing, UnpackFails,
                Write, WriteFails, RenameFails, Insert, InsertFails,
                Begin, Goto, MoveTo, GoOnRegardless, Return
    <2>2. rel[t] \in quiet[t] /\ t \notin dropped
        BY <1>1, <1>3, <2>1, QuietOwn DEF Rename, Goto, MoveTo,
            GoOnRegardless, Concern
    <2>3. "unpacked" \in files[rel[t]] /\ rel[t] \in Releases
        BY <1>1, <2>1, <2>2, ReleaseKnown DEF QuietInv, Follows, Rename
    <2> QED
        BY <1>1, <2>1, <2>3 DEF TypeOK, Rename, Renamed, Goto, MoveTo,
                                GoOnRegardless
<1>4. ASSUME TakesStale(t)'
      PROVE  "binary" \notin files'[rel'[t]]
    BY <1>1, <1>4, MissingWhenSeen
<1> QED
    BY <1>2, <1>3, <1>4 DEF Follows

\* Only a listing lists.
LEMMA NotListing ==
    ASSUME QuietInv, NEW t \in Tasks, CommandStep(t),
           ~Answer(t), ~Examine(t), ~Clean(t), ~CleanFails(t)
    PROVE  pc'[t] \notin {"examine", "clean"} /\ out'[t] = {}
<1>1. TypeOK
    BY DEF QuietInv
<1>2. pc[t] \notin {"examine", "clean"} => out[t] = {}
    BY DEF QuietInv, Lists
<1>3. CASE Listing(t)
    BY <1>1, <1>2, <1>3 DEF TypeOK, Listing, GetVersions, AnswerFails,
                            Deliver, Begin,
                       Return
<1>4. CASE Installing(t)
    BY <1>1, <1>2, <1>4
    DEF TypeOK, Installing, Download, Create, Received, DownloadFails,
        ImportLocal, Unpack, Readable, UnpackNothing, LacksFrpc, UnpackFails,
        Write, WriteFails, Rename, RenameFails, Insert, InsertFails,
        Begin, Goto, MoveTo, GoOnRegardless, Return
<1>5. CASE Removing(t)
    BY <1>1, <1>2, <1>5
    DEF TypeOK, Removing, Delete, RemoveDir, Launch, Look, Unrecord,
        UnrecordFails, ResetRows,
        ResetArchives, ResetVersions, Begin, Goto, MoveTo, GoOnRegardless,
        Return
<1> QED
    BY <1>3, <1>4, <1>5 DEF CommandStep

LEMMA AnswerLists ==
    ASSUME QuietInv, NEW t \in Tasks, Answer(t), KeepQuiet(t)
    PROVE  Lists(t)'
<1>1. TypeOK /\ pc[t] = "ask" /\ out[t] = {}
    BY DEF QuietInv, Lists, Answer
<1>2. pc'[t] = "examine" /\ out'[t] = {} /\ seen'[t] = rows /\ rows' = rows
    BY <1>1 DEF TypeOK, Answer, stored
<1>3. quiet'[t] = left'[t]
    BY <1>1, <1>2, QuietOwn DEF Concern
<1> QED
    BY <1>2, <1>3 DEF Lists, Knows

LEMMA ExamineLists ==
    ASSUME QuietInv, NEW t \in Tasks, Examine(t), KeepQuiet(t)
    PROVE  Lists(t)'
<1>1. /\ TypeOK /\ pc[t] = "examine"
      /\ UNCHANGED <<rows, files, seen, online, dropped>>
    BY DEF QuietInv, Examine, stored
<1>2. PICK r \in left[t] :
        IF seen[t][r] # None /\ ~FrpcVersionExists(r)
        THEN /\ pc' = [pc EXCEPT ![t] = "clean"]
             /\ rel' = [rel EXCEPT ![t] = r]
             /\ UNCHANGED <<left, out>>
        ELSE /\ left' = [left EXCEPT ![t] = @ \ {r}]
             /\ out' = [out EXCEPT
                    ![t] = IF seen[t][r] # None THEN @ \cup {r} ELSE @]
             /\ UNCHANGED <<pc, rel>>
    BY DEF Examine
<1>3. /\ left[t] \cap out[t] = {}
      /\ \A x \in Listed(t) \cap quiet[t] : Knows(t, x)
    BY <1>1 DEF QuietInv, Lists
<1>4. quiet'[t] \subseteq quiet[t] /\ Listed(t)' = Listed(t)
    BY <1>1, QuietOwn DEF Concern, Listed
<1>5. CASE seen[t][r] # None /\ ~FrpcVersionExists(r)
    <2>1. pc'[t] = "clean" /\ rel'[t] = r /\ UNCHANGED <<left, out>>
        BY <1>1, <1>2, <1>5 DEF TypeOK
    <2> QED
        BY <1>1, <1>3, <1>4, <2>1 DEF Lists, Knows
<1>6. CASE ~(seen[t][r] # None /\ ~FrpcVersionExists(r))
    <2>1. /\ pc'[t] = "examine" /\ left'[t] = left[t] \ {r}
          /\ out'[t] = IF seen[t][r] # None THEN out[t] \cup {r} ELSE out[t]
        BY <1>1, <1>2, <1>6 DEF TypeOK
    <2>2. left'[t] \cap out'[t] = {}
        BY <1>3, <2>1
    <2>3. ASSUME NEW x \in Listed(t) \cap quiet[t]
          PROVE  Knows(t, x)'
        <3>1. CASE x = r
            BY <1>1, <1>2, <1>3, <1>6, <2>1, <2>3, <3>1
            DEF Knows, FrpcVersionExists
        <3>2. CASE x # r
            BY <1>1, <1>3, <2>1, <2>3, <3>2 DEF Knows
        <3> QED
            BY <3>1, <3>2
    <2> QED
        BY <1>4, <2>1, <2>2, <2>3 DEF Lists
<1> QED
    BY <1>5, <1>6

LEMMA CleanLists ==
    ASSUME QuietInv, NEW t \in Tasks, Clean(t), KeepQuiet(t)
    PROVE  Lists(t)'
<1>1. TypeOK /\ pc[t] = "clean" /\ UNCHANGED <<files, seen, out, online, dropped>>
    BY DEF QuietInv, Clean
<1>2. pc'[t] = "examine" /\ left'[t] = left[t] \ {rel[t]}
    BY <1>1 DEF TypeOK, Clean
<1>3. /\ left[t] \cap out[t] = {} /\ rel[t] \in left[t]
      /\ \A x \in Listed(t) \cap quiet[t] : Knows(t, x)
    BY <1>1 DEF QuietInv, Lists
<1>4. quiet'[t] \subseteq quiet[t] /\ Listed(t)' = Listed(t)
    BY <1>1, <1>2, QuietOwn DEF Concern, Listed
<1>5. /\ \A x \in Releases : x # rel[t] => rows'[x] = rows[x]
      /\ seen[t][rel[t]] = rows[rel[t]] => rows'[rel[t]] = None
    BY <1>1, ReleaseKnown DEF TypeOK, Clean, DeleteById
<1>6. ASSUME NEW x \in Listed(t) \cap quiet[t]
      PROVE  Knows(t, x)'
    <2>1. x \in Releases
        BY <1>1, <1>6 DEF TypeOK
    <2>2. CASE x = rel[t]
        BY <1>1, <1>2, <1>3, <1>5, <1>6, <2>2 DEF Knows
    <2>3. CASE x # rel[t]
        BY <1>1, <1>2, <1>3, <1>5, <1>6, <2>1, <2>3 DEF Knows
    <2> QED
        BY <2>2, <2>3
<1> QED
    BY <1>1, <1>2, <1>3, <1>4, <1>6 DEF Lists

\* A record that could not be removed is one of those that are not listed.
LEMMA CleanFailsLists ==
    ASSUME QuietInv, NEW t \in Tasks, CleanFails(t), KeepQuiet(t)
    PROVE  Lists(t)'
<1>1. TypeOK /\ pc[t] = "clean" /\ UNCHANGED <<rows, files, seen, out, online>>
    BY DEF QuietInv, CleanFails, stored
<1>2. pc'[t] = "examine" /\ left'[t] = left[t] \ {rel[t]} /\ t \in dropped'
    BY <1>1 DEF TypeOK, CleanFails
<1>3. /\ left[t] \cap out[t] = {} /\ rel[t] \in left[t]
      /\ \A x \in Listed(t) \cap quiet[t] : Knows(t, x)
    BY <1>1 DEF QuietInv, Lists
<1>4. quiet'[t] \subseteq quiet[t] /\ Listed(t)' = Listed(t)
    BY <1>1, <1>2, QuietOwn DEF Concern, Listed
<1>5. ASSUME NEW x \in Listed(t) \cap quiet[t]
      PROVE  Knows(t, x)'
    BY <1>1, <1>2, <1>3, <1>5 DEF Knows
<1> QED
    BY <1>1, <1>2, <1>3, <1>4, <1>5 DEF Lists

LEMMA StepQuiet ==
    ASSUME QuietInv, [Next]_vars
    PROVE  QuietInv'
<1>1. TypeOK'
    BY StepType DEF QuietInv
<1>2. ASSUME NEW t \in Tasks, CommandStep(t), KeepQuiet(t)
      PROVE  \A u \in Tasks : Follows(u)' /\ Lists(u)'
    <2>1. Lists(t)'
        <3>1. CASE Answer(t) \/ Examine(t) \/ Clean(t) \/ CleanFails(t)
            BY <1>2, <3>1, AnswerLists, ExamineLists, CleanLists, CleanFailsLists
        <3>2. CASE ~Answer(t) /\ ~Examine(t) /\ ~Clean(t) /\ ~CleanFails(t)
            BY <1>2, <3>2, NotListing DEF Lists
        <3> QED
            BY <3>1, <3>2
    <2> QED
        BY <1>2, <2>1, OwnFollows, OthersQuiet
<1>3. ASSUME Restart, quiet' = [t \in Tasks |-> {}]
      PROVE  \A u \in Tasks : Follows(u)' /\ Lists(u)'
    BY <1>3 DEF Restart, Follows, TakesStale, Lists
<1>4. ASSUME UNCHANGED vars
      PROVE  \A u \in Tasks : Follows(u)' /\ Lists(u)'
    BY <1>4
    DEF QuietInv, vars, stored, local, Follows, TakesStale, Lists, Listed, Knows
<1> QED
    BY <1>1, <1>2, <1>3, <1>4 DEF QuietInv, Next

LEMMA QuietInvariant == Spec => []QuietInv
<1>1. QuietInv /\ [Next]_vars => QuietInv'
    BY StepQuiet
<1> QED
    BY <1>1, InitQuiet, PTL DEF Spec

\* Undisturbed, a version is recorded only with its binary in place, unless the
\* archive had none, and a record removed only with the binary gone, unless the
\* directory of a deleted version could not be removed, whatever happened before
\* and whatever else fails.
THEOREM RecordsFollowBinaries == Spec => []RecordFollowsBinary
<1>1. QuietInv => RecordFollowsBinary
    BY DEF QuietInv, Follows, TakesStale, RecordFollowsBinary, FrpcVersionExists
<1> QED
    BY <1>1, QuietInvariant, PTL

\* A listing is true of every release no other command touches meanwhile, and
\* leaves no stale record among those it lists, unless one could not be removed.
THEOREM ListingsAreTrue == Spec => []ListingIsTrue
<1>1. QuietInv => ListingIsTrue
    BY DEF QuietInv, Lists, Knows, ListingIsTrue, FrpcVersionExists
<1> QED
    BY <1>1, QuietInvariant, PTL
=============================================================================
