----------------------- MODULE NedbMigration_proofs ------------------------
(***************************************************************************)
(* Proofs about NedbMigration, for any old files: what reading them line   *)
(* by line amounts to, the types, that the app opens only after the        *)
(* import, that files are archived only after the commit, that the rows    *)
(* keep what the schema asks, and that it implements OneTimeImport.        *)
(***************************************************************************)
EXTENDS NedbMigration, LoopTheorems, TLAPS

(* The files are logs, read line by line.                                   *)

AnyTable == [Ids -> Value \cup {Invalid}]

\* What a deletion line may leave.
Deleted == {Default, None}

\* The lines about an id, and the last of them.
About(log, i) == {n \in Documents(log) : log[n].id = i}

IsLast(log, i, n) == n \in About(log, i) /\ \A m \in About(log, i) : m <= n

\* A file reads as a log of the old app, or as the empty log.
LEMMA LogsRead ==
    ASSUME TypeOK, NEW k \in Kinds
    PROVE  LogOf(k) \in Logs[k] \cup {<< >>} /\ LogOf(k) \in Seq(Line)
BY ConstantsAssumption DEF TypeOK, LogOf

LEMMA LineTypes ==
    ASSUME NEW line \in Line, NEW deleted \in Deleted
    PROVE  /\ line.op \in {"put", "del", "skip"} /\ line.id \in Ids
           /\ line.val \in Vals \cup {Invalid} /\ line.val # None
           /\ ValueOf(line, deleted) \in Value \cup {Invalid}
           /\ line.op = "put" => ValueOf(line, deleted) # None
           /\ ValueOf(line, Default) # None
BY ConstantsAssumption DEF Line, ValueOf, Value, Deleted

LEMMA LinesOf ==
    ASSUME NEW log \in Seq(Line)
    PROVE  /\ Len(log) \in Nat /\ DOMAIN log = 1 .. Len(log)
           /\ \A n \in 1 .. Len(log) : log[n] \in Line
           /\ Documents(log) \subseteq 1 .. Len(log)
BY DEF Documents

\* The loop over the lines, with the tables in any set that they stay in.
LEMMA TableLoop ==
    ASSUME NEW log \in Seq(Line), NEW T, NEW table \in T, NEW deleted,
           \A t \in T, n \in 1 .. Len(log) : Take(t, log[n], deleted) \in T
    PROVE  LET after == TableAfter(log, table, deleted)
           IN  /\ after \in [0 .. Len(log) -> T] /\ after[0] = table
               /\ \A n \in 1 .. Len(log) : after[n] = Take(after[n - 1], log[n], deleted)
<1> DEFINE N == Len(log)
           F == [x \in T \X (1 .. N) |-> Take(x[1], log[x[2]], deleted)]
           Builds(f) == f = [n \in 0 .. N |->
                              IF n = 0 THEN table ELSE Take(f[n - 1], log[n], deleted)]
           after == TableAfter(log, table, deleted)
<1>1. N \in Nat /\ \A n \in 0 .. N : n # 0 => n \in 1 .. N /\ n - 1 \in 0 .. N
    OBVIOUS
<1>2. F \in [T \X (1 .. N) -> T]
      /\ \A t \in T, n \in 1 .. N : F[<<t, n>>] = Take(t, log[n], deleted)
    OBVIOUS
<1>3. \E f : Builds(f)
    <2> HIDE DEF F, N
    <2>1. PICK f : Loop(f, N, T, table, F)
        BY <1>1, <1>2, LoopExists
    <2>2. f \in [0 .. N -> T] /\ f[0] = table
          /\ \A n \in 1 .. N : f[n] = F[<<f[n - 1], n>>]
        BY <2>1 DEF Loop
    <2>3. \A n \in 0 .. N :
            f[n] = IF n = 0 THEN table ELSE Take(f[n - 1], log[n], deleted)
        BY <1>1, <1>2, <2>2
    <2>4. f = [n \in 0 .. N |-> f[n]]
        BY <2>2
    <2> QED
        BY <2>3, <2>4
<1>4. after = CHOOSE f : Builds(f)
    BY DEF TableAfter
<1> HIDE DEF after
<1>5. Builds(after)
    BY <1>3, <1>4
<1>6. after[0] = table
      /\ \A n \in 1 .. N : after[n] = Take(after[n - 1], log[n], deleted)
    <2>1. 0 \in 0 .. N /\ \A n \in 1 .. N : n \in 0 .. N /\ n # 0
        BY <1>1
    <2> QED
        BY <1>5, <2>1
<1> DEFINE Typed == {n \in 0 .. N : after[n] \in T}
<1>7. 0 \in Typed /\ \A n \in 0 .. N - 1 : n \in Typed => n + 1 \in Typed
    <2>1. \A n \in 0 .. N - 1 : n + 1 \in 1 .. N /\ n + 1 \in 0 .. N /\ (n + 1) - 1 = n
        BY <1>1
    <2> HIDE DEF N
    <2> QED
        BY <1>1, <1>6, <2>1 DEF N
<1>8. 0 .. N \subseteq Typed
    <2> HIDE DEF Typed, N
    <2> QED
        BY <1>1, <1>7, SetInduction
<1>9. after \in [0 .. N -> T]
    BY <1>5, <1>8
<1> QED
    BY <1>6, <1>9 DEF after

\* The same, row by row.
LEMMA RowLoop ==
    ASSUME NEW log \in Seq(Line), NEW table \in AnyTable, NEW deleted \in Deleted
    PROVE  LET after == TableAfter(log, table, deleted)
           IN  /\ after \in [0 .. Len(log) -> AnyTable] /\ after[0] = table
               /\ \A n \in 1 .. Len(log), i \in Ids :
                    after[n][i] = IF n \in About(log, i) THEN ValueOf(log[n], deleted)
                                                         ELSE after[n - 1][i]
<1>1. ASSUME NEW t \in AnyTable, NEW n \in 1 .. Len(log)
      PROVE  /\ Take(t, log[n], deleted) \in AnyTable
             /\ \A i \in Ids :
                   Take(t, log[n], deleted)[i] =
                      IF n \in About(log, i) THEN ValueOf(log[n], deleted) ELSE t[i]
    <2>1. log[n].id \in Ids /\ ValueOf(log[n], deleted) \in Value \cup {Invalid}
        BY LinesOf, LineTypes
    <2>2. \A i \in Ids : n \in About(log, i) <=> log[n].op # "skip" /\ log[n].id = i
        BY LinesOf DEF About, Documents
    <2>3. CASE log[n].op = "skip"
        BY <2>2, <2>3 DEF Take
    <2>4. CASE log[n].op # "skip"
        BY <2>1, <2>2, <2>4 DEF Take, AnyTable
    <2> QED
        BY <2>3, <2>4
<1> DEFINE after == TableAfter(log, table, deleted)
<1>2. /\ after \in [0 .. Len(log) -> AnyTable] /\ after[0] = table
      /\ \A n \in 1 .. Len(log) : after[n] = Take(after[n - 1], log[n], deleted)
    BY <1>1, TableLoop
<1>3. \A n \in 1 .. Len(log) : n - 1 \in 0 .. Len(log)
    BY LinesOf
<1> HIDE DEF after
<1>4. \A n \in 1 .. Len(log), i \in Ids :
        after[n][i] = IF n \in About(log, i) THEN ValueOf(log[n], deleted)
                                             ELSE after[n - 1][i]
    BY <1>1, <1>2, <1>3
<1> QED
    BY <1>2, <1>4 DEF after

LEMMA LastExists ==
    ASSUME NEW log \in Seq(Line), NEW i \in Ids, About(log, i) # {}
    PROVE  \E n : IsLast(log, i, n)
<1> DEFINE N == Len(log)
           L == About(log, i)
           S == {m \in 0 .. N : (\E n \in L : n <= m) =>
                                  \E n \in L : n <= m /\ \A k \in L : k <= m => k <= n}
<1>1. N \in Nat /\ L \subseteq 1 .. N
    BY LinesOf DEF About
<1> HIDE DEF N, L
<1>2. 0 \in S
    BY <1>1
<1>3. ASSUME NEW m \in 0 .. N - 1, m \in S PROVE m + 1 \in S
    <2>1. m \in Nat /\ m + 1 \in 0 .. N /\ \A k \in L : k \in Nat
        BY <1>1
    <2>2. CASE m + 1 \in L
        BY <2>1, <2>2
    <2>3. CASE m + 1 \notin L
        <3>1. \A k \in L : k <= m + 1 <=> k <= m
            BY <2>1, <2>3
        <3> QED
            BY <1>3, <2>1, <3>1
    <2> QED
        BY <2>2, <2>3
<1>4. 0 .. N \subseteq S
    <2> HIDE DEF S
    <2> QED
        BY <1>1, <1>2, <1>3, SetInduction
<1>5. N \in S /\ \A k \in L : k <= N
    <2> HIDE DEF S
    <2> QED
        BY <1>1, <1>4
<1> QED
    BY <1>5 DEF IsLast, L

LEMMA LastWins ==
    ASSUME NEW log \in Seq(Line), NEW table \in AnyTable, NEW deleted \in Deleted,
           NEW i \in Ids
    PROVE  LET row == TableAfter(log, table, deleted)[Len(log)][i]
           IN  /\ About(log, i) = {} => row = table[i]
               /\ \A n : IsLast(log, i, n) => row = ValueOf(log[n], deleted)
<1> DEFINE N == Len(log)
           L == About(log, i)
           after == TableAfter(log, table, deleted)
           Upto(m, n) == n \in L /\ n <= m /\ \A k \in L : k <= m => k <= n
           S == {m \in 0 .. N :
                   /\ (\A k \in L : k > m) => after[m][i] = table[i]
                   /\ \A n \in L : Upto(m, n) => after[m][i] = ValueOf(log[n], deleted)}
<1>1. N \in Nat /\ L \subseteq 1 .. N
    BY LinesOf DEF About
<1>2. /\ after[0] = table
      /\ \A n \in 1 .. N : after[n][i] = IF n \in L THEN ValueOf(log[n], deleted)
                                                    ELSE after[n - 1][i]
    BY RowLoop
<1> HIDE DEF N, L, after
<1>3. 0 \in S
    BY <1>1, <1>2
<1>4. ASSUME NEW m \in 0 .. N - 1, m \in S PROVE m + 1 \in S
    <2>1. m \in Nat /\ m + 1 \in 0 .. N /\ m + 1 \in 1 .. N /\ (m + 1) - 1 = m
          /\ \A k \in L : k \in Nat
        BY <1>1
    <2>2. CASE m + 1 \in L
        <3>1. after[m + 1][i] = ValueOf(log[m + 1], deleted)
            BY <1>2, <2>1, <2>2
        <3>2. ~(m + 1 > m + 1) /\ \A n \in L : Upto(m + 1, n) => n = m + 1
            BY <2>1, <2>2
        <3> QED
            BY <2>1, <2>2, <3>1, <3>2
    <2>3. CASE m + 1 \notin L
        <3>1. \A k \in L : (k <= m + 1 <=> k <= m) /\ (k > m + 1 <=> k > m)
            BY <2>1, <2>3
        <3>2. after[m + 1][i] = after[m][i]
            BY <1>2, <2>1, <2>3
        <3>3. \A n \in L : Upto(m + 1, n) => Upto(m, n)
            BY <3>1
        <3>4. (\A k \in L : k > m + 1) => (\A k \in L : k > m)
            BY <3>1
        <3> HIDE DEF Upto
        <3> QED
            BY <1>4, <2>1, <3>2, <3>3, <3>4
    <2> QED
        BY <2>2, <2>3
<1>5. 0 .. N \subseteq S
    <2> HIDE DEF S
    <2> QED
        BY <1>1, <1>3, <1>4, SetInduction
<1>6. N \in S /\ \A k \in L : k <= N
    <2> HIDE DEF S
    <2> QED
        BY <1>1, <1>5
<1>7. L = {} => after[N][i] = table[i]
    BY <1>6
<1>8. \A n : IsLast(log, i, n) => n \in L /\ Upto(N, n)
    BY <1>6 DEF IsLast, L
<1> QED
    BY <1>6, <1>7, <1>8 DEF L, N, after

\* The row of an id is what its last line says, and the one that was there if
\* no line is about it: for the loop of upserts, and for NeDB.
THEOREM LastLineCounts ==
    ASSUME NEW log \in Seq(Line), NEW table \in AnyTable, NEW i \in Ids
    PROVE  \/ /\ About(log, i) = {}
              /\ Upserted(log, table)[i] = table[i]
              /\ Effective(log)[i] = None
           \/ \E n : /\ IsLast(log, i, n)
                     /\ Upserted(log, table)[i] = ValueOf(log[n], Default)
                     /\ Effective(log)[i] = ValueOf(log[n], None)
<1>1. EmptyTable \in AnyTable /\ EmptyTable[i] = None
    BY DEF EmptyTable, AnyTable, Value
<1>2. Default \in Deleted /\ None \in Deleted
    BY DEF Deleted
<1>3. CASE About(log, i) = {}
    BY <1>1, <1>2, <1>3, LastWins DEF Upserted, UpsertedRows, Effective
<1>4. CASE About(log, i) # {}
    <2>1. PICK n : IsLast(log, i, n)
        BY <1>4, LastExists
    <2> QED
        BY <1>1, <1>2, <2>1, LastWins DEF Upserted, UpsertedRows, Effective
<1> QED
    BY <1>3, <1>4

\* So reading a file line by line gives the documents that NeDB would, if and
\* only if no document was deleted last: one that was comes back with defaults.
THEOREM ReadsLikeNeDB ==
    ASSUME NEW log \in Seq(Line)
    PROVE  Upserted(log, EmptyTable) = Effective(log) <=>
             \A i \in Ids, n \in Documents(log) : IsLast(log, i, n) => log[n].op = "put"
<1>1. EmptyTable \in AnyTable /\ \A i \in Ids : EmptyTable[i] = None
    BY DEF EmptyTable, AnyTable, Value
<1>2. Default # None
    BY ConstantsAssumption
<1>3. /\ Upserted(log, EmptyTable) \in AnyTable
      /\ Effective(log) \in AnyTable
    <2>1. Len(log) \in 0 .. Len(log)
        BY LinesOf
    <2> QED
        BY <1>1, <2>1, RowLoop DEF Upserted, UpsertedRows, Effective, Deleted
<1>4. ASSUME \A i \in Ids, n \in Documents(log) : IsLast(log, i, n) => log[n].op = "put",
             NEW i \in Ids
      PROVE  Upserted(log, EmptyTable)[i] = Effective(log)[i]
    <2>1. \A n : IsLast(log, i, n) => ValueOf(log[n], Default) = ValueOf(log[n], None)
        BY <1>4 DEF ValueOf, IsLast, About
    <2> QED
        BY <1>1, <2>1, LastLineCounts
<1>5. ASSUME NEW i \in Ids, NEW n \in Documents(log), IsLast(log, i, n),
             log[n].op # "put"
      PROVE  Upserted(log, EmptyTable)[i] # Effective(log)[i]
    <2>1. PICK m : /\ IsLast(log, i, m)
                   /\ Upserted(log, EmptyTable)[i] = ValueOf(log[m], Default)
                   /\ Effective(log)[i] = ValueOf(log[m], None)
        BY <1>1, <1>5, LastLineCounts DEF IsLast
    <2>2. m = n
        <3>1. m \in Nat /\ n \in Nat
            BY <1>5, <2>1, LinesOf DEF IsLast, About
        <3>2. m <= n /\ n <= m
            BY <1>5, <2>1 DEF IsLast
        <3> QED
            BY <3>1, <3>2
    <2> QED
        BY <1>2, <1>5, <2>1, <2>2 DEF ValueOf
<1> QED
    BY <1>3, <1>4, <1>5 DEF AnyTable

\* Every document that was read has a row once all are upserted: the check of
\* verify_imported_ids can't fail.
THEOREM ImportedIdsPresent ==
    ASSUME NEW log \in Seq(Line), NEW table \in AnyTable, NEW n \in Documents(log)
    PROVE  Upserted(log, table)[log[n].id] # None
<1>1. log[n] \in Line
    BY LinesOf
<1>2. log[n].id \in Ids /\ n \in About(log, log[n].id)
    BY <1>1 DEF Line, About
<1>3. PICK m : /\ IsLast(log, log[n].id, m)
               /\ Upserted(log, table)[log[n].id] = ValueOf(log[m], Default)
    BY <1>2, LastLineCounts
<1>4. log[m] \in Line
    BY <1>3, LinesOf DEF IsLast, About
<1> QED
    BY <1>3, <1>4, LineTypes DEF Deleted

-----------------------------------------------------------------------------
(* What an accepted import reads.                                           *)

\* Without two documents of one id there is no deletion.
LEMMA UniqueHasNoDeletion ==
    ASSUME TypeOK, NEW k \in Kinds, UniqueIds(LogOf(k)), NEW n \in Documents(LogOf(k))
    PROVE  LogOf(k)[n].op = "put"
<1> DEFINE log == LogOf(k)
<1> SUFFICES ASSUME log[n].op # "put" PROVE FALSE
    OBVIOUS
<1>1. n \in DOMAIN log /\ log \in Seq(Line) /\ log[n] \in Line
    BY LogsRead DEF Documents
<1>2. log[n].op = "del"
    BY <1>1 DEF Documents, Line
<1>3. log \in Logs[k]
    BY <1>1, LogsRead
<1>4. PICK m \in 1 .. (n - 1) : log[m].op = "put" /\ log[m].id = log[n].id
    BY <1>1, <1>2, <1>3, DeletionsFollowInsertions
<1>5. n \in 1 .. Len(log) /\ Len(log) \in Nat
    BY <1>1
<1>6. m \in DOMAIN log /\ m # n
    BY <1>1, <1>4, <1>5
<1>7. m \in Documents(log)
    BY <1>4, <1>6 DEF Documents
<1> QED
    BY <1>4, <1>6, <1>7 DEF UniqueIds

\* Upserting the documents puts those that NeDB would return over the rows.
LEMMA UpsertedIsOver ==
    ASSUME TypeOK, NEW k \in Kinds, UniqueIds(LogOf(k)), NEW table \in Table
    PROVE  /\ Upserted(LogOf(k), table) = Over(Effective(LogOf(k)), table)
           /\ Documents(LogOf(k)) = {} <=> Effective(LogOf(k)) = EmptyTable
<1> DEFINE log == LogOf(k)
<1>1. log \in Seq(Line) /\ table \in AnyTable
    BY LogsRead DEF AnyTable, Table
<1>2. \A n \in Documents(log) : /\ log[n].op = "put" /\ log[n].id \in Ids
                                /\ ValueOf(log[n], Default) = ValueOf(log[n], None)
                                /\ ValueOf(log[n], None) # None
    BY <1>1, UniqueHasNoDeletion, LinesOf, LineTypes DEF ValueOf, Deleted
<1> HIDE DEF log
<1>3. \A i, n : IsLast(log, i, n) => n \in Documents(log) /\ n \in About(log, i)
    BY DEF IsLast, About
<1>4. ASSUME NEW i \in Ids
      PROVE  /\ Upserted(log, table)[i] = Over(Effective(log), table)[i]
             /\ Effective(log)[i] = None <=> About(log, i) = {}
    <2>1. Over(Effective(log), table)[i] =
            IF Effective(log)[i] # None THEN Effective(log)[i] ELSE table[i]
        BY DEF Over
    <2>2. CASE About(log, i) = {}
        BY <1>1, <1>3, <2>1, <2>2, LastLineCounts
    <2>3. CASE About(log, i) # {}
        BY <1>1, <1>2, <1>3, <2>1, <2>3, LastLineCounts
    <2> QED
        BY <2>2, <2>3
<1>5. Upserted(log, table) \in AnyTable /\ Effective(log) \in AnyTable
    <2>1. Len(log) \in 0 .. Len(log) /\ EmptyTable \in AnyTable
        BY <1>1, LinesOf DEF EmptyTable, AnyTable, Value
    <2> QED
        BY <1>1, <2>1, RowLoop DEF Upserted, UpsertedRows, Effective, Deleted
<1>6. Documents(log) = {} <=> \A i \in Ids : About(log, i) = {}
    BY <1>2 DEF About
<1>7. Upserted(log, table) = Over(Effective(log), table)
    BY <1>4, <1>5 DEF Over, AnyTable
<1>8. Effective(log) = EmptyTable <=> \A i \in Ids : Effective(log)[i] = None
    BY <1>5 DEF AnyTable, EmptyTable
<1> QED
    BY <1>4, <1>6, <1>7, <1>8 DEF log

\* The only server document is the one that NeDB would return.
LEMMA ServerIsEffective ==
    ASSUME TypeOK, AtMostOne(LogOf("server"))
    PROVE  ServerRead = ServerOf(Effective(LogOf("server")))
<1> DEFINE log == LogOf("server")
           table == Effective(log)
<1>1. "server" \in Kinds /\ UniqueIds(log) /\ log \in Seq(Line)
    BY LogsRead DEF Kinds, AtMostOne, UniqueIds
<1>2. EmptyTable \in Table /\ EmptyTable \in AnyTable
    BY DEF EmptyTable, Table, AnyTable, Value
<1>3. CASE Documents(log) = {}
    <2>1. table = EmptyTable
        BY <1>1, <1>2, <1>3, UpsertedIsOver
    <2> HIDE DEF table
    <2> QED
        BY <1>3, <2>1 DEF ServerRead, ServerOf, EmptyTable, table
<1>4. ASSUME NEW n \in Documents(log) PROVE ServerRead = ServerOf(table)
    <2>1. \A m \in Documents(log) : m = n
        BY <1>4 DEF AtMostOne
    <2>2. n \in Nat /\ log[n] \in Line /\ log[n].op = "put" /\ log[n].id \in Ids
          /\ log[n].val # None
        BY <1>1, <1>4, LinesOf, LineTypes, UniqueHasNoDeletion DEF Deleted
    <2>3. \A i \in Ids : table[i] = IF i = log[n].id THEN log[n].val ELSE None
        <3> SUFFICES ASSUME NEW i \in Ids
                     PROVE  table[i] = IF i = log[n].id THEN log[n].val ELSE None
            OBVIOUS
        <3>1. About(log, i) = IF i = log[n].id THEN {n} ELSE {}
            BY <1>4, <2>1 DEF About
        <3>2. \A m : IsLast(log, i, m) => m = n /\ i = log[n].id
            BY <3>1 DEF IsLast
        <3>3. ValueOf(log[n], None) = log[n].val
            BY <2>2 DEF ValueOf
        <3> HIDE DEF table, log
        <3> QED
            BY <1>1, <1>2, <3>1, <3>2, <3>3, LastLineCounts DEF table
    <2> HIDE DEF table
    <2>4. (CHOOSE i \in Ids : table[i] # None) = log[n].id
        BY <2>2, <2>3
    <2>5. ServerOf(table) = log[n].val
        BY <2>2, <2>3, <2>4 DEF ServerOf
    <2>6. (CHOOSE l \in Documents(log) : \A m \in Documents(log) : l <= m) = n
        <3>1. \A l \in Documents(log) : l = n /\ \A m \in Documents(log) : l <= m
            BY <2>1, <2>2
        <3> HIDE DEF log
        <3> QED
            BY <1>4, <3>1
    <2>7. ServerRead = log[n].val
        BY <1>4, <2>2, <2>6 DEF ServerRead, ValueOf
    <2> QED
        BY <2>5, <2>7 DEF table
<1> QED
    BY <1>3, <1>4

\* So an accepted import takes over exactly what NeDB would return.
LEMMA ImportedIsMerge ==
    ASSUME TypeOK, Accepted
    PROVE  Imported = Merge(OldDocuments, rows)
<1>1. ServerRead = ServerOf(Effective(LogOf("server")))
    BY ServerIsEffective DEF Accepted
<1>2. rows.proxies \in Table /\ rows.versions \in Table
    BY DEF TypeOK, Store
<1>3. /\ Upserted(LogOf("proxy"), rows.proxies)
            = Over(Effective(LogOf("proxy")), rows.proxies)
      /\ Upserted(LogOf("version"), rows.versions)
            = Over(Effective(LogOf("version")), rows.versions)
      /\ Documents(LogOf("proxy")) = {} <=> Effective(LogOf("proxy")) = EmptyTable
    BY <1>2, UpsertedIsOver DEF Accepted, Kinds
<1>4. Default # None
    BY ConstantsAssumption
<1> QED
    BY <1>1, <1>3, <1>4 DEF Imported, Merge, OldDocuments, NewServer, OrDefault

\* Importing accepted documents makes a store of a store.
LEMMA ImportedType ==
    ASSUME TypeOK, Accepted
    PROVE  Imported \in Store
<1>1. ASSUME NEW k \in Kinds, NEW table \in Table
      PROVE  Upserted(LogOf(k), table) \in Table
    <2> DEFINE log == LogOf(k)
    <2>1. log \in Seq(Line) /\ Valid(log)
        BY LogsRead DEF Accepted
    <2>2. ASSUME NEW t \in Table, NEW n \in 1 .. Len(log)
          PROVE  Take(t, log[n], Default) \in Table
        <3>1. log[n] \in Line /\ (log[n].op # "skip" => log[n].val # Invalid)
            BY <2>1, LinesOf DEF Valid, Documents
        <3>2. log[n].op # "skip" => ValueOf(log[n], Default) \in Value /\ log[n].id \in Ids
            BY <3>1 DEF ValueOf, Value, Line
        <3> QED
            BY <3>2 DEF Take, Table
    <2>3. Len(log) \in 0 .. Len(log)
        BY <2>1, LinesOf
    <2> HIDE DEF log
    <2>4. TableAfter(log, table, Default) \in [0 .. Len(log) -> Table]
        BY <2>1, <2>2, TableLoop
    <2> QED
        BY <2>3, <2>4 DEF Upserted, UpsertedRows, log
<1>2. ServerRead \in Value
    <2> DEFINE log == LogOf("server")
               docs == Documents(log)
    <2>1. log \in Seq(Line) /\ Valid(log) /\ AtMostOne(log) /\ docs \subseteq Nat
        BY LogsRead, LinesOf DEF Accepted, Kinds
    <2>2. ASSUME NEW n \in docs PROVE ServerRead = ValueOf(log[n], Default)
        <3>1. (CHOOSE l \in docs : \A m \in docs : l <= m) = n
            BY <2>1, <2>2 DEF AtMostOne
        <3> QED
            BY <2>2, <3>1 DEF ServerRead
    <2>3. ASSUME NEW n \in docs PROVE ValueOf(log[n], Default) \in Value
        BY <2>1, <2>3, LinesOf DEF Valid, ValueOf, Value, Line
    <2> QED
        BY <2>2, <2>3 DEF ServerRead, Value
<1>3. NewServer \in Value /\ OrDefault(NewServer) \in Value
    BY <1>2 DEF NewServer, OrDefault, Value
<1> QED
    BY <1>1, <1>3 DEF Imported, Store, Kinds, TypeOK

-----------------------------------------------------------------------------
(* Types.                                                                   *)

\* The type invariant, for any ids, values and old files.
THEOREM TypeCorrect == Spec => []TypeOK
<1>1. Init => TypeOK
    <2>1. EmptyStore \in Store
        BY DEF EmptyStore, EmptyTable, Store, Table, Value
    <2> QED
        BY <2>1 DEF Init, TypeOK
<1>2. TypeOK /\ [Next]_vars => TypeOK'
    <2> SUFFICES ASSUME TypeOK, [Next]_vars PROVE TypeOK'
        OBVIOUS
    <2> USE DEF TypeOK, Goto
    <2>1. CASE Launch
        BY <2>1 DEF Launch
    <2>2. CASE Check
        BY <2>2 DEF Check
    <2>3. CASE Import
        BY <2>3, ImportedType DEF Import
    <2>4. CASE Refuse
        BY <2>4 DEF Refuse
    <2>5. ASSUME NEW k \in Kinds, Archive(k)
          PROVE  TypeOK'
        BY <2>5 DEF Archive
    <2>6. CASE Archived
        BY <2>6 DEF Archived
    <2>7. CASE SaveServer
        BY <2>7 DEF SaveServer, Store, Value
    <2>8. CASE EditProxy
        BY <2>8 DEF EditProxy, Store, Table, Value
    <2>9. CASE EditVersion
        BY <2>9 DEF EditVersion, Store, Table, Value
    <2>10. CASE ResetData
        BY <2>10 DEF ResetData, EmptyStore, EmptyTable, Store, Table, Value
    <2>11. CASE Stop
        BY <2>11 DEF Stop
    <2>12. ASSUME NEW k \in Kinds, OldAppRuns(k)
           PROVE  TypeOK'
        <3>1. PICK log \in Logs[k] : file' = [file EXCEPT ![k] = log]
            BY <2>12 DEF OldAppRuns
        <3>2. file' \in [Kinds -> {Absent} \cup UNION {Logs[j] : j \in Kinds}]
            BY <3>1
        <3>3. \A j \in Kinds : file'[j] \in {Absent} \cup Logs[j]
            BY <3>1
        <3> QED
            BY <2>12, <3>2, <3>3 DEF OldAppRuns
    <2>13. CASE UNCHANGED vars
        BY <2>13 DEF vars
    <2> QED
        BY <2>1, <2>2, <2>3, <2>4, <2>5, <2>6, <2>7, <2>8, <2>9, <2>10, <2>11,
           <2>12, <2>13 DEF Next, Migrate
<1> QED
    BY <1>1, <1>2, PTL DEF Spec

-----------------------------------------------------------------------------
(* Safety.                                                                  *)

\* The app only ever opens on an old store that was taken over.
THEOREM OpensAfterImport == Spec => []OpenOnlyAfterImport
<1>1. Init => OpenOnlyAfterImport
    BY DEF Init, OpenOnlyAfterImport
<1>2. TypeOK /\ OpenOnlyAfterImport /\ [Next]_vars => OpenOnlyAfterImport'
    <2> SUFFICES ASSUME TypeOK, OpenOnlyAfterImport, [Next]_vars
                 PROVE  OpenOnlyAfterImport'
        OBVIOUS
    <2> USE DEF OpenOnlyAfterImport, Goto, NoFiles
    <2>1. CASE Launch
        BY <2>1 DEF Launch
    <2>2. CASE Check
        BY <2>2 DEF Check
    <2>3. CASE Import
        BY <2>3 DEF Import
    <2>4. CASE Refuse
        BY <2>4 DEF Refuse
    <2>5. ASSUME NEW k \in Kinds, Archive(k)
          PROVE  OpenOnlyAfterImport'
        BY <2>5 DEF Archive
    <2>6. CASE Archived
        BY <2>6 DEF Archived
    <2>7. CASE SaveServer \/ EditProxy \/ EditVersion \/ ResetData
        BY <2>7 DEF SaveServer, EditProxy, EditVersion, ResetData
    <2>8. CASE Stop
        BY <2>8 DEF Stop
    <2>9. ASSUME NEW k \in Kinds, OldAppRuns(k)
          PROVE  OpenOnlyAfterImport'
        BY <2>9 DEF OldAppRuns
    <2>10. CASE UNCHANGED vars
        BY <2>10 DEF vars
    <2> QED
        BY <2>1, <2>2, <2>3, <2>4, <2>5, <2>6, <2>7, <2>8, <2>9, <2>10
        DEF Next, Migrate
<1> QED
    BY <1>1, <1>2, TypeCorrect, PTL DEF Spec

\* No old file goes away before its documents are committed.
THEOREM NothingLost == Spec => ArchivedOnlyAfterCommit
<1>1. TypeOK /\ OpenOnlyAfterImport /\ [Next]_vars
        => [\A k \in Kinds : file[k] # Absent /\ file'[k] = Absent => marker]_vars
    <2> SUFFICES ASSUME TypeOK, OpenOnlyAfterImport, Next, NEW k \in Kinds,
                        file[k] # Absent, file'[k] = Absent
                 PROVE  marker
        OBVIOUS
    <2>1. file' # file
        OBVIOUS
    <2>2. ASSUME NEW j \in Kinds, OldAppRuns(j)
          PROVE  FALSE
        BY <2>2, ConstantsAssumption DEF OldAppRuns, TypeOK
    <2>3. PICK j \in Kinds : Archive(j)
        BY <2>1, <2>2 DEF Next, Migrate, Launch, Check, Import, Refuse, Archived,
           SaveServer, EditProxy, EditVersion, ResetData, Stop
    <2> QED
        BY <2>3 DEF Archive, OpenOnlyAfterImport
<1> QED
    BY <1>1, TypeCorrect, OpensAfterImport, PTL DEF Spec, ArchivedOnlyAfterCommit

\* A table where no two rows have the same release.
Distinct(table) ==
    \A i, j \in Ids : table[i] # None /\ table[i] = table[j] => i = j

\* Upserting one document after the other keeps the releases apart, for none of
\* them is refused by the unique index.
LEMMA ReleasesStayApart ==
    ASSUME NEW log \in Seq(Line), NEW table \in AnyTable, Distinct(table),
           ~IndexClash(log, table)
    PROVE  Distinct(Upserted(log, table))
<1> DEFINE N == Len(log)
           after == UpsertedRows(log, table)
           Apart == {n \in 0 .. N : Distinct(after[n])}
<1>1. N \in Nat /\ Documents(log) \subseteq 1 .. N
    BY LinesOf
<1>2. /\ after[0] = table
      /\ \A n \in 1 .. N, i \in Ids :
            after[n][i] = IF n \in About(log, i) THEN ValueOf(log[n], Default)
                                                 ELSE after[n - 1][i]
    BY RowLoop DEF UpsertedRows, Deleted
<1>3. \A n \in Documents(log), i \in Ids :
        i # log[n].id => after[n - 1][i] # ValueOf(log[n], Default)
    BY DEF IndexClash
<1> HIDE DEF after, N
<1>4. 0 \in Apart
    BY <1>1, <1>2
<1>5. ASSUME NEW n \in 0 .. N - 1, n \in Apart PROVE n + 1 \in Apart
    <2> DEFINE m == n + 1
    <2>1. m \in 1 .. N /\ m \in 0 .. N /\ m - 1 = n
        BY <1>1
    <2> HIDE DEF m
    <2>2. SUFFICES ASSUME NEW i \in Ids, NEW j \in Ids,
                          after[m][i] # None, after[m][i] = after[m][j]
                   PROVE  i = j
        BY <2>1 DEF Distinct, m
    <2>3. CASE m \in About(log, i) /\ m \in About(log, j)
        BY <2>3 DEF About
    <2>4. CASE m \in About(log, i) /\ m \notin About(log, j)
        BY <1>2, <1>3, <2>1, <2>2, <2>4 DEF About
    <2>5. CASE m \notin About(log, i) /\ m \in About(log, j)
        BY <1>2, <1>3, <2>1, <2>2, <2>5 DEF About
    <2>6. CASE m \notin About(log, i) /\ m \notin About(log, j)
        BY <1>2, <1>5, <2>1, <2>2, <2>6 DEF Distinct
    <2> QED
        BY <2>3, <2>4, <2>5, <2>6
<1>6. 0 .. N \subseteq Apart
    <2> HIDE DEF Apart
    <2> QED
        BY <1>1, <1>4, <1>5, SetInduction
<1>7. N \in Apart
    <2> HIDE DEF Apart
    <2> QED
        BY <1>1, <1>6
<1> QED
    BY <1>7 DEF Upserted, after, N

\* An accepted import keeps what the schema asks.
LEMMA ImportKeepsConstraints ==
    ASSUME TypeOK, ConstraintsHold, Import
    PROVE  ConstraintsHold'
<1> DEFINE proxies == LogOf("proxy")
           versions == LogOf("version")
<1>1. /\ proxies \in Seq(Line) /\ versions \in Seq(Line)
      /\ rows.proxies \in Table /\ rows.versions \in Table
      /\ rows.proxies \in AnyTable /\ rows.versions \in AnyTable
    BY LogsRead DEF Kinds, TypeOK, Store, Table, AnyTable
<1>2. Accepted /\ rows' = Imported /\ Imported \in Store
    BY ImportedType DEF Import
<1>3. ASSUME NewServer = None
      PROVE  Upserted(proxies, rows.proxies) = rows.proxies
    <2>1. Documents(proxies) = {} /\ Default # None
        BY <1>3, ConstantsAssumption DEF NewServer
    <2>2. \A i \in Ids : Upserted(proxies, rows.proxies)[i] = rows.proxies[i]
        BY <1>1, <2>1, LastLineCounts DEF About, IsLast
    <2>3. Upserted(proxies, rows.proxies) \in Table
        BY <1>2 DEF Imported, Store
    <2> QED
        BY <1>1, <2>2, <2>3 DEF Table
<1>4. rows'.proxies # EmptyTable => rows'.server # None
    BY <1>2, <1>3 DEF Imported, ConstraintsHold
<1>5. Distinct(rows'.versions)
    BY <1>1, <1>2, ReleasesStayApart
    DEF Accepted, Imported, ConstraintsHold, Distinct
<1> QED
    BY <1>4, <1>5 DEF ConstraintsHold, Distinct

\* Whatever is imported over whatever rows, proxies have a server and no release
\* has two versions: SQLite has nothing to refuse in the transaction.
THEOREM ConstraintsKept == Spec => []ConstraintsHold
<1>1. Init => ConstraintsHold
    BY DEF Init, ConstraintsHold, EmptyStore, EmptyTable
<1>2. TypeOK /\ ConstraintsHold /\ [Next]_vars => ConstraintsHold'
    <2> SUFFICES ASSUME TypeOK, ConstraintsHold, [Next]_vars PROVE ConstraintsHold'
        OBVIOUS
    <2>1. CASE Import
        BY <2>1, ImportKeepsConstraints
    <2>2. CASE SaveServer
        BY <2>2, ConstantsAssumption DEF SaveServer, TypeOK, Store, ConstraintsHold
    <2>3. CASE EditProxy
        <3>1. PICK i \in Ids, v \in Vals \cup {None} :
                /\ v # None => rows.server # None
                /\ rows' = [rows EXCEPT !.proxies[i] = v]
            BY <2>3 DEF EditProxy
        <3>2. /\ rows'.server = rows.server /\ rows'.versions = rows.versions
              /\ rows'.proxies = [rows.proxies EXCEPT ![i] = v]
            BY <3>1 DEF TypeOK, Store
        <3>3. v = None /\ rows.proxies = EmptyTable => rows'.proxies = EmptyTable
            BY <3>2 DEF EmptyTable
        <3> QED
            BY <3>1, <3>2, <3>3 DEF ConstraintsHold
    <2>4. CASE EditVersion
        <3>1. PICK i \in Ids, v \in Vals \cup {None} :
                /\ v # None => \A j \in Ids : rows.versions[j] # v
                /\ rows' = [rows EXCEPT !.versions[i] = v]
            BY <2>4 DEF EditVersion
        <3>2. /\ rows'.server = rows.server /\ rows'.proxies = rows.proxies
              /\ rows'.versions = [rows.versions EXCEPT ![i] = v]
              /\ rows.versions \in Table
            BY <3>1 DEF TypeOK, Store
        <3>3. \A j \in Ids : rows'.versions[j] = IF j = i THEN v ELSE rows.versions[j]
            BY <3>2 DEF Table
        <3> QED
            BY <3>1, <3>2, <3>3 DEF ConstraintsHold
    <2>5. CASE ResetData
        BY <2>5 DEF ResetData, ConstraintsHold, EmptyStore, EmptyTable
    <2>6. CASE UNCHANGED rows
        BY <2>6 DEF ConstraintsHold
    <2> QED
        BY <2>1, <2>2, <2>3, <2>4, <2>5, <2>6
        DEF Next, Migrate, Launch, Check, Refuse, Archive, Archived, Stop, OldAppRuns,
            vars
<1> QED
    BY <1>1, <1>2, TypeCorrect, PTL DEF Spec

-----------------------------------------------------------------------------
(* The migration implements OneTimeImport.                                  *)

\* OneTimeImport speaks of the same stores.
LEMMA SameStores ==
    /\ Abstract!Store = Store
    /\ Abstract!EmptyStore = EmptyStore
    /\ Abstract!EmptyTable = EmptyTable
    /\ \A old, table : Abstract!Merge(old, table) = Merge(old, table)
BY DEF Abstract!Store, Store, Abstract!Table, Table, Abstract!Value, Value,
   Abstract!EmptyStore, EmptyStore, Abstract!EmptyTable, EmptyTable,
   Abstract!Merge, Merge, Abstract!Over, Over, Abstract!OrDefault, OrDefault

\* Every step of the migration is a step of OneTimeImport or changes nothing
\* it can see.
LEMMA StepsImplement ==
    ASSUME TypeOK, TypeOK', OpenOnlyAfterImport, [Next]_vars
    PROVE  [Abstract!Next]_(Abstract!vars)
<1> USE DEF Goto, Abstract!Next, Abstract!vars
<1> DEFINE unseen == UNCHANGED <<rows, file, marker>>
<1>1. ASSUME UNCHANGED file
      PROVE  OldDocuments' = OldDocuments
    BY <1>1 DEF OldDocuments, LogOf
<1>2. ASSUME NoFiles
      PROVE  OldDocuments = Abstract!NoSource
    <2>1. \A k \in Kinds : LogOf(k) = << >>
        BY <1>2 DEF NoFiles, LogOf
    <2>2. Effective(<< >>) = EmptyTable
        <3>1. << >> \in Seq(Line) /\ Len(<< >>) = 0
              /\ EmptyTable \in AnyTable /\ None \in Deleted
            BY DEF EmptyTable, AnyTable, Value, Deleted
        <3>2. \A log \in Seq(Line) : TableAfter(log, EmptyTable, None)[0] = EmptyTable
            BY <3>1, RowLoop
        <3> QED
            BY <3>1, <3>2 DEF Effective
    <2>3. ServerOf(EmptyTable) = None
        BY DEF ServerOf, EmptyTable
    <2> QED
        BY <2>1, <2>2, <2>3, SameStores DEF OldDocuments, Abstract!NoSource, Kinds
<1>3. CASE unseen /\ ~(pc = "running") /\ ~(pc' = "running")
    <2>1. (pc = "running")' = (pc = "running")
        BY <1>3
    <2> QED
        BY <1>1, <1>3, <2>1
<1>4. CASE unseen /\ pc # "running" /\ pc' = "running" /\ (marker \/ NoFiles)
    BY <1>1, <1>2, <1>4 DEF Abstract!Open
<1>5. CASE unseen /\ pc = "running" /\ pc' # "running"
    BY <1>1, <1>5 DEF Abstract!Close
<1>6. CASE Import
    <2>1. rows' = Merge(OldDocuments, rows)
        BY <1>6, ImportedIsMerge DEF Import
    <2> QED
        BY <1>1, <1>6, <2>1, SameStores DEF Import, Abstract!Import, OpenOnlyAfterImport
<1>7. CASE pc = "running" /\ UNCHANGED <<file, marker, pc>>
    <2>1. rows' \in Store
        BY DEF TypeOK
    <2> QED
        BY <1>1, <1>7, <2>1, SameStores DEF Abstract!Edit
<1>8. CASE pc # "running" /\ UNCHANGED <<rows, marker, pc>>
    BY <1>8 DEF Abstract!OldStoreChanges
<1>9. CASE UNCHANGED vars
    <2>1. UNCHANGED <<rows, file, marker, pc>>
        BY <1>9 DEF vars
    <2>2. (pc = "running")' = (pc = "running")
        BY <2>1
    <2> QED
        BY <1>1, <2>1, <2>2
<1>10. CASE Launch \/ Refuse
    BY <1>3, <1>10 DEF Launch, Refuse
<1>11. CASE Check
    BY <1>3, <1>4, <1>11 DEF Check
<1>12. ASSUME NEW k \in Kinds, Archive(k)
       PROVE  [Abstract!Next]_(Abstract!vars)
    BY <1>8, <1>12 DEF Archive
<1>13. CASE Archived
    BY <1>4, <1>13 DEF Archived, OpenOnlyAfterImport
<1>14. CASE SaveServer \/ EditProxy \/ EditVersion \/ ResetData
    BY <1>7, <1>14 DEF SaveServer, EditProxy, EditVersion, ResetData
<1>15. CASE Stop
    BY <1>3, <1>5, <1>15 DEF Stop
<1>16. ASSUME NEW k \in Kinds, OldAppRuns(k)
       PROVE  [Abstract!Next]_(Abstract!vars)
    BY <1>8, <1>16 DEF OldAppRuns
<1> QED
    BY <1>6, <1>9, <1>10, <1>11, <1>12, <1>13, <1>14, <1>15, <1>16
    DEF Next, Migrate

\* The migration does what OneTimeImport promises, for any old files: whenever
\* it accepts them, it takes over exactly what NeDB would return of them, once
\* and before the app opens.
THEOREM ImplementsOneTimeImport == Spec => ImportsOnce
<1>1. Init => Abstract!Init
    BY SameStores DEF Init, Abstract!Init
<1>2. TypeOK /\ TypeOK' /\ OpenOnlyAfterImport /\ [Next]_vars
        => [Abstract!Next]_(Abstract!vars)
    BY StepsImplement
<1> QED
    BY <1>1, <1>2, TypeCorrect, OpensAfterImport, PTL
    DEF Spec, ImportsOnce, Abstract!Spec
=============================================================================
