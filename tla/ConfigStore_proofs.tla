------------------------- MODULE ConfigStore_proofs -------------------------
(***************************************************************************)
(* Theorems about ConfigStore, for any number of commands in flight, any   *)
(* configurations and any imported file, with or without crashes.          *)
(***************************************************************************)
EXTENDS ConfigStore, TLAPS

USE ConstantsAssumption

LEMMA DefaultIsConfig == DefaultServer \in Config
  BY DEF DefaultServer, Config, Startup, Language

\* The desktop settings and the whole configuration of an empty database.
LEMMA EmptyIsTyped ==
  /\ [startup |-> "off", language |-> "en"] \in [startup : Startup, language : Language]
  /\ [conn |-> NoRow, startup |-> "off", language |-> "en"]
        \in [conn : Conns \cup {NoRow}, startup : Startup, language : Language]
  BY DEF Startup, Language

LEMMA TypeInit == Init => TypeOK
<1> SUFFICES ASSUME Init PROVE TypeOK
  OBVIOUS
<1> USE DefaultIsConfig, EmptyIsTyped DEF Init
<1>1. server \in Conns \cup {NoRow} /\ proxies \in SUBSET Proxies /\ torn \in BOOLEAN
  OBVIOUS
<1>2. /\ desktop \in [startup : Startup, language : Language]
      /\ last \in [conn : Conns \cup {NoRow}, startup : Startup, language : Language]
  BY Zenon
<1>3. /\ pc \in [Tasks -> Steps]
      /\ op \in [Tasks -> {"none", "save", "get", "language", "import"}]
      /\ cfg \in [Tasks -> Config]
      /\ batch \in [Tasks -> SUBSET Proxies]
  BY DEF Steps
<1>4. /\ \A t \in Tasks : /\ pc[t] = "idle" <=> op[t] = "none"
                            /\ pc[t] \in {"insertMany", "insertRow"} => op[t] = "import"
                            /\ holder = t <=> pc[t] \in {"saveLanguage", "insertRow"}
      /\ crossed \subseteq {t \in Tasks : op[t] = "language"}
  OBVIOUS
<1> QED BY <1>1, <1>2, <1>3, <1>4 DEF TypeOK

LEMMA TypeNext == TypeOK /\ [Next]_vars => TypeOK'
<1> SUFFICES ASSUME TypeOK, [Next]_vars PROVE TypeOK'
  OBVIOUS
<1> USE DefaultIsConfig
    DEF TypeOK, Steps, Startup, Language, Goto, Finish, tables, locals, history, Crossed
<1>1. ASSUME NEW t \in Tasks, Arrive(t) PROVE TypeOK'
  <2>1. CASE SaveConfig(t)
    BY <2>1 DEF SaveConfig, Begin
  <2>2. CASE GetConfig(t)
    BY <2>2 DEF GetConfig, Begin
  <2>3. CASE SaveLanguage(t)
    BY <2>3 DEF SaveLanguage, Begin, Config
  <2>4. CASE ImportToml(t)
    BY <2>4 DEF ImportToml, Begin, Config, DefaultServer
  <2>5. CASE UpsertProxy(t) \/ DeleteProxy(t)
    BY <2>5 DEF UpsertProxy, DeleteProxy
  <2>6. CASE ResetData(t)
    <3>1. /\ desktop' \in [startup : Startup, language : Language]
          /\ last' \in [conn : Conns \cup {NoRow}, startup : Startup, language : Language]
      BY <2>6, EmptyIsTyped, Zenon DEF ResetData
    <3>2. UNCHANGED <<holder, pc, op, cfg, batch>> /\ server' = NoRow /\ proxies' = {}
          /\ torn' \in BOOLEAN /\ crossed' = Crossed(t)
      BY <2>6, Zenon DEF ResetData
    <3> QED BY <3>1, <3>2
  <2> QED BY <1>1, <2>1, <2>2, <2>3, <2>4, <2>5, <2>6 DEF Arrive
<1>2. ASSUME NEW t \in Tasks, Continue(t) PROVE TypeOK'
  <2>1. CASE ReadServer(t)
    <3>1. CASE server = NoRow /\ op[t] = "get"
      BY <2>1, <3>1, ConstantsAssumption DEF ReadServer
    <3>2. CASE server = NoRow /\ op[t] = "language"
      BY <2>1, <3>2, ConstantsAssumption DEF ReadServer
    <3>3. CASE server # NoRow
      <4>1. cfg' = [cfg EXCEPT ![t] = [cfg[t] EXCEPT !.conn = server]]
        BY <2>1, <3>3 DEF ReadServer
      <4>2. [cfg[t] EXCEPT !.conn = server] \in Config
        BY <3>3 DEF Config
      <4> QED BY <2>1, <3>3, <4>1, <4>2 DEF ReadServer
    <3> QED BY <2>1, <3>1, <3>2, <3>3 DEF ReadServer
  <2>2. CASE ReadDesktop(t)
    <3>1. desktop.startup \in Startup
      OBVIOUS
    <3>2. CASE op[t] = "get"
      BY <2>2, <3>2 DEF ReadDesktop
    <3>3. CASE op[t] = "language"
      <4>1. cfg' = [cfg EXCEPT ![t] = [cfg[t] EXCEPT !.startup = desktop.startup]]
        BY <2>2, <3>3 DEF ReadDesktop
      <4>2. [cfg[t] EXCEPT !.startup = desktop.startup] \in Config
        BY <3>1 DEF Config
      <4>3. cfg' \in [Tasks -> Config]
        BY <4>1, <4>2
      <4> QED BY <2>2, <3>3, <4>3 DEF ReadDesktop
    <3> QED BY <2>2, <3>2, <3>3 DEF ReadDesktop
  <2>3. CASE SaveServer(t)
    BY <2>3 DEF SaveServer, Config
  <2>4. CASE SaveStartup(t)
    BY <2>4 DEF SaveStartup, Config
  <2>5. CASE SaveLanguageKey(t)
    <3>1. /\ UNCHANGED <<server, proxies, torn>>
          /\ pc[t] = "saveLanguage" /\ holder' = Free /\ last' = cfg[t]
          /\ desktop' = [desktop EXCEPT !.language = cfg[t].language]
          /\ crossed' = Crossed(t) \ {t}
      BY <2>5 DEF SaveLanguageKey
    <3>2. desktop' \in [startup : Startup, language : Language]
          /\ last' \in [conn : Conns \cup {NoRow}, startup : Startup, language : Language]
      BY <3>1 DEF Config
    <3>3. CASE op[t] = "import"
      BY <2>5, <3>1, <3>2, <3>3 DEF SaveLanguageKey
    <3>4. CASE op[t] # "import"
      BY <2>5, <3>1, <3>2, <3>4 DEF SaveLanguageKey
    <3> QED BY <3>3, <3>4
  <2>6. CASE InsertMany(t)
    BY <2>6 DEF InsertMany
  <2> QED BY <1>2, <2>1, <2>2, <2>3, <2>4, <2>5, <2>6 DEF Continue
<1>3. CASE Crash
  BY <1>3 DEF Crash
<1>4. CASE UNCHANGED vars
  BY <1>4 DEF vars
<1>5. ASSUME NEW t \in Tasks, StatementFails(t) PROVE TypeOK'
  BY <1>5 DEF StatementFails, Saving
<1>6. ASSUME NEW t \in Tasks, ReadFails(t) PROVE TypeOK'
  <2> DEFINE c == [DefaultServer EXCEPT !.language = cfg[t].language]
  <2>1. CASE op[t] = "get"
    BY <1>6, <2>1 DEF ReadFails
  <2>2. CASE op[t] = "language"
    <3>1. c \in Config
      BY DEF Config, DefaultServer
    <3>2. cfg' = [cfg EXCEPT ![t] = c]
      BY <1>6, <2>2 DEF ReadFails
    <3> HIDE DEF c
    <3> QED BY <1>6, <2>2, <3>1, <3>2 DEF ReadFails
  <2> QED BY <1>6, <2>1, <2>2 DEF ReadFails
<1> QED BY <1>1, <1>2, <1>3, <1>4, <1>5, <1>6 DEF Next

\* Type correctness, and who may hold the mutex between two actions.
THEOREM TypeCorrect == Spec => []TypeOK
  BY TypeInit, TypeNext, PTL DEF Spec

-----------------------------------------------------------------------------
LEMMA MixedNext ==
  TypeOK /\ MixedOnlyByInterruption /\ [Next]_vars => MixedOnlyByInterruption'
<1> SUFFICES ASSUME TypeOK, MixedOnlyByInterruption, [Next]_vars, ~torn'
             PROVE  MixedOnlyByInterruption'
  BY DEF MixedOnlyByInterruption
<1> USE DEF TypeOK, MixedOnlyByInterruption, Stored, Saving, Goto, Finish,
            tables, locals, history
<1>1. ASSUME NEW t \in Tasks, Arrive(t) PROVE MixedOnlyByInterruption'
  <2>1. CASE SaveConfig(t) \/ GetConfig(t) \/ SaveLanguage(t) \/ ImportToml(t)
    <3>1. /\ UNCHANGED <<server, desktop, last, torn>>
          /\ pc[t] = "idle" /\ pc'[t] \in {"saveServer", "readServer"}
          /\ \A u \in Tasks : u # t => pc'[u] = pc[u] /\ cfg'[u] = cfg[u]
      BY <2>1 DEF SaveConfig, GetConfig, SaveLanguage, ImportToml, Begin
    <3> QED BY <3>1
  <2>2. CASE UpsertProxy(t) \/ DeleteProxy(t)
    BY <2>2 DEF UpsertProxy, DeleteProxy
  <2>3. CASE ResetData(t)
    BY <2>3 DEF ResetData
  <2> QED BY <1>1, <2>1, <2>2, <2>3 DEF Arrive
<1>2. ASSUME NEW t \in Tasks, Continue(t) PROVE MixedOnlyByInterruption'
  <2>1. CASE ReadServer(t) \/ ReadDesktop(t) \/ InsertMany(t)
    <3>1. /\ UNCHANGED <<server, desktop, last, torn>>
          /\ ~Saving(t) /\ ~Saving(t)'
          /\ \A u \in Tasks : u # t => pc'[u] = pc[u] /\ cfg'[u] = cfg[u]
      BY <2>1 DEF ReadServer, ReadDesktop, InsertMany
    <3> QED BY <3>1
  <2>2. CASE SaveServer(t)
    <3>1. \A u \in Tasks : ~Saving(u)
      BY <2>2 DEF SaveServer
    <3>2. Stored = last
      BY <2>2, <3>1 DEF SaveServer
    <3> QED BY <2>2, <3>1, <3>2 DEF SaveServer
  <2>3. CASE SaveStartup(t)
    <3>1. \A u \in Tasks : Saving(u) => u = t
      BY <2>3 DEF SaveStartup
    <3>2. /\ pc[t] = "saveStartup" /\ pc' = [pc EXCEPT ![t] = "saveLanguage"]
          /\ UNCHANGED <<server, cfg, last>> /\ ~torn
          /\ desktop' = [desktop EXCEPT !.startup = cfg[t].startup]
      BY <2>3 DEF SaveStartup
    <3>3. server = cfg[t].conn /\ desktop.language = last.language
      <4>1. Stored = [last EXCEPT !.conn = cfg[t].conn]
        BY <3>2
      <4>2. Stored.conn = cfg[t].conn /\ Stored.language = last.language
        BY <4>1
      <4> QED BY <4>2
    <3>4. Stored' = [cfg[t] EXCEPT !.language = last.language]
      BY <3>2, <3>3 DEF Config
    <3> QED BY <3>1, <3>2, <3>4
  <2>4. CASE SaveLanguageKey(t)
    <3>1. \A u \in Tasks : Saving(u) => u = t
      BY <2>4 DEF SaveLanguageKey
    <3>2. /\ pc[t] = "saveLanguage" /\ ~Saving(t)'
          /\ \A u \in Tasks : u # t => pc'[u] = pc[u]
          /\ UNCHANGED server /\ ~torn /\ last' = cfg[t]
          /\ desktop' = [desktop EXCEPT !.language = cfg[t].language]
      BY <2>4 DEF SaveLanguageKey
    <3>3. server = cfg[t].conn /\ desktop.startup = cfg[t].startup
      <4>1. Stored = [cfg[t] EXCEPT !.language = last.language]
        BY <3>2
      <4>2. Stored.conn = cfg[t].conn /\ Stored.startup = cfg[t].startup
        BY <4>1 DEF Config
      <4> QED BY <4>2
    <3>4. Stored' = last'
      BY <3>2, <3>3 DEF Config
    <3> QED BY <3>1, <3>2, <3>4
  <2> QED BY <1>2, <2>1, <2>2, <2>3, <2>4 DEF Continue
<1>3. CASE Crash
  BY <1>3 DEF Crash
<1>4. CASE UNCHANGED vars
  BY <1>4 DEF vars
<1>5. ASSUME NEW t \in Tasks, StatementFails(t) PROVE MixedOnlyByInterruption'
  <2>1. /\ UNCHANGED <<server, desktop, last, torn>>
        /\ ~Saving(t) /\ ~Saving(t)'
        /\ \A u \in Tasks : u # t => pc'[u] = pc[u] /\ cfg'[u] = cfg[u]
    BY <1>5 DEF StatementFails
  <2> QED BY <2>1
<1>6. ASSUME NEW t \in Tasks, ReadFails(t) PROVE MixedOnlyByInterruption'
  <2>1. /\ UNCHANGED <<server, desktop, last, torn>>
        /\ ~Saving(t) /\ ~Saving(t)'
        /\ \A u \in Tasks : u # t => pc'[u] = pc[u] /\ cfg'[u] = cfg[u]
    BY <1>6 DEF ReadFails
  <2> QED BY <2>1
<1> QED BY <1>1, <1>2, <1>3, <1>4, <1>5, <1>6 DEF Next

\* Saves that nothing cuts short or interrupts leave the server row and the desktop settings
\* of one and the same configuration.
THEOREM MixedOnlyWhenInterrupted == Spec => []MixedOnlyByInterruption
<1>1. Init => MixedOnlyByInterruption
  BY DEF Init, MixedOnlyByInterruption, Stored, Saving
<1> QED BY <1>1, TypeInit, TypeNext, MixedNext, PTL DEF Spec
-----------------------------------------------------------------------------
(* Saving the language.                                                     *)

\* A command that is at rest or has read nothing has the defaults in hand; and as
\* long as nothing crosses a save of the language, it has in hand what is stored.
AtRest(t) == pc[t] = "idle" => cfg[t] = DefaultServer

Unread(t) ==
    pc[t] = "readServer" /\ op[t] = "language" =>
        cfg[t].conn = DefaultConn /\ cfg[t].startup = "off"

\* The row, or the default server where there is none.
RowOr(conn) == IF conn = NoRow THEN DefaultConn ELSE conn

InHand(t) ==
    op[t] = "language" /\ t \notin crossed =>
        /\ pc[t] = "readDesktop" => cfg[t].conn = RowOr(server)
        /\ pc[t] = "saveServer" =>
              cfg[t].conn = RowOr(server) /\ cfg[t].startup = desktop.startup
        /\ Saving(t) => cfg[t].conn = RowOr(last.conn) /\ cfg[t].startup = last.startup

LanguageInv ==
    /\ \A t \in Tasks : AtRest(t) /\ Unread(t)
    /\ ~torn => /\ last.conn = NoRow => last.startup = "off"
                /\ \A t \in Tasks : InHand(t)

\* A step of t leaves the others where they are and either writes nothing or
\* comes across them.
LeavesOthers(t) ==
    /\ \A u \in Tasks \ {t} :
          /\ pc'[u] = pc[u] /\ op'[u] = op[u] /\ cfg'[u] = cfg[u]
          /\ u \in crossed => u \in crossed'
    /\ \/ UNCHANGED <<server, desktop, last>>
       \/ \A u \in Tasks \ {t} : op[u] = "language" => u \in crossed'

LEMMA OthersInHand ==
  ASSUME TypeOK, NEW t \in Tasks, LeavesOthers(t), NEW u \in Tasks \ {t}
  PROVE  /\ AtRest(u) => AtRest(u)' /\ (Unread(u) => Unread(u)')
         /\ InHand(u) => InHand(u)'
  BY DEF LeavesOthers, AtRest, Unread, InHand, Saving

\* While no save was cut short, an empty table has the default settings beside
\* it, and nobody is saving.
LEMMA EmptyIsDefault ==
  ASSUME TypeOK, MixedOnlyByInterruption, LanguageInv, ~torn
  PROVE  /\ (\A t \in Tasks : ~Saving(t)) =>
                server = last.conn /\ desktop.startup = last.startup
         /\ server = NoRow => desktop.startup = "off"
<1>1. (\A t \in Tasks : ~Saving(t)) => server = last.conn /\ desktop.startup = last.startup
  <2> SUFFICES ASSUME \A t \in Tasks : ~Saving(t)
               PROVE  server = last.conn /\ desktop.startup = last.startup
    OBVIOUS
  <2>1. Stored = last
    BY DEF MixedOnlyByInterruption
  <2>2. Stored.conn = server /\ Stored.startup = desktop.startup
    BY DEF Stored
  <2> QED BY <2>1, <2>2
<1>2. ASSUME NEW t \in Tasks, Saving(t) PROVE server # NoRow
  <2>1. cfg[t].conn \in Conns /\ cfg[t].conn # NoRow
    BY DEF TypeOK, Config
  <2>2. Stored.conn = cfg[t].conn
    <3>1. \/ Stored = [last EXCEPT !.conn = cfg[t].conn]
          \/ Stored = [cfg[t] EXCEPT !.language = last.language]
      BY <1>2 DEF MixedOnlyByInterruption, Saving
    <3> QED BY <3>1 DEF TypeOK, Config
  <2> QED BY <2>1, <2>2 DEF Stored
<1>3. server = NoRow => desktop.startup = "off"
  BY <1>1, <1>2 DEF LanguageInv
<1> QED BY <1>1, <1>3

\* The step of one command, for that command.
LEMMA OwnStep ==
  ASSUME TypeOK, TypeOK', MixedOnlyByInterruption, LanguageInv, NEW t \in Tasks,
         \/ Arrive(t) \/ Continue(t) \/ ReadFails(t) \/ StatementFails(t)
  PROVE  /\ LeavesOthers(t)
         /\ AtRest(t)' /\ Unread(t)'
         /\ ~torn' => /\ InHand(t)'
                      /\ last'.conn = NoRow => last'.startup = "off"
<1> USE DEF Goto, Finish, tables, locals, history, Crossed
<1>1. /\ AtRest(t) /\ Unread(t)
      /\ torn' \in BOOLEAN /\ (torn => torn')
      /\ ~torn => InHand(t) /\ (last.conn = NoRow => last.startup = "off")
  <2>1. torn => torn'
    BY DEF Arrive, Continue, SaveConfig, GetConfig, SaveLanguage, ImportToml,
       Begin, UpsertProxy, DeleteProxy, ResetData, ReadServer, ReadDesktop,
       SaveServer, SaveStartup, SaveLanguageKey, InsertMany, ReadFails,
       StatementFails
  <2> QED BY <2>1 DEF LanguageInv, TypeOK
<1>2. DefaultServer.conn = DefaultConn /\ DefaultServer.startup = "off"
  BY DEF DefaultServer
<1>3. CASE SaveConfig(t) \/ GetConfig(t) \/ ImportToml(t)
  <2>1. /\ pc' = [pc EXCEPT ![t] = pc'[t]] /\ pc'[t] \in {"saveServer", "readServer"}
        /\ op' = [op EXCEPT ![t] = op'[t]] /\ op'[t] \in {"save", "get", "import"}
        /\ cfg' = [cfg EXCEPT ![t] = cfg'[t]]
        /\ UNCHANGED <<server, desktop, last, torn, crossed>>
    BY <1>3 DEF SaveConfig, GetConfig, ImportToml, Begin, TypeOK
  <2> QED BY <1>1, <2>1 DEF LeavesOthers, AtRest, Unread, InHand, TypeOK
<1>4. CASE SaveLanguage(t)
  <2>1. PICK l \in Language : cfg' = [cfg EXCEPT ![t].language = l]
    BY <1>4 DEF SaveLanguage
  <2>2. cfg'[t].conn = DefaultConn /\ cfg'[t].startup = "off"
    BY <1>1, <1>2, <1>4, <2>1 DEF SaveLanguage, Begin, AtRest, TypeOK, Config
  <2>3. /\ pc' = [pc EXCEPT ![t] = "readServer"] /\ op' = [op EXCEPT ![t] = "language"]
        /\ UNCHANGED <<server, desktop, last, torn, crossed>>
    BY <1>4 DEF SaveLanguage, Begin
  <2> QED BY <1>1, <2>1, <2>2, <2>3
      DEF LeavesOthers, AtRest, Unread, InHand, Saving, TypeOK
<1>5. CASE UpsertProxy(t) \/ DeleteProxy(t)
  <2>1. UNCHANGED <<server, desktop, pc, op, cfg, last, torn, crossed>>
    BY <1>5 DEF UpsertProxy, DeleteProxy
  <2> QED BY <1>1, <2>1 DEF LeavesOthers, AtRest, Unread, InHand, Saving
<1>6. CASE ResetData(t)
  <2>1. /\ UNCHANGED <<pc, op, cfg>> /\ pc[t] = "idle"
        /\ last'.conn = NoRow /\ last'.startup = "off"
        /\ \A u \in Tasks \ {t} : /\ op[u] = "language" => u \in crossed'
                                  /\ u \in crossed => u \in crossed'
    BY <1>6 DEF ResetData
  <2> QED BY <1>1, <2>1 DEF LeavesOthers, AtRest, Unread, InHand, Saving
<1>7. CASE ReadServer(t)
  <2>1. CASE server = NoRow /\ op[t] = "get"
    <3>1. /\ pc' = [pc EXCEPT ![t] = "idle"] /\ op' = [op EXCEPT ![t] = "none"]
          /\ cfg' = [cfg EXCEPT ![t] = DefaultServer]
          /\ UNCHANGED <<server, desktop, last, torn, crossed>>
      BY <1>7, <2>1 DEF ReadServer
    <3> QED BY <1>1, <3>1 DEF LeavesOthers, AtRest, Unread, InHand, TypeOK
  <2>2. CASE server = NoRow /\ op[t] = "language"
    <3>1. /\ pc[t] = "readServer"
          /\ pc' = [pc EXCEPT ![t] = "saveServer"] /\ UNCHANGED <<op, cfg>>
          /\ UNCHANGED <<server, desktop, last, torn, crossed>>
      BY <1>7, <2>2 DEF ReadServer
    <3>2. ~torn => desktop.startup = "off"
      BY <2>2, EmptyIsDefault
    <3> QED BY <1>1, <2>2, <3>1, <3>2
        DEF LeavesOthers, AtRest, Unread, InHand, Saving, RowOr, TypeOK
  <2>3. CASE server # NoRow
    <3>1. /\ pc' = [pc EXCEPT ![t] = "readDesktop"]
          /\ cfg' = [cfg EXCEPT ![t] = [cfg[t] EXCEPT !.conn = server]]
          /\ UNCHANGED <<op, server, desktop, last, torn, crossed>>
      BY <1>7, <2>3 DEF ReadServer
    <3>2. cfg'[t].conn = server
      BY <3>1 DEF TypeOK, Config
    <3> QED BY <1>1, <2>3, <3>1, <3>2
        DEF LeavesOthers, AtRest, Unread, InHand, Saving, RowOr, TypeOK
  <2> QED BY <1>7, <2>1, <2>2, <2>3 DEF ReadServer
<1>8. CASE ReadDesktop(t)
  <2>1. CASE op[t] = "get"
    <3>1. /\ pc' = [pc EXCEPT ![t] = "idle"] /\ op' = [op EXCEPT ![t] = "none"]
          /\ cfg' = [cfg EXCEPT ![t] = DefaultServer]
          /\ UNCHANGED <<server, desktop, last, torn, crossed>>
      BY <1>8, <2>1 DEF ReadDesktop
    <3> QED BY <1>1, <3>1 DEF LeavesOthers, AtRest, Unread, InHand, TypeOK
  <2>2. CASE op[t] = "language"
    <3>1. /\ pc[t] = "readDesktop" /\ pc' = [pc EXCEPT ![t] = "saveServer"]
          /\ cfg' = [cfg EXCEPT ![t] = [cfg[t] EXCEPT !.startup = desktop.startup]]
          /\ UNCHANGED <<op, server, desktop, last, torn, crossed>>
      BY <1>8, <2>2 DEF ReadDesktop
    <3>2. cfg'[t].startup = desktop.startup /\ cfg'[t].conn = cfg[t].conn
      BY <3>1 DEF TypeOK, Config
    <3> QED BY <1>1, <2>2, <3>1, <3>2
        DEF LeavesOthers, AtRest, Unread, InHand, Saving, TypeOK
  <2> QED BY <1>8, <2>1, <2>2 DEF ReadDesktop
<1>9. CASE SaveServer(t)
  <2>1. /\ pc[t] = "saveServer" /\ pc' = [pc EXCEPT ![t] = "saveStartup"]
        /\ UNCHANGED <<op, cfg, desktop, last>>
        /\ ~torn' => ~torn /\ \A u \in Tasks : ~Saving(u)
        /\ t \in crossed' <=> t \in crossed
        /\ \A u \in Tasks \ {t} : /\ op[u] = "language" => u \in crossed'
                                  /\ u \in crossed => u \in crossed'
    BY <1>9 DEF SaveServer
  <2>2. ~torn' => server = last.conn /\ desktop.startup = last.startup
    BY <2>1, EmptyIsDefault
  <2> QED BY <1>1, <2>1, <2>2
      DEF LeavesOthers, AtRest, Unread, InHand, Saving, RowOr, TypeOK
<1>10. CASE SaveStartup(t)
  <2>1. /\ pc[t] = "saveStartup" /\ pc' = [pc EXCEPT ![t] = "saveLanguage"]
        /\ UNCHANGED <<op, cfg, server, last, torn>>
        /\ t \in crossed' <=> t \in crossed
        /\ \A u \in Tasks \ {t} : /\ op[u] = "language" => u \in crossed'
                                  /\ u \in crossed => u \in crossed'
    BY <1>10 DEF SaveStartup
  <2> QED BY <1>1, <2>1
      DEF LeavesOthers, AtRest, Unread, InHand, Saving, RowOr, TypeOK
<1>11. CASE SaveLanguageKey(t)
  <2>1. /\ pc'[t] \in {"idle", "insertMany"}
        /\ pc'[t] = "idle" => cfg'[t] = DefaultServer
        /\ \A u \in Tasks \ {t} : /\ pc'[u] = pc[u] /\ op'[u] = op[u] /\ cfg'[u] = cfg[u]
                                  /\ op[u] = "language" => u \in crossed'
                                  /\ u \in crossed => u \in crossed'
        /\ last' = cfg[t]
    BY <1>11 DEF SaveLanguageKey, TypeOK
  <2>2. last'.conn # NoRow
    BY <2>1 DEF TypeOK, Config
  <2> QED BY <1>1, <2>1, <2>2 DEF LeavesOthers, AtRest, Unread, InHand, Saving
<1>12. CASE InsertMany(t)
  <2>1. /\ op[t] = "import"
        /\ pc'[t] \in {"idle", "insertRow"} /\ (pc'[t] = "idle" => cfg'[t] = DefaultServer)
        /\ op'[t] \in {"import", "none"}
        /\ \A u \in Tasks \ {t} : pc'[u] = pc[u] /\ op'[u] = op[u] /\ cfg'[u] = cfg[u]
        /\ UNCHANGED <<server, desktop, last, torn, crossed>>
    BY <1>12 DEF InsertMany, TypeOK
  <2> QED BY <1>1, <2>1 DEF LeavesOthers, AtRest, Unread, InHand, Saving
<1>13. CASE ReadFails(t)
  <2> DEFINE c == [DefaultServer EXCEPT !.language = cfg[t].language]
  <2>1. CASE op[t] = "get"
    <3>1. /\ pc' = [pc EXCEPT ![t] = "idle"] /\ op' = [op EXCEPT ![t] = "none"]
          /\ cfg' = [cfg EXCEPT ![t] = DefaultServer]
          /\ UNCHANGED <<server, desktop, last, torn, crossed>>
      BY <1>13, <2>1 DEF ReadFails
    <3> QED BY <1>1, <3>1 DEF LeavesOthers, AtRest, Unread, InHand, TypeOK
  <2>2. CASE op[t] = "language"
    <3>1. /\ pc' = [pc EXCEPT ![t] = "saveServer"]
          /\ \A u \in Tasks \ {t} : cfg'[u] = cfg[u]
          /\ UNCHANGED <<op, server, desktop, last, torn>>
          /\ crossed' = crossed \cup {t}
      BY <1>13, <2>2 DEF ReadFails, TypeOK
    <3> QED BY <1>1, <3>1 DEF LeavesOthers, AtRest, Unread, InHand, TypeOK
  <2> QED BY <1>13, <2>1, <2>2 DEF ReadFails
<1>14. CASE StatementFails(t)
  <2>1. /\ pc' = [pc EXCEPT ![t] = "idle"] /\ op' = [op EXCEPT ![t] = "none"]
        /\ cfg' = [cfg EXCEPT ![t] = DefaultServer]
        /\ UNCHANGED <<server, desktop, last>> /\ crossed' = crossed \ {t}
    BY <1>14 DEF StatementFails
  <2> QED BY <1>1, <2>1 DEF LeavesOthers, AtRest, Unread, InHand, TypeOK
<1> QED BY <1>3, <1>4, <1>5, <1>6, <1>7, <1>8, <1>9, <1>10, <1>11, <1>12, <1>13, <1>14
    DEF Arrive, Continue

LEMMA LanguageNext ==
  ASSUME TypeOK, TypeOK', MixedOnlyByInterruption, LanguageInv, [Next]_vars
  PROVE  LanguageInv'
<1>1. ASSUME NEW t \in Tasks,
             \/ Arrive(t) \/ Continue(t) \/ ReadFails(t) \/ StatementFails(t)
      PROVE  LanguageInv'
  <2>1. /\ LeavesOthers(t)
        /\ AtRest(t)' /\ Unread(t)'
        /\ ~torn' => InHand(t)' /\ (last'.conn = NoRow => last'.startup = "off")
    BY <1>1, OwnStep
  <2>2. torn => torn'
    BY <1>1 DEF Arrive, Continue, SaveConfig, GetConfig, SaveLanguage, ImportToml,
       Begin, UpsertProxy, DeleteProxy, ResetData, ReadServer, ReadDesktop,
       SaveServer, SaveStartup, SaveLanguageKey, InsertMany, ReadFails,
       StatementFails, history
  <2>3. \A u \in Tasks \ {t} :
          AtRest(u)' /\ Unread(u)' /\ (~torn' => InHand(u)')
    BY <2>1, <2>2, OthersInHand DEF LanguageInv
  <2> QED BY <2>1, <2>3 DEF LanguageInv
<1>2. CASE Crash
  BY <1>2 DEF Crash, LanguageInv, AtRest, Unread, InHand, Saving, tables
<1>3. CASE UNCHANGED vars
  BY <1>3 DEF vars, LanguageInv, AtRest, Unread, InHand, Saving
<1> QED BY <1>1, <1>2, <1>3 DEF Next

\* A save of the language that nothing comes across changes nothing else.
THEOREM LanguageAlone == Spec => LanguageChangesOnlyItself
<1>1. Init => LanguageInv
  BY DEF Init, LanguageInv, AtRest, Unread, InHand, Saving, DefaultServer
<1>2. TypeOK /\ LanguageInv =>
        [\A t \in Tasks :
            op[t] = "language" /\ t \notin crossed /\ ~torn /\ SaveLanguageKey(t) =>
              last' = [last EXCEPT !.language = cfg[t].language,
                                   !.conn = IF @ = NoRow THEN DefaultConn ELSE @]]_vars
  <2> SUFFICES ASSUME TypeOK, LanguageInv, NEW t \in Tasks, op[t] = "language",
                      t \notin crossed, ~torn, SaveLanguageKey(t)
               PROVE  last' = [last EXCEPT !.language = cfg[t].language,
                                           !.conn = IF @ = NoRow THEN DefaultConn ELSE @]
    OBVIOUS
  <2>1. last' = cfg[t] /\ Saving(t)
    BY DEF SaveLanguageKey, Saving
  <2>2. cfg[t].conn = RowOr(last.conn) /\ cfg[t].startup = last.startup
    BY <2>1 DEF LanguageInv, InHand
  <2> QED BY <2>1, <2>2 DEF RowOr, TypeOK, Config
<1> QED BY <1>1, <1>2, TypeCorrect, MixedOnlyWhenInterrupted, LanguageNext, PTL
    DEF Spec, LanguageChangesOnlyItself
=============================================================================
