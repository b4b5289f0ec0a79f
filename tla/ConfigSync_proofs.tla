------------------------- MODULE ConfigSync_proofs -------------------------
(***************************************************************************)
(* Theorems about ConfigSync, for any number of commands in flight, any    *)
(* proxies and server configurations, with or without failures.            *)
(***************************************************************************)
EXTENDS ConfigSync, FrpcToml_proofs

USE ConstantsAssumption

LEMMA TypeInit == Init => TypeOK
<1> SUFFICES ASSUME Init PROVE TypeOK
  OBVIOUS
<1> QED BY DEF Init, TypeOK, Files, Steps, PreWrite, Empty, Down, Alive, Actors

\* The states that Next distinguishes, as the kinds of their records.
LEMMA Kinds ==
  /\ Down.state = "down" /\ Booting.state = "booting" /\ Empty.kind = "empty"
  /\ \A c, x : /\ Whole(c, x).kind = "whole" /\ Whole(c, x).tunnels = x
               /\ Torn(c).kind = "torn"
  /\ \A f : /\ Up(f).state = "up" /\ Up(f).loaded = Read(f)
            /\ DOMAIN Up(f) = {"state", "web", "loaded"}
  BY DEF Down, Booting, Empty, Whole, Torn, Up

LEMMA BootEnds ==
  ASSUME Boot
  PROVE  /\ frpc'.state \in {"down", "up"}
         /\ frpc'.state = "up" =>
              frpc'.loaded = Read(toml) /\ DOMAIN frpc' = {"state", "web", "loaded"}
  <1>1. CASE frpc' = Up(toml)
    BY <1>1, Kinds DEF Boot
  <1>2. CASE frpc' = Down
    BY <1>2, Kinds DEF Boot
  <1> QED BY <1>1, <1>2 DEF Boot

LEMMA TypeNext == TypeOK /\ [Next]_vars => TypeOK'
<1> SUFFICES ASSUME TypeOK, [Next]_vars PROVE TypeOK'
  OBVIOUS
<1> USE Kinds DEF TypeOK, Files, Steps, PreWrite, Actors, Alive, Goto, Finish, Fail,
        Miss, store, process, locals, history
<1>1. ASSUME NEW t \in Editors,
             EditProxy(t) \/ Check(t) \/ ResetAll(t) \/ Wipe(t)
      PROVE  TypeOK'
  <2>1. CASE EditProxy(t)
    <3>1. CASE UpsertProxy(t)
      BY <3>1 DEF UpsertProxy, Edit
    <3>2. CASE UpdateProxyStatus(t)
      BY <3>2 DEF UpdateProxyStatus, Edit
    <3>3. CASE DeleteProxy(t)
      BY <3>3 DEF DeleteProxy, Edit
    <3> QED BY <2>1, <3>1, <3>2, <3>3 DEF EditProxy
  <2>2. CASE Check(t)
    <3>1. CASE IsRunning
      BY <2>2, <3>1 DEF Check
    <3>2. CASE ~IsRunning
      BY <2>2, <3>2 DEF Check
    <3> QED BY <3>1, <3>2
  <2>3. CASE ResetAll(t)
    BY <2>3 DEF ResetAll, IsRunning
  <2>4. CASE Wipe(t)
    BY <2>4 DEF Wipe
  <2> QED BY <1>1, <2>1, <2>2, <2>3, <2>4
<1>2. ASSUME NEW t \in Editors,
             Reload(t) \/ ReloadFails(t) \/ Apply(t) \/ ApplyFails(t)
      PROVE  TypeOK'
  <2>1. CASE Reload(t)
    BY <2>1 DEF Reload
  <2>4. CASE ReloadFails(t)
    BY <2>4 DEF ReloadFails
  <2>2. CASE Apply(t)
    BY <2>2 DEF Apply
  <2>3. CASE ApplyFails(t)
    BY <2>3 DEF ApplyFails
  <2> QED BY <1>2, <2>1, <2>2, <2>3, <2>4
<1>3. ASSUME NEW t \in Actors, GenToml(t) PROVE TypeOK'
  <2>1. CASE Version(t)
    <3>1. pc' = [pc EXCEPT ![t] = "readServer"] /\ pc[t] = "version"
      BY <2>1 DEF Version
    <3>2. UNCHANGED <<server, proxies, toml, frpc, recorded, conf, prox, missed, resaved>>
      BY <2>1 DEF Version
    <3> QED BY <3>1, <3>2
  <2>6. CASE VersionFails(t)
    BY <2>6 DEF VersionFails
  <2>2. CASE ReadServer(t)
    <3>1. CASE server = NoRow
      BY <2>2, <3>1 DEF ReadServer
    <3>2. CASE server # NoRow
      <4>1. /\ conf' = [conf EXCEPT ![t] = CommonToToml(server)]
            /\ Goto(t, "readProxies")
        BY <2>2, <3>2 DEF ReadServer
      <4>2. /\ resaved' = IF t = Launcher THEN HeldApart(t) ELSE resaved
            /\ UNCHANGED <<store, prox, toml, process, missed>>
        BY <2>2, <3>2 DEF ReadServer
      <4>3. DOMAIN conf' = Actors /\ resaved' \in BOOLEAN
        BY <4>1, <4>2 DEF HeldApart
      <4>4. pc[t] = "readServer"
        BY <2>2 DEF ReadServer
      <4> QED BY <4>1, <4>2, <4>3, <4>4
    <3> QED BY <3>1, <3>2
  <2>3. CASE ReadProxies(t) \/ Truncate(t)
    BY <2>3 DEF ReadProxies, Truncate
  <2>4. CASE Write(t)
    BY <2>4 DEF Write
  <2>5. CASE WriteFails(t)
    BY <2>5 DEF WriteFails
  <2> QED BY <1>3, <2>1, <2>2, <2>3, <2>4, <2>5, <2>6 DEF GenToml
<1>4. CASE Launch \/ Spawn
  BY <1>4 DEF Launch, Spawn, IsRunning
<1>8. CASE SpawnFails
  BY <1>8 DEF SpawnFails
<1>9. CASE Record
  BY <1>9 DEF Record
<1>5. CASE Boot
  <2>1. missed' \in BOOLEAN
    BY <1>5 DEF Boot
  <2>2. UNCHANGED <<toml, recorded, pc, conf, prox, resaved>> /\ frpc.state = "booting"
    BY <1>5 DEF Boot
  <2> QED BY <1>5, <2>1, <2>2, BootEnds
<1>10. CASE Exit
  BY <1>10 DEF Exit
<1>6. CASE SaveConfig \/ ImportToml
  BY <1>6 DEF SaveConfig, ImportToml, SetServer
<1>7. CASE UNCHANGED vars
  BY <1>7 DEF vars
<1> QED BY <1>1, <1>2, <1>3, <1>4, <1>5, <1>6, <1>7, <1>8, <1>9, <1>10 DEF Next, ReloadFrpc

\* The type invariant, with the order that the launch keeps: while a start is
\* under way there is no frpc but its own child.
THEOREM TypeCorrect == Spec => []TypeOK
<1>1. Init => TypeOK
  BY TypeInit
<1>2. TypeOK /\ [Next]_vars => TypeOK'
  BY TypeNext
<1> QED BY <1>1, <1>2, PTL DEF Spec

-----------------------------------------------------------------------------
LEMMA TunnelsKept == ASSUME UNCHANGED proxies PROVE Tunnels' = Tunnels
  BY DEF Tunnels, Stored

LEMMA HeldInit == Init => EditsHeld
  BY Kinds DEF Init, EditsHeld, Alive, Actors

\* An edit puts its editor at the check, where it answers for every copy.
LEMMA HeldByEdit ==
  ASSUME TypeOK, EditsHeld, NEW t \in Editors, EditProxy(t)
  PROVE  EditsHeld'
<1>1. /\ UNCHANGED <<toml, frpc, recorded, prox, missed>>
      /\ pc' = [pc EXCEPT ![t] = "check"]
  BY DEF EditProxy, UpsertProxy, UpdateProxyStatus, DeleteProxy, Edit, Goto, process,
         locals, history
<1>2. pc'[t] = "check"
  BY <1>1 DEF TypeOK, Actors
<1> QED BY <1>2 DEF EditsHeld

\* A check that finds no running frpc may only keep quiet if all is current.
LEMMA HeldByCheck ==
  ASSUME TypeOK, EditsHeld, NEW t \in Editors, Check(t)
  PROVE  EditsHeld'
<1>1. Tunnels' = Tunnels /\ UNCHANGED <<toml, frpc>> /\ FileCurrent' = FileCurrent
  BY TunnelsKept DEF Check, store, process, FileCurrent
<1>2. CASE IsRunning
  <2>1. UNCHANGED <<prox, missed>> /\ pc' = [pc EXCEPT ![t] = "version"]
    BY <1>2 DEF Check, Goto, locals
  <2>2. pc'[t] = "version" /\ \A u \in Actors \ {t} : pc'[u] = pc[u]
    BY <2>1 DEF TypeOK, Actors
  <2>3. pc[Launcher] \notin {"truncate", "write"}
    BY <1>2 DEF TypeOK, IsRunning
  <2> QED BY <1>1, <2>1, <2>2, <2>3 DEF EditsHeld, PreWrite, Alive, Actors
<1>3. CASE ~IsRunning
  <2>1. /\ missed' = (missed \/ Outdated(Tunnels))
        /\ prox'[Launcher] = prox[Launcher]
        /\ pc'[Launcher] = pc[Launcher]
    BY <1>3 DEF Check, Miss, Finish, Goto, TypeOK, Actors
  <2> QED BY <1>1, <2>1 DEF EditsHeld, Outdated, FileCurrent, Alive
<1> QED BY <1>2, <1>3

\* A reload that fails is missed; one that succeeds reads the file.
LEMMA HeldByReload ==
  ASSUME TypeOK, EditsHeld, NEW t \in Editors,
         Reload(t) \/ ReloadFails(t) \/ Apply(t) \/ ApplyFails(t)
  PROVE  EditsHeld'
<1>1. Tunnels' = Tunnels /\ UNCHANGED toml /\ FileCurrent' = FileCurrent
  BY TunnelsKept DEF Reload, ReloadFails, Apply, ApplyFails, store, FileCurrent
<1>2. CASE Reload(t)
  <2>1. UNCHANGED <<frpc, prox, missed>> /\ pc' = [pc EXCEPT ![t] = "apply"]
        /\ pc[t] = "reload"
    BY <1>2 DEF Reload, Goto, locals, process, history
  <2>2. pc'[t] = "apply" /\ \A u \in Actors \ {t} : pc'[u] = pc[u]
    BY <2>1 DEF TypeOK, Actors
  <2> QED BY <1>1, <2>1, <2>2 DEF EditsHeld, PreWrite, Alive, Actors
<1>3. CASE ReloadFails(t) \/ ApplyFails(t)
  BY <1>3 DEF ReloadFails, ApplyFails, Fail, Miss, EditsHeld
<1>4. CASE Apply(t)
  <2>1. /\ pc[t] = "apply" /\ frpc.state = "up"
        /\ frpc' = [frpc EXCEPT !.loaded = Read(toml)]
        /\ missed' = IF FileCurrent THEN FALSE ELSE missed
        /\ pc' = [pc EXCEPT ![t] = "idle"]
    BY <1>4 DEF Apply, Finish, Goto
  <2>2. frpc'.state = "up" /\ frpc'.loaded = Read(toml)
    BY <2>1 DEF TypeOK
  <2>3. pc'[Launcher] = pc[Launcher] /\ pc[Launcher] \in {"idle", "record"}
        /\ \A u \in Editors : pc[u] \in PreWrite \cup {"check"} => pc'[u] = pc[u]
    BY <2>1 DEF TypeOK, Actors, Alive, PreWrite
  <2>4. CASE FileCurrent
    <3>1. Read(toml) = Tunnels
      BY <2>4 DEF FileCurrent, Read
    <3> QED BY <1>1, <2>2, <2>3, <2>4, <3>1 DEF EditsHeld
  <2>5. CASE ~FileCurrent
    <3>1. missed' = missed
      BY <2>1, <2>5
    <3> QED BY <1>1, <2>1, <2>2, <2>3, <2>5, <3>1 DEF EditsHeld, Alive, PreWrite
  <2> QED BY <2>4, <2>5
<1> QED BY <1>2, <1>3, <1>4

\* Resetting everything is missed whenever it meets an frpc.
LEMMA HeldByReset ==
  ASSUME TypeOK, EditsHeld, NEW t \in Editors, ResetAll(t) \/ Wipe(t)
  PROVE  EditsHeld'
<1>1. CASE ResetAll(t)
  <2>1. /\ Tunnels' = Tunnels /\ UNCHANGED <<toml, prox, missed>>
        /\ FileCurrent' = FileCurrent
        /\ frpc' = frpc \/ frpc' = Down
        /\ pc[t] = "idle" /\ pc' = [pc EXCEPT ![t] = "wipe"]
    BY <1>1, TunnelsKept DEF ResetAll, store, FileCurrent, Goto, process, locals, history
  <2>2. pc'[t] = "wipe" /\ \A u \in Actors \ {t} : pc'[u] = pc[u]
    BY <2>1 DEF TypeOK, Actors
  <2> QED BY <2>1, <2>2, Kinds DEF EditsHeld, PreWrite, Alive, Actors
<1>2. CASE Wipe(t)
  <2>1. /\ UNCHANGED <<toml, frpc>>
        /\ pc'[Launcher] = pc[Launcher] /\ prox'[Launcher] = prox[Launcher]
        /\ missed' = (missed \/ Alive \/ Outdated(TunnelsToToml({})))
        /\ proxies' = [i \in Ids |-> Absent]
    BY <1>2 DEF Wipe, Miss, Finish, Goto, process, TypeOK, Actors
  <2>2. Tunnels' = TunnelsToToml({})
    <3>1. Stored' = {}
      BY <2>1 DEF Stored
    <3> QED BY <3>1 DEF Tunnels
  <2> QED BY <2>1, <2>2 DEF EditsHeld, Outdated, FileCurrent, Alive
<1> QED BY <1>1, <1>2

\* Up to its write, an actor only comes nearer to it, or fails.
LEMMA HeldByGenerate ==
  ASSUME TypeOK, EditsHeld, NEW t \in Actors,
         Version(t) \/ VersionFails(t) \/ ReadServer(t) \/ ReadProxies(t)
         \/ Truncate(t) \/ WriteFails(t)
  PROVE  EditsHeld'
<1>1. /\ Tunnels' = Tunnels /\ UNCHANGED frpc /\ pc[t] \in PreWrite
      /\ toml' = toml \/ pc[t] = "truncate"
  BY TunnelsKept DEF Version, VersionFails, ReadServer, ReadProxies, Truncate,
     WriteFails, store, process, PreWrite
<1>2. CASE t = Launcher
  <2>1. ~Alive
    BY <1>1, <1>2 DEF TypeOK, PreWrite
  <2>2. \A u \in Editors : pc'[u] = pc[u]
    BY <1>2 DEF Version, VersionFails, ReadServer, ReadProxies, Truncate,
       WriteFails, Fail, Finish, Goto, TypeOK, Actors
  <2>3. missed' = missed
    BY <1>2 DEF Version, VersionFails, ReadServer, ReadProxies, Truncate,
       WriteFails, Fail, Miss, history, TypeOK
  <2>4. pc'[Launcher] \in {"truncate", "write"} =>
          \/ pc[Launcher] = "truncate" /\ prox' = prox
          \/ prox'[Launcher] = Tunnels
    BY <1>2 DEF Version, VersionFails, ReadServer, ReadProxies, Truncate,
       WriteFails, Fail, Finish, Goto, locals, TypeOK, Actors
  <2>5. pc'[Launcher] # "spawn" /\ ~Alive'
    BY <1>1, <1>2, <2>1 DEF Version, VersionFails, ReadServer, ReadProxies, Truncate,
       WriteFails, Fail, Finish, Goto, TypeOK, Actors, Alive
  <2> QED BY <1>1, <2>2, <2>3, <2>4, <2>5 DEF EditsHeld, Alive
<1>3. CASE t \in Editors
  <2>1. CASE VersionFails(t) \/ WriteFails(t) \/ (ReadServer(t) /\ server = NoRow)
    BY <1>3, <2>1 DEF VersionFails, WriteFails, ReadServer, Fail, Miss, EditsHeld
  <2>2. CASE \/ Version(t) \/ (ReadServer(t) /\ server # NoRow)
            \/ ReadProxies(t) \/ Truncate(t)
    <3>1. /\ missed' = missed
          /\ prox' = prox \/ prox' = [prox EXCEPT ![t] = Tunnels]
          /\ \E step \in PreWrite : pc' = [pc EXCEPT ![t] = step]
      BY <2>2 DEF Version, ReadServer, ReadProxies, Truncate, Goto, locals, history, PreWrite
    <3>2. /\ pc'[t] \in PreWrite
          /\ \A u \in Actors \ {t} : pc'[u] = pc[u] /\ prox'[u] = prox[u]
      BY <3>1 DEF TypeOK, Actors
    <3> QED BY <1>1, <1>3, <3>1, <3>2 DEF EditsHeld, PreWrite, Alive, Actors
  <2> QED BY <2>1, <2>2
<1> QED BY <1>2, <1>3 DEF Actors

\* A write that leaves the file behind the store is missed, unless another
\* editor is still to write.
LEMMA HeldByWrite ==
  ASSUME TypeOK, EditsHeld, NEW t \in Actors, Write(t)
  PROVE  EditsHeld'
<1>1. Tunnels' = Tunnels /\ UNCHANGED frpc
  BY TunnelsKept DEF Write, store, process
<1>2. missed' = (missed \/ (~FileCurrent' /\ ~OtherWrites(t)))
  BY DEF Write, Miss
<1>3. /\ pc[t] = "write"
      /\ pc'[t] = IF t = Launcher THEN "spawn" ELSE "reload"
      /\ \A u \in Actors \ {t} : pc'[u] = pc[u] /\ prox'[u] = prox[u]
  BY DEF Write, Goto, TypeOK, Actors
<1>4. OtherWrites(t) => \E u \in Editors : pc'[u] \in PreWrite
  BY <1>3 DEF OtherWrites, Actors
<1>5. ~missed' => FileCurrent' \/ \E u \in Editors : pc'[u] \in PreWrite
  BY <1>2, <1>4
<1>6. ~missed' => ~missed
  BY <1>2
<1>7. CASE t = Launcher
  <2>1. ~Alive /\ pc'[Launcher] = "spawn"
    BY <1>3, <1>7 DEF TypeOK
  <2> QED BY <1>1, <1>5, <2>1 DEF EditsHeld, Alive
<1>8. CASE t \in Editors
  <2>1. pc'[t] = "reload" /\ t # Launcher
    BY <1>3, <1>8
  <2>2. \A u \in Editors : pc[u] = "check" => pc'[u] = "check"
    BY <1>3 DEF Actors
  <2> QED BY <1>1, <1>3, <1>5, <1>6, <1>8, <2>1, <2>2 DEF EditsHeld, Actors
<1> QED BY <1>7, <1>8 DEF Actors

\* A starting frpc reads the file, which is current or will be rewritten.
LEMMA HeldByLaunch ==
  ASSUME TypeOK, EditsHeld, Launch \/ Spawn \/ SpawnFails \/ Record \/ Boot \/ Exit
  PROVE  EditsHeld'
<1>1. Tunnels' = Tunnels /\ UNCHANGED toml /\ FileCurrent' = FileCurrent
  BY TunnelsKept DEF Launch, Spawn, SpawnFails, Record, Boot, Exit, store, FileCurrent
<1>2. \A u \in Editors : pc'[u] = pc[u]
  BY DEF Launch, Spawn, SpawnFails, Record, Boot, Exit, Finish, Goto, TypeOK, Actors
<1>3. CASE Launch \/ Spawn \/ SpawnFails \/ Record
  <2>1. /\ missed' = missed
        /\ pc'[Launcher] \notin {"truncate", "write", "spawn"}
    BY <1>3 DEF Launch, Spawn, SpawnFails, Record, Finish, Goto, history, TypeOK, Actors
  <2>2. \/ frpc' = frpc
        \/ pc[Launcher] = "spawn" /\ frpc'.state = "booting"
    BY <1>3, Kinds DEF Launch, Spawn, SpawnFails, Record, process
  <2> QED BY <1>1, <1>2, <2>1, <2>2 DEF EditsHeld, Alive
<1>4. CASE Boot
  <2>1. UNCHANGED <<pc, prox>> /\ Alive /\ missed' = IF FileCurrent THEN FALSE ELSE missed
    BY <1>4 DEF Boot, locals, Alive
  <2>2. pc[Launcher] \in {"idle", "record"}
    BY <2>1 DEF TypeOK
  <2>3. CASE FileCurrent
    <3>1. Read(toml) = Tunnels
      BY <2>3 DEF FileCurrent, Read
    <3> QED BY <1>1, <1>4, <2>1, <2>2, <2>3, <3>1, BootEnds DEF EditsHeld
  <2>4. CASE ~FileCurrent
    BY <1>1, <2>1, <2>2, <2>4 DEF EditsHeld, PreWrite
  <2> QED BY <2>3, <2>4
<1>5. CASE Exit
  BY <1>1, <1>5, Kinds DEF Exit, EditsHeld, locals, history, Alive
<1> QED BY <1>3, <1>4, <1>5

LEMMA HeldNext == TypeOK /\ EditsHeld /\ [Next]_vars => EditsHeld'
<1> SUFFICES ASSUME TypeOK, EditsHeld, [Next]_vars PROVE EditsHeld'
  OBVIOUS
<1>1. CASE SaveConfig \/ ImportToml \/ UNCHANGED vars
  <2>1. UNCHANGED <<proxies, toml, frpc, pc, prox, missed>>
    BY <1>1 DEF SaveConfig, ImportToml, SetServer, process, locals, vars
  <2> QED BY <2>1, TunnelsKept DEF EditsHeld, FileCurrent, Alive
<1> QED
  BY <1>1, HeldByEdit, HeldByCheck, HeldByReload, HeldByReset, HeldByGenerate,
     HeldByWrite, HeldByLaunch DEF Next, ReloadFrpc, GenToml

\* Until something is missed, every copy of the tunnels that is behind the
\* store has an editor on its way who will renew it.
THEOREM EditsAreHeld == Spec => []EditsHeld
<1>1. Init => EditsHeld
  BY HeldInit
<1>2. TypeOK /\ EditsHeld /\ [Next]_vars => EditsHeld'
  BY HeldNext
<1> QED BY <1>1, <1>2, TypeCorrect, PTL DEF Spec

\* A running frpc serves the stored tunnels once every command has returned,
\* unless a reload failed, an edit met a start in progress, an older read was
\* written over a newer one, or everything was reset under a running frpc.
THEOREM DriftIsExplained == Spec => []DriftHasCause
<1>1. EditsHeld => DriftHasCause
  BY DEF EditsHeld, DriftHasCause, Actors
<1> QED BY <1>1, EditsAreHeld, PTL

-----------------------------------------------------------------------------
(* The admin address.                                                       *)

WebOf(row) == Web(CommonToToml(row))

\* Whoever is about to write holds a configuration, and everything that says
\* where frpc listens says the same.
Holding == \A t \in Actors :
    pc[t] \in {"readProxies", "truncate", "write"} => conf[t] # Nothing

OneAddress(w) ==
    /\ server # NoRow => WebOf(server) = w
    /\ \A t \in Actors : conf[t] # Nothing => Web(conf[t]) = w
    /\ frpc.state = "up" => frpc.web = w
    /\ (Alive \/ pc[Launcher] = "spawn") /\ toml.kind # "empty"
          => Web(toml.common) = w

Agree == Holding /\ (~resaved => \E w : OneAddress(w))

\* The address in a file is a function of that of the row.
LEMMA WebFollowsRow ==
  ASSUME NEW row, NEW other, Web(row) = Web(other)
  PROVE  WebOf(row) = WebOf(other)
<1> DEFINE keys == {"webServer.port", "webServer.user", "webServer.password"}
<1>1. \A k \in keys : row[k] = other[k]
  <2>1. \A k \in keys : Web(row)[k] = row[k] /\ Web(other)[k] = other[k]
    BY DEF Web
  <2> QED BY <2>1
<1>2. ASSUME NEW r PROVE \A k \in keys : CommonToToml(r)[k] = Written(k, r[k])
  BY DEF CommonToToml, CopiedKeys, ForcedKeys
<1> QED BY <1>1, <1>2 DEF WebOf, Web

LEMMA SomethingRead == \A row : CommonToToml(row) # Nothing
<1> SUFFICES ASSUME NEW row PROVE CommonToToml(row) # Nothing
  OBVIOUS
<1>1. DOMAIN Nothing = {"nothing"}
  BY DEF Nothing
<1>2. "user" \in DOMAIN CommonToToml(row)
  BY DEF CommonToToml, CopiedKeys
<1> QED BY <1>1, <1>2

LEMMA AgreeInit == Init => Agree
<1> SUFFICES ASSUME Init PROVE Agree
  OBVIOUS
<1>1. \A t \in Actors : pc[t] = "idle" /\ conf[t] = Nothing
  BY DEF Init
<1>2. frpc.state = "down" /\ toml.kind = "empty"
  BY Kinds DEF Init
<1>3. OneAddress(WebOf(server))
  BY <1>1, <1>2 DEF OneAddress
<1> QED BY <1>1, <1>3 DEF Agree, Holding

LEMMA HoldingNext == TypeOK /\ Holding /\ [Next]_vars => Holding'
<1> SUFFICES ASSUME TypeOK, Holding, [Next]_vars PROVE Holding'
  OBVIOUS
<1> USE DEF Holding, TypeOK, Actors, Goto, Finish, Fail, locals, process, history, store
<1>1. ASSUME NEW t \in Editors, EditProxy(t) \/ Check(t) \/ ResetAll(t) \/ Wipe(t)
      PROVE  Holding'
  BY <1>1 DEF EditProxy, UpsertProxy, UpdateProxyStatus, DeleteProxy, Edit, Check,
     ResetAll, Wipe
<1>2. ASSUME NEW t \in Editors,
             Reload(t) \/ ReloadFails(t) \/ Apply(t) \/ ApplyFails(t)
      PROVE  Holding'
  BY <1>2 DEF Reload, ReloadFails, Apply, ApplyFails
<1>3. ASSUME NEW t \in Actors, GenToml(t)
      PROVE  Holding'
  <2>1. CASE Version(t) \/ VersionFails(t) \/ WriteFails(t) \/ Write(t)
    BY <2>1 DEF Version, VersionFails, WriteFails, Write
  <2>2. CASE ReadServer(t)
    BY <2>2, SomethingRead DEF ReadServer
  <2>3. CASE ReadProxies(t) \/ Truncate(t)
    BY <2>3 DEF ReadProxies, Truncate
  <2> QED BY <1>3, <2>1, <2>2, <2>3 DEF GenToml
<1>4. CASE Launch \/ Spawn \/ SpawnFails \/ Record
  BY <1>4 DEF Launch, Spawn, SpawnFails, Record
<1>5. CASE Boot \/ Exit \/ SaveConfig \/ ImportToml \/ UNCHANGED vars
  BY <1>5 DEF Boot, Exit, SaveConfig, ImportToml, SetServer, vars
<1> QED BY <1>1, <1>2, <1>3, <1>4, <1>5 DEF Next, ReloadFrpc

\* No step but a start that reads the row turns resaved off.
LEMMA ResavedStays ==
  ASSUME [Next]_vars, resaved,
         ~(ReadServer(Launcher) /\ server # NoRow)
  PROVE  resaved'
<1> USE DEF Fail, Finish, store, process, locals, history
<1>1. ASSUME NEW t \in Editors, EditProxy(t) \/ ReloadFrpc(t) \/ ResetAll(t) \/ Wipe(t)
      PROVE  resaved'
  BY <1>1 DEF EditProxy, UpsertProxy, UpdateProxyStatus, DeleteProxy, Edit, Check,
     ResetAll, Wipe, ReloadFrpc, Reload, ReloadFails, Apply, ApplyFails
<1>2. ASSUME NEW t \in Actors, GenToml(t)
      PROVE  resaved'
  BY <1>2 DEF GenToml, Version, VersionFails, WriteFails, Write, ReadServer,
     ReadProxies, Truncate
<1>3. CASE Launch \/ Spawn \/ SpawnFails \/ Record
  BY <1>3 DEF Launch, Spawn, SpawnFails, Record
<1>4. CASE Boot \/ Exit \/ SaveConfig \/ ImportToml \/ UNCHANGED vars
  BY <1>4 DEF Boot, Exit, SaveConfig, ImportToml, SetServer, vars
<1> QED BY <1>1, <1>2, <1>3, <1>4 DEF Next

\* A start that reads the row finds everybody else holding its address, or
\* resaved is on.
LEMMA AgreeAtStart ==
  ASSUME TypeOK, ReadServer(Launcher), server # NoRow, ~resaved'
  PROVE  OneAddress(WebOf(server))'
<1>1. /\ ~HeldApart(Launcher)
      /\ conf' = [conf EXCEPT ![Launcher] = CommonToToml(server)]
      /\ pc' = [pc EXCEPT ![Launcher] = "readProxies"]
      /\ UNCHANGED <<server, toml, frpc>>
  BY DEF ReadServer, Goto, store, process
<1>2. pc[Launcher] = "readServer"
  BY DEF ReadServer
<1>3. ~Alive /\ pc'[Launcher] = "readProxies"
  BY <1>1, <1>2 DEF TypeOK, Actors
<1>4. \A t \in Actors : conf'[t] # Nothing => Web(conf'[t]) = WebOf(server)
  BY <1>1 DEF HeldApart, TypeOK, WebOf, Actors
<1> QED BY <1>1, <1>3, <1>4 DEF OneAddress, Alive, WebOf

LEMMA AgreeByOthers ==
  ASSUME TypeOK, Holding, NEW w, OneAddress(w),
         NEW t \in Editors, EditProxy(t) \/ ReloadFrpc(t) \/ ResetAll(t) \/ Wipe(t)
  PROVE  OneAddress(w)'
<1> USE DEF OneAddress, TypeOK, Actors, Goto, Finish, Fail, locals, process, history,
        store, Alive
<1>1. CASE EditProxy(t) \/ Check(t)
  BY <1>1 DEF EditProxy, UpsertProxy, UpdateProxyStatus, DeleteProxy, Edit, Check
<1>2. CASE ResetAll(t) \/ Wipe(t)
  BY <1>2, Kinds DEF ResetAll, Wipe
<1>3. CASE Reload(t) \/ ReloadFails(t) \/ ApplyFails(t)
  BY <1>3 DEF Reload, ReloadFails, ApplyFails
<1>4. CASE Apply(t)
  BY <1>4 DEF Apply
<1> QED BY <1>1, <1>2, <1>3, <1>4 DEF ReloadFrpc

LEMMA AgreeByGenerate ==
  ASSUME TypeOK, Holding, NEW w, OneAddress(w), NEW t \in Actors, GenToml(t)
  PROVE  OneAddress(w)'
<1> USE DEF OneAddress, TypeOK, Actors, Goto, Finish, Fail, locals, process, history,
        store, Alive
<1>1. CASE Version(t) \/ VersionFails(t) \/ WriteFails(t) \/ ReadProxies(t)
  BY <1>1 DEF Version, VersionFails, WriteFails, ReadProxies
<1>2. CASE ReadServer(t)
  BY <1>2 DEF ReadServer, WebOf
<1>3. CASE Truncate(t)
  BY <1>3, Kinds DEF Truncate
<1>4. CASE Write(t)
  <2>1. conf[t] # Nothing
    BY <1>4 DEF Write, Holding
  <2>2. Web(toml'.common) = w
    BY <1>4, <2>1 DEF Write, Whole, Torn
  <2> QED BY <1>4, <2>2 DEF Write
<1> QED BY <1>1, <1>2, <1>3, <1>4 DEF GenToml

LEMMA AgreeByLaunch ==
  ASSUME TypeOK, NEW w, OneAddress(w),
         Launch \/ Spawn \/ SpawnFails \/ Record \/ Boot \/ Exit
  PROVE  OneAddress(w)'
<1> USE Kinds DEF OneAddress, TypeOK, Actors, Goto, Finish, locals, process, history,
        store, Alive
<1>1. CASE Launch \/ Spawn \/ SpawnFails \/ Record
  BY <1>1 DEF Launch, Spawn, SpawnFails, Record
<1>2. CASE Boot
  BY <1>2 DEF Boot, Up
<1>3. CASE Exit
  BY <1>3 DEF Exit
<1> QED BY <1>1, <1>2, <1>3

LEMMA AgreeBySave ==
  ASSUME TypeOK, NEW w, OneAddress(w), SaveConfig \/ ImportToml, ~resaved'
  PROVE  OneAddress(w)'
<1>1. PICK row : SetServer(row)
  BY DEF SaveConfig, ImportToml
<1>2. server # NoRow /\ Web(row) = Web(server)
  BY <1>1 DEF SetServer
<1>3. WebOf(server') = w
  BY <1>1, <1>2, WebFollowsRow DEF SetServer, OneAddress
<1> QED BY <1>1, <1>3 DEF SetServer, OneAddress, Alive, WebOf, process, locals

LEMMA AgreeNext == TypeOK /\ Agree /\ [Next]_vars => Agree'
<1> SUFFICES ASSUME TypeOK, Agree, [Next]_vars, ~resaved'
             PROVE  \E w : OneAddress(w)'
  BY HoldingNext DEF Agree
<1>1. CASE ReadServer(Launcher) /\ server # NoRow
  BY <1>1, AgreeAtStart
<1>2. CASE ~(ReadServer(Launcher) /\ server # NoRow)
  <2>1. PICK w : OneAddress(w)
    BY <1>2, ResavedStays DEF Agree
  <2>2. CASE UNCHANGED vars
    BY <2>1, <2>2 DEF vars, OneAddress, Alive, WebOf
  <2> QED BY <2>1, <2>2, AgreeByOthers, AgreeByGenerate, AgreeByLaunch, AgreeBySave
         DEF Next, Agree
<1> QED BY <1>1, <1>2

\* As long as the admin address is not saved anew, the one in frpc.toml is the
\* one where the running frpc listens, however many reloads, starts and resets
\* overlap.
THEOREM AdminStaysReachable == Spec => []AdminReachable
<1>1. Init => Agree
  BY AgreeInit
<1>2. TypeOK /\ Agree /\ [Next]_vars => Agree'
  BY AgreeNext
<1>3. Agree => AdminReachable
  BY DEF Agree, OneAddress, AdminReachable, Alive
<1> QED BY <1>1, <1>2, <1>3, TypeCorrect, PTL DEF Spec

-----------------------------------------------------------------------------
(* What an export gives back.                                               *)

\* The rows have the fields that the properties of FrpcToml want, whoever
\* wrote them: the renderer, a status change or an import.
RowsTyped ==
    /\ DOMAIN proxies = Ids
    /\ \A i \in Ids : proxies[i] # Absent => TypedProxy(proxies[i])
    /\ server # NoRow => BooleansOf(DefaultServer, server)

\* A change of status keeps the type.
LEMMA StatusKeepsType ==
  ASSUME NEW p, TypedProxy(p), NEW s
  PROVE  TypedProxy([p EXCEPT !["status"] = s])
<1> DEFINE q == [p EXCEPT !["status"] = s]
<1>1. DOMAIN q = DOMAIN p /\ \A k \in DOMAIN p : k # "status" => q[k] = p[k]
  OBVIOUS
<1>2. "status" \notin BoolKeys
  BY DEF BoolKeys, TransportBools
<1>3. "locations" \in DOMAIN DefaultImportedProxy
  BY DEF DefaultImportedProxy
<1>4. q["locations"] = p["locations"]
  BY <1>1, <1>3 DEF TypedProxy
<1> HIDE DEF q
<1> QED BY <1>1, <1>2, <1>4 DEF TypedProxy, BooleansOf

LEMMA RowsByEdit ==
  ASSUME RowsTyped, NEW t \in Editors, EditProxy(t)
  PROVE  RowsTyped'
<1>1. UNCHANGED server
  BY DEF EditProxy, UpsertProxy, UpdateProxyStatus, DeleteProxy, Edit
<1>2. CASE UpsertProxy(t)
  BY <1>1, <1>2 DEF UpsertProxy, Edit, RowsTyped
<1>3. CASE UpdateProxyStatus(t)
  <2>1. PICK i \in Ids, s \in {0, 1} :
          proxies' = IF proxies[i] = Absent THEN proxies
                     ELSE [proxies EXCEPT ![i]["status"] = s]
    BY <1>3 DEF UpdateProxyStatus, Edit
  <2>2. CASE proxies[i] = Absent
    BY <1>1, <2>1, <2>2 DEF RowsTyped
  <2>3. CASE proxies[i] # Absent
    <3>1. TypedProxy([proxies[i] EXCEPT !["status"] = s])
      BY <2>3, StatusKeepsType DEF RowsTyped
    <3> QED BY <1>1, <2>1, <2>3, <3>1 DEF RowsTyped
  <2> QED BY <2>2, <2>3
<1>4. CASE DeleteProxy(t)
  BY <1>1, <1>4 DEF DeleteProxy, Edit, RowsTyped
<1> QED BY <1>2, <1>3, <1>4 DEF EditProxy

LEMMA RowsByServer ==
  ASSUME RowsTyped, SaveConfig \/ ImportToml
  PROVE  RowsTyped'
<1>1. UNCHANGED proxies
  BY DEF SaveConfig, ImportToml, SetServer
<1>2. CASE SaveConfig
  BY <1>1, <1>2 DEF SaveConfig, SetServer, RowsTyped
<1>3. CASE ImportToml
  <2>1. PICK row \in Servers :
          server' = ImportTomlConfig(GenTomlConfig(row, {})).server
    BY <1>3 DEF ImportToml, SetServer
  <2>2. server' = ServerFromToml(CommonToToml(row))
    BY <2>1 DEF ImportTomlConfig, GenTomlConfig
  <2>3. BooleansOf(DefaultServer, server')
    BY <2>2, ImportedServerTyped
  <2> QED BY <1>1, <2>3 DEF RowsTyped
<1> QED BY <1>2, <1>3

LEMMA RowsNext == RowsTyped /\ [Next]_vars => RowsTyped'
<1> SUFFICES ASSUME RowsTyped, [Next]_vars PROVE RowsTyped'
  OBVIOUS
<1>1. ASSUME NEW t \in Editors, ReloadFrpc(t) \/ ResetAll(t) PROVE UNCHANGED store
  BY <1>1 DEF ReloadFrpc, Check, Reload, ReloadFails, Apply, ApplyFails, ResetAll
<1>2. ASSUME NEW t \in Editors, Wipe(t) PROVE RowsTyped'
  BY <1>2 DEF Wipe, RowsTyped
<1>3. ASSUME NEW t \in Actors, GenToml(t) PROVE UNCHANGED store
  BY <1>3 DEF GenToml, Version, VersionFails, ReadServer, ReadProxies, Truncate,
     Write, WriteFails
<1>4. ASSUME Launch \/ Spawn \/ SpawnFails \/ Record \/ Boot \/ Exit \/ UNCHANGED vars
      PROVE  UNCHANGED store
  BY <1>4 DEF Launch, Spawn, SpawnFails, Record, Boot, Exit, store, vars
<1>5. UNCHANGED store => RowsTyped'
  BY DEF store, RowsTyped
<1> QED
  BY <1>1, <1>2, <1>3, <1>4, <1>5, RowsByEdit, RowsByServer DEF Next

\* An export of the store, whatever commands have made of it, is a file that
\* the app can parse again, and what it parses makes for frpc the same tunnels
\* and the same configuration, as long as the rows are of those that the parser
\* restores.  (To store proxies it has parsed, the import command takes a lock
\* twice and does not return: ConfigStore!BatchEnds.)
THEOREM ExportsComeBack == Spec => []ExportComesBack
<1>1. Init => RowsTyped
  BY DEF Init, RowsTyped
<1>2. RowsTyped /\ [Next]_vars => RowsTyped'
  BY RowsNext
<1>3. RowsTyped => ExportComesBack
  <2> SUFFICES ASSUME RowsTyped, server # NoRow PROVE ExportComesBack
    BY DEF ExportComesBack
  <2> DEFINE file == GenTomlConfig(server, Stored)
  <2>1. ASSUME \A p \in Stored : IsEnableProxy(p) => Restorable(p)
        PROVE  /\ ParsesAsToml(file)
               /\ TunnelsToToml(ImportTomlConfig(file).proxies) = Tunnels
    <3>1. \A p \in Stored : TypedProxy(p)
      BY DEF RowsTyped, Stored
    <3> QED BY <2>1, <3>1, FileComesBack DEF Tunnels
  <2>2. ASSUME ServerRestorable(server)
        PROVE  CommonToToml(ImportTomlConfig(file).server) = CommonToToml(server)
    <3>1. ServerRestored(server)
      BY <2>2, ServerRestoredIff DEF RowsTyped
    <3>2. ImportTomlConfig(file).server = ServerFromToml(CommonToToml(server))
      BY DEF ImportTomlConfig, GenTomlConfig
    <3> QED BY <3>1, <3>2 DEF ServerRestored
  <2> QED BY <2>1, <2>2 DEF ExportComesBack
<1> QED BY <1>1, <1>2, <1>3, PTL DEF Spec
=============================================================================
