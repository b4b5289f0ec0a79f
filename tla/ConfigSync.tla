----------------------------- MODULE ConfigSync -----------------------------
(***************************************************************************)
(* How what the user edits reaches frpc: ProxyService, which writes a      *)
(* proxy and reloads frpc, reload_frpc_process, the part of                *)
(* start_frpc_process that writes the configuration file, and the commands *)
(* that change the server row in between.                                  *)
(*                                                                         *)
(* The store, frpc.toml and the running frpc each hold a copy of the       *)
(* tunnels.  Commands run on a thread pool: a reload reads the store twice,*)
(* rewrites the file, which is a truncation and a write, and runs          *)
(* `frpc reload`, which reads the file and asks the running frpc to read   *)
(* it again; other commands and a starting frpc interleave everywhere.     *)
(*                                                                         *)
(* Starts that overlap are the subject of FrpcProcess, and here there is   *)
(* one Launcher.  is_running sees what was recorded (no build but Windows  *)
(* finds an unrecorded frpc).  Desktop settings are not in the file, and   *)
(* the server row stands for the configuration.                            *)
(***************************************************************************)
EXTENDS FrpcToml

CONSTANTS
    Editors,   \* the commands that can be in flight together
    Launcher,  \* start_frpc_process, one at a time
    Ids,       \* the ids of proxies
    Samples,   \* the rows an earlier session may have left
    Rows,      \* the rows the renderer sends
    Servers,   \* the server configurations the renderer sends
    NoRow,     \* there is no server row
    Absent,    \* there is no proxy of this id
    Faults     \* which failures may happen

ASSUME ConstantsAssumption ==
    /\ Launcher \notin Editors
    /\ Rows \subseteq Samples
    /\ Absent \notin Samples
    /\ NoRow \notin Servers
    /\ \A r \in Samples : TypedProxy(r)
    /\ \A row \in Servers : BooleansOf(DefaultServer, row)
    /\ Faults \subseteq {"version", "disk"}

Actors == Editors \cup {Launcher}

VARIABLES
    server,     \* t_frpcd_servers
    proxies,    \* t_frpcd_proxies
    toml,       \* frpc.toml
    frpc,       \* the frpc process
    recorded,   \* it is recorded as the child of the app
    pc,         \* where each actor is
    conf,       \* what each actor has generated from the server row
    prox,       \* what each actor has generated from the proxies
    missed,     \* history: something kept an edit from reaching this frpc
    resaved     \* history: the admin address may differ from the running frpc's

vars == <<server, proxies, toml, frpc, recorded, pc, conf, prox,
          missed, resaved>>
store == <<server, proxies>>
process == <<frpc, recorded>>
locals == <<conf, prox>>
history == <<missed, resaved>>

-----------------------------------------------------------------------------
PreWrite == {"version", "readServer", "readProxies", "truncate", "write"}

Steps == PreWrite \cup {"idle", "check", "reload", "apply", "spawn", "record", "wipe"}

Stored == {proxies[i] : i \in Ids} \ {Absent}

\* Nothing is read yet.
Nothing == [nothing |-> TRUE]

\* What frpc should serve.
Tunnels == TunnelsToToml(Stored)

Whole(common, tunnels) ==
    [kind |-> "whole", common |-> common, tunnels |-> tunnels]
Empty == [kind |-> "empty"]
Torn(common) == [kind |-> "torn", common |-> common]

\* What frpc takes from a file: all tunnels of a whole one, none from an empty
\* one, and from a torn one that it accepts something else.
Read(file) ==
    CASE file.kind = "whole" -> file.tunnels
      [] file.kind = "empty" -> TunnelsToToml({})
      [] file.kind = "torn" -> [remains |-> TRUE]

FileCurrent == toml.kind = "whole" /\ toml.tunnels = Tunnels

\* Where frpc listens for `frpc reload`, and with which credentials.
Web(common) == [k \in {"webServer.port", "webServer.user", "webServer.password"}
                    |-> common[k]]

Down == [state |-> "down"]
Booting == [state |-> "booting"]
Up(file) == [state |-> "up", web |-> Web(file.common), loaded |-> Read(file)]

Alive == frpc.state # "down"

IsRunning == recorded /\ Alive

\* An editor other than t will write the file, or fail.
OtherWrites(t) == \E u \in Editors \ {t} : pc[u] \in PreWrite

\* The frpc that is starting, or that runs, gets other tunnels than these.
Outdated(tunnels) ==
    \/ /\ pc[Launcher] \in {"truncate", "write"}
       /\ prox[Launcher] # tunnels
    \/ /\ pc[Launcher] = "spawn" \/ Alive
       /\ ~(toml.kind = "whole" /\ toml.tunnels = tunnels)
    \/ /\ frpc.state = "up"
       /\ frpc.loaded # tunnels

Miss(condition) == missed' = (missed \/ condition)

Goto(t, step) == pc' = [pc EXCEPT ![t] = step]

\* The call returns, and with it its local variables.
Finish(t) == /\ Goto(t, "idle")
             /\ conf' = [conf EXCEPT ![t] = Nothing]
             /\ prox' = [prox EXCEPT ![t] = Nothing]

\* A reload that fails is dropped by ProxyService; a start that fails is shown.
Fail(t) == /\ Finish(t)
           /\ Miss(t \in Editors)
           /\ UNCHANGED resaved

Init ==
    /\ server \in Servers \cup {NoRow}
    /\ proxies \in [Ids -> Samples \cup {Absent}]
    /\ server = NoRow => Stored = {}
    /\ toml = Empty
    /\ frpc = Down
    /\ recorded = FALSE
    /\ pc = [t \in Actors |-> "idle"]
    /\ conf = [t \in Actors |-> Nothing]
    /\ prox = [t \in Actors |-> Nothing]
    /\ missed = FALSE
    /\ resaved = FALSE

-----------------------------------------------------------------------------
(* ProxyService: the row, then the reload.                                  *)

Edit(t, table) ==
    /\ pc[t] = "idle"
    /\ proxies' = table
    /\ Goto(t, "check")
    /\ UNCHANGED <<server, toml, process, locals, history>>

\* insert_proxy and update_proxy are both an upsert, which needs a server row.
UpsertProxy(t) ==
    /\ server # NoRow
    /\ \E i \in Ids, r \in Rows : Edit(t, [proxies EXCEPT ![i] = r])

\* Nothing is changed in a row that another command has deleted.
UpdateProxyStatus(t) ==
    \E i \in Ids, status \in {0, 1} :
        Edit(t, IF proxies[i] = Absent THEN proxies
                                       ELSE [proxies EXCEPT ![i]["status"] = status])

\* Faulty variant: nothing is reloaded after a deletion.
DeleteProxyUnreloaded(t) ==
    /\ pc[t] = "idle"
    /\ \E i \in Ids : proxies' = [proxies EXCEPT ![i] = Absent]
    /\ UNCHANGED <<server, toml, process, pc, locals, history>>

DeleteProxy(t) == \E i \in Ids : Edit(t, [proxies EXCEPT ![i] = Absent])

\* reload_frpc_process returns at once if frpc is not running.
Check(t) ==
    /\ pc[t] = "check"
    /\ IF IsRunning
       THEN Goto(t, "version") /\ UNCHANGED <<locals, missed>>
       ELSE Finish(t) /\ Miss(Outdated(Tunnels))
    /\ UNCHANGED <<store, toml, process, resaved>>

-----------------------------------------------------------------------------
(* The configuration file, written by a reload and by a start.              *)

\* get_server_config, and find_by_github_release_id for the version that is
\* chosen there; a start also wants a server address.
VersionChosen(t) ==
    /\ server # NoRow
    /\ server["frpcVersion"] # None
    /\ t = Launcher => server["serverAddr"] # ""

Version(t) ==
    /\ pc[t] = "version"
    /\ VersionChosen(t)
    /\ Goto(t, "readServer")
    /\ UNCHANGED <<store, toml, process, locals, history>>

\* No such version: it is deleted, or frpc goes on to run from it.
VersionFails(t) ==
    /\ pc[t] = "version"
    /\ ~VersionChosen(t) \/ "version" \in Faults
    /\ Fail(t)
    /\ UNCHANGED <<store, toml, process>>

\* Some actor's copy of the configuration has another admin address.
HeldApart(t) ==
    \E u \in Actors \ {t} :
        conf[u] # Nothing /\ Web(conf[u]) # Web(CommonToToml(server))

\* Faulty variant: without a row the defaults are written.
ReadServerOrDefault(t) ==
    /\ pc[t] = "readServer"
    /\ conf' = [conf EXCEPT ![t] =
                   CommonToToml(IF server = NoRow THEN DefaultServer ELSE server)]
    /\ Goto(t, "readProxies")
    /\ resaved' = IF t = Launcher /\ server # NoRow THEN HeldApart(t) ELSE resaved
    /\ UNCHANGED <<store, toml, process, prox, missed>>

\* gen_toml_config reads the server row ...
ReadServer(t) ==
    /\ pc[t] = "readServer"
    /\ IF server = NoRow
       THEN Fail(t)
       ELSE /\ conf' = [conf EXCEPT ![t] = CommonToToml(server)]
            /\ Goto(t, "readProxies")
            /\ resaved' = IF t = Launcher THEN HeldApart(t) ELSE resaved
            /\ UNCHANGED <<prox, missed>>
    /\ UNCHANGED <<store, toml, process>>

\* ... and then the proxies.
ReadProxies(t) ==
    /\ pc[t] = "readProxies"
    /\ prox' = [prox EXCEPT ![t] = Tunnels]
    /\ Goto(t, "truncate")
    /\ UNCHANGED <<store, toml, process, conf, history>>

\* fs::write opens the file, which truncates it ...
Truncate(t) ==
    /\ pc[t] = "truncate"
    /\ toml' = Empty
    /\ Goto(t, "write")
    /\ UNCHANGED <<store, process, locals, history>>

\* ... and writes from its start.  If another actor has written since, and
\* more than this one writes, the end of that text remains.
Write(t) ==
    /\ pc[t] = "write"
    /\ \/ toml' = Whole(conf[t], prox[t])
       \/ toml.kind # "empty" /\ toml' = Torn(conf[t])
    /\ Goto(t, IF t = Launcher THEN "spawn" ELSE "reload")
    /\ conf' = [conf EXCEPT ![t] = Nothing]
    /\ prox' = [prox EXCEPT ![t] = Nothing]
    /\ UNCHANGED <<store, process, resaved>>
    /\ Miss(~FileCurrent' /\ ~OtherWrites(t))

\* The disk is full.
WriteFails(t) ==
    /\ pc[t] = "write"
    /\ "disk" \in Faults
    /\ Fail(t)
    /\ UNCHANGED <<store, toml, process>>

-----------------------------------------------------------------------------
(* `frpc reload -c frpc.toml`, run with the binary of the version.          *)

\* The command finds in the file where this frpc listens.  A torn file may or
\* may not be accepted.
Reachable ==
    /\ frpc.state = "up"
    /\ toml.kind # "empty"
    /\ Web(toml.common) = frpc.web
    /\ TomlI64(toml.common["webServer.port"]) # "0"

Reload(t) ==
    /\ pc[t] = "reload"
    /\ Reachable
    /\ Goto(t, "apply")
    /\ UNCHANGED <<store, toml, process, locals, history>>

ReloadFails(t) ==
    /\ pc[t] = "reload"
    /\ \/ ~Reachable
       \/ toml.kind = "torn"
       \/ "version" \in Faults
    /\ Fail(t)
    /\ UNCHANGED <<store, toml, process>>

\* frpc reads the file again.  The admin address stays.
Apply(t) ==
    /\ pc[t] = "apply"
    /\ frpc.state = "up"
    /\ frpc' = [frpc EXCEPT !.loaded = Read(toml)]
    /\ missed' = IF FileCurrent THEN FALSE ELSE missed
    /\ Finish(t)
    /\ UNCHANGED <<store, toml, recorded, resaved>>

ApplyFails(t) ==
    /\ pc[t] = "apply"
    /\ frpc.state # "up" \/ toml.kind = "torn"
    /\ Fail(t)
    /\ UNCHANGED <<store, toml, process>>

-----------------------------------------------------------------------------
(* The rest of start_frpc_process, and the life of frpc.                    *)

\* Faulty variant: a running frpc is started again.
LaunchAgain ==
    /\ pc[Launcher] = "idle"
    /\ Goto(Launcher, "version")
    /\ UNCHANGED <<store, toml, process, locals, history>>

Launch ==
    /\ pc[Launcher] = "idle"
    /\ ~IsRunning
    /\ Goto(Launcher, "version")
    /\ UNCHANGED <<store, toml, process, locals, history>>

Spawn ==
    /\ pc[Launcher] = "spawn"
    /\ frpc' = Booting
    /\ recorded' = FALSE
    /\ Goto(Launcher, "record")
    /\ UNCHANGED <<store, toml, locals, history>>

SpawnFails ==
    /\ pc[Launcher] = "spawn"
    /\ Finish(Launcher)
    /\ UNCHANGED <<store, toml, process, history>>

Record ==
    /\ pc[Launcher] = "record"
    /\ recorded' = TRUE
    /\ Finish(Launcher)
    /\ UNCHANGED <<store, toml, frpc, history>>

\* frpc reads its configuration.  Without a server address it ends.
Boot ==
    /\ frpc.state = "booting"
    /\ \/ toml.kind # "empty" /\ frpc' = Up(toml)
       \/ toml.kind # "whole" /\ frpc' = Down
    /\ missed' = IF FileCurrent THEN FALSE ELSE missed
    /\ UNCHANGED <<store, toml, recorded, pc, locals, resaved>>

\* The user stops frpc, or it ends by itself.
Exit ==
    /\ Alive
    /\ frpc' = Down
    /\ recorded' = FALSE
    /\ UNCHANGED <<store, toml, pc, locals, history>>

-----------------------------------------------------------------------------
(* Commands that change the configuration and reload nothing.               *)

SetServer(row) ==
    /\ server' = row
    /\ resaved' = (resaved \/ server = NoRow \/ Web(row) # Web(server))
    /\ UNCHANGED <<proxies, toml, process, pc, locals, missed>>

SaveConfig == \E row \in Servers : SetServer(row)

\* A file that this app has written, without proxies.
ImportToml ==
    \E row \in Servers :
        SetServer(ImportTomlConfig(GenTomlConfig(row, {})).server)

\* server_reset_all_config: frpc is stopped first ...
ResetAll(t) ==
    /\ pc[t] = "idle"
    /\ IF IsRunning THEN frpc' = Down /\ recorded' = FALSE ELSE UNCHANGED process
    /\ Goto(t, "wipe")
    /\ UNCHANGED <<store, toml, locals, history>>

\* ... and then the tables and the directories are emptied.
Wipe(t) ==
    /\ pc[t] = "wipe"
    /\ server' = NoRow
    /\ proxies' = [i \in Ids |-> Absent]
    /\ Miss(Alive \/ Outdated(TunnelsToToml({})))
    /\ Finish(t)
    /\ UNCHANGED <<toml, process, resaved>>

-----------------------------------------------------------------------------
EditProxy(t) == UpsertProxy(t) \/ UpdateProxyStatus(t) \/ DeleteProxy(t)

GenToml(t) == \/ Version(t) \/ VersionFails(t) \/ ReadServer(t) \/ ReadProxies(t)
              \/ Truncate(t) \/ Write(t) \/ WriteFails(t)

ReloadFrpc(t) == \/ Check(t) \/ Reload(t) \/ ReloadFails(t)
                 \/ Apply(t) \/ ApplyFails(t)

Next ==
    \/ \E t \in Editors : EditProxy(t) \/ ReloadFrpc(t) \/ ResetAll(t) \/ Wipe(t)
    \/ \E t \in Actors : GenToml(t)
    \/ Launch \/ Spawn \/ SpawnFails \/ Record
    \/ Boot \/ Exit
    \/ SaveConfig \/ ImportToml

Spec == Init /\ [][Next]_vars

-----------------------------------------------------------------------------
(* Properties.                                                              *)

Files == {"whole", "empty", "torn"}

TypeOK ==
    /\ toml.kind \in Files
    /\ frpc.state \in {"down", "booting", "up"}
    /\ frpc.state = "up" => DOMAIN frpc = {"state", "web", "loaded"}
    /\ recorded \in BOOLEAN
    /\ pc \in [Actors -> Steps]
    /\ DOMAIN conf = Actors /\ DOMAIN prox = Actors
    /\ missed \in BOOLEAN
    /\ resaved \in BOOLEAN
    /\ pc[Launcher] \notin {"check", "reload", "apply", "wipe"}
    \* A start in progress finds no frpc, and only its own child is unrecorded.
    /\ pc[Launcher] \notin {"idle", "record"} => ~Alive
    /\ Alive /\ ~recorded => pc[Launcher] = "record"

\* Once every command has returned, a running frpc serves the stored tunnels,
\* unless a reload failed, an edit met a start in progress, an older read was
\* written over a newer one, or everything was reset under a new frpc.
DriftHasCause ==
    (frpc.state = "up" /\ \A t \in Actors : pc[t] = "idle") =>
        frpc.loaded = Tunnels \/ missed

\* Why it holds.  Until something is missed, whoever made an edit still has the
\* part of the way before it that the copies do not have behind them: the
\* starting actor's read, the file of an frpc that starts or runs, and the
\* tunnels that frpc serves are current, or an editor will see to it.
EditsHeld ==
    ~missed =>
        /\ pc[Launcher] \in {"truncate", "write"} =>
              \/ prox[Launcher] = Tunnels
              \/ \E u \in Editors : pc[u] = "check"
        /\ pc[Launcher] = "spawn" \/ Alive =>
              \/ FileCurrent
              \/ \E u \in Editors : pc[u] \in PreWrite \cup {"check"}
        /\ frpc.state = "up" =>
              \/ frpc.loaded = Tunnels
              \/ \E u \in Editors : pc[u] \notin {"idle", "wipe"}

\* As long as the admin address was not changed since frpc was configured, the
\* address in frpc.toml is the one where the running frpc listens: no reload
\* that read the configuration before a restart sends later ones elsewhere.
AdminReachable ==
    (frpc.state = "up" /\ toml.kind # "empty" /\ ~resaved) =>
        Web(toml.common) = frpc.web

\* What an export writes of the store is parsed back as the same: all tunnels if
\* each enabled proxy is Restorable, and the configuration if that is.  This is
\* about the keys that gen_toml_config writes and the import reads, not about
\* the import command, which does not return from storing proxies
\* (proxy_repository.rs:111 and 115, ConfigStore!BatchEnds).
ExportComesBack ==
    LET file == GenTomlConfig(server, Stored)
        back == ImportTomlConfig(file)
    IN  server # NoRow =>
          /\ (\A p \in Stored : IsEnableProxy(p) => Restorable(p)) =>
                ParsesAsToml(file) /\ TunnelsToToml(back.proxies) = Tunnels
          /\ ServerRestorable(server) =>
                CommonToToml(back.server) = CommonToToml(server)
=============================================================================
