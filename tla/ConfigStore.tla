---------------------------- MODULE ConfigStore ----------------------------
(***************************************************************************)
(* The configuration half of the SQLite store and the commands that work   *)
(* on it: server_save_config, server_save_language, server_get_config,     *)
(* server_import_toml_config, proxy_* and server_reset_all_config.         *)
(*                                                                         *)
(* One connection is shared behind a mutex.  A repository call locks it    *)
(* for each of its parts, so a service call is a sequence of critical      *)
(* sections and the commands, which run on a thread pool, interleave       *)
(* between them.  A critical section with a single statement or a single   *)
(* transaction is one action; save_system_config holds the mutex over      *)
(* several autocommitted statements and insert_many over a transaction     *)
(* that calls back into the repository, so these are several.              *)
(*                                                                         *)
(* The columns of the server row are abstracted to one value `conn`, the   *)
(* desktop settings to two of the four keys: `startup` (the three          *)
(* booleans) and `language`.                                               *)
(***************************************************************************)
EXTENDS FiniteSets

CONSTANTS
    Tasks,        \* commands that can be in flight together
    Free,         \* nobody holds the mutex
    Conns,        \* what the columns of a server row can hold
    DefaultConn,  \* default_server()
    NoRow,        \* the servers table is empty
    Proxies,      \* proxy ids
    ImportLists,  \* the sets of proxies an imported TOML file may list
    Crashes       \* the app may be killed

ASSUME ConstantsAssumption ==
    /\ Free \notin Tasks
    /\ DefaultConn \in Conns
    /\ NoRow \notin Conns
    /\ ImportLists \subseteq SUBSET Proxies
    /\ Crashes \in BOOLEAN

Startup == {"off", "on"}
Language == {"en", "zh"}
Config == [conn : Conns, startup : Startup, language : Language]

\* default_server(), with its system settings.
DefaultServer == [conn |-> DefaultConn, startup |-> "off", language |-> "en"]

VARIABLES
    server,   \* t_frpcd_servers: NoRow, or the row's columns
    desktop,  \* t_frpcd_app_config, namespace desktop (defaults if a key is absent)
    proxies,  \* t_frpcd_proxies: the set of ids
    holder,   \* who holds the mutex between two actions
    pc,       \* where each task is
    op,       \* what each task was asked to do
    cfg,      \* the configuration each task has in hand
    batch,    \* the proxies each task has to insert
    last,     \* history: the configuration the last finished write left behind
    torn,     \* history: a save was cut short (a crash, a failed statement) or
              \* met another write
    crossed   \* history: the commands in flight to save the language whose read
              \* failed, or which another write came across

vars == <<server, desktop, proxies, holder, pc, op, cfg, batch, last, torn, crossed>>
tables == <<server, desktop, proxies>>
history == <<last, torn, crossed>>

Steps == {"idle", "readServer", "readDesktop", "saveServer", "saveStartup",
          "saveLanguage", "insertMany", "insertRow"}

\* What a reader of both tables gets.
Stored == [conn |-> server, startup |-> desktop.startup, language |-> desktop.language]

\* A task between the first and the last write of a save.
Saving(t) == pc[t] \in {"saveStartup", "saveLanguage"}

\* A write of t comes across the other language commands in flight.
Crossed(t) == crossed \cup {u \in Tasks \ {t} : op[u] = "language"}

Goto(t, step) == pc' = [pc EXCEPT ![t] = step]

\* The command returns, and with it its local variables.
Finish(t) == /\ Goto(t, "idle")
             /\ op' = [op EXCEPT ![t] = "none"]
             /\ cfg' = [cfg EXCEPT ![t] = DefaultServer]
             /\ batch' = [batch EXCEPT ![t] = {}]

locals == <<op, cfg, batch>>

Init ==
    /\ server = NoRow
    /\ desktop = [startup |-> "off", language |-> "en"]
    /\ proxies = {}
    /\ holder = Free
    /\ pc = [t \in Tasks |-> "idle"]
    /\ op = [t \in Tasks |-> "none"]
    /\ cfg = [t \in Tasks |-> DefaultServer]
    /\ batch = [t \in Tasks |-> {}]
    /\ last = [conn |-> NoRow, startup |-> "off", language |-> "en"]
    /\ torn = FALSE
    /\ crossed = {}

-----------------------------------------------------------------------------
(* Commands arrive.                                                         *)

Begin(t, what, step) ==
    /\ pc[t] = "idle"
    /\ op' = [op EXCEPT ![t] = what]
    /\ Goto(t, step)
    /\ UNCHANGED <<tables, holder, history>>

\* server_save_config: the renderer sends a whole configuration.
SaveConfig(t) ==
    /\ Begin(t, "save", "saveServer")
    /\ \E c \in Config : cfg' = [cfg EXCEPT ![t] = c]
    /\ UNCHANGED batch

\* server_get_server_config.
GetConfig(t) == Begin(t, "get", "readServer") /\ UNCHANGED <<cfg, batch>>

\* server_save_language: read the configuration, change the language, save it.
SaveLanguage(t) ==
    /\ \E l \in Language :
          /\ Begin(t, "language", "readServer")
          /\ cfg' = [cfg EXCEPT ![t].language = l]
    /\ UNCHANGED batch

\* server_import_toml_config: a configuration built from default_server(), with
\* the default desktop settings, then the file's proxies and visitors (two calls
\* of insert_many in the code, one batch here: the first that has something to
\* insert is the last).
ImportToml(t) ==
    /\ Begin(t, "import", "saveServer")
    /\ \E c \in Conns : cfg' = [cfg EXCEPT ![t] = [DefaultServer EXCEPT !.conn = c]]
    /\ \E list \in ImportLists : batch' = [batch EXCEPT ![t] = list]

-----------------------------------------------------------------------------
(* ServerRepository.find_by_id: two critical sections.                      *)

\* Without a row find_by_id ends here: get_server_config answers None, and
\* save_language goes on with the default server.
ReadServer(t) ==
    /\ pc[t] = "readServer"
    /\ holder = Free
    /\ \/ server = NoRow /\ op[t] = "get" /\ Finish(t)
       \/ /\ server = NoRow /\ op[t] = "language"
          /\ Goto(t, "saveServer")
          /\ UNCHANGED locals
       \/ /\ server # NoRow
          /\ cfg' = [cfg EXCEPT ![t].conn = server]
          /\ Goto(t, "readDesktop")
          /\ UNCHANGED <<op, batch>>
    /\ UNCHANGED <<tables, holder, history>>

\* Faulty variant: the desktop settings are not read.
ReadDesktopSkipped(t) ==
    /\ pc[t] = "readDesktop"
    /\ holder = Free
    /\ IF op[t] = "get" THEN Finish(t) ELSE Goto(t, "saveServer") /\ UNCHANGED locals
    /\ UNCHANGED <<tables, holder, history>>

ReadDesktop(t) ==
    /\ pc[t] = "readDesktop"
    /\ holder = Free
    /\ \/ op[t] = "get" /\ Finish(t)
       \/ /\ op[t] = "language"
          /\ cfg' = [cfg EXCEPT ![t].startup = desktop.startup]
          /\ Goto(t, "saveServer")
          /\ UNCHANGED <<op, batch>>
    /\ UNCHANGED <<tables, holder, history>>

\* Either statement fails: get_server_config answers the error, which
\* save_language takes, like a missing row, for the default server.
ReadFails(t) ==
    /\ pc[t] \in {"readServer", "readDesktop"}
    /\ holder = Free
    /\ \/ op[t] = "get" /\ Finish(t) /\ UNCHANGED crossed
       \/ /\ op[t] = "language"
          /\ cfg' = [cfg EXCEPT ![t] = [DefaultServer EXCEPT !.language = cfg[t].language]]
          /\ Goto(t, "saveServer")
          /\ crossed' = crossed \cup {t}
          /\ UNCHANGED <<op, batch>>
    /\ UNCHANGED <<tables, holder, last, torn>>

-----------------------------------------------------------------------------
(* ServerRepository.upsert_for_migration: the server row in one critical    *)
(* section, the desktop settings in another.                                *)

\* Faulty variant: the connection is not dropped before the settings are saved.
SaveServerKeepsLock(t) ==
    /\ pc[t] = "saveServer"
    /\ holder = Free
    /\ holder' = t
    /\ server' = cfg[t].conn
    /\ torn' = (torn \/ \E u \in Tasks : Saving(u))
    /\ crossed' = Crossed(t)
    /\ Goto(t, "saveStartup")
    /\ UNCHANGED <<desktop, proxies, locals, last>>

SaveServer(t) ==
    /\ pc[t] = "saveServer"
    /\ holder = Free
    /\ server' = cfg[t].conn
    /\ torn' = (torn \/ \E u \in Tasks : Saving(u))
    /\ crossed' = Crossed(t)
    /\ Goto(t, "saveStartup")
    /\ UNCHANGED <<desktop, proxies, holder, locals, last>>

\* save_system_config takes the mutex and upserts key after key.
SaveStartup(t) ==
    /\ pc[t] = "saveStartup"
    /\ holder = Free
    /\ holder' = t
    /\ desktop' = [desktop EXCEPT !.startup = cfg[t].startup]
    /\ crossed' = Crossed(t)
    /\ Goto(t, "saveLanguage")
    /\ UNCHANGED <<server, proxies, locals, last, torn>>

\* Faulty variant: the last key is left out.
SaveLanguageForgotten(t) ==
    /\ pc[t] = "saveLanguage"
    /\ holder' = Free
    /\ last' = cfg[t]
    /\ crossed' = Crossed(t) \ {t}
    /\ IF op[t] = "import" THEN Goto(t, "insertMany") /\ UNCHANGED locals ELSE Finish(t)
    /\ UNCHANGED <<tables, torn>>

SaveLanguageKey(t) ==
    /\ pc[t] = "saveLanguage"
    /\ desktop' = [desktop EXCEPT !.language = cfg[t].language]
    /\ holder' = Free
    /\ last' = cfg[t]
    /\ crossed' = Crossed(t) \ {t}
    /\ IF op[t] = "import" THEN Goto(t, "insertMany") /\ UNCHANGED locals ELSE Finish(t)
    /\ UNCHANGED <<server, proxies, torn>>

\* A statement is refused (a CHECK constraint of t_frpcd_servers, a full disk):
\* the call returns the error, and what was written before it stays.
StatementFails(t) ==
    /\ \/ pc[t] \in {"saveServer", "saveStartup"} /\ holder = Free
       \/ pc[t] = "saveLanguage"
    /\ holder' = Free
    /\ torn' = (torn \/ Saving(t))
    /\ crossed' = crossed \ {t}
    /\ Finish(t)
    /\ UNCHANGED <<tables, last>>

-----------------------------------------------------------------------------
(* ProxyRepository.                                                         *)

\* insert_many locks the connection and opens a transaction; with nothing to
\* insert it commits at once.  Otherwise it calls upsert_for_migration, which
\* locks the same mutex again: a std Mutex is not reentrant, so the call never
\* gets beyond "insertRow" and keeps the mutex.
InsertMany(t) ==
    /\ pc[t] = "insertMany"
    /\ holder = Free
    /\ IF batch[t] = {}
       THEN Finish(t) /\ UNCHANGED holder
       ELSE holder' = t /\ Goto(t, "insertRow") /\ UNCHANGED locals
    /\ UNCHANGED <<tables, history>>

\* insert, update_by_id: one upsert, which the foreign key refuses without a
\* server row.
UpsertProxy(t) ==
    /\ pc[t] = "idle"
    /\ holder = Free
    /\ server # NoRow
    /\ \E p \in Proxies : proxies' = proxies \cup {p}
    /\ UNCHANGED <<server, desktop, holder, pc, locals, history>>

DeleteProxy(t) ==
    /\ pc[t] = "idle"
    /\ holder = Free
    /\ \E p \in Proxies : proxies' = proxies \ {p}
    /\ UNCHANGED <<server, desktop, holder, pc, locals, history>>

-----------------------------------------------------------------------------
\* DatabaseManager.reset_data: one transaction in one critical section.
ResetData(t) ==
    /\ pc[t] = "idle"
    /\ holder = Free
    /\ server' = NoRow
    /\ desktop' = [startup |-> "off", language |-> "en"]
    /\ proxies' = {}
    /\ last' = [conn |-> NoRow, startup |-> "off", language |-> "en"]
    /\ torn' = (torn \/ \E u \in Tasks : Saving(u))
    /\ crossed' = Crossed(t)
    /\ UNCHANGED <<holder, pc, locals>>

\* The app is killed and started again: statements that were committed stay,
\* an open transaction is rolled back, and nothing else is left.
Crash ==
    /\ Crashes
    /\ holder' = Free
    /\ pc' = [t \in Tasks |-> "idle"]
    /\ op' = [t \in Tasks |-> "none"]
    /\ cfg' = [t \in Tasks |-> DefaultServer]
    /\ batch' = [t \in Tasks |-> {}]
    /\ torn' = (torn \/ \E u \in Tasks : Saving(u))
    /\ crossed' = {}
    /\ UNCHANGED <<tables, last>>

-----------------------------------------------------------------------------
Arrive(t) == \/ SaveConfig(t) \/ GetConfig(t) \/ SaveLanguage(t) \/ ImportToml(t)
             \/ UpsertProxy(t) \/ DeleteProxy(t) \/ ResetData(t)

Continue(t) == \/ ReadServer(t) \/ ReadDesktop(t)
               \/ SaveServer(t) \/ SaveStartup(t) \/ SaveLanguageKey(t)
               \/ InsertMany(t)

Next == \/ \E t \in Tasks : Arrive(t) \/ Continue(t) \/ ReadFails(t) \/ StatementFails(t)
        \/ Crash

Spec == Init /\ [][Next]_vars

\* A command that was accepted is scheduled, and the mutex is fair enough that
\* a task that keeps finding it free now and then gets it.
FairSpec == Spec /\ \A t \in Tasks : SF_vars(Continue(t))

-----------------------------------------------------------------------------
TypeOK ==
    /\ server \in Conns \cup {NoRow}
    /\ desktop \in [startup : Startup, language : Language]
    /\ proxies \in SUBSET Proxies
    /\ holder \in Tasks \cup {Free}
    /\ pc \in [Tasks -> Steps]
    /\ op \in [Tasks -> {"none", "save", "get", "language", "import"}]
    /\ cfg \in [Tasks -> Config]
    /\ batch \in [Tasks -> SUBSET Proxies]
    /\ last \in [conn : Conns \cup {NoRow}, startup : Startup, language : Language]
    /\ torn \in BOOLEAN
    /\ crossed \subseteq {t \in Tasks : op[t] = "language"}
    /\ \A t \in Tasks : /\ pc[t] = "idle" <=> op[t] = "none"
                        /\ pc[t] \in {"insertMany", "insertRow"} => op[t] = "import"
                        /\ holder = t <=> pc[t] \in {"saveLanguage", "insertRow"}

\* What is stored outside a save is what the last finished save or reset left,
\* and a save in progress has changed nothing but the parts it has written:
\* a server row and desktop settings of different saves are only ever mixed by
\* a crash, a failed statement or another write in the middle of a save.
\* (DATABASES.md asks for one transaction, which would leave no such middle.)
MixedOnlyByInterruption ==
    ~torn =>
        /\ \A t, u \in Tasks : Saving(t) /\ Saving(u) => t = u
        /\ (\A t \in Tasks : ~Saving(t)) => Stored = last
        /\ \A t \in Tasks :
              /\ pc[t] = "saveStartup" => Stored = [last EXCEPT !.conn = cfg[t].conn]
              /\ pc[t] = "saveLanguage" => Stored = [cfg[t] EXCEPT !.language = last.language]

\* Saving the language reads the whole configuration and writes it back.  Unless
\* its read fails or another write comes across it, it changes nothing but the
\* language in what the last write left behind, and makes the default server of
\* an empty store.
LanguageChangesOnlyItself ==
    [][\A t \in Tasks :
          op[t] = "language" /\ t \notin crossed /\ ~torn /\ SaveLanguageKey(t) =>
            last' = [last EXCEPT !.language = cfg[t].language,
                                 !.conn = IF @ = NoRow THEN DefaultConn ELSE @]]_vars

\* Every accepted command is answered: no order of the critical sections makes
\* the tasks wait for each other.
EveryCommandEnds == \A t \in Tasks : pc[t] # "idle" ~> pc[t] = "idle"

\* DATABASES.md on insertMany: one transaction inserts the batch or nothing.  A
\* batch that was begun is ended one way or the other.
BatchEnds == \A t \in Tasks : pc[t] = "insertRow" ~> pc[t] = "idle"
=============================================================================
