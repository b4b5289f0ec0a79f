---------------------------- MODULE FrpcWatcher ----------------------------
(***************************************************************************)
(* watch_frpc_process: the loop that polls frpc once a second, notifies    *)
(* the user of an unexpected exit and emits the status the renderer shows. *)
(* It runs beside everything in FrpcProcess and shares its state: its only *)
(* effect there is the adoption that is_running may perform, so it is      *)
(* added to that specification and shown to implement it.                  *)
(***************************************************************************)
EXTENDS FrpcProcess

VARIABLES
    watch,      \* where the watcher is: sleep, down (frpc is not running), emit
    seen,       \* its local variable `running`
    canNotify,  \* last_notification is at least the cooldown ago
    shown       \* the last status emitted: running, and whether it has a start time

watchVars == <<watch, seen, canNotify, shown>>
allVars == <<vars, watchVars>>

\* Nothing was emitted yet: the renderer starts with `running: false`.
WatchInit ==
    /\ watch = "sleep"
    /\ seen = FALSE
    /\ canNotify = TRUE
    /\ shown = [running |-> FALSE, started |-> FALSE]

\* Faulty variant: the watcher forgets a process that is not running.
WatchPollForgets ==
    /\ watch = "sleep"
    /\ \E r \in BOOLEAN :
          /\ seen' = r
          /\ watch' = IF r THEN "emit" ELSE "down"
          /\ canNotify' = (r \/ canNotify)
          /\ IF r THEN IsRunning(TRUE)
                  ELSE /\ process \notin LivePids
                       /\ process' = NoPid /\ UNCHANGED <<started, intent>>
    /\ UNCHANGED <<proc, recoveryChecking, cooling, waiting, pc, pid, overlapped, shown>>

\* Faulty variant: the answer of is_running is taken the wrong way round.
WatchPollInverted ==
    /\ watch = "sleep"
    /\ \E r \in BOOLEAN :
          /\ IsRunning(r)
          /\ seen' = r
          /\ watch' = IF r THEN "down" ELSE "emit"
          /\ canNotify' = (r \/ canNotify)
    /\ UNCHANGED <<proc, recoveryChecking, cooling, waiting, pc, pid, overlapped, shown>>

\* Running rewinds last_notification, so that the next exit is notified at once.
WatchPoll ==
    /\ watch = "sleep"
    /\ \E r \in BOOLEAN :
          /\ IsRunning(r)
          /\ seen' = r
          /\ watch' = IF r THEN "emit" ELSE "down"
          /\ canNotify' = (r \/ canNotify)
    /\ UNCHANGED <<proc, recoveryChecking, cooling, waiting, pc, pid, overlapped, shown>>

\* Faulty variant: an exit is notified only if frpc is not marked as started.
NotifyInverted ==
    /\ watch = "down"
    /\ canNotify' = (canNotify /\ started)
    /\ watch' = "emit"
    /\ UNCHANGED <<vars, seen, shown>>

\* "frpc process exited unexpectedly": notified once per cooldown.
Notify ==
    /\ watch = "down"
    /\ canNotify' = (canNotify /\ ~started)
    /\ watch' = "emit"
    /\ UNCHANGED <<vars, seen, shown>>

\* Faulty variant: only a change to running is emitted.
EmitUpOnly ==
    /\ watch = "emit"
    /\ shown' = IF seen THEN [running |-> seen, started |-> started] ELSE shown
    /\ watch' = "sleep"
    /\ UNCHANGED <<vars, seen, canNotify>>

Emit ==
    /\ watch = "emit"
    /\ shown' = [running |-> seen, started |-> started]
    /\ watch' = "sleep"
    /\ UNCHANGED <<vars, seen, canNotify>>

\* DISCONNECT_NOTIFICATION_COOLDOWN passes.
NotifyCooldownEnds ==
    /\ ~canNotify
    /\ canNotify' = TRUE
    /\ UNCHANGED <<vars, watch, seen, shown>>

\* The app ends and the next run begins.
WatchRestart ==
    /\ Restart
    /\ watch' = "sleep"
    /\ seen' = FALSE
    /\ canNotify' = TRUE
    /\ shown' = [running |-> FALSE, started |-> FALSE]

Watch == WatchPoll \/ Notify \/ Emit

WatchedNext ==
    \/ Watch
    \/ NotifyCooldownEnds
    \/ WatchRestart
    \/ (Next /\ ~Restart) /\ UNCHANGED watchVars

WatchedSpec == Init /\ WatchInit /\ [][WatchedNext]_allVars

\* The watcher's thread is scheduled; nothing else needs to happen.
WatchedFairSpec == WatchedSpec /\ WF_allVars(Watch)

-----------------------------------------------------------------------------
WatcherTypeOK ==
    /\ watch \in {"sleep", "down", "emit"}
    /\ seen \in BOOLEAN
    /\ canNotify \in BOOLEAN
    /\ shown \in [running : BOOLEAN, started : BOOLEAN]
    /\ watch = "down" => ~seen

\* The status the renderer shows follows the process: once a recorded frpc
\* stays alive the status says so for good, and once no frpc is left it stops
\* saying so, whatever the other threads did before.
StatusFollowsProcess ==
    /\ <>[](process # NoPid /\ process \in LivePids) => <>[]shown.running
    /\ <>[](LivePids = {}) => <>[](~shown.running)

\* After a successful launch that no stop followed, an exit of frpc is
\* notified, unless frpc runs again first (or the user stops, or the app ends).
ExitNotified ==
    (intent = "run" /\ LivePids = {}) ~>
        (~canNotify \/ intent # "run" \/ LivePids # {})
=============================================================================
