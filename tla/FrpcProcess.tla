---------------------------- MODULE FrpcProcess ----------------------------
(***************************************************************************)
(* FrpcProcessService: how the desktop app starts, stops, adopts and       *)
(* recovers the frpc child process.                                        *)
(*                                                                         *)
(* The actors are the threads that run inside the app:                     *)
(*   - the Callers, one per start/stop command in flight (the launch and   *)
(*     terminate commands, reset-all, the tray's quit) and the             *)
(*     auto-connect thread of the startup code;                            *)
(*   - the Guardian, a loop that restarts a dead frpc;                     *)
(*   - one waiter thread per spawned child, which reaps it.                *)
(* They share the mutex `process`, an atomic start time and an atomic      *)
(* flag.  An action is one critical section of the mutex, one atomic       *)
(* load or store, or one call to the operating system.                     *)
(*                                                                         *)
(* The builds differ in two ways, which are the first two constants:       *)
(*   Windows  HasWaiter, ProbeSees       (tasklist filters by image name)  *)
(*   Linux    HasWaiter, ~ProbeSees      (pgrep -x compares the 32-letter  *)
(*                                        binary name with a comm cut to   *)
(*                                        15, so it never matches)         *)
(*   macOS    ~HasWaiter, ~ProbeSees     (a root process started by a      *)
(*                                        helper: there is no child to     *)
(*                                        wait for)                        *)
(* On Linux a process counts as dead once its waiter has reaped it: until  *)
(* then the process table still lists the zombie.                          *)
(***************************************************************************)
EXTENDS FiniteSets

CONSTANTS
    Pids,       \* the process identifiers frpc processes can get
    NoPid,      \* `None`
    Callers,    \* the start/stop calls that can be in flight together
    Guardian,   \* the guardian thread
    HasWaiter,  \* a waiter thread reaps each child (every build but macOS)
    ProbeSees,  \* the external probe finds a running frpc (Windows)
    Faults      \* which of the environment's failures may happen

ASSUME ConstantsAssumption ==
    /\ NoPid \notin Pids
    /\ Guardian \notin Callers
    /\ HasWaiter \in BOOLEAN
    /\ ProbeSees \in BOOLEAN
    /\ Faults \subseteq {"start", "kill", "net", "probe"}

Actors == Callers \cup {Guardian}

VARIABLES
    proc,             \* OS: what each pid is
    process,          \* the mutex-protected Option<FrpcChild>, as its pid
    started,          \* last_start_time # -1
    recoveryChecking, \* recovery_checking
    cooling,          \* last_recovery_time is less than the cooldown ago
    waiting,          \* the pids whose waiter thread has not finished
    pc,               \* where each actor is
    pid,              \* the local variable `pid` of each actor
    intent,           \* history: the user's last completed start that no stop in
                      \* flight outlives, or last stop
    overlapped        \* history: two start calls got past is_running together

vars == <<proc, process, started, recoveryChecking, cooling, waiting, pc, pid,
          intent, overlapped>>

shared == <<process, started, recoveryChecking, cooling>>

-----------------------------------------------------------------------------
(* Process states.  "alive" was spawned by this run of the app and nobody   *)
(* has signalled it; "left" survives from an earlier run; "dying" has been  *)
(* signalled.                                                               *)
ProcStates == {"free", "alive", "left", "dying"}

CallerSteps == {"idle", "check", "prepare", "spawn", "record", "stamp",
                "kill", "reset"}
GuardianSteps == {"sleep", "decide", "mark", "netcheck", "check", "prepare",
                  "spawn", "record", "stamp", "clear"}

\* is_process_alive: the process table lists the pid.
IsProcessAlive(p) == proc[p] \in {"alive", "left", "dying"}

LivePids == {p \in Pids : IsProcessAlive(p)}

\* An actor between its is_running check and the moment its child is recorded.
InFlight(a) == pc[a] \in {"prepare", "spawn", "record"}

\* Pids the operating system may hand out: it does not reuse one that some
\* thread of the app still refers to.
FreePids == {p \in Pids : /\ proc[p] = "free"
                          /\ p \notin waiting
                          /\ p # process
                          /\ \A a \in Actors : pid[a] # p}

\* Where start_frpc_process returns to.
After(a) == IF a = Guardian THEN "clear" ELSE "idle"

Goto(a, step) == pc' = [pc EXCEPT ![a] = step]

-----------------------------------------------------------------------------
Init ==
    /\ proc \in [Pids -> {"free", "left"}]
    /\ process = NoPid
    /\ started = FALSE
    /\ recoveryChecking = FALSE
    /\ cooling = FALSE
    /\ waiting = {}
    /\ pc = [a \in Actors |-> IF a = Guardian THEN "sleep" ELSE "idle"]
    /\ pid = [a \in Actors |-> NoPid]
    /\ intent = "none"
    /\ overlapped = FALSE

-----------------------------------------------------------------------------
(* is_running: one critical section of `process`.                           *)

\* probe_external_frpc found p.
Adopt(p) ==
    /\ process = NoPid
    /\ ProbeSees
    /\ IsProcessAlive(p)
    /\ process' = p
    /\ started' = TRUE
    /\ intent' = IF intent = "none" THEN "run" ELSE intent

\* The mutex is held and nothing changes: r is the answer.
Observe(r) ==
    /\ \/ process # NoPid /\ r = IsProcessAlive(process)
       \/ /\ process = NoPid
          /\ ProbeSees => LivePids = {} \/ "probe" \in Faults
          /\ r = FALSE
    /\ UNCHANGED <<process, started, intent>>

IsRunning(r) == \/ r = TRUE /\ \E p \in Pids : Adopt(p)
                \/ Observe(r)

\* launch_get_status and reload_frpc_process ask is_running too.
GetStatus ==
    /\ \E r \in BOOLEAN : IsRunning(r)
    /\ UNCHANGED <<proc, recoveryChecking, cooling, waiting, pc, pid, overlapped>>

-----------------------------------------------------------------------------
(* start_frpc_process, run by a caller or by the guardian.                  *)

Launch(c) ==
    /\ pc[c] = "idle"
    /\ Goto(c, "check")
    /\ UNCHANGED <<proc, shared, waiting, pid, intent, overlapped>>

Check(a) ==
    /\ pc[a] = "check"
    /\ \E r \in BOOLEAN :
          /\ IsRunning(r)
          /\ Goto(a, IF r THEN After(a) ELSE "prepare")
          /\ overlapped' = (overlapped \/ (~r /\ \E b \in Actors : InFlight(b)))
    /\ UNCHANGED <<proc, recoveryChecking, cooling, waiting, pid>>

\* Configuration, version record, binary and admin port are fine, and the
\* TOML file is written.
Prepare(a) ==
    /\ pc[a] = "prepare"
    /\ Goto(a, "spawn")
    /\ UNCHANGED <<proc, shared, waiting, pid, intent, overlapped>>

\* One of the early returns: NotConfig, NotFoundVersion, WebServerPortInUse (a
\* live frpc may hold the port) or a failed write.
PrepareFails(a) ==
    /\ pc[a] = "prepare"
    /\ "start" \in Faults \/ LivePids # {}
    /\ Goto(a, After(a))
    /\ UNCHANGED <<proc, shared, waiting, pid, intent, overlapped>>

Spawn(a) ==
    /\ pc[a] = "spawn"
    /\ \E p \in FreePids :
          /\ proc' = [proc EXCEPT ![p] = "alive"]
          /\ pid' = [pid EXCEPT ![a] = p]
          /\ waiting' = IF HasWaiter THEN waiting \cup {p} ELSE waiting
    /\ Goto(a, "record")
    /\ UNCHANGED <<shared, intent, overlapped>>

SpawnFails(a) ==
    /\ pc[a] = "spawn"
    /\ "start" \in Faults \/ FreePids = {}
    /\ Goto(a, After(a))
    /\ UNCHANGED <<proc, shared, waiting, pid, intent, overlapped>>

\* macOS: the helper ran but printed no pid (sudo -n refused).  Nothing is
\* recorded, yet the start time is set and the call returns Ok.
SpawnWithoutPid(a) ==
    /\ pc[a] = "spawn"
    /\ ~HasWaiter /\ "start" \in Faults
    /\ Goto(a, "stamp")
    /\ UNCHANGED <<proc, shared, waiting, pid, intent, overlapped>>

Record(a) ==
    /\ pc[a] = "record"
    /\ process' = pid[a]
    /\ pid' = [pid EXCEPT ![a] = NoPid]
    /\ Goto(a, "stamp")
    /\ UNCHANGED <<proc, started, recoveryChecking, cooling, waiting, intent,
                   overlapped>>

\* Faulty variant: the start time is forgotten.
StampLost(a) ==
    /\ pc[a] = "stamp"
    /\ intent' = IF a = Guardian \/ \E c \in Callers : pc[c] \in {"kill", "reset"}
                 THEN intent ELSE "run"
    /\ Goto(a, After(a))
    /\ UNCHANGED <<proc, shared, waiting, pid, overlapped>>

\* The start time is stored after the mutex is released.
Stamp(a) ==
    /\ pc[a] = "stamp"
    /\ started' = TRUE
    /\ intent' = IF a = Guardian \/ \E c \in Callers : pc[c] \in {"kill", "reset"}
                 THEN intent ELSE "run"
    /\ Goto(a, After(a))
    /\ UNCHANGED <<proc, process, recoveryChecking, cooling, waiting, pid,
                   overlapped>>

-----------------------------------------------------------------------------
(* The waiter thread of p: wait() returned; one critical section.           *)

\* Faulty variant: the waiter does not compare pids.
WaiterAnyPid(p) ==
    /\ p \in waiting
    /\ ~IsProcessAlive(p)
    /\ process' = NoPid
    /\ started' = FALSE
    /\ waiting' = waiting \ {p}
    /\ UNCHANGED <<proc, recoveryChecking, cooling, pc, pid, intent, overlapped>>

Waiter(p) ==
    /\ p \in waiting
    /\ ~IsProcessAlive(p)
    /\ process' = IF process = p THEN NoPid ELSE process
    /\ started' = (started /\ process' # NoPid)
    /\ waiting' = waiting \ {p}
    /\ UNCHANGED <<proc, recoveryChecking, cooling, pc, pid, intent, overlapped>>

-----------------------------------------------------------------------------
(* stop_frpc_process, run by a caller.                                      *)

Stop(c) ==
    /\ pc[c] = "idle"
    /\ intent' = "stop"
    /\ IF process = NoPid
       THEN UNCHANGED <<pc, pid>>
       ELSE /\ pid' = [pid EXCEPT ![c] = process]
            /\ Goto(c, "kill")
    /\ UNCHANGED <<proc, shared, waiting, overlapped>>

\* Faulty variant: the process is never signalled.
KillNothing(c) ==
    /\ pc[c] = "kill"
    /\ Goto(c, "reset")
    /\ UNCHANGED <<proc, shared, waiting, pid, intent, overlapped>>

\* terminate_process_tree: the signal is sent, or the process is dead already.
Kill(c) ==
    /\ pc[c] = "kill"
    /\ proc' = [proc EXCEPT ![pid[c]] = IF IsProcessAlive(pid[c])
                                        THEN "dying" ELSE @]
    /\ Goto(c, "reset")
    /\ UNCHANGED <<shared, waiting, pid, intent, overlapped>>

\* Faulty variant: the call returns with its process in hand.
KillFailsKeepsPid(c) ==
    /\ pc[c] = "kill"
    /\ "kill" \in Faults
    /\ IsProcessAlive(pid[c])
    /\ Goto(c, "idle")
    /\ UNCHANGED <<proc, shared, waiting, pid, intent, overlapped>>

\* The kill command failed and the process is still there.
KillFails(c) ==
    /\ pc[c] = "kill"
    /\ "kill" \in Faults
    /\ IsProcessAlive(pid[c])
    /\ Goto(c, "idle")
    /\ pid' = [pid EXCEPT ![c] = NoPid]
    /\ UNCHANGED <<proc, shared, waiting, intent, overlapped>>

\* Faulty variant: whatever is recorded by now is forgotten.
ResetAnyPid(c) ==
    /\ pc[c] = "reset"
    /\ process' = NoPid
    /\ started' = FALSE
    /\ recoveryChecking' = FALSE
    /\ pid' = [pid EXCEPT ![c] = NoPid]
    /\ Goto(c, "idle")
    /\ UNCHANGED <<proc, cooling, waiting, intent, overlapped>>

\* reset_process_state: one critical section.
Reset(c) ==
    /\ pc[c] = "reset"
    /\ process' = IF process = pid[c] THEN NoPid ELSE process
    /\ started' = (started /\ process' # NoPid)
    /\ recoveryChecking' = (recoveryChecking /\ process' # NoPid)
    /\ pid' = [pid EXCEPT ![c] = NoPid]
    /\ Goto(c, "idle")
    /\ UNCHANGED <<proc, cooling, waiting, intent, overlapped>>

-----------------------------------------------------------------------------
(* start_frpc_guardian.                                                     *)

\* A turn of the loop: is frpc running?
Poll ==
    /\ pc[Guardian] = "sleep"
    /\ ~recoveryChecking
    /\ \E r \in BOOLEAN : IsRunning(r) /\ Goto(Guardian, IF r THEN "sleep" ELSE "decide")
    /\ UNCHANGED <<proc, recoveryChecking, cooling, waiting, pid, overlapped>>

\* Faulty variant: a process that was never started is recovered too.
DecideAlways ==
    /\ pc[Guardian] = "decide"
    /\ Goto(Guardian, IF ~cooling THEN "mark" ELSE "sleep")
    /\ UNCHANGED <<proc, shared, waiting, pid, intent, overlapped>>

\* Was it started, and is the cooldown over?
Decide ==
    /\ pc[Guardian] = "decide"
    /\ Goto(Guardian, IF started /\ ~cooling THEN "mark" ELSE "sleep")
    /\ UNCHANGED <<proc, shared, waiting, pid, intent, overlapped>>

Mark ==
    /\ pc[Guardian] = "mark"
    /\ recoveryChecking' = TRUE
    /\ cooling' = TRUE
    /\ Goto(Guardian, "netcheck")
    /\ UNCHANGED <<proc, process, started, waiting, pid, intent, overlapped>>

\* check_internet_connect answers; only "reachable" goes on to the start.
NetCheck ==
    /\ pc[Guardian] = "netcheck"
    /\ \/ Goto(Guardian, "check")
       \/ "net" \in Faults /\ Goto(Guardian, "clear")
    /\ UNCHANGED <<proc, shared, waiting, pid, intent, overlapped>>

\* Faulty variant: the flag stays set after a recovery.
ClearForgotten ==
    /\ pc[Guardian] = "clear"
    /\ Goto(Guardian, "sleep")
    /\ UNCHANGED <<proc, shared, waiting, pid, intent, overlapped>>

Clear ==
    /\ pc[Guardian] = "clear"
    /\ recoveryChecking' = FALSE
    /\ Goto(Guardian, "sleep")
    /\ UNCHANGED <<proc, process, started, cooling, waiting, pid, intent, overlapped>>

\* FRPC_RECOVERY_COOLDOWN passes.
CooldownEnds ==
    /\ cooling
    /\ cooling' = FALSE
    /\ UNCHANGED <<proc, process, started, recoveryChecking, waiting, pc, pid,
                   intent, overlapped>>

-----------------------------------------------------------------------------
(* The operating system, and the app's own life.                            *)

\* A signalled process ends.
Die(p) ==
    /\ proc[p] = "dying"
    /\ proc' = [proc EXCEPT ![p] = "free"]
    /\ UNCHANGED <<shared, waiting, pc, pid, intent, overlapped>>

\* frpc ends by itself: it crashed, or could not log in to its server.
Crash(p) ==
    /\ proc[p] \in {"alive", "left"}
    /\ proc' = [proc EXCEPT ![p] = "free"]
    /\ UNCHANGED <<shared, waiting, pc, pid, intent, overlapped>>

\* The app quits, is relaunched or crashes, at any point; frpc processes
\* survive it and the next run begins.
Restart ==
    /\ proc' = [p \in Pids |-> IF proc[p] = "alive" THEN "left" ELSE proc[p]]
    /\ process' = NoPid
    /\ started' = FALSE
    /\ recoveryChecking' = FALSE
    /\ cooling' = FALSE
    /\ waiting' = {}
    /\ pc' = [a \in Actors |-> IF a = Guardian THEN "sleep" ELSE "idle"]
    /\ pid' = [a \in Actors |-> NoPid]
    /\ intent' = "none"
    /\ overlapped' = FALSE

-----------------------------------------------------------------------------
Start(a) == \/ Check(a) \/ Prepare(a) \/ PrepareFails(a) \/ Spawn(a)
            \/ SpawnFails(a) \/ SpawnWithoutPid(a) \/ Record(a) \/ Stamp(a)

Terminate(c) == Kill(c) \/ KillFails(c) \/ Reset(c)

Guard == Poll \/ Decide \/ Mark \/ NetCheck \/ Clear

Next ==
    \/ \E a \in Actors : Start(a)
    \/ \E c \in Callers : Launch(c) \/ Stop(c) \/ Terminate(c)
    \/ Guard
    \/ CooldownEnds
    \/ GetStatus
    \/ \E p \in Pids : Waiter(p) \/ Die(p) \/ Crash(p)
    \/ Restart

Spec == Init /\ [][Next]_vars

\* The network check answers "reachable".
NetReachable == NetCheck /\ pc'[Guardian] = "check"

\* The threads are scheduled, signalled processes end, time passes, the network
\* is not down forever and what the guardian tries again and again does not fail
\* every time.  The user owes nothing, and nothing has to crash.
Fairness ==
    /\ \A a \in Actors : WF_vars(Start(a))
    /\ \A c \in Callers : WF_vars(Terminate(c))
    /\ WF_vars(Guard)
    /\ SF_vars(NetReachable)
    /\ SF_vars(Prepare(Guardian))
    /\ SF_vars(Spawn(Guardian))
    /\ WF_vars(CooldownEnds)
    /\ \A p \in Pids : WF_vars(Waiter(p)) /\ WF_vars(Die(p))

FairSpec == Spec /\ Fairness

-----------------------------------------------------------------------------
(* Properties.                                                              *)

TypeOK ==
    /\ proc \in [Pids -> ProcStates]
    /\ process \in Pids \cup {NoPid}
    /\ started \in BOOLEAN
    /\ recoveryChecking \in BOOLEAN
    /\ cooling \in BOOLEAN
    /\ waiting \in SUBSET Pids
    /\ pc \in [Actors -> CallerSteps \cup GuardianSteps]
    /\ \A c \in Callers : pc[c] \in CallerSteps
    /\ pc[Guardian] \in GuardianSteps
    /\ pid \in [Actors -> Pids \cup {NoPid}]
    /\ \A a \in Actors : pid[a] # NoPid <=> pc[a] \in {"record", "kill", "reset"}
    /\ intent \in {"none", "run", "stop"}
    /\ overlapped \in BOOLEAN

\* A recorded frpc counts as started, so that the guardian and the watcher
\* look after it, unless the call that recorded it is about to store the time.
\* start_frpc_process stores the time outside the mutex, while waiters and
\* stops clear it and is_running sets it.
RecordedIsStarted ==
    process # NoPid => started \/ \E a \in Actors : pc[a] = "stamp"

\* As long as no two start calls overlapped, at most one unsignalled frpc of
\* this run is alive, and it is recorded or in the hand of the call about to
\* record it: no stop, exit, adoption or late waiter loses track of it.  Nothing
\* keeps two start calls apart; the later record then hides the earlier child.
NoOrphan ==
    ~overlapped =>
        \A p \in Pids : proc[p] = "alive" =>
            /\ \A q \in Pids : proc[q] = "alive" => q = p
            /\ process = p \/ \E a \in Actors : pc[a] = "record" /\ pid[a] = p

\* The strengthening that makes NoOrphan inductive: without an overlap a start
\* call in flight is the only one and no frpc but its own child is alive, and
\* the process a stop is about to forget has been signalled or has ended.
InHand ==
    /\ ~overlapped =>
          \A a \in Actors : InFlight(a) =>
              /\ \A b \in Actors : InFlight(b) => b = a
              /\ \A p \in Pids : proc[p] = "alive" => pc[a] = "record" /\ pid[a] = p
    /\ \A c \in Callers : pc[c] = "reset" => proc[pid[c]] # "alive"

\* The record of a live, unsignalled frpc is only ever replaced by a start call
\* that records its own child: the waiter of an older child and a stop that
\* sampled an older pid leave it alone, overlapping starts or not.
ForgetsOnlyTheDead ==
    [][\A p \in Pids :
          /\ process = p /\ process' # p
          /\ proc[p] = "alive" /\ proc'[p] = "alive"
          => \E a \in Actors : pc[a] = "record" /\ process' = pid[a]]_vars

\* While recovery_checking is set the guardian is on its way through a
\* recovery that will clear it: the flag can't be left behind to switch the
\* guardian off.
RecoveryFlagHeld ==
    recoveryChecking => pc[Guardian] \in
        {"netcheck", "check", "prepare", "spawn", "record", "stamp", "clear"}

\* No frpc, none being started, none recorded, and not marked as started.
Quiet ==
    /\ LivePids = {}
    /\ process = NoPid
    /\ ~started
    /\ \A c \in Callers : pc[c] \in {"idle", "kill", "reset"}
    /\ pc[Guardian] \in {"sleep", "decide"}

\* Once everything is down it stays down until the user launches: neither the
\* guardian nor a status poll starts anything on its own.  A recovery under way
\* is not covered: a stop during its network check is overrun by the start that
\* follows, which looks at nothing the stop has set.
StoppedStaysStopped ==
    [][Quiet => Quiet' \/ \E c \in Callers : pc'[c] = "check"]_vars

\* A recovery always comes to an end: the guardian polls again and again.
GuardianKeepsPolling ==
    []<>(pc[Guardian] = "sleep" /\ ~recoveryChecking)

\* The comment on is_running: it "also probes for leftover processes from a
\* previous app run".  The guardian never takes frpc for dead while one left by
\* an earlier run is alive.
LeftoverDetected ==
    [][pc[Guardian] = "sleep" /\ pc'[Guardian] = "decide"
          => \A p \in Pids : proc[p] # "left"]_vars

\* What the guardian is for: after a successful launch that no stop followed,
\* if no frpc is left alive one is started again (or the user stops, or the
\* app ends).
GuardianRestarts ==
    (intent = "run" /\ LivePids = {}) ~> (intent # "run" \/ LivePids # {})
=============================================================================
