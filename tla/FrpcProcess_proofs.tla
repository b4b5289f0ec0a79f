------------------------- MODULE FrpcProcess_proofs -------------------------
(***************************************************************************)
(* Theorems about FrpcProcess, for every set of pids and callers, on every *)
(* build and under every failure of the environment; and that FrpcWatcher, *)
(* which adds the watcher to it, implements it.                            *)
(***************************************************************************)
EXTENDS FrpcWatcher, TLAPS

USE ConstantsAssumption DEF Actors, ProcStates, CallerSteps, GuardianSteps

\* The types hold initially and every step keeps them.
LEMMA TypeInit == Init => TypeOK
  BY DEF Init, TypeOK

LEMMA TypeNext == TypeOK /\ [Next]_vars => TypeOK'
<1> SUFFICES ASSUME TypeOK, [Next]_vars PROVE TypeOK'
  OBVIOUS
<1> USE DEF TypeOK, Goto, shared, vars
<1>1. ASSUME NEW a \in Actors, Start(a) PROVE TypeOK'
  <2> USE <1>1 DEF After
  <2>1. CASE Check(a)
    <3>1. overlapped' \in BOOLEAN
      BY <2>1, Zenon DEF Check
    <3>2. PICK r \in BOOLEAN : IsRunning(r) /\ Goto(a, IF r THEN After(a) ELSE "prepare")
      BY <2>1 DEF Check
    <3>3. /\ process' \in Pids \cup {NoPid}
          /\ started' \in BOOLEAN
          /\ intent' \in {"none", "run", "stop"}
      BY <3>2 DEF IsRunning, Observe, Adopt
    <3>4. UNCHANGED <<proc, recoveryChecking, cooling, waiting, pid>> /\ pc[a] = "check"
      BY <2>1 DEF Check
    <3> QED BY <3>1, <3>2, <3>3, <3>4
  <2>2. CASE Prepare(a)
    BY <2>2 DEF Prepare
  <2>3. CASE PrepareFails(a)
    BY <2>3 DEF PrepareFails
  <2>4. CASE Spawn(a)
    BY <2>4 DEF Spawn, FreePids
  <2>5. CASE SpawnFails(a)
    BY <2>5 DEF SpawnFails
  <2>6. CASE SpawnWithoutPid(a)
    BY <2>6 DEF SpawnWithoutPid
  <2>7. CASE Record(a)
    BY <2>7 DEF Record
  <2>8. CASE Stamp(a)
    BY <2>8 DEF Stamp
  <2> QED BY <2>1, <2>2, <2>3, <2>4, <2>5, <2>6, <2>7, <2>8 DEF Start
<1>2. ASSUME NEW c \in Callers, Launch(c) \/ Stop(c) PROVE TypeOK'
  BY <1>2 DEF Launch, Stop
<1>3. ASSUME NEW c \in Callers, Terminate(c) PROVE TypeOK'
  <2>1. CASE Kill(c)
    BY <2>1 DEF Kill
  <2>2. CASE KillFails(c)
    BY <2>2 DEF KillFails
  <2>3. CASE Reset(c)
    BY <2>3 DEF Reset
  <2> QED BY <1>3, <2>1, <2>2, <2>3 DEF Terminate
<1>4. CASE Guard
  <2>1. CASE Poll
    <3>1. PICK r \in BOOLEAN :
            IsRunning(r) /\ Goto(Guardian, IF r THEN "sleep" ELSE "decide")
      BY <2>1 DEF Poll
    <3>2. /\ process' \in Pids \cup {NoPid}
          /\ started' \in BOOLEAN
          /\ intent' \in {"none", "run", "stop"}
      BY <3>1 DEF IsRunning, Observe, Adopt
    <3>3. /\ UNCHANGED <<proc, recoveryChecking, cooling, waiting, pid, overlapped>>
          /\ pc[Guardian] = "sleep"
      BY <2>1 DEF Poll
    <3> QED BY <3>1, <3>2, <3>3
  <2>2. CASE Decide
    BY <2>2 DEF Decide
  <2>3. CASE Mark
    BY <2>3 DEF Mark
  <2>4. CASE NetCheck
    BY <2>4 DEF NetCheck
  <2>5. CASE Clear
    BY <2>5 DEF Clear
  <2> QED BY <1>4, <2>1, <2>2, <2>3, <2>4, <2>5 DEF Guard
<1>5. CASE CooldownEnds
  BY <1>5 DEF CooldownEnds
<1>6. CASE GetStatus
  BY <1>6 DEF GetStatus, IsRunning, Observe, Adopt
<1>7. ASSUME NEW p \in Pids, Waiter(p) \/ Die(p) \/ Crash(p) PROVE TypeOK'
  BY <1>7 DEF Waiter, Die, Crash
<1>8. CASE Restart
  BY <1>8 DEF Restart
<1>9. CASE UNCHANGED vars
  BY <1>9
<1> QED BY <1>1, <1>2, <1>3, <1>4, <1>5, <1>6, <1>7, <1>8, <1>9 DEF Next

\* Type correctness: every reachable state is well formed, and an actor holds
\* a pid exactly while it is about to record, kill or forget it.
THEOREM TypeCorrect == Spec => []TypeOK
  BY TypeInit, TypeNext, PTL DEF Spec

-----------------------------------------------------------------------------
(* recovery_checking.                                                       *)

LEMMA RecoveryFlagNext ==
  TypeOK /\ RecoveryFlagHeld /\ [Next]_vars => RecoveryFlagHeld'
<1> SUFFICES ASSUME TypeOK, RecoveryFlagHeld, [Next]_vars PROVE RecoveryFlagHeld'
  OBVIOUS
<1> USE DEF TypeOK, RecoveryFlagHeld, Goto, shared
<1>1. ASSUME NEW a \in Actors, Start(a) PROVE RecoveryFlagHeld'
  <2>1. /\ UNCHANGED recoveryChecking
        /\ pc[a] \in {"check", "prepare", "spawn", "record", "stamp"}
        /\ \E s \in {"prepare", "spawn", "record", "stamp", After(a)} : Goto(a, s)
    BY <1>1 DEF Start, Check, Prepare, PrepareFails, Spawn, SpawnFails,
                SpawnWithoutPid, Record, Stamp
  <2> QED BY <2>1 DEF After
<1>2. ASSUME NEW c \in Callers, Launch(c) \/ Stop(c) \/ Terminate(c)
      PROVE  RecoveryFlagHeld'
  <2>1. pc'[Guardian] = pc[Guardian] /\ (recoveryChecking' => recoveryChecking)
    BY <1>2 DEF Launch, Stop, Terminate, Kill, KillFails, Reset
  <2> QED BY <2>1
<1>3. CASE Guard
  BY <1>3 DEF Guard, Poll, Decide, Mark, NetCheck, Clear
<1>4. CASE GetStatus \/ CooldownEnds \/ \E p \in Pids : Waiter(p) \/ Die(p) \/ Crash(p)
  BY <1>4 DEF GetStatus, CooldownEnds, Waiter, Die, Crash
<1>5. CASE Restart
  BY <1>5 DEF Restart
<1>6. CASE UNCHANGED vars
  BY <1>6 DEF vars
<1> QED BY <1>1, <1>2, <1>3, <1>4, <1>5, <1>6 DEF Next

\* recovery_checking is only ever set while the guardian is on its way through
\* a recovery, so no interleaving with stops leaves the guardian switched off.
THEOREM RecoveryFlagSafe == Spec => []RecoveryFlagHeld
<1>1. Init => RecoveryFlagHeld
  BY DEF Init, RecoveryFlagHeld
<1> QED BY <1>1, TypeInit, TypeNext, RecoveryFlagNext, PTL DEF Spec

-----------------------------------------------------------------------------
(* The start time and the record.                                           *)

\* is_running only records a process together with a start time.
LEMMA IsRunningKeepsStarted ==
  ASSUME NEW r \in BOOLEAN, IsRunning(r)
  PROVE  \/ started' = TRUE
         \/ process' = process /\ started' = started
  BY DEF IsRunning, Observe, Adopt

LEMMA RecordedIsStartedNext ==
  TypeOK /\ RecordedIsStarted /\ [Next]_vars => RecordedIsStarted'
<1> SUFFICES ASSUME TypeOK, RecordedIsStarted, [Next]_vars PROVE RecordedIsStarted'
  OBVIOUS
<1> USE DEF TypeOK, RecordedIsStarted, Goto, shared
<1>1. ASSUME NEW a \in Actors, Start(a) PROVE RecordedIsStarted'
  <2> USE DEF After
  <2>1. CASE Check(a)
    BY <2>1, IsRunningKeepsStarted DEF Check
  <2>2. CASE Prepare(a) \/ PrepareFails(a) \/ Spawn(a) \/ SpawnFails(a) \/ SpawnWithoutPid(a)
    BY <2>2 DEF Prepare, PrepareFails, Spawn, SpawnFails, SpawnWithoutPid
  <2>3. CASE Record(a)
    BY <2>3 DEF Record
  <2>4. CASE Stamp(a)
    BY <2>4 DEF Stamp
  <2> QED BY <1>1, <2>1, <2>2, <2>3, <2>4 DEF Start
<1>2. ASSUME NEW c \in Callers, Launch(c) \/ Stop(c) \/ Terminate(c)
      PROVE  RecordedIsStarted'
  BY <1>2 DEF Launch, Stop, Terminate, Kill, KillFails, Reset
<1>3. CASE Guard
  <2>1. CASE Poll
    BY <2>1, IsRunningKeepsStarted DEF Poll
  <2>2. CASE Decide \/ Mark \/ NetCheck \/ Clear
    BY <2>2 DEF Decide, Mark, NetCheck, Clear
  <2> QED BY <1>3, <2>1, <2>2 DEF Guard
<1>4. CASE GetStatus
  BY <1>4, IsRunningKeepsStarted DEF GetStatus
<1>5. CASE CooldownEnds \/ \E p \in Pids : Waiter(p) \/ Die(p) \/ Crash(p)
  BY <1>5 DEF CooldownEnds, Waiter, Die, Crash
<1>6. CASE Restart
  BY <1>6 DEF Restart
<1>7. CASE UNCHANGED vars
  BY <1>7 DEF vars
<1> QED BY <1>1, <1>2, <1>3, <1>4, <1>5, <1>6, <1>7 DEF Next

\* However starts, stops, waiters and adoptions interleave, a recorded frpc has
\* its start time or its start call is about to store it.
THEOREM RecordedStaysStarted == Spec => []RecordedIsStarted
<1>1. Init => RecordedIsStarted
  BY DEF Init, RecordedIsStarted
<1> QED BY <1>1, TypeInit, TypeNext, RecordedIsStartedNext, PTL DEF Spec

-----------------------------------------------------------------------------
(* No orphans.                                                              *)

TrackInv == NoOrphan /\ InHand

\* What a step that starts nothing must do to keep the invariant: it only
\* takes processes away, moves no actor into a start, and forgets only what is
\* not alive.
LEMMA TrackKept ==
  ASSUME TypeOK, TypeOK', TrackInv, overlapped' = overlapped,
         \A p \in Pids : proc'[p] = "alive" => proc[p] = "alive",
         \A p \in Pids : process = p /\ process' # p => proc'[p] # "alive",
         \A a \in Actors : InFlight(a)' => InFlight(a),
         \A a \in Actors : InFlight(a)' => pc'[a] = pc[a] \/ pc'[a] = "spawn",
         \A a \in Actors : pc[a] = "record" => pc'[a] = "record" /\ pid'[a] = pid[a],
         \A c \in Callers : pc'[c] = "reset" => proc'[pid'[c]] # "alive"
  PROVE  TrackInv'
<1> USE DEF TrackInv, NoOrphan, InHand, InFlight
<1>1. InHand'
  BY DEF TypeOK
<1>2. NoOrphan'
  BY DEF TypeOK
<1> QED BY <1>1, <1>2

\* is_running changes the record only when there is none.
LEMMA IsRunningForgetsNothing ==
  ASSUME NEW r \in BOOLEAN, IsRunning(r)
  PROVE  process # NoPid => process' = process
  BY DEF IsRunning, Observe, Adopt

\* Once is_running has answered no and no start was in flight, nothing
\* unsignalled of this run is alive.
LEMMA CheckedNothingAlive ==
  ASSUME TypeOK, TrackInv, ~overlapped, IsRunning(FALSE),
         \A b \in Actors : ~InFlight(b)
  PROVE  \A p \in Pids : proc[p] # "alive"
<1>1. process = NoPid \/ ~IsProcessAlive(process)
  BY DEF IsRunning, Observe
<1>2. ASSUME NEW p \in Pids, proc[p] = "alive" PROVE FALSE
  <2>1. process = p
    BY <1>2 DEF TrackInv, NoOrphan, InFlight
  <2> QED BY <1>1, <1>2, <2>1 DEF IsProcessAlive
<1> QED BY <1>2

LEMMA TrackNext == TypeOK /\ TypeOK' /\ TrackInv /\ [Next]_vars => TrackInv'
<1> SUFFICES ASSUME TypeOK, TypeOK', TrackInv, [Next]_vars PROVE TrackInv'
  OBVIOUS
<1> USE DEF Goto, shared, vars
<1>1. ASSUME NEW a \in Actors, Start(a) PROVE TrackInv'
  <2> USE DEF After
  <2>1. CASE Check(a)
    <3>1. PICK r \in BOOLEAN : /\ IsRunning(r)
                               /\ Goto(a, IF r THEN After(a) ELSE "prepare")
                               /\ overlapped' = (overlapped \/ (~r /\ \E b \in Actors : InFlight(b)))
      BY <2>1 DEF Check
    <3>2. UNCHANGED <<proc, pid>> /\ pc[a] = "check"
      BY <2>1 DEF Check
    <3>3. process # NoPid => process' = process
      BY <3>1, IsRunningForgetsNothing
    <3>4. \A b \in Actors : b # a => pc'[b] = pc[b]
      BY <3>1 DEF TypeOK
    <3>5. CASE r
      BY <3>1, <3>2, <3>3, <3>5, TrackKept DEF TypeOK, TrackInv, InHand, InFlight
    <3>6. CASE ~r /\ overlapped'
      <4>1. NoOrphan'
        BY <3>6 DEF NoOrphan
      <4>2. \A c \in Callers : pc'[c] = "reset" => proc'[pid'[c]] # "alive"
        BY <3>1, <3>2, <3>6 DEF TypeOK, TrackInv, InHand
      <4> QED BY <3>6, <4>1, <4>2 DEF TrackInv, InHand
    <3>7. CASE ~r /\ ~overlapped'
      <4>1. ~overlapped /\ \A b \in Actors : ~InFlight(b)
        BY <3>1, <3>7
      <4>2. \A p \in Pids : proc'[p] # "alive"
        BY <3>1, <3>2, <3>7, <4>1, CheckedNothingAlive
      <4>3. NoOrphan'
        BY <4>2 DEF NoOrphan
      <4>4. \A b \in Actors : InFlight(b)' => b = a
        BY <3>4, <4>1 DEF InFlight
      <4>5. \A c \in Callers : pc'[c] = "reset" => proc'[pid'[c]] # "alive"
        BY <3>1, <3>2, <3>7 DEF TypeOK, TrackInv, InHand
      <4> QED BY <4>2, <4>3, <4>4, <4>5 DEF TrackInv, InHand
    <3> QED BY <3>5, <3>6, <3>7
  <2>2. CASE Prepare(a) \/ PrepareFails(a) \/ SpawnFails(a) \/ SpawnWithoutPid(a)
    BY <2>2, TrackKept DEF Prepare, PrepareFails, SpawnFails, SpawnWithoutPid,
                           TypeOK, TrackInv, InHand, InFlight
  <2>3. CASE Spawn(a)
    <3>1. PICK p \in FreePids : /\ proc' = [proc EXCEPT ![p] = "alive"]
                                /\ pid' = [pid EXCEPT ![a] = p]
      BY <2>3 DEF Spawn
    <3>2. pc[a] = "spawn" /\ pc' = [pc EXCEPT ![a] = "record"]
          /\ UNCHANGED <<process, overlapped>>
      BY <2>3 DEF Spawn
    <3>3. p \in Pids /\ p # NoPid /\ \A b \in Actors : pid[b] # p
      BY <3>1 DEF FreePids
    <3>4. \A c \in Callers : pc'[c] = "reset" => proc'[pid'[c]] # "alive"
      BY <3>1, <3>2, <3>3 DEF TypeOK, TrackInv, InHand
    <3>5. CASE overlapped
      BY <3>2, <3>4, <3>5 DEF TrackInv, NoOrphan, InHand
    <3>6. CASE ~overlapped
      <4>1. /\ \A b \in Actors : InFlight(b) => b = a
            /\ \A q \in Pids : proc[q] # "alive"
        BY <3>2, <3>6 DEF TrackInv, InHand, InFlight
      <4>2. /\ \A q \in Pids : proc'[q] = "alive" => q = p
            /\ pc'[a] = "record" /\ pid'[a] = p
            /\ \A b \in Actors : InFlight(b)' => b = a
        BY <3>1, <3>2, <4>1 DEF TypeOK, InFlight
      <4> QED BY <3>3, <3>4, <4>2 DEF TrackInv, NoOrphan, InHand
    <3> QED BY <3>5, <3>6
  <2>4. CASE Record(a)
    <3>1. /\ pc[a] = "record" /\ pc' = [pc EXCEPT ![a] = "stamp"]
          /\ process' = pid[a] /\ pid' = [pid EXCEPT ![a] = NoPid]
          /\ UNCHANGED <<proc, overlapped>>
      BY <2>4 DEF Record
    <3>2. \A c \in Callers : pc'[c] = "reset" => proc'[pid'[c]] # "alive"
      BY <3>1 DEF TypeOK, TrackInv, InHand
    <3>3. CASE overlapped
      BY <3>1, <3>2, <3>3 DEF TrackInv, NoOrphan, InHand
    <3>4. CASE ~overlapped
      <4>1. \A p \in Pids : proc[p] = "alive" => p = pid[a]
        BY <3>1, <3>4 DEF TrackInv, InHand, InFlight
      <4>2. \A b \in Actors : ~InFlight(b)'
        BY <3>1, <3>4 DEF TypeOK, TrackInv, InHand, InFlight
      <4> QED BY <3>1, <3>2, <4>1, <4>2 DEF TrackInv, NoOrphan, InHand
    <3> QED BY <3>3, <3>4
  <2>5. CASE Stamp(a)
    BY <2>5, TrackKept DEF Stamp, TypeOK, TrackInv, InHand, InFlight
  <2> QED BY <1>1, <2>1, <2>2, <2>3, <2>4, <2>5 DEF Start
<1>2. ASSUME NEW c \in Callers, Launch(c) \/ Stop(c) PROVE TrackInv'
  BY <1>2, TrackKept DEF Launch, Stop, TypeOK, TrackInv, InHand, InFlight
<1>3. ASSUME NEW c \in Callers, Terminate(c) PROVE TrackInv'
  <2>1. CASE Kill(c)
    BY <2>1, TrackKept DEF Kill, IsProcessAlive, TypeOK, TrackInv, InHand, InFlight
  <2>2. CASE KillFails(c)
    BY <2>2, TrackKept DEF KillFails, TypeOK, TrackInv, InHand, InFlight
  <2>3. CASE Reset(c)
    BY <2>3, TrackKept DEF Reset, TypeOK, TrackInv, InHand, InFlight
  <2> QED BY <1>3, <2>1, <2>2, <2>3 DEF Terminate
<1>4. CASE Guard
  <2>1. CASE Poll
    <3>1. process # NoPid => process' = process
      BY <2>1, IsRunningForgetsNothing DEF Poll
    <3> QED BY <2>1, <3>1, TrackKept DEF Poll, TypeOK, TrackInv, InHand, InFlight
  <2>2. CASE Decide \/ Mark \/ NetCheck \/ Clear
    BY <2>2, TrackKept DEF Decide, Mark, NetCheck, Clear, TypeOK, TrackInv, InHand, InFlight
  <2> QED BY <1>4, <2>1, <2>2 DEF Guard
<1>5. CASE GetStatus
  <2>1. process # NoPid => process' = process
    BY <1>5, IsRunningForgetsNothing DEF GetStatus
  <2> QED BY <1>5, <2>1, TrackKept DEF GetStatus, TypeOK, TrackInv, InHand, InFlight
<1>6. CASE CooldownEnds
  BY <1>6, TrackKept DEF CooldownEnds, TypeOK, TrackInv, InHand, InFlight
<1>7. ASSUME NEW p \in Pids, Waiter(p) \/ Die(p) \/ Crash(p) PROVE TrackInv'
  BY <1>7, TrackKept DEF Waiter, Die, Crash, IsProcessAlive, TypeOK, TrackInv, InHand, InFlight
<1>8. CASE Restart
  BY <1>8 DEF Restart, TypeOK, TrackInv, NoOrphan, InHand, InFlight
<1>9. CASE UNCHANGED vars
  BY <1>9 DEF TrackInv, NoOrphan, InHand, InFlight
<1> QED BY <1>1, <1>2, <1>3, <1>4, <1>5, <1>6, <1>7, <1>8, <1>9 DEF Next

\* As long as no two start calls overlapped, the app never loses track of a
\* frpc it started: at most one unsignalled one is alive, and it is recorded or
\* about to be.
THEOREM NeverOrphaned == Spec => []NoOrphan
<1>1. Init => TrackInv
  BY DEF Init, TrackInv, NoOrphan, InHand, InFlight
<1>2. TypeOK /\ TypeOK' /\ TrackInv /\ [Next]_vars => TrackInv'
  BY TrackNext
<1>3. TrackInv => NoOrphan
  BY DEF TrackInv
<1> QED BY <1>1, <1>2, <1>3, TypeInit, TypeNext, PTL DEF Spec

-----------------------------------------------------------------------------
(* Action properties.                                                       *)

LEMMA ForgetStep ==
  ASSUME TypeOK, TrackInv, [Next]_vars, NEW p \in Pids,
         process = p, process' # p, proc[p] = "alive", proc'[p] = "alive"
  PROVE  \E a \in Actors : pc[a] = "record" /\ process' = pid[a]
<1> USE DEF shared
<1>0. p # NoPid
  OBVIOUS
<1>1. ASSUME NEW a \in Actors, Start(a)
      PROVE  \E b \in Actors : pc[b] = "record" /\ process' = pid[b]
  <2>1. CASE Record(a)
    BY <2>1 DEF Record
  <2>2. CASE Check(a)
    BY <2>2, <1>0, IsRunningForgetsNothing DEF Check
  <2> QED BY <1>1, <2>1, <2>2 DEF Start, Prepare, PrepareFails, Spawn, SpawnFails,
                                  SpawnWithoutPid, Stamp
<1>2. ASSUME NEW c \in Callers, Launch(c) \/ Stop(c) \/ Terminate(c) PROVE FALSE
  BY <1>2 DEF Launch, Stop, Terminate, Kill, KillFails, Reset, TrackInv, InHand
<1>3. ASSUME Guard PROVE FALSE
  BY <1>0, <1>3, IsRunningForgetsNothing DEF Guard, Poll, Decide, Mark, NetCheck, Clear
<1>4. ASSUME GetStatus PROVE FALSE
  BY <1>0, <1>4, IsRunningForgetsNothing DEF GetStatus
<1>5. ASSUME NEW q \in Pids, Waiter(q) \/ Die(q) \/ Crash(q) PROVE FALSE
  BY <1>5 DEF Waiter, Die, Crash, IsProcessAlive
<1>6. ASSUME CooldownEnds \/ Restart \/ UNCHANGED vars PROVE FALSE
  BY <1>6 DEF CooldownEnds, Restart, vars
<1> QED BY <1>1, <1>2, <1>3, <1>4, <1>5, <1>6 DEF Next

\* Overlapping starts or not, a live unsignalled frpc drops out of the record
\* only because a start call records its own child over it.
THEOREM OnlyStartsForget == Spec => ForgetsOnlyTheDead
<1>1. Init => TrackInv
  BY DEF Init, TrackInv, NoOrphan, InHand, InFlight
<1>2. TypeOK /\ TypeOK' /\ TrackInv /\ [Next]_vars => TrackInv'
  BY TrackNext
<1>3. TypeOK /\ TrackInv /\ [Next]_vars =>
        [\A p \in Pids :
          /\ process = p /\ process' # p
          /\ proc[p] = "alive" /\ proc'[p] = "alive"
          => \E a \in Actors : pc[a] = "record" /\ process' = pid[a]]_vars
  BY ForgetStep
<1> QED BY <1>1, <1>2, <1>3, TypeInit, TypeNext, PTL DEF Spec, ForgetsOnlyTheDead

LEMMA QuietStep ==
  TypeOK /\ Quiet /\ [Next]_vars => Quiet' \/ \E c \in Callers : pc'[c] = "check"
<1> SUFFICES ASSUME TypeOK, Quiet, [Next]_vars, \A c \in Callers : pc'[c] # "check"
             PROVE  Quiet'
  OBVIOUS
<1> USE DEF TypeOK, Quiet, LivePids, IsProcessAlive, Goto, shared
<1>0. ASSUME NEW r \in BOOLEAN, IsRunning(r) PROVE UNCHANGED <<process, started>>
  BY <1>0 DEF IsRunning, Adopt, Observe
<1>1. ASSUME NEW a \in Actors, Start(a) PROVE FALSE
  BY <1>1 DEF Start, Check, Prepare, PrepareFails, Spawn, SpawnFails, SpawnWithoutPid,
              Record, Stamp
<1>2. ASSUME NEW c \in Callers, Launch(c) \/ Stop(c) \/ Terminate(c) PROVE Quiet'
  BY <1>2 DEF Launch, Stop, Terminate, Kill, KillFails, Reset
<1>3. CASE Guard
  BY <1>0, <1>3 DEF Guard, Poll, Decide, Mark, NetCheck, Clear
<1>4. CASE GetStatus
  BY <1>0, <1>4 DEF GetStatus
<1>5. CASE CooldownEnds \/ \E p \in Pids : Waiter(p) \/ Die(p) \/ Crash(p)
  BY <1>5 DEF CooldownEnds, Waiter, Die, Crash
<1>6. CASE Restart \/ UNCHANGED vars
  BY <1>6 DEF Restart, vars
<1> QED BY <1>1, <1>2, <1>3, <1>4, <1>5, <1>6 DEF Next

\* Once everything is down, only a launch by the user brings frpc up again.
THEOREM QuietUntilLaunch == Spec => StoppedStaysStopped
<1>1. TypeOK /\ [Next]_vars =>
        [Quiet => Quiet' \/ \E c \in Callers : pc'[c] = "check"]_vars
  BY QuietStep
<1> QED BY <1>1, TypeInit, TypeNext, PTL DEF Spec, StoppedStaysStopped

-----------------------------------------------------------------------------
(* The watcher.                                                             *)

\* The watcher's loop does nothing to frpc and its records but what a status
\* query does: the theorems about the process service hold beside it.
LEMMA WatchedStep == [WatchedNext]_allVars => [Next]_vars
<1> SUFFICES ASSUME WatchedNext PROVE [Next]_vars
  BY DEF allVars
<1>1. CASE WatchPoll
  <2>1. GetStatus
    BY <1>1 DEF WatchPoll, GetStatus
  <2> QED BY <2>1 DEF Next
<1>2. CASE Notify \/ Emit \/ NotifyCooldownEnds
  BY <1>2 DEF Notify, Emit, NotifyCooldownEnds
<1>3. CASE WatchRestart
  BY <1>3 DEF WatchRestart, Next
<1> QED BY <1>1, <1>2, <1>3 DEF WatchedNext, Watch

\* Beside the watcher the process service still behaves as FrpcProcess says.
THEOREM WatcherImplements == WatchedFairSpec => Spec
  BY WatchedStep, PTL DEF WatchedFairSpec, WatchedSpec, Spec

\* So what was proved of the process service holds beside the watcher, too:
\* its polls lose, revive or forget nothing.
THEOREM SafeBesideWatcher ==
  WatchedFairSpec =>
    /\ [](TypeOK /\ RecordedIsStarted /\ NoOrphan /\ RecoveryFlagHeld)
    /\ ForgetsOnlyTheDead
    /\ StoppedStaysStopped
  BY WatcherImplements, TypeCorrect, RecordedStaysStarted, NeverOrphaned,
     RecoveryFlagSafe, OnlyStartsForget, QuietUntilLaunch, PTL

LEMMA WatcherTypeNext ==
  TypeOK /\ WatcherTypeOK /\ [WatchedNext]_allVars => WatcherTypeOK'
<1> SUFFICES ASSUME TypeOK, WatcherTypeOK, [WatchedNext]_allVars PROVE WatcherTypeOK'
  OBVIOUS
<1> USE DEF WatcherTypeOK
<1>1. CASE WatchPoll
  BY <1>1 DEF WatchPoll
<1>2. CASE Notify
  BY <1>2 DEF Notify, TypeOK
<1>3. CASE Emit
  BY <1>3 DEF Emit, TypeOK
<1>4. CASE NotifyCooldownEnds
  BY <1>4 DEF NotifyCooldownEnds
<1>5. CASE WatchRestart
  BY <1>5 DEF WatchRestart
<1>6. CASE UNCHANGED watchVars
  BY <1>6 DEF watchVars
<1> QED BY <1>1, <1>2, <1>3, <1>4, <1>5, <1>6 DEF WatchedNext, Watch, allVars

\* The types of the watcher, which asks for a notification only if its last
\* poll found no frpc.
THEOREM WatcherTypes == WatchedFairSpec => []WatcherTypeOK
<1>1. WatchInit => WatcherTypeOK
  <2> SUFFICES ASSUME WatchInit PROVE WatcherTypeOK
    OBVIOUS
  <2>1. shown \in [running : BOOLEAN, started : BOOLEAN]
    BY SMT DEF WatchInit
  <2>2. /\ watch \in {"sleep", "down", "emit"}
        /\ watch # "down"
    BY SMT DEF WatchInit
  <2>3. seen \in BOOLEAN /\ canNotify \in BOOLEAN
    BY Zenon DEF WatchInit
  <2> QED BY <2>1, <2>2, <2>3, Zenon DEF WatcherTypeOK
<1>2. TypeOK /\ WatcherTypeOK /\ [WatchedNext]_allVars => WatcherTypeOK'
  BY WatcherTypeNext
<1>3. WatchedFairSpec => []TypeOK
  BY WatcherImplements, TypeCorrect, PTL
<1> QED BY <1>1, <1>2, <1>3, PTL DEF WatchedFairSpec, WatchedSpec
=============================================================================
