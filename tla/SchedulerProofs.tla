-------------------------- MODULE SchedulerProofs --------------------------
(***************************************************************************)
(* Theorems about Scheduler, for any shows, configurations and number of   *)
(* reloads.                                                                *)
(***************************************************************************)
EXTENDS Scheduler, TLAPS

-----------------------------------------------------------------------------
(* The shows of a configuration that may be in force are shows. *)
LEMMA ShowsOf ==
  ASSUME NEW cfg \in Running
  PROVE  /\ cfg \in Configs
         /\ cfg.shows \in Seq(Shows)
         /\ ToSet(cfg.shows) \subseteq Shows
  BY SchedulerAssumption DEF Running, ToSet

(* A step of a show loop replaces one entry of the table. *)
LEMMA LoopUpdate ==
  ASSUME TypeOK, NEW v \in Versions, NEW s \in Shows, NEW x \in LoopStates,
         loops' = [loops EXCEPT ![v][s] = x]
  PROVE  /\ loops' \in [Versions -> [Shows -> LoopStates]]
         /\ loops'[v][s] = x
         /\ \A w \in Versions, t \in Shows :
              <<w, t>> # <<v, s>> => loops'[w][t] = loops[w][t]
<1>1. loops[v] \in [Shows -> LoopStates]
  BY DEF TypeOK
<1>2. loops' = [loops EXCEPT ![v] = [loops[v] EXCEPT ![s] = x]]
  OBVIOUS
<1>3. [loops[v] EXCEPT ![s] = x] \in [Shows -> LoopStates]
  BY <1>1
<1> QED
  BY <1>1, <1>2, <1>3 DEF TypeOK

-----------------------------------------------------------------------------
(* Why one generation is enough: a loop that syncs is at the head of the   *)
(* queue of its generation's semaphore.                                    *)
PermitHeld ==
  \A v \in Versions, s \in Shows :
    loops[v][s] = "sync" => polls[v] # <<>> /\ Head(polls[v]) = s

(* A caller of sync_all_once that syncs has a show to sync. *)
OnceHasShow == \A c \in Callers : once[c].busy => once[c].left # <<>>

(* The sender is gone only with a handler that never listened, and the     *)
(* manager takes nothing else for the end of the channel.                  *)
SenderKept ==
  /\ hup.pc # "wait" => chan.ver = 0
  /\ chan.open \/ hup.pc = "gone"
  /\ mgr.pc = "join" /\ mgr.closed => ~chan.open
  /\ mgr.pc = "stopped" => ~chan.open

(* When the manager builds, no loop is left; while it waits, the loops are *)
(* those of the generation it waits for.                                   *)
IInv == /\ TypeOK /\ OnceHasShow /\ OneGeneration /\ PermitHeld
        /\ SenderKept

(* The scheduler's state keeps its type. *)
LEMMA TypeStep ==
  ASSUME TypeOK, OnceHasShow, PermitHeld, [Next]_vars
  PROVE  TypeOK'
<1> USE SchedulerAssumption
<1>1. CASE Build
  <2>1. loops' \in [Versions -> [Shows -> LoopStates]]
    BY <1>1 DEF Build, TypeOK, LoopStates
  <2> QED
    BY <1>1, <2>1 DEF Build, TypeOK
<1>2. CASE ManagerChanged \/ Join
  <2>1. CASE ManagerChanged
    BY <2>1 DEF ManagerChanged, TypeOK
  <2>2. CASE Join
    BY <2>2 DEF Join, TypeOK
  <2> QED
    BY <1>2, <2>1, <2>2
<1>3. ASSUME NEW v \in Versions, NEW s \in Shows, ShowLoop(v, s)
      PROVE  TypeOK'
  <2>1. CASE Wake(v, s)
    <3>1. loops' \in [Versions -> [Shows -> LoopStates]]
      BY <2>1, LoopUpdate DEF Wake, LoopStates
    <3>2. Append(polls[v], s) \in Seq(Shows)
      BY DEF TypeOK
    <3> QED
      BY <2>1, <3>1, <3>2 DEF Wake, TypeOK
  <2>2. CASE Acquire(v, s)
    <3>1. loops' \in [Versions -> [Shows -> LoopStates]]
      BY <2>2, LoopUpdate DEF Acquire, LoopStates
    <3> QED
      BY <2>2, <3>1 DEF Acquire, TypeOK
  <2>3. CASE Synced(v, s)
    <3>1. loops' \in [Versions -> [Shows -> LoopStates]]
      BY <2>3, LoopUpdate DEF Synced, LoopStates
    <3>2. polls[v] \in Seq(Shows) /\ polls[v] # <<>>
      BY <2>3 DEF Synced, PermitHeld, TypeOK
    <3>3. Tail(polls[v]) \in Seq(Shows)
      BY <3>2
    <3> QED
      BY <2>3, <3>1, <3>3 DEF Synced, TypeOK
  <2>4. CASE LoopExit(v, s)
    <3>1. loops' \in [Versions -> [Shows -> LoopStates]]
      BY <2>4, LoopUpdate DEF LoopExit, LoopStates
    <3> QED
      BY <2>4, <3>1 DEF LoopExit, TypeOK
  <2> QED
    BY <1>3, <2>1, <2>2, <2>3, <2>4 DEF ShowLoop
<1>4. ASSUME NEW c \in Callers, OnceStarts(c) \/ OnceSynced(c)
      PROVE  TypeOK'
  <2>1. CASE OnceStarts(c)
    BY <2>1 DEF OnceStarts, TypeOK
  <2>2. CASE OnceSynced(c)
    <3>1. Tail(once[c].left) \in Seq(Shows)
      BY <2>2 DEF OnceSynced, OnceHasShow, TypeOK
    <3> QED
      BY <2>2, <3>1 DEF OnceSynced, TypeOK
  <2> QED
    BY <1>4, <2>1, <2>2
<1>5. CASE Reload
  <2>1. file.shows \in Seq(Shows)
    BY <1>5, ShowsOf DEF Reload, Acceptable, TypeOK
  <2>2. chan' \in [ver : Versions, cfg : Running, open : BOOLEAN]
    <3>1. chan.ver + 1 \in Versions /\ file \in Running
      BY <1>5 DEF Reload, Acceptable, TypeOK, Versions
    <3> QED
      BY <1>5, <3>1 DEF Reload, TypeOK
  <2>3. once' \in [Callers -> [left : Seq(Shows), busy : BOOLEAN]]
    BY <1>5, <2>1 DEF Reload, TypeOK
  <2> QED
    BY <1>5, <2>2, <2>3 DEF Reload, TakeHangup, TypeOK
<1>6. CASE Install \/ InstallFails \/ Hangup \/ ReloadFails
  BY <1>6 DEF Install, InstallFails, Hangup, ReloadFails, TakeHangup, TypeOK
<1>7. CASE Edit \/ Exit
  BY <1>7 DEF Edit, Exit, TypeOK
<1>8. CASE UNCHANGED vars
  BY <1>8 DEF vars, TypeOK
<1> QED
  BY <1>1, <1>2, <1>3, <1>4, <1>5, <1>6, <1>7, <1>8
  DEF Next, Step, Manager, Handler

(* The step keeps the callers of sync_all_once honest. *)
LEMMA OnceStep ==
  ASSUME TypeOK, OnceHasShow, [Next]_vars
  PROVE  OnceHasShow'
<1>1. ASSUME NEW c \in Callers, OnceStarts(c) \/ OnceSynced(c)
      PROVE  OnceHasShow'
  <2>1. CASE OnceStarts(c)
    BY <2>1 DEF OnceStarts, OnceHasShow, TypeOK
  <2>2. CASE OnceSynced(c)
    BY <2>2 DEF OnceSynced, OnceHasShow, TypeOK
  <2> QED
    BY <1>1, <2>1, <2>2
<1>2. CASE Reload
  BY <1>2 DEF Reload, TakeHangup, OnceHasShow, TypeOK, Callers
<1>3. CASE UNCHANGED once
  BY <1>3 DEF OnceHasShow
<1> QED
  BY <1>1, <1>2, <1>3
  DEF Next, Step, Manager, Build, ManagerChanged, Join, ShowLoop, Wake,
      Acquire, Synced, LoopExit, Handler, Install, InstallFails, Hangup,
      ReloadFails, Edit, Exit, vars

(* What one step can do to one loop: nothing, or a step of that loop, or   *)
(* it is started by the manager.                                           *)
LEMMA LoopSteps ==
  ASSUME TypeOK, [Next]_vars, NEW v \in Versions, NEW s \in Shows
  PROVE  \/ loops'[v][s] = loops[v][s]
         \/ ShowLoop(v, s)
         \/ Build /\ v = chan.ver
<1>1. ASSUME NEW w \in Versions, NEW t \in Shows, ShowLoop(w, t),
             <<w, t>> # <<v, s>>
      PROVE  loops'[v][s] = loops[v][s]
  BY <1>1, LoopUpdate DEF ShowLoop, Wake, Acquire, Synced, LoopExit, LoopStates
<1>2. CASE Build
  BY <1>2 DEF Build, TypeOK
<1>3. CASE UNCHANGED loops
  BY <1>3
<1> QED
  BY <1>1, <1>2, <1>3
  DEF Next, Step, Manager, ManagerChanged, Join, OnceStarts, OnceSynced,
      Handler, Install, InstallFails, Hangup, Reload, ReloadFails, Edit, Exit,
      vars

(* One generation at a time is inductive: loops start only when none is    *)
(* left, and the manager moves on only when all have ended.                *)
LEMMA GenerationStep ==
  ASSUME TypeOK, OneGeneration, [Next]_vars
  PROVE  OneGeneration'
<1>1. CASE Build
  BY <1>1 DEF Build, OneGeneration, TypeOK
<1>2. CASE ManagerChanged
  BY <1>2 DEF ManagerChanged, OneGeneration, TypeOK
<1>3. CASE Join
  <2>1. \A v \in Versions, s \in Shows : loops[v][s] = "off"
    BY <1>3 DEF Join, OneGeneration, TypeOK
  <2> QED
    BY <1>3, <2>1 DEF Join, OneGeneration
<1>4. ASSUME UNCHANGED mgr, ~Build PROVE OneGeneration'
  <2> SUFFICES ASSUME NEW v \in Versions, NEW s \in Shows,
                      loops'[v][s] # "off"
               PROVE  loops[v][s] # "off"
    BY <1>4 DEF OneGeneration
  <2>1. CASE ShowLoop(v, s)
    BY <2>1 DEF ShowLoop, Wake, Acquire, Synced, LoopExit
  <2> QED
    BY <1>4, <2>1, LoopSteps
<1> QED
  BY <1>1, <1>2, <1>3, <1>4
  DEF Next, Step, Manager, ShowLoop, Wake, Acquire, Synced, LoopExit,
      OnceStarts, OnceSynced, Handler, Install, InstallFails, Hangup, Reload,
      ReloadFails, Edit, Exit, vars

(* Waiting appends to the queue, and only the holder leaves it. *)
LEMMA PermitStep ==
  ASSUME TypeOK, OneGeneration, PermitHeld, [Next]_vars
  PROVE  PermitHeld'
<1> SUFFICES ASSUME NEW v \in Versions, NEW s \in Shows,
                    loops'[v][s] = "sync"
             PROVE  polls'[v] # <<>> /\ Head(polls'[v]) = s
  BY DEF PermitHeld
<1>0. polls[v] \in Seq(Shows)
  BY DEF TypeOK
<1>1. CASE UNCHANGED polls
  <2>1. CASE loops'[v][s] = loops[v][s]
    BY <1>1, <2>1 DEF PermitHeld
  <2>2. CASE ShowLoop(v, s)
    BY <1>1, <2>2, LoopUpdate
    DEF ShowLoop, Wake, Acquire, Synced, LoopExit, LoopStates, PermitHeld
  <2>3. CASE Build
    BY <1>1, <2>3 DEF Build, TypeOK, OneGeneration, PermitHeld
  <2> QED
    BY <2>1, <2>2, <2>3, LoopSteps
<1>2. CASE Build
  BY <1>2 DEF Build, TypeOK, OneGeneration
<1>3. ASSUME NEW w \in Versions, NEW t \in Shows, Wake(w, t)
      PROVE  polls'[v] # <<>> /\ Head(polls'[v]) = s
  <2>1. loops[v][s] = "sync"
    BY <1>3, LoopUpdate DEF Wake, LoopStates
  <2>2. polls'[v] = polls[v] \/ polls'[v] = Append(polls[v], t)
    BY <1>3 DEF Wake, TypeOK
  <2> QED
    BY <1>0, <2>1, <2>2 DEF PermitHeld
<1>4. ASSUME NEW w \in Versions, NEW t \in Shows, Synced(w, t)
      PROVE  polls'[v] # <<>> /\ Head(polls'[v]) = s
  <2>0. /\ loops'[w][t] = "sleep"
        /\ <<v, s>> # <<w, t>> => loops'[v][s] = loops[v][s]
    <3>1. loops' = [loops EXCEPT ![w][t] = "sleep"] /\ "sleep" \in LoopStates
      BY <1>4 DEF Synced, LoopStates
    <3>2. /\ loops \in [Versions -> [Shows -> LoopStates]]
          /\ loops[w] \in [Shows -> LoopStates]
      BY DEF TypeOK
    <3>3. loops'[w] = [loops[w] EXCEPT ![t] = "sleep"]
      BY <3>1, <3>2
    <3>4. v # w => loops'[v] = loops[v]
      BY <3>1, <3>2
    <3> QED
      BY <3>2, <3>3, <3>4
  <2>1. loops[v][s] = "sync" /\ <<v, s>> # <<w, t>>
    BY <2>0
  <2>2. v # w
    BY <1>4, <2>1 DEF Synced, PermitHeld
  <2>3. polls'[v] = polls[v]
    BY <1>4, <2>2 DEF Synced, TypeOK
  <2> QED
    BY <2>1, <2>3 DEF PermitHeld
<1> QED
  BY <1>1, <1>2, <1>3, <1>4
  DEF Next, Step, Manager, ManagerChanged, Join, ShowLoop, Acquire, LoopExit,
      OnceStarts, OnceSynced, Handler, Install, InstallFails, Hangup, Reload,
      ReloadFails, Edit, Exit, vars

(* The sender lives until on_sighup returns, and a reload sends before it  *)
(* does.                                                                   *)
LEMMA SenderStep ==
  ASSUME TypeOK, SenderKept, [Next]_vars
  PROVE  SenderKept'
<1>1. CASE Build \/ Join
  BY <1>1 DEF Build, Join, SenderKept, TypeOK
<1>2. CASE ManagerChanged
  BY <1>2 DEF ManagerChanged, Changed, SenderKept, TypeOK
<1>3. CASE Install \/ InstallFails
  BY <1>3 DEF Install, InstallFails, SenderKept, TypeOK
<1>4. CASE Hangup \/ Reload \/ ReloadFails
  BY <1>4 DEF Hangup, Reload, ReloadFails, TakeHangup, SenderKept, TypeOK
<1>5. CASE UNCHANGED <<chan, mgr, hup>>
  BY <1>5 DEF SenderKept
<1> QED
  BY <1>1, <1>2, <1>3, <1>4, <1>5
  DEF Next, Step, Manager, ShowLoop, Wake, Acquire, Synced, LoopExit,
      OnceStarts, OnceSynced, Handler, Edit, Exit, vars

(* The inductive invariant. *)
THEOREM Inductive == Spec => []IInv
<1>1. Init => IInv
  <2> SUFFICES ASSUME Init PROVE IInv
    OBVIOUS
  <2>1. TypeOK
    BY SchedulerAssumption, ShowsOf
    DEF Init, TypeOK, Versions, LoopStates, Callers
  <2> QED
    BY <2>1
    DEF Init, IInv, OnceHasShow, OneGeneration, PermitHeld, SenderKept
<1>2. IInv /\ [Next]_vars => IInv'
  BY TypeStep, OnceStep, GenerationStep, PermitStep, SenderStep DEF IInv
<1> QED
  BY <1>1, <1>2, PTL DEF Spec

(* The scheduler's state keeps its type. *)
THEOREM TypeCorrect == Spec => []TypeOK
<1>1. IInv => TypeOK
  BY DEF IInv
<1> QED
  BY <1>1, Inductive, PTL

(* One generation of loops at a time, for any sequence of reloads. *)
THEOREM Generations == Spec => []OneGeneration
<1>1. IInv => OneGeneration
  BY DEF IInv
<1> QED
  BY <1>1, Inductive, PTL

(* The scheduler runs at most one sync at a time. *)
THEOREM Serial == Spec => []SchedulerSerial
<1>1. IInv => SchedulerSerial
  BY DEF IInv, OneGeneration, PermitHeld, SchedulerSerial
<1> QED
  BY <1>1, Inductive, PTL

(* The scheduler stops only when the handler of SIGHUP could not be        *)
(* installed, never because of a reload, for any sequence of accepted and  *)
(* failed reloads (scheduler::run, on_sighup).                             *)
THEOREM KeepsPolling == Spec => []StopsUnhandled
<1>1. IInv => StopsUnhandled
  BY DEF IInv, SenderKept, StopsUnhandled
<1> QED
  BY <1>1, Inductive, PTL
=============================================================================
