------------------------------ MODULE Scheduler ------------------------------
(***************************************************************************)
(* Who polls when, in the serving daemon: the scheduler's manager and its  *)
(* show loops (crates/daemon/src/scheduler.rs), the initial sync           *)
(* (main.rs), and the SIGHUP handler that swaps the library behind a watch *)
(* channel and then syncs every show itself (reload.rs, ops.rs).           *)
(*                                                                         *)
(* A library is its place in the sequence of reloads and its               *)
(* configuration.  A sync is the interval between two steps; what happens  *)
(* inside is the subject of module Library.                                *)
(***************************************************************************)
EXTENDS Naturals, Sequences, SequencesExt

CONSTANTS Shows,       \* show slugs
          Configs,     \* configurations the operator may write
          MaxReloads,  \* bound on successful reloads
          RuntimeDir,  \* XDG_RUNTIME_DIR, or {} when it is not usable
          None,        \* a configuration file that is missing or no TOML
          Faults       \* "install": no SIGHUP handler; "exit": shutdown;
                       \* "client": no HTTP client for a new Downloader

Versions == 0..MaxReloads

(* What is read of a configuration: the shows in file order and the        *)
(* provider each one names, whether there is an API key (in the file or    *)
(* the environment), and the restart-only settings.  An unset              *)
(* control_socket is {}.                                                   *)
ASSUME SchedulerAssumption ==
  /\ MaxReloads \in Nat
  /\ \A c \in Configs : c.shows \in Seq(Shows)
  /\ None \notin Configs
  /\ Faults \subseteq {"install", "exit", "client"}

-----------------------------------------------------------------------------
(* Which configurations are taken. *)

(* Config::validate: no show twice, and a key for the shows of difm. *)
validate(cfg) ==
  /\ \A m, n \in DOMAIN cfg.shows : cfg.shows[m] = cfg.shows[n] => m = n
  /\ \A s \in ToSet(cfg.shows) : cfg.provider[s] = "difm" => cfg.api_key

(* ProviderRegistry::from_config: every provider has a factory, which      *)
(* needs its credentials.                                                  *)
from_config(cfg) ==
  \A s \in ToSet(cfg.shows) : cfg.provider[s] = "difm" /\ cfg.api_key

(* Config::load and Library::open or Library::reload succeed. *)
Running == {cfg \in Configs : validate(cfg) /\ from_config(cfg)}

(* The socket as configured, or in the runtime directory, or beside the    *)
(* database.                                                               *)
control_socket_path(cfg) ==
  IF cfg.control_socket # {} THEN cfg.control_socket
  ELSE IF RuntimeDir # {} THEN RuntimeDir
  ELSE {cfg.data_dir}

(* reload::guard: nothing that needs a restart has changed. *)
guard(old, new) ==
  /\ old.bind = new.bind
  /\ old.data_dir = new.data_dir
  /\ control_socket_path(old) = control_socket_path(new)

-----------------------------------------------------------------------------
VARIABLES
  up,     \* the process runs
  file,   \* the configuration file
  chan,   \* the watch channel: newest library, and whether the sender lives
  mgr,    \* scheduler::run
  loops,  \* per generation and show: the show_loop task
  polls,  \* per generation: holder and waiters of the one-permit semaphore
  once,   \* the two callers of sync_all_once: the shows still to sync
  hup     \* on_sighup: where it is and whether a signal is pending

vars == <<up, file, chan, mgr, loops, polls, once, hup>>

LoopStates == {"off", "sleep", "queued", "sync"}
Callers == {"initial", "sighup"}

(* The state's type; the configurations in force are usable ones, whatever *)
(* the operator writes (reload.rs: "an operator typo must never take down  *)
(* the feeds").                                                            *)
TypeOK ==
  /\ up \in BOOLEAN
  /\ file \in Configs \cup {None}
  /\ chan \in [ver : Versions, cfg : Running, open : BOOLEAN]
  /\ mgr \in [pc : {"build", "wait", "join", "stopped"}, ver : Versions,
              cfg : Running, closed : BOOLEAN]
  /\ loops \in [Versions -> [Shows -> LoopStates]]
  /\ polls \in [Versions -> Seq(Shows)]
  /\ once \in [Callers -> [left : Seq(Shows), busy : BOOLEAN]]
  /\ hup \in [pc : {"install", "wait", "gone"}, pending : BOOLEAN]

(* run(Mode::Serve) has loaded a configuration, opened the library and     *)
(* spawned its tasks.                                                      *)
Init ==
  \E cfg \in Running :
    /\ up = TRUE
    /\ file = cfg
    /\ chan = [ver |-> 0, cfg |-> cfg, open |-> TRUE]
    /\ mgr = [pc |-> "build", ver |-> 0, cfg |-> cfg, closed |-> FALSE]
    /\ loops = [v \in Versions |-> [s \in Shows |-> "off"]]
    /\ polls = [v \in Versions |-> <<>>]
    /\ once = [c \in Callers |->
                 [left |-> IF c = "initial" THEN cfg.shows ELSE <<>>,
                  busy |-> FALSE]]
    /\ hup = [pc |-> "install", pending |-> FALSE]

(* What `changed()` waits for: a library newer than v, or no sender.       *)
Changed(v) == chan.ver # v \/ ~chan.open

-----------------------------------------------------------------------------
(* scheduler::run *)

(* borrow_and_update, a new semaphore, one loop per show. *)
Build ==
  /\ mgr.pc = "build"
  /\ mgr' = [pc |-> "wait", ver |-> chan.ver, cfg |-> chan.cfg,
             closed |-> FALSE]
  /\ loops' = [loops EXCEPT ![chan.ver] =
                 [s \in Shows |-> IF s \in ToSet(chan.cfg.shows)
                                  THEN "sleep" ELSE "off"]]
  /\ polls' = [polls EXCEPT ![chan.ver] = <<>>]
  /\ UNCHANGED <<up, file, chan, once, hup>>

(* changed().await: an error only when nothing newer was sent. *)
ManagerChanged ==
  /\ mgr.pc = "wait"
  /\ Changed(mgr.ver)
  /\ mgr' = [mgr EXCEPT !.pc = "join", !.closed = (chan.ver = mgr.ver)]
  /\ UNCHANGED <<up, file, chan, loops, polls, once, hup>>

(* Mutant: the handles are not awaited. *)
Join_not_awaited ==
  /\ mgr.pc = "join"
  /\ mgr' = [mgr EXCEPT !.pc = IF mgr.closed THEN "stopped" ELSE "build"]
  /\ UNCHANGED <<up, file, chan, loops, polls, once, hup>>

(* Every loop of the generation has ended. *)
Join ==
  /\ mgr.pc = "join"
  /\ \A s \in Shows : loops[mgr.ver][s] = "off"
  /\ mgr' = [mgr EXCEPT !.pc = IF mgr.closed THEN "stopped" ELSE "build"]
  /\ UNCHANGED <<up, file, chan, loops, polls, once, hup>>

-----------------------------------------------------------------------------
(* show_loop *)

(* The jittered sleep is over: the loop queues for the permit. *)
Wake(v, s) ==
  /\ loops[v][s] = "sleep"
  /\ loops' = [loops EXCEPT ![v][s] = "queued"]
  /\ polls' = [polls EXCEPT ![v] = Append(@, s)]
  /\ UNCHANGED <<up, file, chan, mgr, once, hup>>

(* Mutant: no permit is needed. *)
Acquire_unlimited(v, s) ==
  /\ loops[v][s] = "queued"
  /\ loops' = [loops EXCEPT ![v][s] = "sync"]
  /\ UNCHANGED <<up, file, chan, mgr, polls, once, hup>>

(* The permit arrives, first come first served; library.sync begins. *)
Acquire(v, s) ==
  /\ loops[v][s] = "queued"
  /\ polls[v] # <<>> /\ Head(polls[v]) = s
  /\ loops' = [loops EXCEPT ![v][s] = "sync"]
  /\ UNCHANGED <<up, file, chan, mgr, polls, once, hup>>

(* Mutant: a sync that fails ends its loop. *)
Synced_ends_loop(v, s) ==
  /\ loops[v][s] = "sync"
  /\ \E st \in {"sleep", "off"} : loops' = [loops EXCEPT ![v][s] = st]
  /\ polls' = [polls EXCEPT ![v] = Tail(@)]
  /\ UNCHANGED <<up, file, chan, mgr, once, hup>>

(* library.sync returned, Ok or Err; the permit is dropped. *)
Synced(v, s) ==
  /\ loops[v][s] = "sync"
  /\ loops' = [loops EXCEPT ![v][s] = "sleep"]
  /\ polls' = [polls EXCEPT ![v] = Tail(@)]
  /\ UNCHANGED <<up, file, chan, mgr, once, hup>>

(* Mutant: the loop ends only when the sender is gone. *)
LoopExit_only_closed(v, s) ==
  /\ loops[v][s] = "sleep"
  /\ ~chan.open
  /\ loops' = [loops EXCEPT ![v][s] = "off"]
  /\ UNCHANGED <<up, file, chan, mgr, polls, once, hup>>

(* The select sees the change. *)
LoopExit(v, s) ==
  /\ loops[v][s] = "sleep"
  /\ Changed(v)
  /\ loops' = [loops EXCEPT ![v][s] = "off"]
  /\ UNCHANGED <<up, file, chan, mgr, polls, once, hup>>

-----------------------------------------------------------------------------
(* sync_all_once, by initial_sync and after a reload: no permit is taken. *)

OnceStarts(c) ==
  /\ ~once[c].busy
  /\ once[c].left # <<>>
  /\ once' = [once EXCEPT ![c].busy = TRUE]
  /\ UNCHANGED <<up, file, chan, mgr, loops, polls, hup>>

(* Ok or Err: one failing show never stops the others. *)
OnceSynced(c) ==
  /\ once[c].busy
  /\ once' = [once EXCEPT ![c] = [left |-> Tail(@.left), busy |-> FALSE]]
  /\ UNCHANGED <<up, file, chan, mgr, loops, polls, hup>>

-----------------------------------------------------------------------------
(* on_sighup and the operator. *)

Install ==
  /\ hup.pc = "install"
  /\ hup' = [hup EXCEPT !.pc = "wait"]
  /\ UNCHANGED <<up, file, chan, mgr, loops, polls, once>>

(* The task returns and with it goes the only sender of the channel. *)
InstallFails ==
  /\ "install" \in Faults
  /\ hup.pc = "install"
  /\ hup' = [hup EXCEPT !.pc = "gone"]
  /\ chan' = [chan EXCEPT !.open = FALSE]
  /\ UNCHANGED <<up, file, mgr, loops, polls, once>>

(* SIGHUP; signals that arrive before the next recv are one. *)
Hangup ==
  /\ hup.pc = "wait"
  /\ hup' = [hup EXCEPT !.pending = TRUE]
  /\ UNCHANGED <<up, file, chan, mgr, loops, polls, once>>

(* The handler is between two rounds and takes the pending signal. *)
TakeHangup ==
  /\ hup.pc = "wait" /\ hup.pending
  /\ once["sighup"].left = <<>>
  /\ hup' = [hup EXCEPT !.pending = FALSE]

(* Mutant: what loads is taken without validation. *)
Acceptable_unvalidated(cfg) == cfg # None /\ guard(chan.cfg, cfg)

(* apply succeeds on this file. *)
Acceptable(cfg) == cfg \in Running /\ guard(chan.cfg, cfg)

(* apply: the file loads and validates, guard accepts it, the providers    *)
(* are built and the new library is sent; then sync_all_once over it.      *)
Reload ==
  /\ TakeHangup
  /\ Acceptable(file) /\ chan.ver < MaxReloads
  /\ chan' = [chan EXCEPT !.ver = @ + 1, !.cfg = file]
  /\ once' = [once EXCEPT !["sighup"].left = file.shows]
  /\ UNCHANGED <<up, file, mgr, loops, polls>>

(* Mutant: a reload that fails ends the handler. *)
ReloadFails_returns ==
  /\ hup.pc = "wait" /\ hup.pending /\ once["sighup"].left = <<>>
  /\ ~Acceptable(file) \/ "client" \in Faults
  /\ hup' = [pc |-> "gone", pending |-> FALSE]
  /\ chan' = [chan EXCEPT !.open = FALSE]
  /\ UNCHANGED <<up, file, mgr, loops, polls, once>>

(* Any of these fails, or a Downloader for a new concurrency cannot be     *)
(* made: the channel is untouched.                                         *)
ReloadFails ==
  /\ TakeHangup
  /\ ~Acceptable(file) \/ "client" \in Faults
  /\ UNCHANGED <<up, file, chan, mgr, loops, polls, once>>

Edit ==
  /\ file' \in Configs \cup {None}
  /\ UNCHANGED <<up, chan, mgr, loops, polls, once, hup>>

(* server::serve returns after the signal, run returns, and the runtime    *)
(* drops every task where it stands.                                       *)
Exit ==
  /\ "exit" \in Faults
  /\ up' = FALSE
  /\ UNCHANGED <<file, chan, mgr, loops, polls, once, hup>>

-----------------------------------------------------------------------------
Manager == Build \/ ManagerChanged \/ Join

ShowLoop(v, s) ==
  Wake(v, s) \/ Acquire(v, s) \/ Synced(v, s) \/ LoopExit(v, s)

Handler == Install \/ InstallFails \/ Hangup \/ Reload \/ ReloadFails

Step ==
  \/ Manager
  \/ \E v \in Versions, s \in Shows : ShowLoop(v, s)
  \/ \E c \in Callers : OnceStarts(c) \/ OnceSynced(c)
  \/ Handler
  \/ Edit
  \/ Exit

Next == up /\ Step

Spec == Init /\ [][Next]_vars

-----------------------------------------------------------------------------
(* Safety. *)

(* The loops alive belong to the generation the manager runs and to the    *)
(* shows of its configuration: a removed show is not polled by a forgotten *)
(* loop (scheduler.rs: "waiting here guarantees one generation at a        *)
(* time").                                                                 *)
OneGeneration ==
  \A v \in Versions, s \in Shows :
    loops[v][s] # "off" => /\ v = mgr.ver
                           /\ s \in ToSet(mgr.cfg.shows)
                           /\ mgr.pc \in {"wait", "join"}

(* The scheduler itself never runs two syncs at once, whatever is reloaded *)
(* meanwhile: the semaphores of two generations never overlap.             *)
SchedulerSerial ==
  \A v, w \in Versions, s, t \in Shows :
    loops[v][s] = "sync" /\ loops[w][t] = "sync" => v = w /\ s = t

(* The scheduler of a running daemon stops for one reason only: on_sighup  *)
(* could not install its handler and dropped the sender, so no reload was  *)
(* ever taken.  Neither a reload nor one that fails ends the polling       *)
(* (scheduler.rs: "Run poll loops until the library sender closes";        *)
(* reload.rs: "on any error the channel is untouched").                    *)
StopsUnhandled == mgr.pc = "stopped" => hup.pc = "gone" /\ chan.ver = 0

-----------------------------------------------------------------------------
(* Liveness. *)

(* Every task is scheduled, every sync returns (its requests time out) and *)
(* the semaphore is fair.  A loop in its select meets the change before    *)
(* its next sleep is over, so it cannot miss it for ever.                  *)
Fairness ==
  /\ WF_vars(up /\ Manager)
  /\ WF_vars(up /\ Install)
  /\ WF_vars(up /\ (Reload \/ ReloadFails))
  /\ \A v \in Versions, s \in Shows :
       /\ WF_vars(up /\ Wake(v, s))
       /\ WF_vars(up /\ Acquire(v, s))
       /\ WF_vars(up /\ Synced(v, s))
       /\ SF_vars(up /\ LoopExit(v, s))
  /\ \A c \in Callers : WF_vars(up /\ (OnceStarts(c) \/ OnceSynced(c)))

FairSpec == Spec /\ Fairness

(* A reload that was accepted takes effect unless the daemon shuts down:   *)
(* the manager comes to run that configuration or a newer one, however     *)
(* busy the old loops are (scheduler.rs: "the manager then rebuilds the    *)
(* loop set from the new config").                                         *)
ReloadTakesEffect ==
  \A n \in Versions : chan.ver = n ~> (mgr.ver >= n \/ ~up)

(* A show that stays configured is polled again and again while the daemon *)
(* runs with its sender alive: neither the other shows nor the reloads     *)
(* starve it.                                                              *)
EveryShowPolled ==
  \A s \in Shows :
    <>[](up /\ chan.open /\ s \in ToSet(chan.cfg.shows)) =>
      []<>(\E v \in Versions : loops[v][s] = "sync")

=============================================================================
