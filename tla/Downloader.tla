------------------------------ MODULE Downloader ------------------------------
(***************************************************************************)
(* The download engine (crates/core/src/download.rs): calls of fetch       *)
(* compete for the permits of their Downloader, stream into a temporary    *)
(* file, verify the length, rename the file into place, and retry what is  *)
(* transient.  Library::reload replaces the engine when the concurrency    *)
(* changes; calls that have begun, and syncs that have, keep the old one.  *)
(*                                                                         *)
(* Sizes are counted in chunks.                                            *)
(***************************************************************************)
EXTENDS Naturals, FiniteSets

CONSTANTS Fetches,     \* the concurrent calls of fetch
          Dests,       \* destination paths
          Dest,        \* [Fetches -> Dests]
          Limits,      \* values download_concurrency may be given
          MaxReloads,  \* bound on the engines made by reloads
          Size,        \* bound on the chunks of a body; every body ends
          MaxTimes,    \* with_max_times: retries after the first attempt
          None         \* no length announced; no file

ASSUME DownloaderAssumption ==
  /\ IsFiniteSet(Fetches)
  /\ Dest \in [Fetches -> Dests]
  /\ Limits \subseteq Nat \ {0}
  /\ MaxReloads \in Nat
  /\ Size \in Nat
  /\ MaxTimes \in Nat
  /\ None \notin Nat

VARIABLES
  engine,  \* the current Downloader: its number and its permits
  call,    \* per call: where it is and its local variables
  temp,    \* the calls whose attempt has a temporary file on disk
  disk     \* [Dests -> what the file holds: chunks, and chunks announced]

vars == <<engine, call, temp, disk>>

Engine == [id : 0..MaxReloads, permits : Limits]
PCs == {"idle", "acquire", "send", "open", "body", "persist", "backoff",
        "ok", "err", "detached"}
Lengths == (0..Size) \cup {None}
Contents == [len : 0..Size, announced : Lengths]
Call == [pc : PCs, engine : Engine, tries : 0..MaxTimes + 1,
         expected : Lengths, written : 0..Size]

(* Every variable has its type: attempts stay within MaxTimes retries.     *)
TypeOK ==
  /\ engine \in Engine
  /\ call \in [Fetches -> Call]
  /\ temp \in SUBSET Fetches
  /\ disk \in [Dests -> Contents \cup {None}]

Init ==
  /\ engine \in [id : {0}, permits : Limits]
  /\ call = [f \in Fetches |-> [pc |-> "idle", engine |-> engine, tries |-> 0,
                                expected |-> None, written |-> 0]]
  /\ temp = {}
  /\ disk = [d \in Dests |-> None]

(* The calls that hold a permit of engine e: from acquire to the return,   *)
(* the waits between two attempts included.                                *)
Holding == {"send", "open", "body", "persist", "backoff"}
Holders(e) == {f \in Fetches : call[f].engine = e /\ call[f].pc \in Holding}

At(f, pc) == call[f].pc = pc
Goto(f, pc) == call' = [call EXCEPT ![f].pc = pc]

(* The attempt is over, and its local variables are gone with it. *)
Attempted(f, pc, tries) ==
  call' = [call EXCEPT ![f] = [@ EXCEPT !.pc = pc, !.tries = tries,
                                        !.expected = None, !.written = 0]]

-----------------------------------------------------------------------------
(* Library::reload: another concurrency means another Downloader. *)
Reload ==
  /\ engine.id < MaxReloads
  /\ \E n \in Limits \ {engine.permits} :
       engine' = [id |-> engine.id + 1, permits |-> n]
  /\ UNCHANGED <<call, temp, disk>>

(* fetch is called on the engine of the caller's library: the current one, *)
(* or, by a sync that began before a reload, the one it used before.       *)
Start(f) ==
  /\ call[f].pc \in {"idle", "ok", "err"}
  /\ \E e \in {engine, call[f].engine} :
       call' = [call EXCEPT ![f] = [pc |-> "acquire", engine |-> e,
                                    tries |-> 0, expected |-> None,
                                    written |-> 0]]
  /\ UNCHANGED <<engine, temp, disk>>

(* Mutant: one permit too many. *)
Acquire_one_more(f) ==
  /\ At(f, "acquire")
  /\ Cardinality(Holders(call[f].engine)) <= call[f].engine.permits
  /\ call' = [call EXCEPT ![f].pc = "send", ![f].tries = 1]
  /\ UNCHANGED <<engine, temp, disk>>

Acquire(f) ==
  /\ At(f, "acquire")
  /\ Cardinality(Holders(call[f].engine)) < call[f].engine.permits
  /\ call' = [call EXCEPT ![f].pc = "send", ![f].tries = 1]
  /\ UNCHANGED <<engine, temp, disk>>

(* A success answer, with the length of Content-Length or the provider's   *)
(* own, or with neither.  The body may be shorter or longer than that.     *)
Answered(f) ==
  /\ At(f, "send")
  /\ \E n \in Lengths :
       call' = [call EXCEPT ![f].pc = "open", ![f].expected = n]
  /\ UNCHANGED <<engine, temp, disk>>

(* The directory and a named temporary file beside the destination. *)
OpenTemp(f) ==
  /\ At(f, "open")
  /\ temp' = temp \cup {f}
  /\ call' = [call EXCEPT ![f].pc = "body", ![f].written = 0]
  /\ UNCHANGED <<engine, disk>>

Chunk(f) ==
  /\ At(f, "body")
  /\ call[f].written < Size
  /\ call' = [call EXCEPT ![f].written = @ + 1]
  /\ UNCHANGED <<engine, temp, disk>>

Truncated(f) == call[f].expected # None /\ call[f].written # call[f].expected

(* Mutant: the byte count is not verified. *)
BodyEnds_unverified(f) ==
  /\ At(f, "body")
  /\ Goto(f, "persist")
  /\ UNCHANGED <<engine, temp, disk>>

(* The stream ended, anywhere, and the length is right or unknown. *)
BodyEnds(f) ==
  /\ At(f, "body")
  /\ ~Truncated(f)
  /\ Goto(f, "persist")
  /\ UNCHANGED <<engine, temp, disk>>

Persisted(f) ==
  /\ disk' = [disk EXCEPT ![Dest[f]] = [len |-> call[f].written,
                                        announced |-> call[f].expected]]
  /\ temp' = temp \ {f}

(* temp.persist: the rename. *)
Persist(f) ==
  /\ At(f, "persist")
  /\ Persisted(f)
  /\ Attempted(f, "ok", 0)
  /\ UNCHANGED engine

-----------------------------------------------------------------------------
(* Failures.  The attempt's NamedTempFile is dropped, so the file goes.    *)

(* Mutant: the temporary file survives the attempt. *)
Fails_keeping_temp(f, transient) ==
  /\ IF transient /\ call[f].tries <= MaxTimes
     THEN Attempted(f, "backoff", call[f].tries + 1)
     ELSE Attempted(f, "err", 0)
  /\ UNCHANGED <<engine, temp, disk>>

(* Mutant: every transient failure is retried. *)
Fails_forever(f, transient) ==
  /\ temp' = temp \ {f}
  /\ Attempted(f, IF transient THEN "backoff" ELSE "err", call[f].tries)
  /\ UNCHANGED <<engine, disk>>

(* Mutant: one retry too many. *)
Fails_one_more(f, transient) ==
  /\ temp' = temp \ {f}
  /\ IF transient /\ call[f].tries <= MaxTimes + 1
     THEN Attempted(f, "backoff", call[f].tries + 1)
     ELSE Attempted(f, "err", 0)
  /\ UNCHANGED <<engine, disk>>

(* The attempt failed: is_transient and the retries left decide.           *)
Fails(f, transient) ==
  /\ temp' = temp \ {f}
  /\ IF transient /\ call[f].tries <= MaxTimes
     THEN Attempted(f, "backoff", call[f].tries + 1)
     ELSE Attempted(f, "err", 0)
  /\ UNCHANGED <<engine, disk>>

(* Network: the connection fails, or drops while the body is read. *)
NetworkFails(f) == call[f].pc \in {"send", "body"} /\ Fails(f, TRUE)

(* Status: a server error is transient, any other is not. *)
StatusFails(f) == At(f, "send") /\ \E server \in BOOLEAN : Fails(f, server)

(* Truncated. *)
LengthFails(f) == At(f, "body") /\ Truncated(f) /\ Fails(f, TRUE)

(* Disk, or the blocking pool (Client): not retried. *)
DiskFails(f) == call[f].pc \in {"open", "body", "persist"} /\ Fails(f, FALSE)

(* The backoff is over. *)
Again(f) ==
  /\ At(f, "backoff")
  /\ Goto(f, "send")
  /\ UNCHANGED <<engine, temp, disk>>

(* The future is dropped with the task that awaits it.  A rename that has  *)
(* been handed to the blocking pool goes on without it.                    *)
Cancel(f) ==
  /\ call[f].pc \in Holding \cup {"acquire"}
  /\ temp' = IF At(f, "persist") THEN temp ELSE temp \ {f}
  /\ IF At(f, "persist") THEN Goto(f, "detached")
                         ELSE Attempted(f, "idle", 0)
  /\ UNCHANGED <<engine, disk>>

Detached(f) ==
  /\ At(f, "detached")
  /\ \/ Persisted(f)
     \/ temp' = temp \ {f} /\ UNCHANGED disk
  /\ Attempted(f, "idle", 0)
  /\ UNCHANGED engine

-----------------------------------------------------------------------------
Work(f) ==
  \/ Acquire(f) \/ Answered(f) \/ OpenTemp(f) \/ Chunk(f) \/ BodyEnds(f)
  \/ Persist(f) \/ NetworkFails(f) \/ StatusFails(f) \/ LengthFails(f)
  \/ DiskFails(f) \/ Again(f) \/ Detached(f)

Next ==
  \/ Reload
  \/ \E f \in Fetches : Start(f) \/ Work(f) \/ Cancel(f)

Spec == Init /\ [][Next]_vars

-----------------------------------------------------------------------------
(* No engine runs more transfers than it has permits, retries and backoffs *)
(* included (download.rs: "at most `concurrency` transfers at once across  *)
(* all shows").                                                            *)
PermitsRespected ==
  \A f \in Fetches :
    Cardinality(Holders(call[f].engine)) <= call[f].engine.permits

(* What is at a destination is whole whenever its length was announced     *)
(* (download.rs: "a truncated transfer never becomes a cached episode"),   *)
(* also while another call writes to the same destination, and after a     *)
(* failed or cancelled one.                                                *)
WholeFiles ==
  \A d \in Dests : disk[d] # None => disk[d].announced \in {disk[d].len, None}

(* A temporary file belongs to an attempt that still uses it: failures,    *)
(* retries and cancellations leave none behind.                            *)
TempsOwned ==
  \A f \in temp : call[f].pc \in {"body", "persist", "detached"}

(* Every await of an attempt ends: connect and read timeouts bound the     *)
(* requests, the backoff is a timer.  Bodies are finite: the code has no   *)
(* limit on the length of a transfer, so one that never ends would keep    *)
(* its permit.  The semaphore is fair, so a call is not overtaken for      *)
(* ever.                                                                   *)
Fairness ==
  \A f \in Fetches :
    /\ WF_vars(Answered(f) \/ NetworkFails(f) \/ StatusFails(f))
    /\ WF_vars(OpenTemp(f) \/ DiskFails(f))
    /\ WF_vars(BodyEnds(f) \/ LengthFails(f) \/ Chunk(f))
    /\ WF_vars(Persist(f) \/ DiskFails(f))
    /\ WF_vars(Again(f))
    /\ WF_vars(Detached(f))
    /\ SF_vars(Acquire(f))

FairSpec == Spec /\ Fairness

(* Every call of fetch ends, however long upstream fails: the retries are  *)
(* bounded and the permit comes back after each outcome.                   *)
FetchEnds ==
  \A f \in Fetches : At(f, "acquire") ~> call[f].pc \in {"ok", "err", "idle"}

=============================================================================
