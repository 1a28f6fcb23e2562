------------------------------ MODULE Migration ------------------------------
(***************************************************************************)
(* Storage::open and migrate (crates/core/src/storage.rs): several         *)
(* processes (the daemon, a command line run) open one database file and   *)
(* bring its schema up to date.  Every statement of the schema batches     *)
(* commits by itself; so does the final PRAGMA user_version.               *)
(***************************************************************************)
EXTENDS Naturals, Sequences, SequencesExt

CONSTANTS Processes,  \* the processes that open the database
          Faults      \* "crash": a process is killed

ASSUME MigrationAssumption == Faults \subseteq {"crash"}

(* The statements of SCHEMA_V1, SCHEMA_V2 and SCHEMA_V3, by what they add. *)
SCHEMA_V1 == <<"shows", "episodes", "episodes_by_show_state">>
SCHEMA_V2 == <<"bytes_done", "bytes_total", "progress_at">>
SCHEMA_V3 == <<"episodes_etag">>

Latest == 3

(* The whole schema in the order of the statements. *)
Schema == SCHEMA_V1 \o SCHEMA_V2 \o SCHEMA_V3
Objects == ToSet(Schema)

(* A database that release v left behind. *)
Released(v) == ToSet(CASE v = 0 -> <<>>
                       [] v = 1 -> SCHEMA_V1
                       [] v = 2 -> SCHEMA_V1 \o SCHEMA_V2
                       [] v = 3 -> Schema)

VARIABLES
  schema,   \* the tables, columns and index the file has
  version,  \* PRAGMA user_version
  proc      \* per process: where open is, and the statements still to run

vars == <<schema, version, proc>>

(* Every variable has its type: open runs only statements of the schema. *)
TypeOK ==
  /\ schema \subseteq Objects
  /\ version \in 0..Latest
  /\ proc \in [Processes -> [pc : {"closed", "run", "open", "error"},
                             todo : Seq(Objects)]]

Closed == [pc |-> "closed", todo |-> <<>>]

Init ==
  /\ version \in 0..Latest
  /\ schema = Released(version)
  /\ proc = [p \in Processes |-> Closed]

(* Mutant: a migration step is left out. *)
Batches_skip(v) ==
  (IF v < 1 THEN SCHEMA_V1 ELSE <<>>) \o (IF v < 3 THEN SCHEMA_V3 ELSE <<>>)

(* The batches a database of version v lacks. *)
Batches(v) == (IF v < 1 THEN SCHEMA_V1 ELSE <<>>)
              \o (IF v < 2 THEN SCHEMA_V2 ELSE <<>>)
              \o (IF v < 3 THEN SCHEMA_V3 ELSE <<>>)

(* The version is read. *)
Open(p) ==
  /\ proc[p].pc = "closed"
  /\ proc' = [proc EXCEPT ![p] = [pc |-> "run", todo |-> Batches(version)]]
  /\ UNCHANGED <<schema, version>>

(* The next statement; it fails when what it adds is there already, and    *)
(* then so does open.                                                      *)
Statement(p) ==
  /\ proc[p].pc = "run" /\ proc[p].todo # <<>>
  /\ LET new == Head(proc[p].todo)
     IN IF new \in schema
        THEN /\ proc' = [proc EXCEPT ![p] = [pc |-> "error", todo |-> <<>>]]
             /\ UNCHANGED schema
        ELSE /\ schema' = schema \cup {new}
             /\ proc' = [proc EXCEPT ![p].todo = Tail(@)]
  /\ UNCHANGED version

(* pragma_update(user_version). *)
SetVersion(p) ==
  /\ proc[p].pc = "run" /\ proc[p].todo = <<>>
  /\ version' = Latest
  /\ proc' = [proc EXCEPT ![p].pc = "open"]
  /\ UNCHANGED schema

(* The process ends, or its open has failed and it is started again. *)
Close(p) ==
  /\ proc[p].pc \in {"open", "error"}
  /\ proc' = [proc EXCEPT ![p] = Closed]
  /\ UNCHANGED <<schema, version>>

(* Killed between two statements. *)
Crash(p) ==
  /\ "crash" \in Faults
  /\ proc[p].pc = "run"
  /\ proc' = [proc EXCEPT ![p] = Closed]
  /\ UNCHANGED <<schema, version>>

Next ==
  \E p \in Processes :
    Open(p) \/ Statement(p) \/ SetVersion(p) \/ Close(p) \/ Crash(p)

Spec == Init /\ [][Next]_vars

-----------------------------------------------------------------------------
(* A process that has the database open finds the whole schema, and the    *)
(* recorded version never promises more than the file has, whoever else    *)
(* migrates it at the same time and whoever was killed.                    *)
OpenIsUpToDate ==
  /\ version = Latest => schema = Objects
  /\ \A p \in Processes : proc[p].pc = "open" => version = Latest

(* storage.rs, Storage::open: "Open (creating if needed) the database at   *)
(* `<data_dir>/splicefeed.db` and bring the schema up to date": opening    *)
(* does not fail on a database this program has written.                   *)
OpenSucceeds == \A p \in Processes : proc[p].pc # "error"

=============================================================================
