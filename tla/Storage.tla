------------------------------- MODULE Storage -------------------------------
(***************************************************************************)
(* Episode rows and the statements that change them                        *)
(* (crates/core/src/storage.rs, crates/core/src/domain.rs).  Every storage *)
(* call runs under the connection mutex and, where it reads before it      *)
(* writes, inside one transaction, so each is one step.  Here they are     *)
(* operators on a row; Library says when they run.                         *)
(*                                                                         *)
(* A row keeps what the sync engine reads back: its lifecycle state, the   *)
(* file it names, the contents recorded for that file (size and blake3),   *)
(* and how old progress_at is.  The row `absent` stands for no row.        *)
(***************************************************************************)
EXTENDS Naturals, Sequences, FiniteSets

CONSTANTS Paths,      \* file names under media/<show>/
          Contents,   \* audio contents a transfer can deliver
          None        \* SQL NULL, and no file on disk

ASSUME NoneAssumption == None \notin Paths /\ None \notin Contents

EpisodeStates ==
  {"absent", "discovered", "downloading", "cached", "pruned", "failed"}

(* progress_at: NULL, newer than STALE_DOWNLOAD_AFTER, or older. *)
Ages == {"null", "recent", "old"}

Row == [st : EpisodeStates,
        file : Paths \cup {None},
        sum : Contents \cup {None},
        progress : Ages]

NoRow == [st |-> "absent", file |-> None, sum |-> None, progress |-> "null"]

Exists(row) == row.st # "absent"

(* EpisodeState::can_transition_to; no row is EpisodeNotFound. *)
can_transition_to(from, to) ==
  \/ from = "discovered"  /\ to = "downloading"
  \/ from = "downloading" /\ to \in {"cached", "failed"}
  \/ from = "failed"      /\ to = "downloading"
  \/ from = "cached"      /\ to \in {"downloading", "pruned"}
  \/ from = "pruned"      /\ to = "downloading"

-----------------------------------------------------------------------------
(* Mutants: a state the schema does not know; an upsert that resets. *)
discover_unknown_state(row) ==
  IF Exists(row) THEN row ELSE [NoRow EXCEPT !.st = "new"]
discover_resets(row) == [row EXCEPT !.st = "discovered"]

(* discover: unknown ids are inserted, known rows keep their state (their  *)
(* descriptive columns are refreshed, which no property tells apart).      *)
discover(row) ==
  IF Exists(row) THEN row ELSE [NoRow EXCEPT !.st = "discovered"]

(* mark_downloading: the previous file and contents stay recorded. *)
mark_downloading(row) ==
  [row EXCEPT !.st = "downloading", !.progress = "null"]

(* Mutant: the state guard of the UPDATE dropped. *)
set_progress_unguarded(row) == [row EXCEPT !.progress = "recent"]

(* set_progress: no effect unless the row is downloading. *)
set_progress(row) ==
  IF row.st = "downloading" THEN [row EXCEPT !.progress = "recent"] ELSE row

(* Mutant: what an earlier download recorded is kept. *)
mark_cached_keeps_sum(row, file, sum) ==
  [st |-> "cached", file |-> file, progress |-> "null",
   sum |-> IF row.sum = None THEN sum ELSE row.sum]

(* mark_cached: the file and its contents are recorded. *)
mark_cached(row, file, sum) ==
  [st |-> "cached", file |-> file, sum |-> sum, progress |-> "null"]

(* mark_failed: the previous file and contents stay recorded. *)
mark_failed(row) == [row EXCEPT !.st = "failed", !.progress = "null"]

(* Mutant: the tombstone forgets its size too. *)
mark_pruned_forgets_size(row) ==
  [row EXCEPT !.st = "pruned", !.file = None, !.sum = None]

(* mark_pruned: the tombstone forgets the file, keeps size and hash. *)
mark_pruned(row) == [row EXCEPT !.st = "pruned", !.file = None]

(* Mutant: the NULL case of the UPDATE dropped. *)
reset_stale_not_null(row) ==
  IF row.st = "downloading" /\ row.progress = "old"
  THEN [row EXCEPT !.st = "failed", !.progress = "null"]
  ELSE row

(* reset_stale_downloads, for one row. *)
reset_stale(row) ==
  IF row.st = "downloading" /\ row.progress # "recent"
  THEN [row EXCEPT !.st = "failed", !.progress = "null"]
  ELSE row

=============================================================================
