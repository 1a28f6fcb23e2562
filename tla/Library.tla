------------------------------- MODULE Library -------------------------------
(***************************************************************************)
(* The sync engine of one show (crates/splicefeed/src/lib.rs): polls and   *)
(* `verify --fix` passes over shared rows and shared files.                *)
(*                                                                         *)
(* An actor runs one call of Library::sync or Library::verify after        *)
(* another.  The daemon has several: the scheduler's loop for the show,    *)
(* the initial sync, the sync after a SIGHUP; a command line run in        *)
(* another process is one more.  Each await point of the code is a step of *)
(* its own, so the calls of two actors interleave there; a storage call    *)
(* is atomic (module Storage).                                             *)
(*                                                                         *)
(* Upstream and the machine are the environment: which failures happen is  *)
(* given by Faults.                                                        *)
(***************************************************************************)
EXTENDS Storage, Retention, SequencesExt

CONSTANTS Actors,      \* the concurrent callers
          Verifiers,   \* the actors that also run verify --fix
          Ids,         \* episode ids; numbers, a larger one is newer
          Stem,        \* [Ids -> file stem]: the sanitised id of media_path
          Exts,        \* file extensions a resolved source can have
          Listings,    \* listings upstream can serve: sequences of ids
          Follows,     \* [Listings -> the listings that can replace it]
          Limit,       \* [Actors -> optional fetch_last]
          PerPage,     \* page size asked for without fetch_last
          Policy,      \* [Actors -> retention policy]
          Concurrency, \* download_concurrency
          Bytes,       \* [Contents -> size]
          Faults       \* the failures of the environment that can happen

AllFaults == {"list", "fetch", "storage", "io", "crash", "damage"}

media_path(i, ext) == <<Stem[i], ext>>

ASSUME LibraryAssumption ==
  /\ Verifiers \subseteq Actors
  /\ Ids \subseteq Nat /\ IsFiniteSet(Ids)
  /\ \A i \in Ids, ext \in Exts : media_path(i, ext) \in Paths
  /\ \A L \in Listings : L \in Seq(Ids)
  /\ Follows \in [Listings -> SUBSET Listings]
  /\ Limit \in [Actors -> SUBSET Nat]
  /\ PerPage \in Nat
  /\ Policy \in [Actors -> [keep_last : SUBSET Nat, max_bytes : SUBSET Nat]]
  /\ Bytes \in [Contents -> Nat]
  /\ Faults \subseteq AllFaults
  /\ None \notin Seq(Ids)

VARIABLES
  rows,      \* the episodes table: [Ids -> Row]
  show,      \* the shows row: whether it exists, its etag, its last poll
  disk,      \* media/<show>/: [Paths -> contents or None]
  upstream,  \* what upstream has published now, newest first
  task,      \* per actor: where the call is and its local variables
  dl,        \* per actor and episode: the download_episode future
  snap       \* per actor: the cached rows it read, as [file, sum]

vars == <<rows, show, disk, upstream, task, dl, snap>>

-----------------------------------------------------------------------------
(* The listing cut to fetch_last. *)
take(limit, seq) ==
  IF \E n \in limit : n < Len(seq)
  THEN SubSeq(seq, 1, CHOOSE n \in limit : n < Len(seq))
  ELSE seq

(* The page an actor asks for: its size is part of the URL, so a page is   *)
(* what an etag stands for; here it is its own etag.                       *)
PageOf(a, published) == take(Or(Limit[a], {PerPage}), published)
Pages == {PageOf(a, L) : a \in Actors, L \in Listings}

(* Types. *)

Show == [exists : BOOLEAN,
         etag : Pages \cup {None},
         poll : {"never", "ok", "error"}]

PCs == {"idle", "reset", "list", "show", "discover", "etag", "window",
        "plan", "download", "retain", "prune", "mark", "verify"}

(* What the last sync of an actor returned: Ok, a listing failure, a       *)
(* storage failure, an IllegalTransition; or nothing yet.                  *)
Results == {"none", "ok", "list", "storage", "illegal"}

Task == [pc : PCs,
         etag : Pages \cup {None},     \* etag sent, then etag received
         listing : Pages \cup {None},  \* the page; None for a 304
         window : SUBSET Ids,            \* the stored window after a 304
         doomed : SUBSET Ids,            \* episodes still to prune
         result : Results]

(* A download_episode future.  queued and check are not started; none, ok  *)
(* and bad need nothing more.                                              *)
Phases == {"none", "queued", "check", "damaged", "resolve", "fetch",
           "fetched", "fail", "ok", "bad"}
Active == {"damaged", "resolve", "fetch", "fetched", "fail"}
Over == {"none", "ok", "bad"}

File == [file : Paths \cup {None}, sum : Contents \cup {None}]
Job == [ph : Phases, file : Paths \cup {None}, sum : Contents \cup {None}]

NoFile == [file |-> None, sum |-> None]
NoJob == [ph |-> "none", file |-> None, sum |-> None]
Idle(result) == [pc |-> "idle", etag |-> None, listing |-> None,
                 window |-> {}, doomed |-> {}, result |-> result]

(* Every variable has its type: rows, files and the calls in progress hold *)
(* only what the code can have written there.                              *)
TypeOK ==
  /\ rows \in [Ids -> Row]
  /\ show \in Show
  /\ disk \in [Paths -> Contents \cup {None}]
  /\ upstream \in Listings
  /\ task \in [Actors -> Task]
  /\ dl \in [Actors -> [Ids -> Job]]
  /\ snap \in [Actors -> [Ids -> File]]

Init ==
  /\ rows = [i \in Ids |-> NoRow]
  /\ show = [exists |-> FALSE, etag |-> None, poll |-> "never"]
  /\ disk = [p \in Paths |-> None]
  /\ upstream \in Listings
  /\ task = [a \in Actors |-> Idle("none")]
  /\ dl = [a \in Actors |-> [i \in Ids |-> NoJob]]
  /\ snap = [a \in Actors |-> [i \in Ids |-> NoFile]]

-----------------------------------------------------------------------------
(* Helpers. *)

(* Mutant: ORDER BY ... ASC. *)
OldestFirst(S) ==
  CHOOSE s \in [1..Cardinality(S) -> S] :
    \A m, n \in 1..Cardinality(S) : m < n => s[m] < s[n]

(* ORDER BY published_at DESC, provider_episode_id DESC. *)
NewestFirst(S) ==
  CHOOSE s \in [1..Cardinality(S) -> S] :
    \A m, n \in 1..Cardinality(S) : m < n => s[m] > s[n]

Oldest(S) == CHOOSE i \in S : \A j \in S : i <= j

bytes_of(i) == IF rows[i].sum = None THEN 0 ELSE Bytes[rows[i].sum]

Candidates(seq) == [n \in DOMAIN seq |->
                      [id |-> seq[n], bytes |-> bytes_of(seq[n])]]

Stored == {i \in Ids : Exists(rows[i])}
Cached == {i \in Ids : rows[i].st = "cached"}

Goto(a, pc) == task' = [task EXCEPT ![a].pc = pc]

(* The call returns: its locals are gone. *)
Return(a, result) ==
  /\ task' = [task EXCEPT ![a] = Idle(result)]
  /\ dl' = [dl EXCEPT ![a] = [i \in Ids |-> NoJob]]
  /\ snap' = [snap EXCEPT ![a] = [i \in Ids |-> NoFile]]

record_poll(outcome) ==
  show' = IF show.exists THEN [show EXCEPT !.poll = outcome] ELSE show

-----------------------------------------------------------------------------
(* Library::sync, up to the downloads. *)

(* PollStarted; the stored etag is read. *)
SyncStart(a) ==
  /\ task[a].pc = "idle"
  /\ task' = [task EXCEPT ![a] = [Idle("none") EXCEPT !.pc = "reset",
                                                      !.etag = show.etag]]
  /\ UNCHANGED <<rows, show, disk, upstream, dl, snap>>

(* reset_stale_downloads over the show. *)
ResetStale(a) ==
  /\ task[a].pc = "reset"
  /\ rows' = [i \in Ids |-> reset_stale(rows[i])]
  /\ Goto(a, "list")
  /\ UNCHANGED <<show, disk, upstream, dl, snap>>

(* provider.episodes answers 304. *)
ListNotModified(a) ==
  /\ task[a].pc = "list"
  /\ task[a].etag = PageOf(a, upstream)
  /\ Goto(a, "window")
  /\ UNCHANGED <<rows, show, disk, upstream, dl, snap>>

(* provider.episodes answers with the page, with or without an etag. *)
ListModified(a) ==
  /\ task[a].pc = "list"
  /\ LET page == PageOf(a, upstream)
     IN \E etag \in {page, None} :
          task' = [task EXCEPT ![a] = [@ EXCEPT !.pc = "show", !.etag = etag,
                                                !.listing = page]]
  /\ UNCHANGED <<rows, show, disk, upstream, dl, snap>>

(* poll_failed: provider.episodes or provider.show failed; the poll is     *)
(* recorded as failed, PollFinished says so and the error is returned.     *)
PollFailed(a) ==
  /\ "list" \in Faults
  /\ task[a].pc \in {"list", "show"}
  /\ record_poll("error")
  /\ Return(a, "list")
  /\ UNCHANGED <<rows, disk, upstream>>

(* Mutant: the etag is stored before the episodes it stands for. *)
ShowMeta_stores_etag(a) ==
  /\ task[a].pc = "show"
  /\ show' = [show EXCEPT !.exists = TRUE, !.etag = task[a].etag]
  /\ Goto(a, "discover")
  /\ UNCHANGED <<rows, disk, upstream, dl, snap>>

(* provider.show, upsert_show and the best-effort cache_artwork. *)
ShowMeta(a) ==
  /\ task[a].pc = "show"
  /\ show' = [show EXCEPT !.exists = TRUE]
  /\ Goto(a, "discover")
  /\ UNCHANGED <<rows, disk, upstream, dl, snap>>

(* discover, one transaction over the page. *)
Discover(a) ==
  /\ task[a].pc = "discover"
  /\ rows' = [i \in Ids |-> IF i \in ToSet(task[a].listing)
                            THEN discover(rows[i]) ELSE rows[i]]
  /\ Goto(a, "etag")
  /\ UNCHANGED <<show, disk, upstream, dl, snap>>

(* set_episodes_etag: an UPDATE, so nothing without the row. *)
SetEtag(a) ==
  /\ task[a].pc = "etag"
  /\ show' = IF show.exists THEN [show EXCEPT !.etag = task[a].etag] ELSE show
  /\ Goto(a, "plan")
  /\ UNCHANGED <<rows, disk, upstream, dl, snap>>

(* After a 304 the window is the newest stored rows, fetch_last of them. *)
StoredWindow(a) ==
  /\ task[a].pc = "window"
  /\ task' = [task EXCEPT ![a] = [@ EXCEPT !.pc = "plan",
                !.window = Stored \cap
                  ToSet(take(Limit[a], NewestFirst(Stored)))]]
  /\ UNCHANGED <<rows, show, disk, upstream, dl, snap>>

(* The window in the order the plan walks it. *)
WindowSeq(a) ==
  IF task[a].listing = None THEN NewestFirst(task[a].window)
  ELSE task[a].listing

(* Mutant: the whole window is fetched and left to the prune. *)
Wanted_everything(a) == ToSet(WindowSeq(a))

(* The episodes the policy would keep, sizes projected from the rows. *)
Wanted(a) == ToSet(split(Policy[a], Candidates(WindowSeq(a))).kept)

(* Mutants: a cached episode is fetched again; a failed one is not. *)
PlanFetching(a, states) ==
  /\ task[a].pc = "plan"
  /\ Goto(a, "download")
  /\ dl' = [dl EXCEPT ![a] = [i \in Ids |->
              IF i \in Wanted(a) /\ rows[i].st \in states
              THEN [NoJob EXCEPT !.ph = "queued"] ELSE NoJob]]
  /\ UNCHANGED <<rows, show, disk, upstream, snap>>
Plan_refetches(a) ==
  PlanFetching(a, {"discovered", "failed", "pruned", "cached"})
Plan_gives_up(a) == PlanFetching(a, {"discovered", "pruned"})

(* Retention is planned over the window and the wanted episodes without a  *)
(* file become download futures.                                           *)
Plan(a) ==
  /\ task[a].pc = "plan"
  /\ Goto(a, "download")
  /\ LET pending == {i \in Wanted(a) :
                       rows[i].st \in {"discovered", "failed", "pruned"}}
     IN dl' = [dl EXCEPT ![a] = [i \in Ids |->
                 IF i \in pending THEN [NoJob EXCEPT !.ph = "queued"]
                 ELSE NoJob]]
  /\ UNCHANGED <<rows, show, disk, upstream, snap>>

-----------------------------------------------------------------------------
(* download_episode and try_download, shared by sync and verify. *)

Phase(a, i, ph) == dl' = [dl EXCEPT ![a][i].ph = ph]

(* buffer_unordered starts a future when a slot is free. *)
SlotFree(a) == Cardinality({i \in Ids : dl[a][i].ph \in Active}) < Concurrency

(* mark_downloading; an illegal transition makes the attempt fail. *)
MarkDownloading(a, i) ==
  /\ \/ dl[a][i].ph = "queued" /\ SlotFree(a)
     \/ dl[a][i].ph = "damaged"
  /\ IF can_transition_to(rows[i].st, "downloading")
     THEN /\ rows' = [rows EXCEPT ![i] = mark_downloading(@)]
          /\ Phase(a, i, "resolve")
     ELSE /\ Phase(a, i, "fail")
          /\ UNCHANGED rows
  /\ UNCHANGED <<show, disk, upstream, task, snap>>

(* resolve_audio gives a source, whose extension names the file. *)
Resolve(a, i) ==
  /\ dl[a][i].ph = "resolve"
  /\ \E ext \in Exts :
       dl' = [dl EXCEPT ![a][i] =
                [@ EXCEPT !.ph = "fetch", !.file = media_path(i, ext)]]
  /\ UNCHANGED <<rows, show, disk, upstream, task, snap>>

(* A progress write: spawned off the transfer, so it can also land late.   *)
Progress(a, i) ==
  /\ dl[a][i].ph \in {"fetch", "fetched", "fail", "ok", "bad"}
  /\ dl[a][i].file # None
  /\ rows' = [rows EXCEPT ![i] = set_progress(@)]
  /\ UNCHANGED <<show, disk, upstream, task, dl, snap>>

(* Downloader::fetch succeeds: the whole file is renamed into place. *)
Fetch(a, i) ==
  /\ dl[a][i].ph = "fetch"
  /\ \E c \in Contents :
       /\ disk' = [disk EXCEPT ![dl[a][i].file] = c]
       /\ dl' = [dl EXCEPT ![a][i] = [@ EXCEPT !.ph = "fetched", !.sum = c]]
  /\ UNCHANGED <<rows, show, upstream, task, snap>>

(* resolve_audio or fetch fails. *)
FetchFails(a, i) ==
  /\ "fetch" \in Faults
  /\ dl[a][i].ph \in {"resolve", "fetch"}
  /\ Phase(a, i, "fail")
  /\ UNCHANGED <<rows, show, disk, upstream, task, snap>>

(* mark_cached; an illegal transition makes the attempt fail. *)
MarkCached(a, i) ==
  /\ dl[a][i].ph = "fetched"
  /\ IF can_transition_to(rows[i].st, "cached")
     THEN /\ rows' = [rows EXCEPT ![i] =
                        mark_cached(@, dl[a][i].file, dl[a][i].sum)]
          /\ Phase(a, i, "ok")
     ELSE /\ Phase(a, i, "fail")
          /\ UNCHANGED rows
  /\ UNCHANGED <<show, disk, upstream, task, snap>>

(* mark_failed; when it is illegal the row stays and the error is logged. *)
MarkFailed(a, i) ==
  /\ dl[a][i].ph = "fail"
  /\ rows' = IF can_transition_to(rows[i].st, "failed")
             THEN [rows EXCEPT ![i] = mark_failed(@)] ELSE rows
  /\ Phase(a, i, "bad")
  /\ UNCHANGED <<show, disk, upstream, task, snap>>

(* A storage call of the attempt fails: the attempt fails, or the failure  *)
(* itself goes unrecorded.                                                 *)
DownloadStorageFails(a, i) ==
  /\ "storage" \in Faults
  /\ \/ dl[a][i].ph = "queued" /\ SlotFree(a) /\ Phase(a, i, "fail")
     \/ dl[a][i].ph \in {"damaged", "fetched"} /\ Phase(a, i, "fail")
     \/ dl[a][i].ph = "fail" /\ Phase(a, i, "bad")
  /\ UNCHANGED <<rows, show, disk, upstream, task, snap>>

AllOver(a) == \A i \in Ids : dl[a][i].ph \in Over

(* Every download future is done. *)
DownloadsDone(a) ==
  /\ task[a].pc = "download"
  /\ AllOver(a)
  /\ Goto(a, "retain")
  /\ UNCHANGED <<rows, show, disk, upstream, dl, snap>>

-----------------------------------------------------------------------------
(* apply_retention and the end of sync. *)

CachedFiles == [i \in Ids |-> IF i \in Cached
                              THEN [file |-> rows[i].file, sum |-> rows[i].sum]
                              ELSE NoFile]

(* Mutant: after a 304 nothing is pruned. *)
RetentionRead_if_modified(a) ==
  /\ task[a].pc = "retain"
  /\ task' = [task EXCEPT ![a].pc = "prune",
                          ![a].doomed = {i \in Cached :
       /\ task[a].listing # None
       /\ i \in ToSet(plan(Policy[a], Candidates(NewestFirst(Cached))))}]
  /\ snap' = [snap EXCEPT ![a] = CachedFiles]
  /\ UNCHANGED <<rows, show, disk, upstream, dl>>

(* The rows are read and the policy applied to the cached ones. *)
RetentionRead(a) ==
  /\ task[a].pc = "retain"
  /\ task' = [task EXCEPT ![a] = [@ EXCEPT !.pc = "prune",
                !.doomed = Cached \cap
                  ToSet(plan(Policy[a], Candidates(NewestFirst(Cached))))]]
  /\ snap' = [snap EXCEPT ![a] = CachedFiles]
  /\ UNCHANGED <<rows, show, disk, upstream, dl>>

(* Mutant: the file is left behind. *)
PruneRemove_keeps_file(a) ==
  /\ task[a].pc = "prune"
  /\ task[a].doomed # {}
  /\ Goto(a, "mark")
  /\ UNCHANGED <<rows, show, disk, upstream, dl, snap>>

(* The file the snapshot names is removed; it may be gone already. *)
PruneRemove(a) ==
  /\ task[a].pc = "prune"
  /\ task[a].doomed # {}
  /\ LET file == snap[a][Oldest(task[a].doomed)].file
     IN disk' = IF file = None THEN disk ELSE [disk EXCEPT ![file] = None]
  /\ Goto(a, "mark")
  /\ UNCHANGED <<rows, show, upstream, dl, snap>>

(* Another I/O error: the episode stays cached. *)
PruneKeeps(a) ==
  /\ "io" \in Faults
  /\ task[a].pc = "prune"
  /\ task[a].doomed # {}
  /\ task' = [task EXCEPT ![a].doomed = @ \ {Oldest(@)}]
  /\ UNCHANGED <<rows, show, disk, upstream, dl, snap>>

(* Mutant: the row is not marked. *)
PruneMark_forgets_row(a) ==
  /\ task[a].pc = "mark"
  /\ task' = [task EXCEPT ![a].pc = "prune", ![a].doomed = @ \ {Oldest(@)}]
  /\ UNCHANGED <<rows, show, disk, upstream, dl, snap>>

(* mark_pruned; an illegal transition ends the sync with an error. *)
PruneMark(a) ==
  /\ task[a].pc = "mark"
  /\ LET i == Oldest(task[a].doomed)
     IN IF can_transition_to(rows[i].st, "pruned")
        THEN /\ rows' = [rows EXCEPT ![i] = mark_pruned(@)]
             /\ task' = [task EXCEPT ![a] =
                           [@ EXCEPT !.pc = "prune",
                                     !.doomed = task[a].doomed \ {i}]]
             /\ UNCHANGED <<dl, snap>>
        ELSE /\ Return(a, "illegal")
             /\ UNCHANGED rows
  /\ UNCHANGED <<show, disk, upstream>>

(* record_poll and PollFinished. *)
SyncDone(a) ==
  /\ task[a].pc = "prune"
  /\ task[a].doomed = {}
  /\ record_poll("ok")
  /\ Return(a, "ok")
  /\ UNCHANGED <<rows, disk, upstream>>

(* Any other storage call of sync fails: `?` returns without record_poll. *)
SyncStorageFails(a) ==
  /\ "storage" \in Faults
  /\ \/ task[a].pc \in PCs \ {"idle", "download", "prune", "verify"}
     \/ task[a].pc = "prune" /\ task[a].doomed = {}
  /\ Return(a, "storage")
  /\ UNCHANGED <<rows, show, disk, upstream>>

-----------------------------------------------------------------------------
(* Library::verify with fix. *)

VerifyStart(a) ==
  /\ a \in Verifiers
  /\ task[a].pc = "idle"
  /\ task' = [task EXCEPT ![a] = [Idle("none") EXCEPT !.pc = "verify"]]
  /\ snap' = [snap EXCEPT ![a] = CachedFiles]
  /\ dl' = [dl EXCEPT ![a] = [i \in Ids |->
              IF i \in Cached THEN [NoJob EXCEPT !.ph = "check"] ELSE NoJob]]
  /\ UNCHANGED <<rows, show, disk, upstream>>

(* check_file: the file exists with the recorded size and hash. *)
Intact(f) == f.file # None /\ disk[f.file] = f.sum

(* Mutant: only the presence of the file is checked. *)
CheckFile_presence(a, i) ==
  /\ dl[a][i].ph = "check"
  /\ SlotFree(a)
  /\ Phase(a, i, IF disk[snap[a][i].file] # None THEN "none" ELSE "damaged")
  /\ UNCHANGED <<rows, show, disk, upstream, task, snap>>

CheckFile(a, i) ==
  /\ dl[a][i].ph = "check"
  /\ SlotFree(a)
  /\ \/ Intact(snap[a][i]) /\ Phase(a, i, "none")
     \/ (~Intact(snap[a][i]) \/ "io" \in Faults) /\ Phase(a, i, "damaged")
  /\ UNCHANGED <<rows, show, disk, upstream, task, snap>>

VerifyDone(a) ==
  /\ task[a].pc = "verify"
  /\ AllOver(a)
  /\ Return(a, "none")
  /\ UNCHANGED <<rows, show, disk, upstream>>

-----------------------------------------------------------------------------
(* What a podcast client is served. *)

(* Library::write_feed: NotSynced (a 404) without a shows row; otherwise   *)
(* the cached rows with a file and a size, in the order of the table.      *)
write_feed ==
  IF show.exists
  THEN NewestFirst({i \in Cached : rows[i].file # None /\ rows[i].sum # None})
  ELSE None

(* ServeDir over media/: what is on disk, whatever the rows say. *)
serve_media(path) == disk[path]

-----------------------------------------------------------------------------
(* The environment. *)

(* Upstream publishes or drops episodes. *)
UpstreamChanges ==
  /\ upstream' \in Follows[upstream]
  /\ UNCHANGED <<rows, show, disk, task, dl, snap>>

(* STALE_DOWNLOAD_AFTER passes without a progress write.  A transfer that  *)
(* is receiving cannot be that silent: its read timeout fails it first.    *)
ProgressAges(i) ==
  /\ rows[i].progress = "recent"
  /\ \A a \in Actors : dl[a][i].ph \notin {"fetch", "fetched"}
  /\ rows' = [rows EXCEPT ![i].progress = "old"]
  /\ UNCHANGED <<show, disk, upstream, task, dl, snap>>

(* The process of an actor is killed. *)
Crash(a) ==
  /\ "crash" \in Faults
  /\ task[a].pc # "idle"
  /\ Return(a, "none")
  /\ UNCHANGED <<rows, show, disk, upstream>>

(* A file is lost or corrupted behind the daemon's back. *)
Damage(p) ==
  /\ "damage" \in Faults
  /\ disk[p] # None
  /\ disk' = [disk EXCEPT ![p] = None]
     \/ \E c \in Contents \ {disk[p]} : disk' = [disk EXCEPT ![p] = c]
  /\ UNCHANGED <<rows, show, upstream, task, dl, snap>>

-----------------------------------------------------------------------------
SyncStep(a) ==
  \/ SyncStart(a) \/ ResetStale(a) \/ ListNotModified(a) \/ ListModified(a)
  \/ PollFailed(a) \/ ShowMeta(a) \/ Discover(a) \/ SetEtag(a)
  \/ StoredWindow(a) \/ Plan(a) \/ DownloadsDone(a) \/ RetentionRead(a)
  \/ PruneRemove(a) \/ PruneKeeps(a) \/ PruneMark(a) \/ SyncDone(a)
  \/ SyncStorageFails(a)

DownloadStep(a, i) ==
  \/ MarkDownloading(a, i) \/ Resolve(a, i) \/ Progress(a, i) \/ Fetch(a, i)
  \/ FetchFails(a, i) \/ MarkCached(a, i) \/ MarkFailed(a, i)
  \/ DownloadStorageFails(a, i)

VerifyStep(a) ==
  \/ VerifyStart(a) \/ VerifyDone(a) \/ \E i \in Ids : CheckFile(a, i)

Environment ==
  \/ UpstreamChanges
  \/ \E i \in Ids : ProgressAges(i)
  \/ \E a \in Actors : Crash(a)
  \/ \E p \in Paths : Damage(p)

Next ==
  \/ \E a \in Actors : SyncStep(a) \/ VerifyStep(a)
  \/ \E a \in Actors, i \in Ids : DownloadStep(a, i)
  \/ Environment

Spec == Init /\ [][Next]_vars

-----------------------------------------------------------------------------
(* Safety. *)

(* The actor that has removed the file of i and not yet marked the row. *)
BetweenRemoveAndMark(i) ==
  \E a \in Actors : task[a].pc = "mark" /\ i = Oldest(task[a].doomed)

(* Every cached episode is in the feed of its show, and its enclosure is   *)
(* served with the contents the row records (domain.rs: "Audio is on disk, *)
(* verified, and served in the feed").  The only gap is the prune in       *)
(* progress, which removes the file before it marks the row.               *)
CachedIntact ==
  Cached # {} =>
    /\ write_feed # None /\ ToSet(write_feed) = Cached
    /\ \A i \in Cached : \/ serve_media(rows[i].file) = rows[i].sum
                         \/ BetweenRemoveAndMark(i)

(* Whatever is killed when, a cached row never describes other contents    *)
(* than those of its file: at worst the file is gone.                      *)
CachedNeverWrong ==
  \A i \in Cached : rows[i].file # None /\ disk[rows[i].file] \in {rows[i].sum, None}

(* A stored etag is only sent when the rows of its listing are stored: an  *)
(* answer of 304 never hides an episode, also when fetch_last changes.     *)
EtagCoversListing == show.etag # None => ToSet(show.etag) \subseteq Stored

(* A row shows progress only while it is downloading (storage.rs: "a       *)
(* racing completion never gets stale progress written over it").          *)
ProgressOnlyWhileDownloading ==
  \A i \in Ids : rows[i].progress # "null" => rows[i].st = "downloading"

(* After apply_retention the cached episodes satisfy the policy. *)
RetentionHolds ==
  \A a \in Actors :
    (task[a].pc = "prune" /\ task[a].doomed = {}) =>
      plan(Policy[a], Candidates(NewestFirst(Cached))) = <<>>

(* A sync never prunes what it has just downloaded (lib.rs: "an episode    *)
(* that would be pruned immediately is never fetched").                    *)
NoChurn ==
  \A a \in Actors : task[a].pc = "prune" =>
    \A i \in task[a].doomed : dl[a][i].ph # "ok"

(* Every file of the media directory is named by a row or is about to be   *)
(* recorded: retention and verify can find it.                             *)
NoStrayFile ==
  \A p \in Paths : disk[p] # None =>
    \/ \E i \in Ids : rows[i].file = p
    \/ \E a \in Actors, i \in Ids : dl[a][i].ph \in {"fetched", "fail"}
                                    /\ dl[a][i].file = p

(* A cached row names a file and its size, so write_feed has an enclosure  *)
(* for it; a tombstone names no file but keeps the size the next plan      *)
(* projects (lib.rs: "recorded bytes where known - tombstones keep         *)
(* theirs").                                                               *)
RowsRecorded ==
  \A i \in Ids :
    /\ rows[i].st = "cached" => rows[i].file # None /\ rows[i].sum # None
    /\ rows[i].st = "pruned" => rows[i].file = None /\ rows[i].sum # None

(* Refinement: every row follows the lifecycle of EpisodeState and is      *)
(* never deleted, whatever the actors do.                                  *)
Life == INSTANCE EpisodeLifecycle WITH st <- [i \in Ids |-> rows[i].st]
FollowsLifecycle == Life!Spec

(* A cached episode leaves the feed for a new download only when its file  *)
(* is damaged (domain.rs: "Downloading out of Cached = re-fetch after a    *)
(* failed file verification").                                             *)
RedownloadOnlyDamaged ==
  [][\A i \in Ids : rows[i].st = "cached" /\ rows'[i].st = "downloading"
                    => ~Intact(rows[i])]_vars

(* After a 304 the window is the listing (lib.rs: "The listing is exactly  *)
(* what we saw last poll, so the stored rows (newest first) bounded by     *)
(* fetch_last are the window").                                            *)
StoredWindowIsListing ==
  \A a \in Actors : (task[a].pc = "plan" /\ task[a].listing = None) =>
    task[a].window = ToSet(task[a].etag)

-----------------------------------------------------------------------------
(* Liveness. *)

(* The scheduler polls for ever and every await returns (connect and read  *)
(* timeouts bound the requests); a request that is retried for ever is     *)
(* answered some time, and a daemon that is killed or whose database fails *)
(* again and again gets past its first storage call some time.             *)
Fairness ==
  /\ \A i \in Ids : WF_vars(ProgressAges(i))
  /\ \A a \in Actors :
       /\ SF_vars(SyncStart(a))
       /\ SF_vars(ResetStale(a))
       /\ WF_vars(SyncStep(a) /\ task[a].pc # "idle")
       /\ WF_vars(VerifyDone(a))
       /\ SF_vars(ListNotModified(a) \/ ListModified(a))
       /\ SF_vars(ShowMeta(a))
       /\ \A i \in Ids :
            /\ WF_vars(CheckFile(a, i))
            /\ WF_vars(MarkDownloading(a, i))
            /\ SF_vars(Resolve(a, i))
            /\ SF_vars(Fetch(a, i))
            /\ WF_vars(MarkCached(a, i))
            /\ WF_vars(MarkFailed(a, i))

FairSpec == Spec /\ Fairness

(* What healing rests on: syncs start again and again and some time get    *)
(* past their first storage call, and every await of a download returns.   *)
Attempt(a, i) ==
  MarkDownloading(a, i) \/ Resolve(a, i) \/ Fetch(a, i) \/ FetchFails(a, i)
  \/ MarkCached(a, i) \/ MarkFailed(a, i)

HealSpec ==
  /\ Spec
  /\ \A i \in Ids : WF_vars(ProgressAges(i))
  /\ \A a \in Actors :
       /\ SF_vars(SyncStart(a))
       /\ SF_vars(ResetStale(a))
       /\ WF_vars(SyncStep(a) /\ task[a].pc # "idle")
       /\ \A i \in Ids : WF_vars(Attempt(a, i))

(* A download never hangs in the table: whoever dies, and whichever        *)
(* storage call fails, the row leaves `downloading` again (lib.rs: "Heal   *)
(* dead `downloading` leftovers (crashed/killed process) into retryable    *)
(* failures").                                                             *)
NoStuckDownload ==
  \A i \in Ids : rows[i].st = "downloading" ~> rows[i].st # "downloading"

(* An operator runs `verify --fix` now and then. *)
VerifySpec == FairSpec /\ \A a \in Verifiers : SF_vars(VerifyStart(a))

(* A cached episode whose file was lost or corrupted does not stay in the  *)
(* feed: verify --fix takes it out and downloads it again (lib.rs:         *)
(* "damaged episodes are re-downloaded on the spot").                      *)
DamageRepaired ==
  \A i \in Ids :
    (i \in Cached /\ ~Intact(rows[i])) ~> (i \notin Cached \/ Intact(rows[i]))

(* Once upstream settles, what the policy keeps of its listing is cached   *)
(* and stays cached (lib.rs: failures are "retried on the next sync").     *)
Converges ==
  \A a \in Actors, L \in Listings :
    <>[](upstream = L) =>
      <>[](ToSet(split(Policy[a], Candidates(PageOf(a, L))).kept)
             \subseteq Cached)

=============================================================================
