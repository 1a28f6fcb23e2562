--------------------------- MODULE LibraryProofs ---------------------------
(***************************************************************************)
(* Theorems about Library, for every set of actors and episodes, every     *)
(* configuration and every combination of faults.                          *)
(***************************************************************************)
EXTENDS Library, TLAPS

-----------------------------------------------------------------------------
(* Lemmas about the storage operators and the local records. *)

(* Every statement of storage.rs turns a row into a row. *)
LEMMA RowTypes ==
  ASSUME NEW row \in Row, NEW file \in Paths \cup {None},
         NEW sum \in Contents \cup {None}
  PROVE  /\ discover(row) \in Row
         /\ mark_downloading(row) \in Row
         /\ set_progress(row) \in Row
         /\ mark_cached(row, file, sum) \in Row
         /\ mark_failed(row) \in Row
         /\ mark_pruned(row) \in Row
         /\ reset_stale(row) \in Row
         /\ [row EXCEPT !.progress = "old"] \in Row
<1> USE DEF Row, EpisodeStates, Ages
<1>1. discover(row) \in Row
  BY DEF discover, NoRow, Exists
<1>2. mark_downloading(row) \in Row
  BY DEF mark_downloading
<1>3. set_progress(row) \in Row
  BY DEF set_progress
<1>4. mark_cached(row, file, sum) \in Row
  BY DEF mark_cached
<1>5. mark_failed(row) \in Row /\ mark_pruned(row) \in Row
  BY DEF mark_failed, mark_pruned
<1>6. reset_stale(row) \in Row
  BY DEF reset_stale
<1>7. [row EXCEPT !.progress = "old"] \in Row
  OBVIOUS
<1> QED
  BY <1>1, <1>2, <1>3, <1>4, <1>5, <1>6, <1>7

(* The initial rows, futures, snapshots and tasks have their types. *)
LEMMA BlankTypes ==
  /\ NoRow \in Row
  /\ NoJob \in Job
  /\ NoFile \in File
  /\ \A result \in Results : Idle(result) \in Task
  BY DEF NoRow, Row, NoJob, Job, NoFile, File, Idle, Task, EpisodeStates,
         Ages, Phases, PCs, Results

(* A call that returns leaves typed tasks, futures and snapshots. *)
LEMMA ReturnType ==
  ASSUME TypeOK, NEW a \in Actors, NEW result \in Results, Return(a, result)
  PROVE  /\ task' \in [Actors -> Task]
         /\ dl' \in [Actors -> [Ids -> Job]]
         /\ snap' \in [Actors -> [Ids -> File]]
  BY BlankTypes DEF TypeOK, Return

(* What an actor holds is typed. *)
LEMMA TaskType ==
  ASSUME TypeOK, NEW a \in Actors
  PROVE  task[a] \in Task
  BY DEF TypeOK

(* So is the download of an episode it may be running. *)
LEMMA JobType ==
  ASSUME TypeOK, NEW a \in Actors, NEW i \in Ids
  PROVE  dl[a][i] \in Job
  BY DEF TypeOK

(* A task replaced by a typed one. *)
LEMMA TaskUpdate ==
  ASSUME TypeOK, NEW a \in Actors, NEW t \in Task,
         task' = [task EXCEPT ![a] = t]
  PROVE  task' \in [Actors -> Task]
  BY DEF TypeOK

(* A download that has a file name, or the contents fetched. *)
LEMMA JobFields ==
  ASSUME NEW j \in Job, NEW ph \in Phases, NEW file \in Paths \cup {None},
         NEW sum \in Contents \cup {None}
  PROVE  /\ [j EXCEPT !.ph = ph, !.file = file] \in Job
         /\ [j EXCEPT !.ph = ph, !.sum = sum] \in Job
<1>1. [j EXCEPT !.ph = ph, !.file = file] \in Job
  BY DEF Job
<1>2. [j EXCEPT !.ph = ph, !.sum = sum] \in Job
  BY DEF Job
<1> QED
  BY <1>1, <1>2

(* The same for a download. *)
LEMMA JobUpdate ==
  ASSUME TypeOK, NEW a \in Actors, NEW i \in Ids, NEW j \in Job,
         dl' = [dl EXCEPT ![a][i] = j]
  PROVE  dl' \in [Actors -> [Ids -> Job]]
<1>1. dl[a] \in [Ids -> Job]
  BY DEF TypeOK
<1>2. [dl[a] EXCEPT ![i] = j] \in [Ids -> Job]
  BY <1>1
<1> QED
  BY <1>2 DEF TypeOK

(* Moving a task forward keeps its type. *)
LEMMA GotoType ==
  ASSUME TypeOK, NEW a \in Actors, NEW pc \in PCs, Goto(a, pc)
  PROVE  task' \in [Actors -> Task]
<1>1. task[a] \in Task
  BY TaskType
<1>2. [task[a] EXCEPT !.pc = pc] \in Task
  BY <1>1 DEF Task
<1>3. task' = [task EXCEPT ![a] = [task[a] EXCEPT !.pc = pc]]
  BY DEF Goto
<1> QED
  BY <1>2, <1>3, TaskUpdate

(* Moving a download forward keeps its type. *)
LEMMA PhaseType ==
  ASSUME TypeOK, NEW a \in Actors, NEW i \in Ids, NEW ph \in Phases,
         Phase(a, i, ph)
  PROVE  dl' \in [Actors -> [Ids -> Job]]
<1>1. dl[a][i] \in Job
  BY DEF TypeOK
<1>2. [dl[a][i] EXCEPT !.ph = ph] \in Job
  BY <1>1 DEF Job
<1>3. dl' = [dl EXCEPT ![a][i] = [dl[a][i] EXCEPT !.ph = ph]]
  BY DEF Phase
<1> QED
  BY <1>2, <1>3, JobUpdate

-----------------------------------------------------------------------------
(* Type correctness. *)

(* Library::sync, outside the downloads. *)
LEMMA SyncStepType ==
  ASSUME TypeOK, NEW a \in Actors, SyncStep(a)
  PROVE  TypeOK'
<1> USE NoneAssumption, LibraryAssumption
<1>1. CASE SyncStart(a)
  BY <1>1, BlankTypes DEF SyncStart, TypeOK, Task, Idle, Show, PCs, Results
<1>2. CASE ResetStale(a)
  <2>1. rows' \in [Ids -> Row]
    BY <1>2, RowTypes DEF ResetStale, TypeOK
  <2>2. task' \in [Actors -> Task]
    BY <1>2, GotoType DEF ResetStale, PCs
  <2> QED
    BY <1>2, <2>1, <2>2 DEF ResetStale, TypeOK
<1>3. CASE ListNotModified(a)
  <2>1. task' \in [Actors -> Task]
    BY <1>3, GotoType DEF ListNotModified, PCs
  <2> QED
    BY <1>3, <2>1 DEF ListNotModified, TypeOK
<1>4. CASE ListModified(a)
  <2> DEFINE page == PageOf(a, upstream)
  <2>1. PICK etag \in {page, None} :
          task' = [task EXCEPT ![a] = [task[a] EXCEPT
                     !.pc = "show", !.etag = etag, !.listing = page]]
    BY <1>4 DEF ListModified
  <2>2. [task[a] EXCEPT !.pc = "show", !.etag = etag, !.listing = page]
          \in Task
    <3>1. page \in Pages /\ etag \in Pages \cup {None}
      BY DEF TypeOK, Pages
    <3> HIDE DEF page
    <3> QED
      BY <3>1, TaskType DEF Task, PCs
  <2> QED
    BY <1>4, <2>1, <2>2, TaskUpdate DEF ListModified, TypeOK
<1>5. CASE PollFailed(a)
  <2>1. show' \in Show
    BY <1>5 DEF PollFailed, record_poll, TypeOK, Show
  <2> QED
    BY <1>5, <2>1, ReturnType DEF PollFailed, TypeOK, Results
<1>6. CASE ShowMeta(a)
  <2>1. task' \in [Actors -> Task]
    BY <1>6, GotoType DEF ShowMeta, PCs
  <2> QED
    BY <1>6, <2>1 DEF ShowMeta, TypeOK, Show
<1>7. CASE Discover(a)
  <2>1. rows' \in [Ids -> Row]
    BY <1>7, RowTypes DEF Discover, TypeOK
  <2>2. task' \in [Actors -> Task]
    BY <1>7, GotoType DEF Discover, PCs
  <2> QED
    BY <1>7, <2>1, <2>2 DEF Discover, TypeOK
<1>8. CASE SetEtag(a)
  <2>1. task' \in [Actors -> Task]
    BY <1>8, GotoType DEF SetEtag, PCs
  <2>2. show' \in Show
    BY <1>8 DEF SetEtag, TypeOK, Show, Task
  <2> QED
    BY <1>8, <2>1, <2>2 DEF SetEtag, TypeOK
<1>9. CASE StoredWindow(a)
  <2> DEFINE w == Stored \cap ToSet(take(Limit[a], NewestFirst(Stored)))
  <2>1. w \in SUBSET Ids
    BY DEF Stored
  <2>2. [task[a] EXCEPT !.pc = "plan", !.window = w] \in Task
    <3> HIDE DEF w
    <3> QED
      BY <2>1, TaskType DEF Task, PCs
  <2>3. task' = [task EXCEPT ![a] = [task[a] EXCEPT !.pc = "plan",
                                                    !.window = w]]
    BY <1>9 DEF StoredWindow
  <2>4. task' \in [Actors -> Task]
    BY <2>2, <2>3, TaskUpdate
  <2> QED
    BY <1>9, <2>4 DEF StoredWindow, TypeOK
<1>10. CASE Plan(a)
  <2>1. task' \in [Actors -> Task]
    BY <1>10, GotoType DEF Plan, PCs
  <2>2. dl' \in [Actors -> [Ids -> Job]]
    <3>1. [NoJob EXCEPT !.ph = "queued"] \in Job
      BY BlankTypes DEF Job, Phases
    <3> QED
      BY <1>10, <3>1, BlankTypes DEF Plan, TypeOK
  <2> QED
    BY <1>10, <2>1, <2>2 DEF Plan, TypeOK
<1>11. CASE DownloadsDone(a)
  <2>1. task' \in [Actors -> Task]
    BY <1>11, GotoType DEF DownloadsDone, PCs
  <2> QED
    BY <1>11, <2>1 DEF DownloadsDone, TypeOK
<1>12. CASE RetentionRead(a)
  <2>1. CachedFiles \in [Ids -> File]
    BY BlankTypes DEF CachedFiles, TypeOK, File, Row
  <2> DEFINE d == Cached \cap
                    ToSet(plan(Policy[a], Candidates(NewestFirst(Cached))))
  <2>2. d \in SUBSET Ids
    BY DEF Cached
  <2>3. [task[a] EXCEPT !.pc = "prune", !.doomed = d] \in Task
    <3> HIDE DEF d
    <3> QED
      BY <2>2, TaskType DEF Task, PCs
  <2>4. task' = [task EXCEPT ![a] = [task[a] EXCEPT !.pc = "prune",
                                                    !.doomed = d]]
    BY <1>12 DEF RetentionRead
  <2>5. task' \in [Actors -> Task]
    BY <2>3, <2>4, TaskUpdate
  <2> QED
    BY <1>12, <2>1, <2>5 DEF RetentionRead, TypeOK
<1>13. CASE PruneRemove(a)
  <2>1. task' \in [Actors -> Task]
    BY <1>13, GotoType DEF PruneRemove, PCs
  <2>2. disk' \in [Paths -> Contents \cup {None}]
    BY <1>13 DEF PruneRemove, TypeOK
  <2> QED
    BY <1>13, <2>1, <2>2 DEF PruneRemove, TypeOK
<1>14. CASE PruneKeeps(a)
  <2> DEFINE t == [task[a] EXCEPT
                     !.doomed = task[a].doomed \ {Oldest(task[a].doomed)}]
  <2>1. t \in Task
    <3> DEFINE d == task[a].doomed \ {Oldest(task[a].doomed)}
    <3>1. d \in SUBSET Ids
      BY TaskType DEF Task
    <3> HIDE DEF d
    <3>2. [task[a] EXCEPT !.doomed = d] \in Task
      BY <3>1, TaskType DEF Task
    <3> QED
      BY <3>2 DEF d
  <2>2. task' = [task EXCEPT ![a] = t]
    BY <1>14 DEF PruneKeeps
  <2> QED
    BY <1>14, <2>1, <2>2, TaskUpdate DEF PruneKeeps, TypeOK
<1>15. CASE PruneMark(a)
  <2> DEFINE i == Oldest(task[a].doomed)
  <2>1. CASE can_transition_to(rows[i].st, "pruned")
    <3>1. rows' = [rows EXCEPT ![i] = mark_pruned(@)]
      BY <1>15, <2>1 DEF PruneMark
    <3>2. rows' \in [Ids -> Row]
      BY <3>1, RowTypes DEF TypeOK
    <3> DEFINE t == [task[a] EXCEPT !.pc = "prune",
                                    !.doomed = task[a].doomed \ {i}]
    <3>3. t \in Task
      <4>1. task[a].doomed \ {i} \in SUBSET Ids
        BY TaskType DEF Task
      <4> HIDE DEF i
      <4> QED
        BY <4>1, TaskType DEF Task, PCs
    <3>5. task' = [task EXCEPT ![a] = t]
      BY <1>15, <2>1 DEF PruneMark
    <3>4. task' \in [Actors -> Task]
      BY <3>3, <3>5, TaskUpdate
    <3> QED
      BY <1>15, <2>1, <3>2, <3>4 DEF PruneMark, TypeOK
  <2>2. CASE ~can_transition_to(rows[i].st, "pruned")
    BY <1>15, <2>2, ReturnType DEF PruneMark, TypeOK, Results
  <2> QED
    BY <2>1, <2>2
<1>16. CASE SyncDone(a)
  <2>1. show' \in Show
    BY <1>16 DEF SyncDone, record_poll, TypeOK, Show
  <2> QED
    BY <1>16, <2>1, ReturnType DEF SyncDone, TypeOK, Results
<1>17. CASE SyncStorageFails(a)
  BY <1>17, ReturnType DEF SyncStorageFails, TypeOK, Results
<1> QED
  BY <1>1, <1>2, <1>3, <1>4, <1>5, <1>6, <1>7, <1>8, <1>9, <1>10, <1>11,
     <1>12, <1>13, <1>14, <1>15, <1>16, <1>17 DEF SyncStep

(* download_episode. *)
LEMMA DownloadStepType ==
  ASSUME TypeOK, NEW a \in Actors, NEW i \in Ids, DownloadStep(a, i)
  PROVE  TypeOK'
<1>0. dl[a][i] \in Job
  BY JobType
<1>1. CASE MarkDownloading(a, i)
  <2>0. mark_downloading(rows[i]) \in Row
    BY RowTypes DEF TypeOK
  <2>1. rows' \in [Ids -> Row]
    BY <1>1, <2>0 DEF MarkDownloading, TypeOK
  <2>2. dl' \in [Actors -> [Ids -> Job]]
    BY <1>1, PhaseType DEF MarkDownloading, Phases
  <2> QED
    BY <1>1, <2>1, <2>2 DEF MarkDownloading, TypeOK
<1>2. CASE Resolve(a, i)
  <2>1. PICK ext \in Exts :
          dl' = [dl EXCEPT ![a][i] = [dl[a][i] EXCEPT
                   !.ph = "fetch", !.file = media_path(i, ext)]]
    BY <1>2 DEF Resolve
  <2>2. media_path(i, ext) \in Paths \cup {None} /\ "fetch" \in Phases
    BY LibraryAssumption DEF Phases
  <2>4. [dl[a][i] EXCEPT !.ph = "fetch", !.file = media_path(i, ext)] \in Job
    BY <1>0, <2>2, JobFields
  <2>3. dl' \in [Actors -> [Ids -> Job]]
    BY <2>1, <2>4, JobUpdate
  <2> QED
    BY <1>2, <2>3 DEF Resolve, TypeOK
<1>3. CASE Progress(a, i)
  BY <1>3, RowTypes DEF Progress, TypeOK
<1>4. CASE Fetch(a, i)
  <2>0. disk \in [Paths -> Contents \cup {None}]
    BY DEF TypeOK
  <2>1. PICK c \in Contents :
          /\ disk' = [disk EXCEPT ![dl[a][i].file] = c]
          /\ dl' = [dl EXCEPT ![a][i] = [@ EXCEPT !.ph = "fetched", !.sum = c]]
    BY <1>4, Zenon DEF Fetch
  <2>2. [dl[a][i] EXCEPT !.ph = "fetched", !.sum = c] \in Job
    BY <1>0, JobFields DEF Phases
  <2>3. dl' \in [Actors -> [Ids -> Job]]
    BY <2>1, <2>2, JobUpdate
  <2>4. disk' \in [Paths -> Contents \cup {None}]
    BY <2>0, <2>1
  <2> QED
    BY <1>4, <2>3, <2>4 DEF Fetch, TypeOK
<1>5. CASE FetchFails(a, i)
  BY <1>5, PhaseType DEF FetchFails, TypeOK, Phases
<1>6. CASE MarkCached(a, i)
  <2>0. /\ rows[i] \in Row
        /\ dl[a][i].file \in Paths \cup {None}
        /\ dl[a][i].sum \in Contents \cup {None}
    BY DEF TypeOK, Job
  <2>3. mark_cached(rows[i], dl[a][i].file, dl[a][i].sum) \in Row
    BY <2>0, RowTypes
  <2>1. rows' \in [Ids -> Row]
    BY <1>6, <2>3 DEF MarkCached, TypeOK
  <2>2. dl' \in [Actors -> [Ids -> Job]]
    BY <1>6, PhaseType DEF MarkCached, Phases
  <2> QED
    BY <1>6, <2>1, <2>2 DEF MarkCached, TypeOK
<1>7. CASE MarkFailed(a, i)
  <2>1. rows' \in [Ids -> Row]
    BY <1>7, RowTypes DEF MarkFailed, TypeOK
  <2>2. dl' \in [Actors -> [Ids -> Job]]
    BY <1>7, PhaseType DEF MarkFailed, Phases
  <2> QED
    BY <1>7, <2>1, <2>2 DEF MarkFailed, TypeOK
<1>8. CASE DownloadStorageFails(a, i)
  BY <1>8, PhaseType DEF DownloadStorageFails, TypeOK, Phases
<1> QED
  BY <1>1, <1>2, <1>3, <1>4, <1>5, <1>6, <1>7, <1>8 DEF DownloadStep

(* Library::verify. *)
LEMMA VerifyStepType ==
  ASSUME TypeOK, NEW a \in Actors, VerifyStep(a)
  PROVE  TypeOK'
<1>1. CASE VerifyStart(a)
  <2>1. CachedFiles \in [Ids -> File]
    BY BlankTypes DEF CachedFiles, TypeOK, File, Row
  <2>2. [NoJob EXCEPT !.ph = "check"] \in Job
    BY BlankTypes DEF Job, Phases
  <2>3. [Idle("none") EXCEPT !.pc = "verify"] \in Task
    BY BlankTypes DEF Task, PCs, Results
  <2> QED
    BY <1>1, <2>1, <2>2, <2>3, BlankTypes DEF VerifyStart, TypeOK
<1>2. CASE VerifyDone(a)
  BY <1>2, ReturnType DEF VerifyDone, TypeOK, Results
<1>3. ASSUME NEW i \in Ids, CheckFile(a, i) PROVE TypeOK'
  BY <1>3, PhaseType DEF CheckFile, TypeOK, Phases
<1> QED
  BY <1>1, <1>2, <1>3 DEF VerifyStep

(* Upstream, the clock, crashes and damage. *)
LEMMA EnvironmentType ==
  ASSUME TypeOK, Environment
  PROVE  TypeOK'
<1>1. CASE UpstreamChanges
  BY <1>1, LibraryAssumption DEF UpstreamChanges, TypeOK
<1>2. ASSUME NEW i \in Ids, ProgressAges(i) PROVE TypeOK'
  <2>1. rows' = [rows EXCEPT ![i] = [@ EXCEPT !.progress = "old"]]
    BY <1>2 DEF ProgressAges
  <2>2. rows' \in [Ids -> Row]
    BY <2>1 DEF TypeOK, Row, Ages
  <2> QED
    BY <1>2, <2>2 DEF ProgressAges, TypeOK
<1>3. ASSUME NEW a \in Actors, Crash(a) PROVE TypeOK'
  BY <1>3, ReturnType DEF Crash, TypeOK, Results
<1>4. ASSUME NEW p \in Paths, Damage(p) PROVE TypeOK'
  BY <1>4 DEF Damage, TypeOK
<1> QED
  BY <1>1, <1>2, <1>3, <1>4 DEF Environment

(* The state of the engine keeps its type: in particular no storage call,  *)
(* retry or race puts a row into a state decode_state would reject.        *)
THEOREM TypeCorrect == Spec => []TypeOK
<1>1. Init => TypeOK
  BY BlankTypes, NoneAssumption DEF Init, TypeOK, Show, Results
<1>2. TypeOK /\ [Next]_vars => TypeOK'
  <2> SUFFICES ASSUME TypeOK, [Next]_vars PROVE TypeOK'
    OBVIOUS
  <2>1. CASE UNCHANGED vars
    BY <2>1 DEF TypeOK, vars
  <2>2. CASE Next
    BY <2>2, SyncStepType, DownloadStepType, VerifyStepType, EnvironmentType
    DEF Next
  <2> QED
    BY <2>1, <2>2
<1> QED
  BY <1>1, <1>2, PTL DEF Spec

-----------------------------------------------------------------------------
(* What a download step leaves alone. *)
LEMMA DownloadFrame ==
  ASSUME NEW a \in Actors, NEW i \in Ids, DownloadStep(a, i)
  PROVE  UNCHANGED <<show, upstream, task, snap>>
<1>1. CASE MarkDownloading(a, i)
  BY <1>1 DEF MarkDownloading
<1>2. CASE Resolve(a, i)
  BY <1>2 DEF Resolve
<1>3. CASE Progress(a, i)
  BY <1>3 DEF Progress
<1>4. CASE Fetch(a, i)
  BY <1>4 DEF Fetch
<1>5. CASE FetchFails(a, i)
  BY <1>5 DEF FetchFails
<1>6. CASE MarkCached(a, i)
  BY <1>6 DEF MarkCached
<1>7. CASE MarkFailed(a, i)
  BY <1>7 DEF MarkFailed
<1>8. CASE DownloadStorageFails(a, i)
  BY <1>8 DEF DownloadStorageFails
<1> QED
  BY <1>1, <1>2, <1>3, <1>4, <1>5, <1>6, <1>7, <1>8 DEF DownloadStep

-----------------------------------------------------------------------------
(* What one step can do to one row. *)

(* A row is left alone, or one of the storage calls has run on it. *)
RowStep(i) ==
  LET r == rows[i]
      s == rows'[i]
  IN \/ s = r
     \/ s = discover(r)
     \/ can_transition_to(r.st, "downloading") /\ s = mark_downloading(r)
     \/ s = set_progress(r)
     \/ \E a \in Actors :
          /\ dl[a][i].ph = "fetched"
          /\ can_transition_to(r.st, "cached")
          /\ s = mark_cached(r, dl[a][i].file, dl[a][i].sum)
     \/ can_transition_to(r.st, "failed") /\ s = mark_failed(r)
     \/ can_transition_to(r.st, "pruned") /\ s = mark_pruned(r)
     \/ s = reset_stale(r)
     \/ r.progress = "recent" /\ s = [r EXCEPT !.progress = "old"]

(* A statement on one row leaves the others alone. *)
LEMMA OtherRow ==
  ASSUME rows \in [Ids -> Row], NEW i \in Ids, NEW j, NEW r, i # j,
         rows' = [rows EXCEPT ![j] = r]
  PROVE  rows'[i] = rows[i]
  OBVIOUS

(* Every step of the engine and its environment is such a step for every   *)
(* episode.                                                                *)
LEMMA RowSteps ==
  ASSUME TypeOK, [Next]_vars, NEW i \in Ids
  PROVE  RowStep(i)
<1>0. rows \in [Ids -> Row]
  BY DEF TypeOK
<1>1. CASE UNCHANGED rows
  BY <1>1 DEF RowStep
<1>2. ASSUME NEW a \in Actors, SyncStep(a), rows' # rows PROVE RowStep(i)
  <2>1. CASE ResetStale(a)
    BY <2>1 DEF ResetStale, RowStep
  <2>2. CASE Discover(a)
    BY <2>2 DEF Discover, RowStep
  <2>3. CASE PruneMark(a)
    <3> DEFINE j == Oldest(task[a].doomed)
    <3>1. /\ can_transition_to(rows[j].st, "pruned")
          /\ rows' = [rows EXCEPT ![j] = mark_pruned(rows[j])]
      BY <1>2, <2>3 DEF PruneMark
    <3> HIDE DEF j
    <3>2. CASE i = j
      <4>1. /\ rows'[i] = mark_pruned(rows[i])
            /\ can_transition_to(rows[i].st, "pruned")
        BY <1>0, <3>1, <3>2
      <4> QED
        BY <4>1 DEF RowStep
    <3>3. CASE i # j
      <4>1. rows'[i] = rows[i]
        BY <1>0, <3>1, <3>3, OtherRow, Zenon
      <4> QED
        BY <4>1 DEF RowStep
    <3> QED
      BY <3>2, <3>3
  <2> QED
    BY <1>2, <2>1, <2>2, <2>3
    DEF SyncStep, SyncStart, ListNotModified, ListModified, PollFailed,
        ShowMeta, SetEtag, StoredWindow, Plan, DownloadsDone, RetentionRead,
        PruneRemove, PruneKeeps, SyncDone, SyncStorageFails
<1>3. ASSUME NEW a \in Actors, NEW j \in Ids, DownloadStep(a, j), rows' # rows
      PROVE RowStep(i)
  <2>1. CASE MarkDownloading(a, j)
    <3>1. CASE i = j
      <4>1. /\ rows'[i] = mark_downloading(rows[i])
          /\ can_transition_to(rows[i].st, "downloading")
        BY <1>0, <1>3, <2>1, <3>1 DEF MarkDownloading
      <4> QED
        BY <4>1 DEF RowStep
    <3>2. CASE i # j
      <4>1. rows'[i] = rows[i]
        BY <1>0, <1>3, <2>1, <3>2 DEF MarkDownloading
      <4> QED
        BY <4>1 DEF RowStep
    <3> QED
      BY <3>1, <3>2
  <2>2. CASE Progress(a, j)
    <3>1. CASE i = j
      <4>1. /\ rows'[i] = set_progress(rows[i])
        BY <1>0, <1>3, <2>2, <3>1 DEF Progress
      <4> QED
        BY <4>1 DEF RowStep
    <3>2. CASE i # j
      <4>1. rows'[i] = rows[i]
        BY <1>0, <1>3, <2>2, <3>2 DEF Progress
      <4> QED
        BY <4>1 DEF RowStep
    <3> QED
      BY <3>1, <3>2
  <2>3. CASE MarkCached(a, j)
    <3>1. CASE i = j
      <4>1. /\ rows'[i] = mark_cached(rows[i], dl[a][i].file, dl[a][i].sum)
          /\ can_transition_to(rows[i].st, "cached") /\ dl[a][i].ph = "fetched"
        BY <1>0, <1>3, <2>3, <3>1 DEF MarkCached
      <4> QED
        BY <4>1 DEF RowStep
    <3>2. CASE i # j
      <4>1. rows'[i] = rows[i]
        BY <1>0, <1>3, <2>3, <3>2 DEF MarkCached
      <4> QED
        BY <4>1 DEF RowStep
    <3> QED
      BY <3>1, <3>2
  <2>4. CASE MarkFailed(a, j)
    <3>1. CASE i = j
      <4>1. /\ rows'[i] = mark_failed(rows[i])
          /\ can_transition_to(rows[i].st, "failed")
        BY <1>0, <1>3, <2>4, <3>1 DEF MarkFailed
      <4> QED
        BY <4>1 DEF RowStep
    <3>2. CASE i # j
      <4>1. rows'[i] = rows[i]
        BY <1>0, <1>3, <2>4, <3>2 DEF MarkFailed
      <4> QED
        BY <4>1 DEF RowStep
    <3> QED
      BY <3>1, <3>2
  <2> QED
    BY <1>3, <2>1, <2>2, <2>3, <2>4
    DEF DownloadStep, Resolve, Fetch, FetchFails, DownloadStorageFails
<1>4. ASSUME NEW a \in Actors, VerifyStep(a) PROVE rows' = rows
  BY <1>4 DEF VerifyStep, VerifyStart, VerifyDone, CheckFile
<1>5. ASSUME Environment, rows' # rows PROVE RowStep(i)
  <2>1. PICK j \in Ids : ProgressAges(j)
    BY <1>5 DEF Environment, UpstreamChanges, Crash, Damage
  <2>2. /\ rows[j].progress = "recent"
        /\ rows' = [rows EXCEPT ![j] = [rows[j] EXCEPT !.progress = "old"]]
    BY <2>1 DEF ProgressAges
  <2>3. CASE i = j
    <3>1. rows'[i] = [rows[i] EXCEPT !.progress = "old"]
      BY <1>0, <2>2, <2>3
    <3> QED
      BY <2>2, <2>3, <3>1 DEF RowStep
  <2>4. CASE i # j
    <3>1. rows'[i] = rows[i]
      BY <1>0, <2>2, <2>4
    <3> QED
      BY <3>1 DEF RowStep
  <2> QED
    BY <2>3, <2>4
<1>6. CASE UNCHANGED vars
  BY <1>1, <1>6 DEF vars
<1> QED
  BY <1>1, <1>2, <1>3, <1>4, <1>5, <1>6 DEF Next

(* A lifecycle edge, or none. *)
Edge(from, to) ==
  \/ from = to
  \/ from = "absent" /\ to = "discovered"
  \/ can_transition_to(from, to)

(* Each such step follows an edge of the lifecycle, and keeps progress to  *)
(* downloading rows.                                                       *)
LEMMA RowStepEffect ==
  ASSUME NEW i \in Ids, rows[i] \in Row, RowStep(i)
  PROVE  /\ Edge(rows[i].st, rows'[i].st)
         /\ (rows[i].progress # "null" => rows[i].st = "downloading")
              => (rows'[i].progress # "null" => rows'[i].st = "downloading")
<1> USE DEF Edge, Row, can_transition_to
<1>1. CASE rows'[i] = rows[i]
  BY <1>1
<1>2. CASE rows'[i] = discover(rows[i])
  BY <1>2 DEF discover, NoRow, Exists
<1>3. CASE /\ can_transition_to(rows[i].st, "downloading")
           /\ rows'[i] = mark_downloading(rows[i])
  BY <1>3 DEF mark_downloading
<1>4. CASE rows'[i] = set_progress(rows[i])
  BY <1>4 DEF set_progress
<1>5. CASE \E f, s : /\ can_transition_to(rows[i].st, "cached")
                     /\ rows'[i] = mark_cached(rows[i], f, s)
  BY <1>5 DEF mark_cached
<1>6. CASE /\ can_transition_to(rows[i].st, "failed")
           /\ rows'[i] = mark_failed(rows[i])
  BY <1>6 DEF mark_failed
<1>7. CASE /\ can_transition_to(rows[i].st, "pruned")
           /\ rows'[i] = mark_pruned(rows[i])
  BY <1>7 DEF mark_pruned
<1>8. CASE rows'[i] = reset_stale(rows[i])
  BY <1>8 DEF reset_stale
<1>9. CASE /\ rows[i].progress = "recent"
           /\ rows'[i] = [rows[i] EXCEPT !.progress = "old"]
  BY <1>9
<1> HIDE DEF Edge, Row, can_transition_to
<1> QED
  BY <1>1, <1>2, <1>3, <1>4, <1>5, <1>6, <1>7, <1>8, <1>9 DEF RowStep

(* The two together: what any step of the system does to a row. *)
LEMMA RowsMove ==
  ASSUME TypeOK, [Next]_vars, NEW i \in Ids
  PROVE  /\ Edge(rows[i].st, rows'[i].st)
         /\ (rows[i].progress # "null" => rows[i].st = "downloading")
              => (rows'[i].progress # "null" => rows'[i].st = "downloading")
<1>1. rows[i] \in Row /\ RowStep(i)
  BY RowSteps DEF TypeOK
<1> QED
  BY <1>1, RowStepEffect

(* A row that exists goes on existing. *)
LEMMA StoredGrows ==
  ASSUME TypeOK, [Next]_vars
  PROVE  Stored \subseteq Stored'
<1>1. SUFFICES ASSUME NEW i \in Ids, Exists(rows[i]) PROVE Exists(rows'[i])
  BY DEF Stored
<1> QED
  BY <1>1, RowsMove DEF Edge, Exists, can_transition_to

-----------------------------------------------------------------------------
(* Progress is shown only by downloading rows. *)
THEOREM ProgressInvariant == Spec => []ProgressOnlyWhileDownloading
<1>1. Init => ProgressOnlyWhileDownloading
  BY DEF Init, ProgressOnlyWhileDownloading, NoRow
<1>2. TypeOK /\ ProgressOnlyWhileDownloading /\ [Next]_vars
        => ProgressOnlyWhileDownloading'
  BY RowsMove DEF ProgressOnlyWhileDownloading
<1> QED
  BY <1>1, <1>2, TypeCorrect, PTL DEF Spec

(* Every row follows the lifecycle of EpisodeState: the engine implements  *)
(* EpisodeLifecycle, with any number of actors and any failures.           *)
THEOREM LifecycleRefinement == Spec => FollowsLifecycle
<1> DEFINE st == [i \in Ids |-> rows[i].st]
<1>1. Init => Life!Init
  BY DEF Init, Life!Init, NoRow
<1>2. TypeOK /\ TypeOK' /\ [Next]_vars => [Life!Next]_st
  <2> SUFFICES ASSUME TypeOK, TypeOK', [Next]_vars PROVE Life!Next
    OBVIOUS
  <2>1. \A i \in Ids : Edge(rows[i].st, rows'[i].st)
    BY RowsMove
  <2>2. \A i \in Ids : rows'[i].st \in EpisodeStates
    BY DEF TypeOK, Row
  <2> QED
    BY <2>1, <2>2
    DEF Edge, can_transition_to, EpisodeStates, Life!Next, Life!Discover,
        Life!Download, Life!Finish, Life!Prune, Life!Stay
<1> QED
  BY <1>1, <1>2, TypeCorrect, PTL DEF Spec, FollowsLifecycle, Life!Spec

-----------------------------------------------------------------------------
(* The stored etag. *)

(* A page lists episodes. *)
LEMMA PageIds ==
  ASSUME NEW page \in Pages
  PROVE  page # None /\ ToSet(page) \subseteq Ids
<1>1. PICK a \in Actors, L \in Listings : page = PageOf(a, L)
  BY DEF Pages
<1>2. PICK limit \in SUBSET Nat : page = take(limit, L)
  BY <1>1, LibraryAssumption DEF PageOf, Or
<1>3. L \in Seq(Ids)
  BY LibraryAssumption
<1>4. page \in Seq(Ids)
  <2>1. CASE \E n \in limit : n < Len(L)
    <3> DEFINE n == CHOOSE n \in limit : n < Len(L)
    <3>1. n \in Nat /\ n < Len(L)
      BY <1>2, <2>1
    <3> HIDE DEF n
    <3>2. SubSeq(L, 1, n) \in Seq(Ids)
      BY <1>3, <3>1
    <3> QED
      BY <1>2, <2>1, <3>2 DEF take, n
  <2>2. CASE ~\E n \in limit : n < Len(L)
    BY <1>2, <1>3, <2>2 DEF take
  <2> QED
    BY <2>1, <2>2
<1> QED
  BY <1>4, LibraryAssumption DEF ToSet

(* Between the answer and set_episodes_etag an actor holds the page its    *)
(* etag belongs to, and once discover has run its episodes are stored.     *)
Listing(a) == task[a].pc \in {"show", "discover", "etag"}

EtagInv ==
  /\ EtagCoversListing
  /\ \A a \in Actors :
       /\ Listing(a) => /\ task[a].listing \in Pages
                        /\ task[a].etag \in {task[a].listing, None}
       /\ task[a].pc = "etag" => ToSet(task[a].listing) \subseteq Stored

(* What a step can do to the listing an actor holds. *)
LEMMA ListingSteps ==
  ASSUME TypeOK, [Next]_vars, NEW a \in Actors
  PROVE  \/ task'[a] = task[a]
         \/ ~Listing(a)'
         \/ ListModified(a)
         \/ ShowMeta(a)
         \/ Discover(a)
<1> USE DEF Listing
<1>0. task \in [Actors -> Task]
  BY DEF TypeOK
<1>1. ASSUME NEW b \in Actors, SyncStep(b), ~ListModified(b), ~ShowMeta(b),
             ~Discover(b)
      PROVE  task'[a] = task[a] \/ ~Listing(a)'
  <2>0. CASE SyncStart(b)
    BY <1>0, <2>0 DEF SyncStart, Idle
  <2>1. CASE ResetStale(b) \/ ListNotModified(b)
    BY <1>0, <2>1 DEF ResetStale, ListNotModified, Goto, Task
  <2>2. CASE PollFailed(b) \/ SyncDone(b) \/ SyncStorageFails(b)
    BY <1>0, <2>2
    DEF PollFailed, SyncDone, SyncStorageFails, Return, Idle
  <2>3. CASE SetEtag(b) \/ StoredWindow(b) \/ Plan(b) \/ DownloadsDone(b)
    BY <1>0, <2>3
    DEF SetEtag, StoredWindow, Plan, DownloadsDone, Goto, Task
  <2>4. CASE RetentionRead(b) \/ PruneRemove(b)
    BY <1>0, <2>4 DEF RetentionRead, PruneRemove, Goto, Task
  <2>5. CASE PruneKeeps(b)
    BY <1>0, <2>5 DEF PruneKeeps, Task
  <2>6. CASE PruneMark(b)
    <3> DEFINE j == Oldest(task[b].doomed)
               t == [task[b] EXCEPT !.pc = "prune",
                                    !.doomed = task[b].doomed \ {j}]
    <3>1. task' = [task EXCEPT ![b] = t] \/ Return(b, "illegal")
      BY <2>6 DEF PruneMark
    <3>2. t.pc = "prune"
      BY TaskType DEF Task
    <3> HIDE DEF t
    <3> QED
      BY <1>0, <3>1, <3>2 DEF Return, Idle
  <2> QED
    BY <1>1, <2>0, <2>1, <2>2, <2>3, <2>4, <2>5, <2>6 DEF SyncStep
<1>2. ASSUME NEW b \in Actors, ListModified(b) \/ ShowMeta(b) \/ Discover(b),
             b # a
      PROVE  task'[a] = task[a]
  BY <1>0, <1>2 DEF ListModified, ShowMeta, Discover, Goto
<1>3. ASSUME NEW b \in Actors, VerifyStep(b)
      PROVE  task'[a] = task[a] \/ ~Listing(a)'
  BY <1>0, <1>3
  DEF VerifyStep, VerifyStart, VerifyDone, CheckFile, Return, Idle, Task
<1>4. ASSUME NEW b \in Actors, NEW i \in Ids, DownloadStep(b, i)
      PROVE  task' = task
  BY <1>4, DownloadFrame
<1>5. ASSUME Environment
      PROVE  task'[a] = task[a] \/ ~Listing(a)'
  BY <1>0, <1>5
  DEF Environment, UpstreamChanges, ProgressAges, Crash, Damage, Return, Idle
<1>6. CASE UNCHANGED vars
  BY <1>6 DEF vars
<1>7. CASE Next
  <2>1. CASE \E b \in Actors : SyncStep(b)
    BY <1>1, <1>2, <2>1
  <2> QED
    BY <1>3, <1>4, <1>5, <1>7, <2>1 DEF Next
<1> QED
  BY <1>6, <1>7

(* The stored etag changes only by set_episodes_etag. *)
LEMMA EtagSteps ==
  ASSUME TypeOK, [Next]_vars
  PROVE  \/ show'.etag = show.etag
         \/ \E a \in Actors : task[a].pc = "etag" /\ show'.etag = task[a].etag
<1>1. ASSUME NEW a \in Actors, SyncStep(a), show' # show
      PROVE  \/ show'.etag = show.etag
             \/ task[a].pc = "etag" /\ show'.etag = task[a].etag
  <2>0. show \in Show
    BY DEF TypeOK
  <2>1. CASE PollFailed(a) \/ SyncDone(a)
    BY <2>0, <2>1 DEF PollFailed, SyncDone, record_poll, Show
  <2>2. CASE ShowMeta(a)
    BY <2>0, <2>2 DEF ShowMeta, Show
  <2>3. CASE SetEtag(a)
    BY <2>0, <2>3 DEF SetEtag, Show
  <2> QED
    BY <1>1, <2>1, <2>2, <2>3
    DEF SyncStep, SyncStart, ResetStale, ListNotModified, ListModified,
        Discover, StoredWindow, Plan, DownloadsDone, RetentionRead,
        PruneRemove, PruneKeeps, PruneMark, SyncStorageFails
<1>2. ASSUME NEW a \in Actors, VerifyStep(a) PROVE show' = show
  BY <1>2 DEF VerifyStep, VerifyStart, VerifyDone, CheckFile
<1>3. ASSUME NEW a \in Actors, NEW i \in Ids, DownloadStep(a, i)
      PROVE  show' = show
  BY <1>3, DownloadFrame
<1>4. ASSUME Environment PROVE show' = show
  BY <1>4 DEF Environment, UpstreamChanges, ProgressAges, Crash, Damage
<1> QED
  BY <1>1, <1>2, <1>3, <1>4 DEF Next, vars

(* discover stores every episode of the page. *)
LEMMA DiscoverStores ==
  ASSUME TypeOK, NEW a \in Actors, Discover(a), task[a].listing \in Pages
  PROVE  ToSet(task[a].listing) \subseteq Stored'
<1>1. SUFFICES ASSUME NEW i \in ToSet(task[a].listing)
               PROVE  i \in Stored'
  OBVIOUS
<1>2. i \in Ids
  BY <1>1, PageIds
<1>3. rows'[i] = discover(rows[i])
  BY <1>1, <1>2 DEF Discover
<1>4. Exists(rows'[i])
  BY <1>2, <1>3 DEF TypeOK, Row, Exists, discover, NoRow
<1> QED
  BY <1>2, <1>4 DEF Stored

(* An etag is stored only when the episodes of its listing are: a 304      *)
(* never hides an episode, whoever polls and whatever fails.               *)
THEOREM EtagInvariant == Spec => []EtagCoversListing
<1>1. Init => EtagInv
  BY DEF Init, EtagInv, EtagCoversListing, Listing, Idle
<1>2. TypeOK /\ EtagInv /\ [Next]_vars => EtagInv'
  <2> SUFFICES ASSUME TypeOK, EtagInv, [Next]_vars PROVE EtagInv'
    OBVIOUS
  <2>0. Stored \subseteq Stored'
    BY StoredGrows
  <2>1. EtagCoversListing'
    <3> SUFFICES ASSUME show'.etag # None
                 PROVE  ToSet(show'.etag) \subseteq Stored'
      BY DEF EtagCoversListing
    <3>1. CASE show'.etag = show.etag
      BY <2>0, <3>1 DEF EtagInv, EtagCoversListing
    <3>2. ASSUME NEW a \in Actors, task[a].pc = "etag",
                 show'.etag = task[a].etag
          PROVE  ToSet(show'.etag) \subseteq Stored'
      BY <2>0, <3>2 DEF EtagInv, Listing
    <3> QED
      BY <3>1, <3>2, EtagSteps
  <2>2. ASSUME NEW a \in Actors
        PROVE  /\ Listing(a)' => /\ task'[a].listing \in Pages
                                 /\ task'[a].etag \in {task'[a].listing, None}
               /\ task'[a].pc = "etag" =>
                    ToSet(task'[a].listing) \subseteq Stored'
    <3>0. task[a] \in Task /\ PageOf(a, upstream) \in Pages
      BY DEF TypeOK, Pages
    <3>1. CASE task'[a] = task[a]
      BY <2>0, <3>1 DEF EtagInv, Listing
    <3>2. CASE ~Listing(a)'
      BY <3>2 DEF Listing
    <3>3. CASE ListModified(a)
      <4>1. /\ task'[a].pc = "show"
            /\ task'[a].listing = PageOf(a, upstream)
            /\ task'[a].etag \in {PageOf(a, upstream), None}
        BY <3>0, <3>3 DEF ListModified, TypeOK, Task
      <4> QED
        BY <3>0, <4>1
    <3>4. CASE ShowMeta(a)
      <4>1. /\ task[a].pc = "show"
            /\ task'[a].pc = "discover"
            /\ task'[a].listing = task[a].listing
            /\ task'[a].etag = task[a].etag
        BY <3>0, <3>4 DEF ShowMeta, Goto, TypeOK, Task
      <4> QED
        BY <4>1 DEF EtagInv, Listing
    <3>5. CASE Discover(a)
      <4>1. /\ task[a].pc = "discover"
            /\ task'[a].listing = task[a].listing
            /\ task'[a].etag = task[a].etag
        BY <3>0, <3>5 DEF Discover, Goto, TypeOK, Task
      <4>2. /\ task[a].listing \in Pages
            /\ task[a].etag \in {task[a].listing, None}
        BY <4>1 DEF EtagInv, Listing
      <4> QED
        BY <3>5, <4>1, <4>2, DiscoverStores
    <3> QED
      BY <3>1, <3>2, <3>3, <3>4, <3>5, ListingSteps
  <2> QED
    BY <2>1, <2>2 DEF EtagInv, Listing
<1>3. EtagInv => EtagCoversListing
  BY DEF EtagInv
<1> QED
  BY <1>1, <1>2, <1>3, TypeCorrect, PTL DEF Spec

-----------------------------------------------------------------------------
(* What the rows record. *)

(* A transfer knows its file, and once it has ended the contents it wrote. *)
JobRecorded(j) ==
  /\ j.ph \in {"fetch", "fetched"} => j.file # None
  /\ j.ph = "fetched" => j.sum # None

RecordInv ==
  /\ RowsRecorded
  /\ \A a \in Actors, i \in Ids : JobRecorded(dl[a][i])

(* A download moved to a phase that records nothing, and every other       *)
(* download.                                                               *)
LEMMA PhaseRecorded ==
  ASSUME TypeOK, NEW a \in Actors, NEW i \in Ids, NEW ph \in Phases,
         ph \notin {"fetch", "fetched"}, Phase(a, i, ph),
         NEW b \in Actors, NEW j \in Ids, JobRecorded(dl[b][j])
  PROVE  JobRecorded(dl'[b][j])
<1>1. dl[a][i] \in Job
  BY DEF TypeOK
<1>2. dl' = [dl EXCEPT ![a] = [dl[a] EXCEPT ![i] =
               [dl[a][i] EXCEPT !.ph = ph]]]
  BY DEF Phase
<1>3. dl'[b][j] = IF b = a /\ j = i THEN [dl[a][i] EXCEPT !.ph = ph]
                  ELSE dl[b][j]
  BY <1>2 DEF TypeOK
<1>4. [dl[a][i] EXCEPT !.ph = ph].ph = ph
  BY <1>1 DEF Job
<1>5. CASE b = a /\ j = i
  BY <1>3, <1>4, <1>5 DEF JobRecorded
<1>6. CASE ~(b = a /\ j = i)
  BY <1>3, <1>6
<1> QED
  BY <1>5, <1>6

(* Returning clears the downloads of the actor. *)
LEMMA ReturnRecorded ==
  ASSUME TypeOK, NEW a \in Actors, NEW result, Return(a, result),
         NEW b \in Actors, NEW j \in Ids, JobRecorded(dl[b][j])
  PROVE  JobRecorded(dl'[b][j])
  BY DEF TypeOK, Return, JobRecorded, NoJob

(* Every step keeps the downloads honest. *)
LEMMA JobsRecorded ==
  ASSUME TypeOK, [Next]_vars, NEW b \in Actors, NEW j \in Ids,
         JobRecorded(dl[b][j])
  PROVE  JobRecorded(dl'[b][j])
<1> USE NoneAssumption
<1>1. CASE UNCHANGED dl
  BY <1>1
<1>2. ASSUME NEW a \in Actors, SyncStep(a), dl' # dl
      PROVE  JobRecorded(dl'[b][j])
  <2>1. CASE \E result : Return(a, result)
    BY <2>1, ReturnRecorded
  <2>2. CASE Plan(a)
    BY <2>2 DEF Plan, TypeOK, JobRecorded, NoJob
  <2> QED
    BY <1>2, <2>1, <2>2
    DEF SyncStep, SyncStart, ResetStale, ListNotModified, ListModified,
        PollFailed, ShowMeta, Discover, SetEtag, StoredWindow, DownloadsDone,
        RetentionRead, PruneRemove, PruneKeeps, PruneMark, SyncDone,
        SyncStorageFails
<1>3. ASSUME NEW a \in Actors, NEW i \in Ids, DownloadStep(a, i), dl' # dl
      PROVE  JobRecorded(dl'[b][j])
  <2>0. dl[a][i] \in Job /\ dl[a] \in [Ids -> Job]
    BY DEF TypeOK
  <2>1. CASE \E ph \in Phases \ {"fetch", "fetched"} : Phase(a, i, ph)
    BY <2>1, PhaseRecorded
  <2>2. CASE Resolve(a, i)
    <3>1. PICK ext \in Exts :
            dl' = [dl EXCEPT ![a][i] = [dl[a][i] EXCEPT
                     !.ph = "fetch", !.file = media_path(i, ext)]]
      BY <2>2 DEF Resolve
    <3>2. media_path(i, ext) # None
      BY LibraryAssumption
    <3> DEFINE job == [dl[a][i] EXCEPT !.ph = "fetch",
                                       !.file = media_path(i, ext)]
    <3>3. JobRecorded(job)
      BY <2>0, <3>2 DEF JobRecorded, Job
    <3>4. dl'[b][j] = IF b = a /\ j = i THEN job ELSE dl[b][j]
      BY <2>0, <3>1 DEF TypeOK
    <3> QED
      BY <3>3, <3>4
  <2>3. CASE Fetch(a, i)
    <3>1. PICK c \in Contents :
            dl' = [dl EXCEPT ![a][i] = [dl[a][i] EXCEPT
                     !.ph = "fetched", !.sum = c]]
      BY <2>3 DEF Fetch
    <3> DEFINE job == [dl[a][i] EXCEPT !.ph = "fetched", !.sum = c]
    <3>2. job.ph = "fetched" /\ job.sum = c /\ job.file = dl[a][i].file
      BY <2>0 DEF Job
    <3>3. dl'[b][j] = IF b = a /\ j = i THEN job ELSE dl[b][j]
      BY <2>0, <3>1 DEF TypeOK
    <3> HIDE DEF job
    <3>4. dl[a][i].ph = "fetch"
      BY <2>3 DEF Fetch
    <3> QED
      BY <3>2, <3>3, <3>4 DEF JobRecorded
  <2> QED
    BY <1>3, <2>1, <2>2, <2>3
    DEF DownloadStep, MarkDownloading, Progress, FetchFails, MarkCached,
        MarkFailed, DownloadStorageFails, Phases
<1>4. ASSUME NEW a \in Actors, VerifyStep(a)
      PROVE  JobRecorded(dl'[b][j])
  <2>1. CASE VerifyStart(a)
    BY <2>1 DEF VerifyStart, TypeOK, JobRecorded, NoJob
  <2>2. CASE VerifyDone(a)
    BY <2>2, ReturnRecorded DEF VerifyDone
  <2>3. ASSUME NEW i \in Ids, CheckFile(a, i)
        PROVE  JobRecorded(dl'[b][j])
    BY <2>3, PhaseRecorded DEF CheckFile, Phases
  <2> QED
    BY <1>4, <2>1, <2>2, <2>3 DEF VerifyStep
<1>5. ASSUME Environment, dl' # dl PROVE JobRecorded(dl'[b][j])
  <2>1. PICK a \in Actors : Crash(a)
    BY <1>5 DEF Environment, UpstreamChanges, ProgressAges, Damage
  <2> QED
    BY <2>1, ReturnRecorded DEF Crash
<1> QED
  BY <1>1, <1>2, <1>3, <1>4, <1>5 DEF Next, vars

(* What one storage call does to the record of a row. *)
LEMMA RowRecorded ==
  ASSUME NEW i \in Ids, rows[i] \in Row, RowStep(i), RecordInv
  PROVE  /\ rows'[i].st = "cached" => rows'[i].file # None /\ rows'[i].sum # None
         /\ rows'[i].st = "pruned" => rows'[i].file = None /\ rows'[i].sum # None
<1> USE DEF Row, can_transition_to
<1>0. /\ rows[i].st = "cached" => rows[i].file # None /\ rows[i].sum # None
      /\ rows[i].st = "pruned" => rows[i].file = None /\ rows[i].sum # None
  BY DEF RecordInv, RowsRecorded
<1>1. CASE rows'[i] = rows[i]
  BY <1>0, <1>1
<1>2. CASE rows'[i] = discover(rows[i])
  BY <1>0, <1>2 DEF discover, NoRow, Exists
<1>3. CASE rows'[i] = mark_downloading(rows[i])
  BY <1>3 DEF mark_downloading
<1>4. CASE rows'[i] = set_progress(rows[i])
  BY <1>0, <1>4 DEF set_progress
<1>5. CASE \E a \in Actors :
             /\ dl[a][i].ph = "fetched"
             /\ rows'[i] = mark_cached(rows[i], dl[a][i].file, dl[a][i].sum)
  BY <1>5 DEF mark_cached, RecordInv, JobRecorded
<1>6. CASE rows'[i] = mark_failed(rows[i])
  BY <1>6 DEF mark_failed
<1>7. CASE /\ can_transition_to(rows[i].st, "pruned")
           /\ rows'[i] = mark_pruned(rows[i])
  BY <1>0, <1>7 DEF mark_pruned
<1>8. CASE rows'[i] = reset_stale(rows[i])
  BY <1>0, <1>8 DEF reset_stale
<1>9. CASE rows'[i] = [rows[i] EXCEPT !.progress = "old"]
  BY <1>0, <1>9
<1> HIDE DEF Row, can_transition_to
<1> QED
  BY <1>1, <1>2, <1>3, <1>4, <1>5, <1>6, <1>7, <1>8, <1>9 DEF RowStep

(* A cached row names its file and its contents and a tombstone keeps its  *)
(* size, whoever syncs, verifies, fails or is killed.                      *)
THEOREM RecordInvariant == Spec => []RowsRecorded
<1>1. Init => RecordInv
  BY DEF Init, RecordInv, RowsRecorded, JobRecorded, NoRow, NoJob
<1>2. TypeOK /\ RecordInv /\ [Next]_vars => RecordInv'
  <2> SUFFICES ASSUME TypeOK, RecordInv, [Next]_vars PROVE RecordInv'
    OBVIOUS
  <2>1. \A i \in Ids : rows[i] \in Row /\ RowStep(i)
    BY RowSteps DEF TypeOK
  <2>2. RowsRecorded'
    BY <2>1, RowRecorded DEF RowsRecorded
  <2>3. \A a \in Actors, i \in Ids : JobRecorded(dl'[a][i])
    BY JobsRecorded DEF RecordInv
  <2> QED
    BY <2>2, <2>3 DEF RecordInv, JobRecorded
<1>3. RecordInv => RowsRecorded
  BY DEF RecordInv
<1> QED
  BY <1>1, <1>2, <1>3, TypeCorrect, PTL DEF Spec
=============================================================================
