---------------------------- MODULE SoloProofs ----------------------------
(***************************************************************************)
(* Theorems about Library for one caller: what the files and the rows of a *)
(* show have to do with each other when no second sync or verify runs at   *)
(* the same time (with two, the run pair_intact shows how they part).      *)
(***************************************************************************)
EXTENDS LibraryProofs, RetentionProofs

\* One caller; every episode has a file stem of its own; nobody but the
\* daemon changes the media directory.
Alone == \E a : Actors = {a}
OwnStems == \A i, j \in Ids : Stem[i] = Stem[j] => i = j
Solo == Alone /\ OwnStems /\ "damage" \notin Faults

-----------------------------------------------------------------------------
(* One episode: its row, its download, its snapshot and its files. *)

\* The paths that can be an episode's.
Mine(i) == {p \in Paths : p[1] = Stem[i]}

\* What holds of episode i with row r, download j, snapshot s, while the
\* caller is at pc and the media directory is d: all name files of i; a
\* download is only under way while the futures are polled, and holds the row
\* in downloading while it transfers; what was transferred is on disk; a
\* cached row's file has the recorded contents or is gone; only a row without
\* a file is queued; verify looks at what the row still says.
EpisodeOK(r, j, s, pc, d, i) ==
  /\ {r.file, j.file, s.file} \subseteq Mine(i) \cup {None}
  /\ j.ph \notin Over => pc \in {"download", "verify"}
  /\ j.ph \in {"resolve", "fetch", "fetched"} => r.st = "downloading"
  /\ j.ph \in {"fetch", "fetched"} => j.file # None
  /\ j.ph = "fetched" => d[j.file] = j.sum
  /\ r.st = "cached" => r.file # None /\ d[r.file] \in {r.sum, None}
  /\ j.ph = "queued" => r.st # "cached"
  /\ j.ph \in {"check", "damaged"} =>
       r.st = "cached" /\ s.file = r.file /\ s.sum = r.sum
  /\ j.ph = "damaged" => "io" \in Faults \/ d[r.file] # r.sum

Episode(a, i) == EpisodeOK(rows[i], dl[a][i], snap[a][i], task[a].pc, disk, i)

EpisodesOK == \A a \in Actors, i \in Ids : Episode(a, i)

\* The prune in progress: what is doomed is cached, under the name the
\* snapshot has; until its row is marked one file at most is missing.
Prune(a) ==
  /\ task[a].pc = "mark" => task[a].doomed # {}
  /\ task[a].pc \in {"prune", "mark"} =>
       \A i \in task[a].doomed :
         rows[i].st = "cached" /\ snap[a][i].file = rows[i].file
  /\ \A i \in Cached : \/ disk[rows[i].file] = rows[i].sum
                       \/ task[a].pc = "mark" /\ i = Oldest(task[a].doomed)

PruneOK == \A a \in Actors : Prune(a)

\* The files of episode i with row r and download j in the media directory d:
\* only a cached row names one, and what is there is the row's or was just
\* transferred.
FileOK(r, j, d, i) ==
  /\ r.st # "cached" => r.file = None
  /\ \A p \in Mine(i) : d[p] # None =>
       p = r.file \/ (j.ph = "fetched" /\ p = j.file)

\* No file without a row: every file is some episode's, and the one whose row
\* is about to be marked is gone.
FilesOK ==
  /\ \A p \in Paths : disk[p] # None => \E i \in Ids : p \in Mine(i)
  /\ \A a \in Actors, i \in Ids : FileOK(rows[i], dl[a][i], disk, i)
  /\ \A a \in Actors : task[a].pc = "mark" =>
       disk[rows[Oldest(task[a].doomed)].file] = None

-----------------------------------------------------------------------------
(* What a step does to one episode. *)

(* Another episode's step: the files of this one are as they were. *)
LEMMA Frame ==
  ASSUME NEW r, NEW j, NEW s, NEW pc, NEW d, NEW i, NEW pc2, NEW d2,
         EpisodeOK(r, j, s, pc, d, i), pc2 = pc \/ j.ph \in Over,
         \A p \in Mine(i) : d2[p] = d[p]
  PROVE  EpisodeOK(r, j, s, pc2, d2, i)
<1>1. /\ j.ph \in {"fetch", "fetched"} => j.file \in Mine(i)
      /\ r.st = "cached" => r.file \in Mine(i)
      /\ j.ph = "damaged" => r.st = "cached"
  BY DEF EpisodeOK
<1> QED
  BY <1>1 DEF EpisodeOK

(* Between downloads: a row is pruned, reset or discovered, a file may go,  *)
(* the snapshot may be read anew.                                           *)
LEMMA Rested ==
  ASSUME NEW r, NEW j, NEW s, NEW pc, NEW d, NEW i,
         EpisodeOK(r, j, s, pc, d, i),
         NEW r2, NEW j2, NEW s2, NEW pc2, NEW d2,
         j2.ph \in Over,
         {r2.file, j2.file, s2.file} \subseteq {r.file, j.file, s.file, None},
         r2.st = "cached" => r.st = "cached" /\ r2.file = r.file /\ r2.sum = r.sum,
         \A p \in Mine(i) : d2[p] \in {d[p], None}
  PROVE  EpisodeOK(r2, j2, s2, pc2, d2, i)
<1>1. {r2.file, j2.file, s2.file} \subseteq Mine(i) \cup {None}
  BY DEF EpisodeOK
<1>2. j2.ph \notin {"resolve", "fetch", "fetched", "queued", "check", "damaged"}
  BY DEF Over
<1>3. ASSUME r2.st = "cached"
      PROVE  r2.file # None /\ d2[r2.file] \in {r2.sum, None}
  <2>1. r.st = "cached" /\ r2.file = r.file /\ r2.sum = r.sum
    BY <1>3
  <2>2. r.file \in Mine(i) /\ r.file # None /\ d[r.file] \in {r.sum, None}
    BY <2>1 DEF EpisodeOK
  <2> QED
    BY <2>1, <2>2
<1> QED
  BY <1>1, <1>2, <1>3 DEF EpisodeOK

(* The parts of an actor and an episode have their types. *)
LEMMA EpisodeTypes ==
  ASSUME TypeOK, NEW a \in Actors, NEW i \in Ids
  PROVE  /\ rows \in [Ids -> Row] /\ rows[i] \in Row
         /\ dl \in [Actors -> [Ids -> Job]] /\ dl[a] \in [Ids -> Job]
         /\ dl[a][i] \in Job
         /\ snap \in [Actors -> [Ids -> File]] /\ snap[a] \in [Ids -> File]
         /\ task \in [Actors -> Task] /\ task[a] \in Task
         /\ disk \in [Paths -> Contents \cup {None}]
  BY DEF TypeOK

(* What the storage calls between downloads do to a row. *)
LEMMA RestedRows ==
  ASSUME NEW r \in Row,
         NEW r2 \in {r, reset_stale(r), discover(r), mark_pruned(r)}
  PROVE  /\ r2.file \in {r.file, None}
         /\ r2.st = "cached" =>
              r.st = "cached" /\ r2.file = r.file /\ r2.sum = r.sum
<1>1. CASE r2 = r
  BY <1>1
<1>2. CASE r2 = reset_stale(r)
  BY <1>2 DEF reset_stale, Row
<1>3. CASE r2 = discover(r)
  BY <1>3 DEF discover, NoRow, Exists, Row
<1>4. CASE r2 = mark_pruned(r)
  BY <1>4 DEF mark_pruned, Row
<1> QED
  BY <1>1, <1>2, <1>3, <1>4

(* Library::sync outside its downloads. *)
LEMMA SyncEffect ==
  ASSUME TypeOK, NEW a \in Actors, NEW i \in Ids, Episode(a, i), SyncStep(a),
         ~Plan(a)
  PROVE  /\ rows'[i] \in {rows[i], reset_stale(rows[i]), discover(rows[i]),
                           mark_pruned(rows[i])}
         /\ snap'[a][i] \in {snap[a][i], NoFile, CachedFiles[i]}
         /\ dl'[a][i] \in {dl[a][i], NoJob} /\ dl'[a][i].ph \in Over
         /\ \A p \in Paths : disk'[p] \in {disk[p], None}
<1>0. NoJob.ph \in Over
  BY DEF NoJob, Over
<1>1. task[a].pc \notin {"download", "verify"} => dl[a][i].ph \in Over
  BY DEF Episode, EpisodeOK
<1>2. CASE \E result : Return(a, result) /\ UNCHANGED <<rows, disk>>
  <2>1. dl'[a][i] = NoJob /\ snap'[a][i] = NoFile
    BY <1>2, EpisodeTypes DEF Return
  <2> QED
    BY <1>0, <1>2, <2>1
<1>3. CASE /\ UNCHANGED <<rows, disk, dl, snap>>
           /\ task[a].pc \notin {"download", "verify"} \/ AllOver(a)
  BY <1>1, <1>3 DEF AllOver
<1>4. CASE ResetStale(a) \/ Discover(a)
  <2>1. rows'[i] \in {rows[i], reset_stale(rows[i]), discover(rows[i])}
    BY <1>4 DEF ResetStale, Discover
  <2>2. UNCHANGED <<disk, dl, snap>> /\ task[a].pc \in {"reset", "discover"}
    BY <1>4 DEF ResetStale, Discover
  <2> QED
    BY <1>1, <2>1, <2>2
<1>5. CASE RetentionRead(a)
  <2>1. UNCHANGED <<rows, disk, dl>> /\ task[a].pc = "retain"
        /\ snap'[a][i] = CachedFiles[i]
    BY <1>5, EpisodeTypes DEF RetentionRead
  <2> QED
    BY <1>1, <2>1
<1>6. CASE PruneRemove(a)
  <2>1. UNCHANGED <<rows, dl, snap>> /\ task[a].pc = "prune"
    BY <1>6 DEF PruneRemove
  <2>2. PICK file : disk' = IF file = None THEN disk ELSE [disk EXCEPT ![file] = None]
    BY <1>6 DEF PruneRemove
  <2>3. \A p \in Paths : disk'[p] \in {disk[p], None}
    BY <2>2, EpisodeTypes
  <2> QED
    BY <1>1, <2>1, <2>3
<1>7. CASE PruneMark(a) /\ UNCHANGED <<dl, snap>>
  <2>1. UNCHANGED disk /\ task[a].pc = "mark"
    BY <1>7 DEF PruneMark
  <2>2. rows'[i] \in {rows[i], mark_pruned(rows[i])}
    <3>1. CASE rows' = rows
      BY <3>1
    <3>2. CASE rows' = [rows EXCEPT ![Oldest(task[a].doomed)] =
                          mark_pruned(rows[Oldest(task[a].doomed)])]
      BY <3>2, EpisodeTypes
    <3> QED
      BY <1>7, <3>1, <3>2 DEF PruneMark
  <2> QED
    BY <1>1, <1>7, <2>1, <2>2
<1>8. ASSUME \/ SyncStart(a) \/ ListNotModified(a) \/ ListModified(a)
             \/ ShowMeta(a) \/ SetEtag(a) \/ StoredWindow(a)
             \/ DownloadsDone(a) \/ PruneKeeps(a)
      PROVE  /\ UNCHANGED <<rows, disk, dl, snap>>
             /\ task[a].pc \notin {"download", "verify"} \/ AllOver(a)
  BY <1>8 DEF SyncStart, ListNotModified, ListModified, ShowMeta, SetEtag,
              StoredWindow, DownloadsDone, PruneKeeps
<1>9. ASSUME \/ PollFailed(a) \/ SyncDone(a) \/ SyncStorageFails(a)
             \/ PruneMark(a) /\ ~UNCHANGED <<dl, snap>>
      PROVE  \E result : Return(a, result) /\ UNCHANGED <<rows, disk>>
  BY <1>9 DEF PollFailed, SyncDone, SyncStorageFails, PruneMark
<1> QED
  BY <1>2, <1>3, <1>4, <1>5, <1>6, <1>7, <1>8, <1>9 DEF SyncStep

LEMMA SyncEpisode ==
  ASSUME TypeOK, NEW a \in Actors, NEW i \in Ids, Episode(a, i), SyncStep(a)
  PROVE  Episode(a, i)'
<1>1. CASE ~Plan(a)
  <2> DEFINE r2 == rows'[i]
             j2 == dl'[a][i]
             s2 == snap'[a][i]
  <2>1. /\ r2 \in {rows[i], reset_stale(rows[i]), discover(rows[i]),
                    mark_pruned(rows[i])}
        /\ s2 \in {snap[a][i], NoFile, CachedFiles[i]}
        /\ j2 \in {dl[a][i], NoJob} /\ j2.ph \in Over
        /\ \A p \in Paths : disk'[p] \in {disk[p], None}
    BY <1>1, SyncEffect
  <2>2. rows[i] \in Row
    BY EpisodeTypes
  <2>3. /\ r2.file \in {rows[i].file, None}
        /\ r2.st = "cached" => /\ rows[i].st = "cached"
                               /\ r2.file = rows[i].file /\ r2.sum = rows[i].sum
    BY <2>1, <2>2, RestedRows
  <2>4. s2.file \in {snap[a][i].file, rows[i].file, None}
    BY <2>1 DEF NoFile, CachedFiles
  <2>5. j2.file \in {dl[a][i].file, None}
    BY <2>1 DEF NoJob
  <2>6. \A p \in Mine(i) : disk'[p] \in {disk[p], None}
    BY <2>1 DEF Mine
  <2> HIDE DEF r2, j2, s2
  <2>7. {r2.file, j2.file, s2.file}
          \subseteq {rows[i].file, dl[a][i].file, snap[a][i].file, None}
    BY <2>3, <2>4, <2>5
  <2>8. EpisodeOK(r2, j2, s2, task'[a].pc, disk', i)
    BY <2>1, <2>3, <2>6, <2>7, Rested DEF Episode
  <2> QED
    BY <2>8 DEF Episode, r2, j2, s2
<1>2. CASE Plan(a)
  <2>1. /\ UNCHANGED <<rows, disk, snap>> /\ task'[a].pc = "download"
        /\ \/ dl'[a][i] = NoJob
           \/ /\ dl'[a][i] = [NoJob EXCEPT !.ph = "queued"]
              /\ rows[i].st # "cached"
    BY <1>2, EpisodeTypes DEF Plan, Goto, Task
  <2>2. CASE dl'[a][i] = NoJob
    <3>1. NoJob.ph \in Over /\ NoJob.file = None
      BY DEF NoJob, Over
    <3>2. EpisodeOK(rows[i], NoJob, snap[a][i], "download", disk, i)
      BY <3>1, Rested DEF Episode
    <3> QED
      BY <2>1, <2>2, <3>2 DEF Episode
  <2>3. CASE /\ dl'[a][i] = [NoJob EXCEPT !.ph = "queued"]
             /\ rows[i].st # "cached"
    <3>1. dl'[a][i].ph = "queued" /\ dl'[a][i].file = None
      BY <2>3 DEF NoJob
    <3> QED
      BY <2>1, <2>3, <3>1 DEF Episode, EpisodeOK, Over
  <2> QED
    BY <2>1, <2>2, <2>3
<1> QED
  BY <1>1, <1>2

(* The files of two episodes are different files. *)
LEMMA Disjoint ==
  ASSUME OwnStems, NEW i \in Ids, NEW k \in Ids, i # k, NEW p \in Mine(i)
  PROVE  p \notin Mine(k)
  BY DEF OwnStems, Mine

(* A download step of one episode, seen from another. *)
LEMMA DownloadElsewhere ==
  ASSUME TypeOK, OwnStems, NEW a \in Actors, NEW i \in Ids, NEW k \in Ids, i # k,
         Episode(a, k), DownloadStep(a, k)
  PROVE  /\ UNCHANGED <<task, snap>>
         /\ rows'[i] = rows[i] /\ dl'[a][i] = dl[a][i]
         /\ \A p \in Mine(i) : disk'[p] = disk[p]
<1>0. /\ rows \in [Ids -> Row] /\ dl \in [Actors -> [Ids -> Job]]
      /\ dl[a] \in [Ids -> Job] /\ disk \in [Paths -> Contents \cup {None}]
  BY EpisodeTypes
<1>1. UNCHANGED <<task, snap>>
  BY DownloadFrame
<1>2. rows'[i] = rows[i]
  BY <1>0 DEF DownloadStep, MarkDownloading, Resolve, Progress, Fetch,
         FetchFails, MarkCached, MarkFailed, DownloadStorageFails
<1>3. dl'[a][i] = dl[a][i]
  <2>1. CASE \E job : dl' = [dl EXCEPT ![a] = [dl[a] EXCEPT ![k] = job]]
    BY <1>0, <2>1
  <2>2. CASE Resolve(a, k) \/ Fetch(a, k)
    BY <2>1, <2>2 DEF Resolve, Fetch
  <2>3. CASE \E ph : Phase(a, k, ph)
    BY <2>1, <2>3 DEF Phase
  <2>4. CASE UNCHANGED dl
    BY <2>4
  <2> QED
    BY <2>2, <2>3, <2>4 DEF DownloadStep, MarkDownloading, Progress,
       FetchFails, MarkCached, MarkFailed, DownloadStorageFails
<1>4. \A p \in Mine(i) : disk'[p] = disk[p]
  <2>1. CASE UNCHANGED disk
    BY <2>1
  <2>2. CASE Fetch(a, k)
    <3>1. dl[a][k].file \in Mine(k)
      BY <2>2 DEF Fetch, Episode, EpisodeOK
    <3>2. PICK c \in Contents : disk' = [disk EXCEPT ![dl[a][k].file] = c]
      BY <2>2 DEF Fetch
    <3>3. \A p \in Mine(i) : p # dl[a][k].file /\ p \in Paths
      BY <3>1, Disjoint DEF Mine
    <3> QED
      BY <1>0, <3>2, <3>3
  <2> QED
    BY <2>1, <2>2 DEF DownloadStep, MarkDownloading, Resolve, Progress,
       FetchFails, MarkCached, MarkFailed, DownloadStorageFails
<1> QED
  BY <1>1, <1>2, <1>3, <1>4

LEMMA DownloadOther ==
  ASSUME TypeOK, OwnStems, NEW a \in Actors, NEW i \in Ids, NEW k \in Ids, i # k,
         Episode(a, i), Episode(a, k), DownloadStep(a, k)
  PROVE  Episode(a, i)'
<1>1. /\ UNCHANGED <<task, snap>>
      /\ rows'[i] = rows[i] /\ dl'[a][i] = dl[a][i]
      /\ \A p \in Mine(i) : disk'[p] = disk[p]
  BY DownloadElsewhere
<1>2. EpisodeOK(rows[i], dl[a][i], snap[a][i], task[a].pc, disk', i)
  BY <1>1, Frame DEF Episode
<1> QED
  BY <1>1, <1>2 DEF Episode

(* A download step of the episode itself. *)
LEMMA DownloadOwn ==
  ASSUME TypeOK, NEW a \in Actors, NEW i \in Ids, Episode(a, i),
         DownloadStep(a, i)
  PROVE  Episode(a, i)'
<1> DEFINE r == rows[i]
           j == dl[a][i]
           s == snap[a][i]
           pc == task[a].pc
<1>0. /\ rows \in [Ids -> Row] /\ r \in Row
      /\ dl \in [Actors -> [Ids -> Job]] /\ dl[a] \in [Ids -> Job] /\ j \in Job
      /\ disk \in [Paths -> Contents \cup {None}]
  BY EpisodeTypes
<1>1. UNCHANGED <<task, snap>>
  BY DownloadFrame
<1>2. EpisodeOK(r, j, s, pc, disk, i)
  BY DEF Episode
<1>3. SUFFICES EpisodeOK(rows'[i], dl'[a][i], s, pc, disk', i)
  BY <1>1 DEF Episode
<1>4. ASSUME NEW ph, Phase(a, i, ph)
      PROVE  dl'[a][i].ph = ph /\ dl'[a][i].file = j.file /\ dl'[a][i].sum = j.sum
  <2>1. dl' = [dl EXCEPT ![a] = [dl[a] EXCEPT ![i] = [j EXCEPT !.ph = ph]]]
    BY <1>4 DEF Phase
  <2> QED
    BY <1>0, <2>1 DEF Job
<1> HIDE DEF r, j, s, pc
<1>5. CASE MarkDownloading(a, i)
  <2>1. /\ disk' = disk /\ j.ph \in {"queued", "damaged"}
        /\ \/ Phase(a, i, "fail") /\ rows'[i] = r
           \/ /\ Phase(a, i, "resolve")
              /\ rows'[i] = mark_downloading(r)
    BY <1>0, <1>5 DEF MarkDownloading, j, r
  <2>2. pc \in {"download", "verify"}
    BY <1>2, <2>1 DEF EpisodeOK, Over
  <2>3. CASE Phase(a, i, "fail") /\ rows'[i] = r
    BY <1>2, <1>4, <2>1, <2>2, <2>3 DEF EpisodeOK
  <2>4. CASE Phase(a, i, "resolve") /\ rows'[i] = mark_downloading(r)
    <3>1. rows'[i].st = "downloading" /\ rows'[i].file = r.file
      BY <1>0, <2>4 DEF mark_downloading, Row
    <3> QED
      BY <1>2, <1>4, <2>1, <2>2, <2>4, <3>1 DEF EpisodeOK
  <2> QED
    BY <2>1, <2>3, <2>4
<1>6. CASE Resolve(a, i)
  <2>1. PICK ext \in Exts :
          dl' = [dl EXCEPT ![a][i] =
                   [j EXCEPT !.ph = "fetch", !.file = media_path(i, ext)]]
    BY <1>6 DEF Resolve, j
  <2>2. dl'[a][i].ph = "fetch" /\ dl'[a][i].file = media_path(i, ext)
    BY <1>0, <2>1 DEF Job
  <2>3. media_path(i, ext) \in Mine(i) /\ media_path(i, ext) # None
    <3>1. media_path(i, ext) \in Paths
      BY LibraryAssumption
    <3> QED
      BY <3>1, NoneAssumption DEF Mine, media_path
  <2>4. rows' = rows /\ disk' = disk /\ j.ph = "resolve"
    BY <1>6 DEF Resolve, j
  <2>5. pc \in {"download", "verify"} /\ r.st = "downloading"
    BY <1>2, <2>4 DEF EpisodeOK, Over
  <2> QED
    BY <1>2, <2>2, <2>3, <2>4, <2>5 DEF EpisodeOK, r
<1>7. CASE Progress(a, i)
  <2>1. /\ UNCHANGED <<disk, dl>> /\ rows'[i] = set_progress(r)
        /\ j.ph \in {"fetch", "fetched", "fail", "ok", "bad"}
    BY <1>0, <1>7 DEF Progress, j, r
  <2>2. /\ rows'[i].st = r.st /\ rows'[i].file = r.file /\ rows'[i].sum = r.sum
    BY <1>0, <2>1 DEF set_progress, Row
  <2> QED
    BY <1>2, <2>1, <2>2 DEF EpisodeOK, j
<1>8. CASE Fetch(a, i)
  <2>1. PICK c \in Contents :
          /\ disk' = [disk EXCEPT ![j.file] = c]
          /\ dl' = [dl EXCEPT ![a][i] = [j EXCEPT !.ph = "fetched", !.sum = c]]
    BY <1>8 DEF Fetch, j
  <2>2. dl'[a][i].ph = "fetched" /\ dl'[a][i].sum = c /\ dl'[a][i].file = j.file
    BY <1>0, <2>1 DEF Job
  <2>3. rows' = rows /\ j.ph = "fetch"
    BY <1>8 DEF Fetch, j
  <2>4. /\ pc \in {"download", "verify"} /\ r.st = "downloading"
        /\ j.file \in Mine(i) /\ j.file # None
    BY <1>2, <2>3 DEF EpisodeOK, Over
  <2>5. disk'[j.file] = c
    BY <1>0, <2>1, <2>4 DEF Mine
  <2> QED
    BY <1>2, <2>2, <2>3, <2>4, <2>5 DEF EpisodeOK, r
<1>9. CASE FetchFails(a, i) \/ DownloadStorageFails(a, i)
  <2>1. /\ UNCHANGED <<rows, disk>> /\ j.ph \notin Over
        /\ Phase(a, i, "fail") \/ Phase(a, i, "bad")
    BY <1>9 DEF FetchFails, DownloadStorageFails, j, Over
  <2>2. pc \in {"download", "verify"}
    BY <1>2, <2>1 DEF EpisodeOK
  <2> QED
    BY <1>2, <1>4, <2>1, <2>2 DEF EpisodeOK, r
<1>10. CASE MarkCached(a, i)
  <2>1. /\ disk' = disk /\ j.ph = "fetched"
        /\ \/ Phase(a, i, "fail") /\ rows'[i] = r
           \/ /\ Phase(a, i, "ok")
              /\ rows'[i] = mark_cached(r, j.file, j.sum)
    BY <1>0, <1>10 DEF MarkCached, j, r
  <2>2. /\ pc \in {"download", "verify"} /\ r.st = "downloading"
        /\ j.file # None /\ disk[j.file] = j.sum
    BY <1>2, <2>1 DEF EpisodeOK, Over
  <2>3. CASE Phase(a, i, "fail") /\ rows'[i] = r
    BY <1>2, <1>4, <2>1, <2>2, <2>3 DEF EpisodeOK
  <2>4. CASE Phase(a, i, "ok") /\ rows'[i] = mark_cached(r, j.file, j.sum)
    <3>1. /\ rows'[i].st = "cached" /\ rows'[i].file = j.file
          /\ rows'[i].sum = j.sum
      BY <2>4 DEF mark_cached
    <3> QED
      BY <1>2, <1>4, <2>1, <2>2, <2>4, <3>1 DEF EpisodeOK, Over
  <2> QED
    BY <2>1, <2>3, <2>4
<1>11. CASE MarkFailed(a, i)
  <2>1. /\ disk' = disk /\ Phase(a, i, "bad")
        /\ rows'[i] \in {r, mark_failed(r)}
    BY <1>0, <1>11 DEF MarkFailed, r
  <2>2. /\ rows'[i].file = r.file /\ rows'[i].sum = r.sum
        /\ rows'[i].st = "cached" => r.st = "cached"
    BY <1>0, <2>1 DEF mark_failed, Row
  <2> QED
    BY <1>2, <1>4, <2>1, <2>2 DEF EpisodeOK, Over
<1> QED
  BY <1>5, <1>6, <1>7, <1>8, <1>9, <1>10, <1>11 DEF DownloadStep

(* Library::verify. *)
LEMMA VerifyEpisode ==
  ASSUME TypeOK, NEW a \in Actors, NEW i \in Ids, Episode(a, i), VerifyStep(a)
  PROVE  Episode(a, i)'
<1>0. /\ dl \in [Actors -> [Ids -> Job]] /\ dl[a] \in [Ids -> Job]
      /\ dl[a][i] \in Job
      /\ snap \in [Actors -> [Ids -> File]] /\ task \in [Actors -> Task]
  BY EpisodeTypes
<1>1. UNCHANGED <<rows, disk>>
  BY DEF VerifyStep, VerifyStart, VerifyDone, CheckFile
<1>2. EpisodeOK(rows[i], dl[a][i], snap[a][i], task[a].pc, disk, i)
  BY DEF Episode
<1>3. CASE VerifyStart(a)
  <2>1. /\ task'[a].pc = "verify" /\ snap'[a][i] = CachedFiles[i]
        /\ dl'[a][i] = IF i \in Cached THEN [NoJob EXCEPT !.ph = "check"]
                       ELSE NoJob
    BY <1>0, <1>3 DEF VerifyStart, Idle
  <2>2. CASE rows[i].st = "cached"
    <3>1. /\ snap'[a][i].file = rows[i].file /\ snap'[a][i].sum = rows[i].sum
          /\ dl'[a][i].ph = "check" /\ dl'[a][i].file = None
      BY <2>1, <2>2 DEF Cached, CachedFiles, NoJob
    <3> QED
      BY <1>1, <1>2, <2>1, <2>2, <3>1 DEF Episode, EpisodeOK
  <2>3. CASE rows[i].st # "cached"
    <3>1. /\ snap'[a][i].file = None
          /\ dl'[a][i].ph \in Over /\ dl'[a][i].file = None
      BY <2>1, <2>3 DEF Cached, CachedFiles, NoJob, NoFile, Over
    <3>2. EpisodeOK(rows[i], dl'[a][i], snap'[a][i], "verify", disk, i)
      BY <1>2, <3>1, Rested
    <3> QED
      BY <1>1, <2>1, <3>2 DEF Episode
  <2> QED
    BY <2>2, <2>3
<1>4. CASE VerifyDone(a)
  <2>1. dl'[a][i] = NoJob /\ snap'[a][i] = NoFile
    BY <1>0, <1>4 DEF VerifyDone, Return
  <2>2. NoJob.ph \in Over /\ NoJob.file = None /\ NoFile.file = None
    BY DEF NoJob, NoFile, Over
  <2>3. EpisodeOK(rows[i], NoJob, NoFile, task'[a].pc, disk, i)
    BY <1>2, <2>2, Rested
  <2> QED
    BY <1>1, <2>1, <2>3 DEF Episode
<1>5. ASSUME NEW k \in Ids, CheckFile(a, k) PROVE Episode(a, i)'
  <2>1. UNCHANGED <<task, snap>> /\ dl[a][k].ph = "check"
    BY <1>5 DEF CheckFile
  <2>2. PICK ph \in {"none", "damaged"} :
          /\ Phase(a, k, ph)
          /\ ph = "damaged" => ~Intact(snap[a][k]) \/ "io" \in Faults
    BY <1>5 DEF CheckFile
  <2>3. dl' = [dl EXCEPT ![a] = [dl[a] EXCEPT ![k] = [dl[a][k] EXCEPT !.ph = ph]]]
    BY <2>2 DEF Phase
  <2>4. CASE i # k
    <3>1. dl'[a][i] = dl[a][i]
      BY <1>0, <2>3, <2>4
    <3> QED
      BY <1>1, <1>2, <2>1, <3>1 DEF Episode
  <2>5. CASE i = k
    <3>1. dl'[a][i].ph = ph /\ dl'[a][i].file = dl[a][i].file
      BY <1>0, <2>3, <2>5 DEF Job
    <3>2. /\ rows[i].st = "cached" /\ rows[i].file # None
          /\ snap[a][i].file = rows[i].file /\ snap[a][i].sum = rows[i].sum
          /\ task[a].pc \in {"download", "verify"}
      BY <1>2, <2>1, <2>5 DEF EpisodeOK, Over
    <3>3. ph = "damaged" => "io" \in Faults \/ disk[rows[i].file] # rows[i].sum
      BY <2>2, <2>5, <3>2 DEF Intact
    <3>4. EpisodeOK(rows[i], dl'[a][i], snap[a][i], task[a].pc, disk, i)
      BY <1>2, <3>1, <3>2, <3>3 DEF EpisodeOK
    <3> QED
      BY <1>1, <2>1, <3>4 DEF Episode
  <2> QED
    BY <2>4, <2>5
<1> QED
  BY <1>3, <1>4, <1>5 DEF VerifyStep

(* The environment. *)
LEMMA EnvironmentEpisode ==
  ASSUME TypeOK, Solo, NEW a \in Actors, NEW i \in Ids, Episode(a, i), Environment
  PROVE  Episode(a, i)'
<1>0. /\ rows \in [Ids -> Row] /\ rows[i] \in Row
      /\ dl \in [Actors -> [Ids -> Job]] /\ snap \in [Actors -> [Ids -> File]]
  BY EpisodeTypes
<1>1. EpisodeOK(rows[i], dl[a][i], snap[a][i], task[a].pc, disk, i)
  BY DEF Episode
<1>2. CASE UpstreamChanges
  BY <1>1, <1>2 DEF UpstreamChanges, Episode
<1>3. ASSUME NEW k \in Ids, ProgressAges(k) PROVE Episode(a, i)'
  <2>1. UNCHANGED <<dl, snap, task, disk>>
        /\ rows' = [rows EXCEPT ![k] = [rows[k] EXCEPT !.progress = "old"]]
    BY <1>3 DEF ProgressAges
  <2>2. /\ rows'[i].st = rows[i].st /\ rows'[i].file = rows[i].file
        /\ rows'[i].sum = rows[i].sum
    BY <1>0, <2>1 DEF Row
  <2>3. EpisodeOK(rows'[i], dl[a][i], snap[a][i], task[a].pc, disk, i)
    BY <1>1, <2>2 DEF EpisodeOK
  <2> QED
    BY <2>1, <2>3 DEF Episode
<1>4. ASSUME NEW b \in Actors, Crash(b) PROVE Episode(a, i)'
  <2>1. UNCHANGED <<rows, disk>> /\ Return(a, "none")
    BY <1>4 DEF Crash, Solo, Alone
  <2>2. dl'[a][i] = NoJob /\ snap'[a][i] = NoFile
    BY <1>0, <2>1 DEF Return
  <2>3. NoJob.ph \in Over /\ NoJob.file = None /\ NoFile.file = None
    BY DEF NoJob, NoFile, Over
  <2>4. EpisodeOK(rows[i], NoJob, NoFile, task'[a].pc, disk, i)
    BY <1>1, <2>3, Rested
  <2> QED
    BY <2>1, <2>2, <2>4 DEF Episode
<1>5. ASSUME NEW p \in Paths, Damage(p) PROVE FALSE
  BY <1>5 DEF Damage, Solo
<1> QED
  BY <1>2, <1>3, <1>4, <1>5 DEF Environment

(* Every step keeps every episode in order. *)
LEMMA EpisodesStep ==
  ASSUME TypeOK, Solo, EpisodesOK, [Next]_vars
  PROVE  EpisodesOK'
<1> SUFFICES ASSUME NEW a \in Actors, NEW i \in Ids PROVE Episode(a, i)'
  BY DEF EpisodesOK
<1>1. Episode(a, i) /\ \A k \in Ids : Episode(a, k)
  BY DEF EpisodesOK
<1>2. CASE UNCHANGED vars
  BY <1>1, <1>2 DEF vars, Episode
<1>3. ASSUME NEW b \in Actors, SyncStep(b) \/ VerifyStep(b)
      PROVE  Episode(a, i)'
  BY <1>1, <1>3, SyncEpisode, VerifyEpisode DEF Solo, Alone
<1>4. ASSUME NEW b \in Actors, NEW k \in Ids, DownloadStep(b, k)
      PROVE  Episode(a, i)'
  <2>1. DownloadStep(a, k)
    BY <1>4 DEF Solo, Alone
  <2> QED
    BY <1>1, <2>1, DownloadOwn, DownloadOther DEF Solo
<1>5. CASE Environment
  BY <1>1, <1>5, EnvironmentEpisode
<1> QED
  BY <1>2, <1>3, <1>4, <1>5 DEF Next

LEMMA EpisodesInit == Init => EpisodesOK
<1> SUFFICES ASSUME Init, NEW a \in Actors, NEW i \in Ids PROVE Episode(a, i)
  BY DEF EpisodesOK
<1>1. rows[i] = NoRow /\ dl[a][i] = NoJob /\ snap[a][i] = NoFile
  BY DEF Init
<1> QED
  BY <1>1 DEF Episode, EpisodeOK, NoRow, NoJob, NoFile, Over

(* Whatever is killed when, and whichever storage call or transfer fails, a *)
(* cached row never describes other contents than those of its file         *)
(* (try_download renames before mark_cached; apply_retention removes before *)
(* mark_pruned).                                                            *)
THEOREM NeverWrong == ASSUME Solo PROVE Spec => []CachedNeverWrong
<1>1. Init => EpisodesOK
  BY EpisodesInit
<1>2. TypeOK /\ EpisodesOK /\ [Next]_vars => EpisodesOK'
  BY EpisodesStep
<1>3. EpisodesOK => CachedNeverWrong
  BY DEF EpisodesOK, Episode, EpisodeOK, CachedNeverWrong, Cached, Solo, Alone
<1> QED
  BY <1>1, <1>2, <1>3, TypeCorrect, PTL DEF Spec

-----------------------------------------------------------------------------
(* Downloads out of cached. *)

(* Only mark_downloading takes a cached episode back to downloading. *)
LEMMA OnlyMarkDownloading ==
  ASSUME TypeOK, Solo, EpisodesOK, [Next]_vars, NEW i \in Ids,
         rows[i].st = "cached", rows'[i].st = "downloading"
  PROVE  \E a \in Actors : MarkDownloading(a, i)
<1>0. rows \in [Ids -> Row] /\ rows[i] \in Row
  BY DEF TypeOK
<1>1. rows'[i] # rows[i] /\ rows' # rows
  OBVIOUS
<1>2. ASSUME NEW a \in Actors, SyncStep(a) PROVE FALSE
  <2>1. CASE Plan(a)
    BY <1>1, <2>1 DEF Plan
  <2>2. CASE ~Plan(a)
    <3>1. rows'[i] \in {reset_stale(rows[i]), discover(rows[i]),
                        mark_pruned(rows[i])}
      BY <1>1, <1>2, <2>2, SyncEffect DEF EpisodesOK
    <3> QED
      BY <1>0, <3>1 DEF reset_stale, discover, Exists, mark_pruned, Row
  <2> QED
    BY <2>1, <2>2
<1>3. ASSUME NEW a \in Actors, VerifyStep(a) PROVE FALSE
  BY <1>1, <1>3 DEF VerifyStep, VerifyStart, VerifyDone, CheckFile
<1>4. ASSUME Environment PROVE FALSE
  <2>1. PICK k \in Ids : rows' = [rows EXCEPT ![k] =
                                   [rows[k] EXCEPT !.progress = "old"]]
    BY <1>1, <1>4 DEF Environment, UpstreamChanges, ProgressAges, Crash, Damage
  <2> QED
    BY <1>0, <2>1 DEF Row
<1>5. ASSUME NEW a \in Actors, NEW k \in Ids, DownloadStep(a, k)
      PROVE  MarkDownloading(a, i)
  <2>1. CASE MarkDownloading(a, k)
    <3>1. k = i
      BY <1>0, <1>1, <2>1 DEF MarkDownloading
    <3> QED
      BY <2>1, <3>1
  <2>2. CASE Progress(a, k)
    BY <1>0, <1>1, <2>2 DEF Progress, set_progress, Row
  <2>3. CASE MarkCached(a, k)
    BY <1>0, <1>1, <2>3 DEF MarkCached, mark_cached
  <2>4. CASE MarkFailed(a, k)
    BY <1>0, <1>1, <2>4 DEF MarkFailed, mark_failed, Row
  <2> QED
    BY <1>1, <1>5, <2>1, <2>2, <2>3, <2>4
    DEF DownloadStep, Resolve, Fetch, FetchFails, DownloadStorageFails
<1> QED
  BY <1>1, <1>2, <1>3, <1>4, <1>5 DEF Next, vars

(* A cached episode is downloaded again only when its file is gone or has   *)
(* other contents than recorded: sync never queues one, and verify only     *)
(* those that failed check_file, whose row and file nothing changes until   *)
(* mark_downloading.  Syncs may be killed and storage calls fail at will.   *)
THEOREM OnlyDamaged ==
  ASSUME Solo, "io" \notin Faults PROVE Spec => RedownloadOnlyDamaged
<1>1. Init => EpisodesOK
  BY EpisodesInit
<1>2. TypeOK /\ EpisodesOK /\ [Next]_vars => EpisodesOK'
  BY EpisodesStep
<1>3. TypeOK /\ EpisodesOK /\ [Next]_vars =>
        [\A i \in Ids : rows[i].st = "cached" /\ rows'[i].st = "downloading"
                         => ~Intact(rows[i])]_vars
  <2> SUFFICES ASSUME TypeOK, EpisodesOK, [Next]_vars, NEW i \in Ids,
                      rows[i].st = "cached", rows'[i].st = "downloading"
               PROVE  ~Intact(rows[i])
    OBVIOUS
  <2>1. PICK a \in Actors : MarkDownloading(a, i)
    BY OnlyMarkDownloading
  <2>2. Episode(a, i) /\ dl[a][i].ph \in {"queued", "damaged"}
    BY <2>1 DEF EpisodesOK, MarkDownloading
  <2> QED
    BY <2>2 DEF Episode, EpisodeOK, Intact
<1> QED
  BY <1>1, <1>2, <1>3, TypeCorrect, PTL DEF Spec, RedownloadOnlyDamaged

-----------------------------------------------------------------------------
(* The prune in progress. *)

(* Oldest is the least of a nonempty set of ids. *)
LEMMA Least ==
  ASSUME NEW T, T \subseteq Nat, T # {}
  PROVE  Oldest(T) \in T /\ \A n \in T : Oldest(T) <= n
  BY LeastExists DEF Oldest

LEMMA OldestDoomed ==
  ASSUME TypeOK, NEW a \in Actors, task[a].doomed # {}
  PROVE  Oldest(task[a].doomed) \in task[a].doomed /\ task[a].doomed \subseteq Ids
<1>1. task[a].doomed \subseteq Ids
  BY DEF TypeOK, Task
<1> QED
  BY <1>1, Least, LibraryAssumption

\* Nothing dies or fails between the removal of a file and its record.
Steady == Solo /\ "storage" \notin Faults /\ "crash" \notin Faults

(* A step outside the prune: files stay, rows only leave cached. *)
LEMMA Quiet ==
  ASSUME NEW a \in Actors, Prune(a), disk' = disk, task[a].pc # "mark",
         task'[a].pc \notin {"prune", "mark"},
         \A i \in Ids : rows'[i].st = "cached" =>
           /\ rows[i].st = "cached" /\ rows'[i].file = rows[i].file
           /\ rows'[i].sum = rows[i].sum
  PROVE  Prune(a)'
  BY DEF Prune, Cached

(* A step of anything else: only how old a progress write is changes. *)
LEMMA Aside ==
  ASSUME NEW a \in Actors, TypeOK, Prune(a), disk' = disk, task' = task, snap' = snap,
         \A i \in Ids :
           /\ rows'[i].st = rows[i].st /\ rows'[i].file = rows[i].file
           /\ rows'[i].sum = rows[i].sum
  PROVE  Prune(a)'
<1>1. task[a].doomed \subseteq Ids
  BY DEF TypeOK, Task
<1> QED
  BY <1>1 DEF Prune, Cached

LEMMA SyncPrune ==
  ASSUME TypeOK, EpisodesOK, Steady, NEW a \in Actors, Prune(a), SyncStep(a)
  PROVE  Prune(a)'
<1>0. /\ rows \in [Ids -> Row] /\ task \in [Actors -> Task] /\ task[a] \in Task
      /\ snap \in [Actors -> [Ids -> File]] /\ snap[a] \in [Ids -> File]
      /\ disk \in [Paths -> Contents \cup {None}]
  BY DEF TypeOK
<1> DEFINE old == Oldest(task[a].doomed)
<1>1. task[a].doomed # {} => old \in task[a].doomed /\ old \in Ids
  BY OldestDoomed
<1> HIDE DEF old
<1>2. CASE \/ SyncStart(a) \/ ListNotModified(a) \/ ListModified(a)
           \/ ShowMeta(a) \/ SetEtag(a) \/ StoredWindow(a) \/ Plan(a)
           \/ DownloadsDone(a)
  <2>1. UNCHANGED <<rows, disk>> /\ task[a].pc # "mark"
    BY <1>2 DEF SyncStart, ListNotModified, ListModified, ShowMeta, SetEtag,
       StoredWindow, Plan, DownloadsDone
  <2>2. CASE SyncStart(a)
    BY <1>0, <2>1, <2>2, Quiet DEF SyncStart, Idle
  <2>3. CASE ListModified(a) \/ StoredWindow(a)
    <3>1. CASE ListModified(a)
      <4>1. PICK e, l : task' = [task EXCEPT ![a] =
                           [task[a] EXCEPT !.pc = "show", !.etag = e, !.listing = l]]
        BY <3>1 DEF ListModified
      <4>2. task'[a].pc = "show"
        BY <1>0, <4>1 DEF Task
      <4> QED
        BY <2>1, <4>2, Quiet
    <3>2. CASE StoredWindow(a)
      <4>1. PICK w : task' = [task EXCEPT ![a] =
                                [task[a] EXCEPT !.pc = "plan", !.window = w]]
        BY <3>2 DEF StoredWindow
      <4>2. task'[a].pc = "plan"
        BY <1>0, <4>1 DEF Task
      <4> QED
        BY <2>1, <4>2, Quiet
    <3> QED
      BY <2>3, <3>1, <3>2
  <2>4. CASE \/ ListNotModified(a) \/ ShowMeta(a) \/ SetEtag(a) \/ Plan(a)
             \/ DownloadsDone(a)
    <3>1. task'[a].pc \notin {"prune", "mark"}
      BY <1>0, <2>4 DEF ListNotModified, ShowMeta, SetEtag, Plan, DownloadsDone,
         Goto, Task
    <3> QED
      BY <2>1, <3>1, Quiet
  <2> QED
    BY <1>2, <2>2, <2>3, <2>4
<1>3. CASE ResetStale(a) \/ Discover(a)
  <2>1. disk' = disk /\ task[a].pc # "mark" /\ task'[a].pc \notin {"prune", "mark"}
    BY <1>0, <1>3 DEF ResetStale, Discover, Goto, Task
  <2>2. \A i \in Ids : rows'[i] \in {rows[i], reset_stale(rows[i]), discover(rows[i])}
    BY <1>3 DEF ResetStale, Discover
  <2>3. \A i \in Ids : rows'[i].st = "cached" =>
           /\ rows[i].st = "cached" /\ rows'[i].file = rows[i].file
           /\ rows'[i].sum = rows[i].sum
    BY <1>0, <2>2, RestedRows
  <2> QED
    BY <2>1, <2>3, Quiet
<1>4. CASE PollFailed(a) \/ SyncDone(a)
  <2>1. UNCHANGED <<rows, disk>> /\ task[a].pc # "mark" /\ \E r : Return(a, r)
    BY <1>4 DEF PollFailed, SyncDone
  <2>2. task'[a].pc = "idle"
    BY <1>0, <2>1 DEF Return, Idle
  <2> QED
    BY <2>1, <2>2, Quiet
<1>5. CASE RetentionRead(a)
  <2>1. PICK D : task' = [task EXCEPT ![a] = [task[a] EXCEPT !.pc = "prune",
                                               !.doomed = Cached \cap D]]
    BY <1>5 DEF RetentionRead
  <2>2. task'[a].pc = "prune" /\ task'[a].doomed = Cached \cap D
    BY <1>0, <2>1 DEF Task
  <2>3. UNCHANGED <<rows, disk>> /\ snap'[a] = CachedFiles /\ task[a].pc = "retain"
    BY <1>0, <1>5 DEF RetentionRead
  <2>4. \A i \in Cached : snap'[a][i].file = rows[i].file
    BY <2>3 DEF CachedFiles, Cached
  <2> QED
    BY <2>2, <2>3, <2>4 DEF Prune, Cached
<1>6. CASE PruneRemove(a)
  <2>1. /\ UNCHANGED <<rows, snap>> /\ task[a].pc = "prune" /\ task[a].doomed # {}
        /\ task'[a].pc = "mark" /\ task'[a].doomed = task[a].doomed
    BY <1>0, <1>6 DEF PruneRemove, Goto, Task
  <2>2. disk' = IF snap[a][old].file = None THEN disk
                ELSE [disk EXCEPT ![snap[a][old].file] = None]
    BY <1>6 DEF PruneRemove, old
  <2>3. snap[a][old].file = rows[old].file /\ rows[old].st = "cached"
    BY <1>1, <2>1 DEF Prune
  <2>4. ASSUME NEW i \in Cached, i # old PROVE disk'[rows[i].file] = disk[rows[i].file]
    <3>1. Episode(a, i) /\ Episode(a, old)
      BY <1>1, <2>1, <2>4 DEF EpisodesOK, Cached
    <3>2. rows[i].file \in Mine(i) /\ rows[old].file \in Mine(old)
      BY <2>3, <2>4, <3>1 DEF Episode, EpisodeOK, Cached
    <3>3. rows[i].file # rows[old].file /\ rows[i].file \in Paths
      BY <1>1, <2>1, <2>4, <3>2, Disjoint DEF Steady, Solo, Mine, Cached
    <3> QED
      BY <1>0, <2>2, <2>3, <3>3
  <2>5. \A i \in Cached : i = old \/ disk'[rows[i].file] = rows[i].sum
    BY <2>1, <2>4 DEF Prune
  <2> QED
    BY <2>1, <2>5 DEF Prune, Cached, old
<1>7. CASE PruneKeeps(a)
  <2>1. /\ UNCHANGED <<rows, disk, snap>> /\ task[a].pc = "prune"
        /\ task'[a].pc = "prune" /\ task'[a].doomed \subseteq task[a].doomed
    BY <1>0, <1>7 DEF PruneKeeps, Task
  <2> QED
    BY <2>1 DEF Prune, Cached
<1>8. CASE PruneMark(a)
  <2>1. disk' = disk /\ task[a].pc = "mark" /\ task[a].doomed # {}
    BY <1>8 DEF PruneMark, Prune
  <2>2. rows[old].st = "cached"
    BY <1>1, <2>1 DEF Prune
  <2>3. /\ rows' = [rows EXCEPT ![old] = mark_pruned(rows[old])] /\ snap' = snap
        /\ task' = [task EXCEPT ![a] = [task[a] EXCEPT !.pc = "prune",
                                         !.doomed = task[a].doomed \ {old}]]
    BY <1>8, <2>2 DEF PruneMark, can_transition_to, old
  <2>4. task'[a].pc = "prune" /\ task'[a].doomed = task[a].doomed \ {old}
    BY <1>0, <2>3 DEF Task
  <2>5. rows'[old].st # "cached" /\ \A i \in Ids : i # old => rows'[i] = rows[i]
    BY <1>0, <1>1, <2>1, <2>3 DEF mark_pruned, Row
  <2>6. task[a].doomed \subseteq Ids
    BY <1>0 DEF Task
  <2> QED
    BY <2>1, <2>3, <2>4, <2>5, <2>6 DEF Prune, Cached, old
<1> QED
  BY <1>2, <1>3, <1>4, <1>5, <1>6, <1>7, <1>8
  DEF SyncStep, SyncStorageFails, Steady

LEMMA DownloadPrune ==
  ASSUME TypeOK, EpisodesOK, Steady, NEW a \in Actors, NEW k \in Ids, Prune(a),
         DownloadStep(a, k)
  PROVE  Prune(a)'
<1>0. /\ rows \in [Ids -> Row] /\ rows[k] \in Row
      /\ disk \in [Paths -> Contents \cup {None}]
  BY DEF TypeOK
<1>1. UNCHANGED <<task, snap>>
  BY DownloadFrame
<1>2. \A i \in Ids : EpisodeOK(rows[i], dl[a][i], snap[a][i], task[a].pc, disk, i)
  BY DEF EpisodesOK, Episode
<1>3. ASSUME dl[a][k].ph \notin Over PROVE task[a].pc \in {"download", "verify"}
  BY <1>2, <1>3 DEF EpisodeOK
<1>4. CASE \/ MarkDownloading(a, k) \/ Resolve(a, k) \/ FetchFails(a, k)
           \/ MarkFailed(a, k) \/ DownloadStorageFails(a, k)
  <2>1. disk' = disk /\ dl[a][k].ph \notin Over
    BY <1>4 DEF MarkDownloading, Resolve, FetchFails, MarkFailed,
       DownloadStorageFails, Over
  <2>2. \/ rows' = rows
        \/ rows' = [rows EXCEPT ![k] = mark_downloading(rows[k])]
        \/ rows' = [rows EXCEPT ![k] = mark_failed(rows[k])]
    BY <1>4 DEF MarkDownloading, Resolve, FetchFails, MarkFailed,
       DownloadStorageFails
  <2>3. \A i \in Ids : rows'[i].st = "cached" => rows'[i] = rows[i]
    <3>1. mark_downloading(rows[k]).st # "cached" /\ mark_failed(rows[k]).st # "cached"
      BY <1>0 DEF mark_downloading, mark_failed, Row
    <3> QED
      BY <1>0, <2>2, <3>1
  <2> QED
    BY <1>1, <1>3, <2>1, <2>3, Quiet
<1>5. CASE Progress(a, k)
  <2>1. disk' = disk /\ rows' = [rows EXCEPT ![k] = set_progress(rows[k])]
    BY <1>5 DEF Progress
  <2>2. \A i \in Ids :
           /\ rows'[i].st = rows[i].st /\ rows'[i].file = rows[i].file
           /\ rows'[i].sum = rows[i].sum
    BY <1>0, <2>1 DEF set_progress, Row
  <2> QED
    BY <1>1, <2>1, <2>2, Aside
<1>6. CASE Fetch(a, k)
  <2>1. rows' = rows /\ dl[a][k].ph = "fetch"
    BY <1>6 DEF Fetch
  <2>2. PICK c \in Contents : disk' = [disk EXCEPT ![dl[a][k].file] = c]
    BY <1>6 DEF Fetch
  <2>3. /\ rows[k].st = "downloading" /\ dl[a][k].file \in Mine(k)
        /\ task[a].pc \in {"download", "verify"}
    BY <1>2, <1>3, <2>1 DEF EpisodeOK, Over
  <2>4. ASSUME NEW i \in Cached PROVE disk'[rows[i].file] = disk[rows[i].file]
    <3>1. i \in Ids /\ i # k /\ rows[i].file \in Mine(i)
      BY <1>2, <2>3, <2>4 DEF EpisodeOK, Cached
    <3>2. rows[i].file # dl[a][k].file /\ rows[i].file \in Paths
      BY <2>3, <3>1, Disjoint DEF Steady, Solo, Mine
    <3> QED
      BY <1>0, <2>2, <3>2
  <2> QED
    BY <1>1, <2>1, <2>3, <2>4 DEF Prune, Cached
<1>7. CASE MarkCached(a, k)
  <2>1. dl[a][k].ph = "fetched" /\ disk' = disk
    BY <1>7 DEF MarkCached
  <2>2. /\ rows[k].st = "downloading" /\ disk[dl[a][k].file] = dl[a][k].sum
        /\ task[a].pc \in {"download", "verify"}
    BY <1>2, <1>3, <2>1 DEF EpisodeOK, Over
  <2>3. rows' = [rows EXCEPT ![k] = mark_cached(rows[k], dl[a][k].file, dl[a][k].sum)]
    BY <1>7, <2>2 DEF MarkCached, can_transition_to
  <2>4. /\ rows'[k].file = dl[a][k].file /\ rows'[k].sum = dl[a][k].sum
        /\ \A i \in Ids : i # k => rows'[i] = rows[i]
    BY <1>0, <2>3 DEF mark_cached
  <2> QED
    BY <1>1, <2>1, <2>2, <2>4 DEF Prune, Cached
<1> QED
  BY <1>4, <1>5, <1>6, <1>7 DEF DownloadStep

(* Every step keeps the prune in order. *)
LEMMA PruneStep ==
  ASSUME TypeOK, EpisodesOK, Steady, PruneOK, [Next]_vars
  PROVE  PruneOK'
<1> SUFFICES ASSUME NEW a \in Actors PROVE Prune(a)'
  BY DEF PruneOK
<1>0. Prune(a) /\ rows \in [Ids -> Row] /\ task \in [Actors -> Task]
  BY DEF PruneOK, TypeOK
<1>1. \A b \in Actors : b = a
  BY DEF Steady, Solo, Alone
<1>2. CASE UNCHANGED vars
  BY <1>0, <1>2, Aside DEF vars
<1>3. ASSUME NEW b \in Actors, SyncStep(b) PROVE Prune(a)'
  BY <1>0, <1>1, <1>3, SyncPrune
<1>4. ASSUME NEW b \in Actors, NEW k \in Ids, DownloadStep(b, k) PROVE Prune(a)'
  BY <1>0, <1>1, <1>4, DownloadPrune
<1>5. ASSUME NEW b \in Actors, VerifyStep(b) PROVE Prune(a)'
  <2>1. UNCHANGED <<rows, disk>> /\ VerifyStep(a)
    BY <1>1, <1>5 DEF VerifyStep, VerifyStart, VerifyDone, CheckFile
  <2>2. CASE VerifyStart(a) \/ VerifyDone(a)
    <3>1. task[a].pc # "mark" /\ task'[a].pc \in {"idle", "verify"}
      BY <1>0, <2>2 DEF VerifyStart, VerifyDone, Return, Idle
    <3> QED
      BY <1>0, <2>1, <3>1, Quiet
  <2>3. CASE \E i \in Ids : CheckFile(a, i)
    BY <1>0, <2>1, <2>3, Aside DEF CheckFile
  <2> QED
    BY <2>1, <2>2, <2>3 DEF VerifyStep
<1>6. CASE Environment
  <2>1. /\ UNCHANGED <<disk, task, snap>>
        /\ \/ rows' = rows
           \/ \E k \in Ids : rows' = [rows EXCEPT ![k] =
                                       [rows[k] EXCEPT !.progress = "old"]]
    BY <1>6 DEF Environment, UpstreamChanges, ProgressAges, Crash, Damage,
       Steady, Solo
  <2>2. \A i \in Ids :
           /\ rows'[i].st = rows[i].st /\ rows'[i].file = rows[i].file
           /\ rows'[i].sum = rows[i].sum
    BY <1>0, <2>1 DEF Row
  <2> QED
    BY <1>0, <2>1, <2>2, Aside
<1> QED
  BY <1>2, <1>3, <1>4, <1>5, <1>6 DEF Next

LEMMA PruneInit == Init => PruneOK
  BY DEF Init, PruneOK, Prune, Cached, Idle, NoRow

-----------------------------------------------------------------------------
(* No file without a row. *)

(* A step between downloads: the row stays or leaves a state without file. *)
LEMMA FileRested ==
  ASSUME NEW r \in Row, NEW j, NEW d, NEW i \in Ids, FileOK(r, j, d, i),
         j.ph # "fetched",
         NEW r2 \in {r, reset_stale(r), discover(r)}, NEW j2, NEW d2,
         \A p \in Mine(i) : d2[p] \in {d[p], None}
  PROVE  FileOK(r2, j2, d2, i)
<1>1. r.st = "cached" => r2 = r
  BY DEF reset_stale, discover, Exists
<1>2. r.st # "cached" => r2.st # "cached" /\ r2.file = None
  <2>1. r.st # "cached" => r.file = None
    BY DEF FileOK
  <2> QED
    BY <2>1 DEF reset_stale, discover, Exists, NoRow, Row
<1>3. \A p \in Mine(i) : p # None
  BY NoneAssumption DEF Mine
<1> QED
  BY <1>1, <1>2, <1>3 DEF FileOK

(* The same row, the same download, the same files. *)
LEMMA FileFrame ==
  ASSUME NEW r, NEW j, NEW d, NEW i, FileOK(r, j, d, i), NEW r2, NEW j2, NEW d2,
         r2.st = r.st, r2.file = r.file,
         j.ph = "fetched" => j2 = j,
         \A p \in Mine(i) : d2[p] = d[p]
  PROVE  FileOK(r2, j2, d2, i)
  BY DEF FileOK

(* Library::sync: when a row loses its file's name, the file is gone. *)
LEMMA SyncFile ==
  ASSUME TypeOK, EpisodesOK, PruneOK, FilesOK, NEW a \in Actors, NEW i \in Ids,
         SyncStep(a)
  PROVE  FileOK(rows'[i], dl'[a][i], disk', i)
<1> DEFINE old == Oldest(task[a].doomed)
<1>0. rows \in [Ids -> Row] /\ rows[i] \in Row
  BY DEF TypeOK
<1>1. dl[a][i].ph # "fetched"
  <2>1. task[a].pc \notin {"download", "verify"} \/ AllOver(a)
    BY DEF SyncStep, SyncStart, ResetStale, ListNotModified, ListModified,
       PollFailed, ShowMeta, Discover, SetEtag, StoredWindow, Plan,
       DownloadsDone, RetentionRead, PruneRemove, PruneKeeps, PruneMark,
       SyncDone, SyncStorageFails
  <2> QED
    BY <2>1 DEF EpisodesOK, Episode, EpisodeOK, AllOver, Over
<1>2. FileOK(rows[i], dl[a][i], disk, i)
  BY DEF FilesOK
<1>3. \A p \in Mine(i) : disk'[p] \in {disk[p], None}
  <2>1. CASE Plan(a)
    BY <2>1 DEF Plan
  <2>2. CASE ~Plan(a)
    BY <2>2, SyncEffect DEF EpisodesOK, Mine
  <2> QED
    BY <2>1, <2>2
<1>4. CASE PruneMark(a)
  <2>1. task[a].pc = "mark" /\ disk' = disk
    BY <1>4 DEF PruneMark
  <2>2. /\ task[a].doomed # {} /\ disk[rows[old].file] = None
    BY <2>1 DEF PruneOK, Prune, FilesOK
  <2>3. old \in Ids /\ rows[old].st = "cached"
    BY <2>1, <2>2, OldestDoomed DEF PruneOK, Prune
  <2>4. rows' = [rows EXCEPT ![old] = mark_pruned(rows[old])]
    BY <1>4, <2>3 DEF PruneMark, can_transition_to
  <2> HIDE DEF old
  <2>5. CASE i = old
    <3>1. rows'[i].st # "cached" /\ rows'[i].file = None
      BY <1>0, <2>4, <2>5 DEF mark_pruned, Row
    <3> QED
      BY <1>1, <1>2, <2>1, <2>2, <2>5, <3>1 DEF FileOK
  <2>6. CASE i # old
    <3>1. rows'[i] = rows[i]
      BY <1>0, <2>4, <2>6
    <3> QED
      BY <1>1, <1>2, <2>1, <3>1 DEF FileOK
  <2> QED
    BY <2>5, <2>6
<1>5. CASE ~PruneMark(a)
  <2>1. rows'[i] \in {rows[i], reset_stale(rows[i]), discover(rows[i])}
    BY <1>5 DEF SyncStep, SyncStart, ResetStale, ListNotModified, ListModified,
       PollFailed, ShowMeta, Discover, SetEtag, StoredWindow, Plan,
       DownloadsDone, RetentionRead, PruneRemove, PruneKeeps,
       SyncDone, SyncStorageFails
  <2> QED
    BY <1>0, <1>1, <1>2, <1>3, <2>1, FileRested
<1> QED
  BY <1>4, <1>5

(* A cached episode is never downloaded again, as its file is intact. *)
LEMMA NotCached ==
  ASSUME EpisodesOK, PruneOK, "io" \notin Faults, NEW a \in Actors, NEW i \in Ids,
         dl[a][i].ph \in {"queued", "damaged"}
  PROVE  rows[i].st # "cached"
<1>1. EpisodeOK(rows[i], dl[a][i], snap[a][i], task[a].pc, disk, i)
  BY DEF EpisodesOK, Episode
<1>2. task[a].pc \in {"download", "verify"}
  BY <1>1 DEF EpisodeOK, Over
<1>3. rows[i].st = "cached" => disk[rows[i].file] = rows[i].sum
  BY <1>2 DEF PruneOK, Prune, Cached
<1> QED
  BY <1>1, <1>3 DEF EpisodeOK

(* A download step of the episode itself. *)
LEMMA DownloadFile ==
  ASSUME TypeOK, EpisodesOK, PruneOK, FilesOK, "io" \notin Faults,
         "storage" \notin Faults, NEW a \in Actors, NEW i \in Ids,
         DownloadStep(a, i)
  PROVE  FileOK(rows'[i], dl'[a][i], disk', i)
<1> DEFINE r == rows[i]
           j == dl[a][i]
<1>0. /\ rows \in [Ids -> Row] /\ r \in Row
      /\ dl \in [Actors -> [Ids -> Job]] /\ dl[a] \in [Ids -> Job] /\ j \in Job
      /\ disk \in [Paths -> Contents \cup {None}]
  BY DEF TypeOK
<1>1. FileOK(r, j, disk, i)
  BY DEF FilesOK
<1>2. EpisodeOK(r, j, snap[a][i], task[a].pc, disk, i)
  BY DEF EpisodesOK, Episode
<1>3. \A p \in Mine(i) : p # None /\ p \in Paths
  BY NoneAssumption DEF Mine
<1>4. j.ph \in {"queued", "damaged"} => r.st # "cached"
  BY NotCached
<1> HIDE DEF r, j
<1>5. CASE MarkDownloading(a, i)
  <2>1. /\ disk' = disk /\ j.ph \in {"queued", "damaged"}
        /\ rows'[i] \in {r, mark_downloading(r)}
    BY <1>0, <1>5 DEF MarkDownloading, j, r
  <2>2. rows'[i].st # "cached" /\ rows'[i].file = None
    BY <1>0, <1>1, <1>4, <2>1 DEF mark_downloading, Row, FileOK
  <2> QED
    BY <1>1, <1>4, <2>1, <2>2 DEF FileOK
<1>6. CASE Resolve(a, i) \/ FetchFails(a, i)
  <2>1. UNCHANGED <<rows, disk>> /\ j.ph # "fetched"
    BY <1>6 DEF Resolve, FetchFails, j
  <2> QED
    BY <1>1, <2>1, FileFrame DEF r
<1>7. CASE Progress(a, i)
  <2>1. UNCHANGED <<disk, dl>> /\ rows'[i] = set_progress(r)
    BY <1>0, <1>7 DEF Progress, r
  <2>2. rows'[i].st = r.st /\ rows'[i].file = r.file
    BY <1>0, <2>1 DEF set_progress, Row
  <2> QED
    BY <1>1, <2>1, <2>2, FileFrame DEF j
<1>8. CASE Fetch(a, i)
  <2>1. PICK c \in Contents :
          /\ disk' = [disk EXCEPT ![j.file] = c]
          /\ dl' = [dl EXCEPT ![a][i] = [j EXCEPT !.ph = "fetched", !.sum = c]]
    BY <1>8 DEF Fetch, j
  <2>2. dl'[a][i].ph = "fetched" /\ dl'[a][i].file = j.file
    BY <1>0, <2>1 DEF Job
  <2>3. rows' = rows /\ j.ph = "fetch"
    BY <1>8 DEF Fetch, j
  <2>4. \A p \in Mine(i) : p = j.file \/ disk'[p] = disk[p]
    BY <1>0, <1>3, <2>1
  <2> QED
    BY <1>1, <2>2, <2>3, <2>4 DEF FileOK, r
<1>9. CASE MarkCached(a, i)
  <2>1. disk' = disk /\ j.ph = "fetched"
    BY <1>9 DEF MarkCached, j
  <2>2. r.st = "downloading"
    BY <1>2, <2>1 DEF EpisodeOK
  <2>3. rows'[i] = mark_cached(r, j.file, j.sum)
    BY <1>0, <1>9, <2>2 DEF MarkCached, can_transition_to, r, j
  <2>4. rows'[i].st = "cached" /\ rows'[i].file = j.file
    BY <2>3 DEF mark_cached
  <2> QED
    BY <1>1, <1>3, <2>1, <2>2, <2>4 DEF FileOK
<1>10. CASE MarkFailed(a, i)
  <2>1. /\ disk' = disk /\ j.ph = "fail"
        /\ \/ rows'[i] = r
           \/ r.st = "downloading" /\ rows'[i] = mark_failed(r)
    BY <1>0, <1>10 DEF MarkFailed, can_transition_to, r, j
  <2>2. \/ rows'[i] = r
        \/ r.st = "downloading" /\ rows'[i].st = "failed" /\ rows'[i].file = r.file
    BY <1>0, <2>1 DEF mark_failed, Row
  <2> QED
    BY <1>1, <2>1, <2>2 DEF FileOK
<1> QED
  BY <1>5, <1>6, <1>7, <1>8, <1>9, <1>10 DEF DownloadStep, DownloadStorageFails

(* Library::verify and the environment touch no file and no row's file. *)
LEMMA VerifyFile ==
  ASSUME TypeOK, EpisodesOK, FilesOK, NEW a \in Actors, NEW i \in Ids,
         VerifyStep(a)
  PROVE  FileOK(rows'[i], dl'[a][i], disk', i)
<1>0. dl \in [Actors -> [Ids -> Job]] /\ dl[a] \in [Ids -> Job]
  BY DEF TypeOK
<1>1. UNCHANGED <<rows, disk>> /\ FileOK(rows[i], dl[a][i], disk, i)
  BY DEF VerifyStep, VerifyStart, VerifyDone, CheckFile, FilesOK
<1>2. CASE VerifyStart(a) \/ VerifyDone(a)
  <2>1. dl[a][i].ph # "fetched"
    BY <1>2 DEF VerifyStart, VerifyDone, AllOver, EpisodesOK, Episode, EpisodeOK,
       Over
  <2> QED
    BY <1>1, <2>1, FileFrame
<1>3. ASSUME NEW k \in Ids, CheckFile(a, k)
      PROVE  FileOK(rows'[i], dl'[a][i], disk', i)
  <2>1. dl[a][k].ph = "check"
        /\ \E ph : dl' = [dl EXCEPT ![a] = [dl[a] EXCEPT ![k] = [dl[a][k] EXCEPT !.ph = ph]]]
    BY <1>3 DEF CheckFile, Phase
  <2>2. dl[a][i].ph = "fetched" => dl'[a][i] = dl[a][i]
    BY <1>0, <2>1
  <2> QED
    BY <1>1, <2>2, FileFrame
<1> QED
  BY <1>2, <1>3 DEF VerifyStep

LEMMA EnvironmentFile ==
  ASSUME TypeOK, Steady, FilesOK, NEW a \in Actors, NEW i \in Ids, Environment
  PROVE  FileOK(rows'[i], dl'[a][i], disk', i)
<1>0. rows \in [Ids -> Row]
  BY DEF TypeOK
<1>1. /\ UNCHANGED <<disk, dl>>
      /\ \/ rows' = rows
         \/ \E k \in Ids : rows' = [rows EXCEPT ![k] =
                                     [rows[k] EXCEPT !.progress = "old"]]
  BY DEF Environment, UpstreamChanges, ProgressAges, Crash, Damage, Steady, Solo
<1>2. rows'[i].st = rows[i].st /\ rows'[i].file = rows[i].file
  BY <1>0, <1>1 DEF Row
<1> QED
  BY <1>1, <1>2, FileFrame DEF FilesOK

(* The file of the row to be marked next is gone and stays away. *)
LEMMA MarkedStep ==
  ASSUME TypeOK, EpisodesOK, PruneOK, FilesOK, Steady, [Next]_vars,
         NEW a \in Actors, task'[a].pc = "mark"
  PROVE  disk'[rows'[Oldest(task'[a].doomed)].file] = None
<1> DEFINE old == Oldest(task[a].doomed)
<1>0. /\ rows \in [Ids -> Row] /\ task \in [Actors -> Task] /\ task[a] \in Task
      /\ disk \in [Paths -> Contents \cup {None}]
      /\ snap[a] \in [Ids -> File]
  BY DEF TypeOK
<1>1. \A b \in Actors : b = a
  BY DEF Steady, Solo, Alone
<1>2. ASSUME task' = task, disk' = disk, \A i \in Ids : rows'[i].file = rows[i].file
      PROVE  disk'[rows'[Oldest(task'[a].doomed)].file] = None
  <2>1. task[a].pc = "mark" /\ task[a].doomed # {}
    BY <1>2 DEF PruneOK, Prune
  <2>2. old \in Ids
    BY <2>1, OldestDoomed
  <2> QED
    BY <1>2, <2>1, <2>2 DEF FilesOK
<1>3. CASE UNCHANGED vars
  BY <1>2, <1>3 DEF vars
<1>4. CASE SyncStep(a)
  <2>1. CASE PruneRemove(a)
    <3>1. /\ rows' = rows /\ task[a].pc = "prune" /\ task[a].doomed # {}
          /\ task'[a].doomed = task[a].doomed
      BY <1>0, <2>1 DEF PruneRemove, Goto, Task
    <3>2. disk' = IF snap[a][old].file = None THEN disk
                  ELSE [disk EXCEPT ![snap[a][old].file] = None]
      BY <2>1 DEF PruneRemove
    <3>3. old \in task[a].doomed /\ old \in Ids
      BY <3>1, OldestDoomed
    <3> HIDE DEF old
    <3>4. snap[a][old].file = rows[old].file /\ rows[old].st = "cached"
      BY <3>1, <3>3 DEF PruneOK, Prune
    <3>5. rows[old].file # None /\ rows[old].file \in Paths
      BY <3>3, <3>4 DEF EpisodesOK, Episode, EpisodeOK, Mine
    <3>6. disk'[rows[old].file] = None
      BY <1>0, <3>2, <3>4, <3>5
    <3> QED
      BY <3>1, <3>6 DEF old
  <2>2. ASSUME ~PruneRemove(a) PROVE FALSE
    <3>1. CASE ListModified(a)
      <4>1. PICK e, l : task' = [task EXCEPT ![a] =
                           [task[a] EXCEPT !.pc = "show", !.etag = e, !.listing = l]]
        BY <3>1 DEF ListModified
      <4> QED
        BY <1>0, <4>1 DEF Task
    <3>2. CASE \/ ResetStale(a) \/ ListNotModified(a) \/ ShowMeta(a)
               \/ Discover(a) \/ SetEtag(a) \/ Plan(a) \/ DownloadsDone(a)
      BY <1>0, <3>2 DEF ResetStale, ListNotModified, ShowMeta, Discover, SetEtag,
         Plan, DownloadsDone, Goto, Task
    <3>3. CASE PollFailed(a) \/ SyncDone(a)
      BY <1>0, <3>3 DEF PollFailed, SyncDone, Return, Idle
    <3>4. CASE SyncStart(a)
      BY <1>0, <3>4 DEF SyncStart, Idle
    <3>5. CASE StoredWindow(a)
      <4>1. PICK w : task' = [task EXCEPT ![a] =
                                [task[a] EXCEPT !.pc = "plan", !.window = w]]
        BY <3>5 DEF StoredWindow
      <4> QED
        BY <1>0, <4>1 DEF Task
    <3>6. CASE RetentionRead(a)
      BY <1>0, <3>6 DEF RetentionRead, Task
    <3>7. CASE PruneKeeps(a)
      BY <1>0, <3>7 DEF PruneKeeps, Task
    <3>8. CASE PruneMark(a)
      <4>1. CASE Return(a, "illegal")
        BY <1>0, <4>1 DEF Return, Idle
      <4>2. CASE \E D : task' = [task EXCEPT ![a] =
                                   [task[a] EXCEPT !.pc = "prune", !.doomed = D]]
        BY <1>0, <4>2 DEF Task
      <4> QED
        BY <3>8, <4>1, <4>2 DEF PruneMark
    <3> QED
      BY <1>4, <2>2, <3>1, <3>2, <3>3, <3>4, <3>5, <3>6, <3>7, <3>8
      DEF SyncStep, SyncStorageFails, Steady
  <2> QED
    BY <2>1, <2>2
<1>5. ASSUME NEW k \in Ids, DownloadStep(a, k)
      PROVE  disk'[rows'[Oldest(task'[a].doomed)].file] = None
  <2>1. task' = task
    BY <1>5, DownloadFrame
  <2>2. dl[a][k].ph \in Over
    BY <2>1 DEF EpisodesOK, Episode, EpisodeOK
  <2>3. Progress(a, k)
    BY <1>5, <2>2 DEF DownloadStep, MarkDownloading, Resolve, Fetch,
       FetchFails, MarkCached, MarkFailed, DownloadStorageFails, Over
  <2>4. disk' = disk /\ rows' = [rows EXCEPT ![k] = set_progress(rows[k])]
    BY <2>3 DEF Progress
  <2>5. \A i \in Ids : rows'[i].file = rows[i].file
    BY <1>0, <2>4 DEF set_progress, Row
  <2> QED
    BY <1>2, <2>1, <2>4, <2>5
<1>6. CASE VerifyStep(a)
  <2>1. UNCHANGED <<rows, disk>>
    BY <1>6 DEF VerifyStep, VerifyStart, VerifyDone, CheckFile
  <2>2. task' = task
    BY <1>0, <1>6 DEF VerifyStep, VerifyStart, VerifyDone, CheckFile, Return, Idle
  <2> QED
    BY <1>2, <2>1, <2>2
<1>7. CASE Environment
  <2>1. /\ UNCHANGED <<disk, task>>
        /\ \/ rows' = rows
           \/ \E k \in Ids : rows' = [rows EXCEPT ![k] =
                                       [rows[k] EXCEPT !.progress = "old"]]
    BY <1>7 DEF Environment, UpstreamChanges, ProgressAges, Crash, Damage,
       Steady, Solo
  <2>2. \A i \in Ids : rows'[i].file = rows[i].file
    BY <1>0, <2>1 DEF Row
  <2> QED
    BY <1>2, <2>1, <2>2
<1> QED
  BY <1>1, <1>3, <1>4, <1>5, <1>6, <1>7 DEF Next

(* Every file is some episode's: only fetch creates one, at a media_path. *)
LEMMA OwnedStep ==
  ASSUME TypeOK, EpisodesOK, FilesOK, Steady, [Next]_vars, NEW p \in Paths,
         disk'[p] # None
  PROVE  \E i \in Ids : p \in Mine(i)
<1>0. disk \in [Paths -> Contents \cup {None}]
  BY DEF TypeOK
<1>1. disk[p] # None => \E i \in Ids : p \in Mine(i)
  BY DEF FilesOK
<1>2. ASSUME NEW a \in Actors, SyncStep(a) PROVE disk[p] # None
  <2>1. CASE Plan(a)
    BY <2>1 DEF Plan
  <2>2. CASE ~Plan(a)
    <3>1. CASE disk' = disk
      BY <3>1
    <3>2. CASE PruneRemove(a)
      BY <1>0, <3>2 DEF PruneRemove
    <3> QED
      BY <1>2, <2>2, <3>1, <3>2 DEF SyncStep, SyncStart, ResetStale,
         ListNotModified, ListModified, PollFailed, ShowMeta, Discover, SetEtag,
         StoredWindow, DownloadsDone, RetentionRead, PruneKeeps, PruneMark,
         SyncDone, SyncStorageFails
  <2> QED
    BY <2>1, <2>2
<1>3. ASSUME NEW a \in Actors, VerifyStep(a) PROVE disk[p] # None
  BY <1>3 DEF VerifyStep, VerifyStart, VerifyDone, CheckFile
<1>4. ASSUME Environment PROVE disk[p] # None
  BY <1>4 DEF Environment, UpstreamChanges, ProgressAges, Crash, Damage,
     Steady, Solo
<1>5. ASSUME NEW a \in Actors, NEW k \in Ids, DownloadStep(a, k)
      PROVE  disk[p] # None \/ p \in Mine(k)
  <2>1. CASE Fetch(a, k)
    <3>1. dl[a][k].file \in Mine(k)
      BY <2>1 DEF Fetch, EpisodesOK, Episode, EpisodeOK
    <3>2. PICK c \in Contents : disk' = [disk EXCEPT ![dl[a][k].file] = c]
      BY <2>1 DEF Fetch
    <3> QED
      BY <1>0, <3>1, <3>2
  <2> QED
    BY <1>5, <2>1 DEF DownloadStep, MarkDownloading, Resolve, Progress,
       FetchFails, MarkCached, MarkFailed, DownloadStorageFails
<1> QED
  BY <1>1, <1>2, <1>3, <1>4, <1>5 DEF Next, vars

LEMMA FilesStep ==
  ASSUME TypeOK, EpisodesOK, PruneOK, FilesOK, Steady, "io" \notin Faults,
         [Next]_vars
  PROVE  FilesOK'
<1>1. ASSUME NEW a \in Actors, NEW i \in Ids
      PROVE  FileOK(rows'[i], dl'[a][i], disk', i)
  <2>0. \A b \in Actors : b = a
    BY DEF Steady, Solo, Alone
  <2>1. FileOK(rows[i], dl[a][i], disk, i)
    BY DEF FilesOK
  <2>2. CASE UNCHANGED vars
    BY <2>1, <2>2 DEF vars
  <2>3. CASE SyncStep(a)
    BY <2>3, SyncFile
  <2>4. CASE VerifyStep(a)
    BY <2>4, VerifyFile
  <2>5. ASSUME NEW k \in Ids, DownloadStep(a, k)
        PROVE  FileOK(rows'[i], dl'[a][i], disk', i)
    <3>1. CASE i = k
      BY <2>5, <3>1, DownloadFile DEF Steady
    <3>2. CASE i # k
      <4>1. Episode(a, k) /\ OwnStems
        BY DEF EpisodesOK, Steady, Solo
      <4>2. /\ rows'[i] = rows[i] /\ dl'[a][i] = dl[a][i]
            /\ \A p \in Mine(i) : disk'[p] = disk[p]
        BY <2>5, <3>2, <4>1, DownloadElsewhere
      <4> QED
        BY <2>1, <4>2, FileFrame
    <3> QED
      BY <3>1, <3>2
  <2>6. CASE Environment
    BY <2>6, EnvironmentFile
  <2> QED
    BY <2>0, <2>2, <2>3, <2>4, <2>5, <2>6 DEF Next
<1>2. \A a \in Actors : task'[a].pc = "mark" =>
        disk'[rows'[Oldest(task'[a].doomed)].file] = None
  BY MarkedStep
<1>3. \A p \in Paths : disk'[p] # None => \E i \in Ids : p \in Mine(i)
  BY OwnedStep
<1> QED
  BY <1>1, <1>2, <1>3 DEF FilesOK

LEMMA FilesInit == Init => FilesOK
<1> SUFFICES ASSUME Init PROVE FilesOK
  OBVIOUS
<1>1. \A p \in Paths : disk[p] = None
  BY DEF Init
<1>2. \A i \in Ids : rows[i].st = "absent" /\ rows[i].file = None
  BY DEF Init, NoRow
<1>3. \A a \in Actors : task[a].pc = "idle"
  BY DEF Init, Idle
<1>4. \A i \in Ids : Mine(i) \subseteq Paths
  BY DEF Mine
<1> QED
  BY <1>1, <1>2, <1>3, <1>4 DEF FilesOK, FileOK

(* No file is left in the media directory that no row names: a failed      *)
(* transfer leaves none, a prune removes the file before the row forgets   *)
(* it, and a row is only downloaded again when its file is gone.           *)
THEOREM NoStray ==
  ASSUME Steady, "io" \notin Faults PROVE Spec => []NoStrayFile
<1>1. Init => EpisodesOK /\ PruneOK /\ FilesOK
  BY EpisodesInit, PruneInit, FilesInit
<1>2. TypeOK /\ EpisodesOK /\ PruneOK /\ FilesOK /\ [Next]_vars =>
        EpisodesOK' /\ PruneOK' /\ FilesOK'
  BY EpisodesStep, PruneStep, FilesStep DEF Steady
<1>3. FilesOK => NoStrayFile
  <2> SUFFICES ASSUME FilesOK, NEW p \in Paths, disk[p] # None
               PROVE  \/ \E i \in Ids : rows[i].file = p
                      \/ \E a \in Actors, i \in Ids :
                           dl[a][i].ph \in {"fetched", "fail"} /\ dl[a][i].file = p
    BY DEF NoStrayFile
  <2>1. PICK i \in Ids : p \in Mine(i)
    BY DEF FilesOK
  <2>2. PICK a \in Actors : TRUE
    BY DEF Steady, Solo, Alone
  <2> QED
    BY <2>1, <2>2 DEF FilesOK, FileOK
<1> QED
  BY <1>1, <1>2, <1>3, TypeCorrect, PTL DEF Spec
-----------------------------------------------------------------------------
(* What the feed lists. *)

(* ORDER BY lists every row once, newest first. *)
LEMMA NewestFirstLists ==
  ASSUME NEW S, S \subseteq Ids
  PROVE  /\ Cardinality(S) \in Nat
         /\ Lists(NewestFirst(S), Cardinality(S), S)
         /\ NewestFirst(S) \in Seq(S) /\ Len(NewestFirst(S)) = Cardinality(S)
         /\ ToSet(NewestFirst(S)) = S
<1> DEFINE n == Cardinality(S)
           f == NewestFirst(S)
<1>1. IsFiniteSet(S) /\ S \subseteq Nat /\ n \in Nat
  BY LibraryAssumption, FS_Subset, FS_CardinalityType
<1>2. \E g \in [1..n -> S] : \A j, k \in 1..n : j < k => g[j] > g[k]
  BY <1>1, CanList DEF Lists, Descending
<1>3. f \in [1..n -> S] /\ \A j, k \in 1..n : j < k => f[j] > f[k]
  BY <1>2 DEF NewestFirst
<1> HIDE DEF f, n
<1>4. \A j, k \in 1..n : j # k => f[j] # f[k]
  <2>1. \A k \in 1..n : f[k] \in Nat
    BY <1>1, <1>3
  <2> QED
    BY <1>1, <1>3, <2>1
<1>5. f \in Surjection(1..n, S)
  <2>1. f \in Injection(1..n, S)
    BY <1>3, <1>4 DEF Injection, IsInjective
  <2>2. IsFiniteSet(1..n) /\ Cardinality(1..n) = n
    BY <1>1, FS_Interval
  <2> QED
    BY <1>1, <2>1, <2>2, FS_Injection DEF n
<1>6. \A x \in S : \E k \in 1..n : f[k] = x
  BY <1>5 DEF Surjection
<1>7. f \in Seq(S) /\ Len(f) = n /\ DOMAIN f = 1..n
  BY <1>1, <1>3
<1>8. ToSet(f) = S
  BY <1>3, <1>6, <1>7 DEF ToSet
<1> QED
  BY <1>1, <1>3, <1>6, <1>7, <1>8 DEF f, n, Lists, Descending

\* A show with episodes has a row of its own: discover runs after upsert_show.
ShowKnown ==
  /\ \A i \in Ids : Exists(rows[i]) => show.exists = TRUE
  /\ \A a \in Actors : task[a].pc = "discover" => show.exists = TRUE

(* The row of a show is never deleted. *)
LEMMA ShowStays ==
  ASSUME TypeOK, [Next]_vars, show.exists = TRUE
  PROVE  show'.exists = TRUE
<1>0. show \in Show
  BY DEF TypeOK
<1>1. CASE show' = show
  BY <1>1
<1>2. CASE \E p : show' = [show EXCEPT !.poll = p]
  BY <1>0, <1>2 DEF Show
<1>3. CASE \E e : show' = [show EXCEPT !.etag = e]
  BY <1>0, <1>3 DEF Show
<1>4. CASE show' = [show EXCEPT !.exists = TRUE]
  BY <1>0, <1>4 DEF Show
<1>5. ASSUME NEW a \in Actors, SyncStep(a)
      PROVE  \/ show' = show \/ \E p : show' = [show EXCEPT !.poll = p]
             \/ \E e : show' = [show EXCEPT !.etag = e]
             \/ show' = [show EXCEPT !.exists = TRUE]
  <2>1. CASE PollFailed(a) \/ SyncDone(a)
    BY <2>1 DEF PollFailed, SyncDone, record_poll
  <2>2. CASE ShowMeta(a)
    BY <2>2 DEF ShowMeta
  <2>3. CASE SetEtag(a)
    BY <2>3 DEF SetEtag
  <2> QED
    BY <1>5, <2>1, <2>2, <2>3 DEF SyncStep, SyncStart, ResetStale,
       ListNotModified, ListModified, Discover, StoredWindow, Plan,
       DownloadsDone, RetentionRead, PruneRemove, PruneKeeps, PruneMark,
       SyncStorageFails
<1>6. ASSUME NEW a \in Actors, VerifyStep(a) PROVE show' = show
  BY <1>6 DEF VerifyStep, VerifyStart, VerifyDone, CheckFile
<1>7. ASSUME NEW a \in Actors, NEW i \in Ids, DownloadStep(a, i) PROVE show' = show
  BY <1>7, DownloadFrame
<1>8. ASSUME Environment PROVE show' = show
  BY <1>8 DEF Environment, UpstreamChanges, ProgressAges, Crash, Damage
<1> QED
  BY <1>1, <1>2, <1>3, <1>4, <1>5, <1>6, <1>7, <1>8 DEF Next, vars

(* Only discover inserts an episode. *)
LEMMA OnlyDiscover ==
  ASSUME TypeOK, [Next]_vars, NEW i \in Ids, ~Exists(rows[i]), Exists(rows'[i])
  PROVE  \E a \in Actors : Discover(a)
<1>0. rows \in [Ids -> Row] /\ rows[i] \in Row /\ rows[i].st = "absent"
      /\ rows'[i].st # "absent" /\ rows' # rows
  BY DEF TypeOK, Exists
<1>1. ASSUME NEW a \in Actors, SyncStep(a) PROVE Discover(a)
  <2>1. ASSUME ResetStale(a) PROVE FALSE
    BY <1>0, <2>1 DEF ResetStale, reset_stale
  <2>2. ASSUME PruneMark(a) PROVE FALSE
    <3> DEFINE old == Oldest(task[a].doomed)
    <3>1. can_transition_to(rows[old].st, "pruned")
          /\ rows' = [rows EXCEPT ![old] = mark_pruned(rows[old])]
      BY <1>0, <2>2 DEF PruneMark
    <3> HIDE DEF old
    <3>2. i # old
      BY <1>0, <3>1 DEF can_transition_to
    <3> QED
      BY <1>0, <3>1, <3>2
  <2> QED
    BY <1>0, <1>1, <2>1, <2>2 DEF SyncStep, SyncStart, ListNotModified,
       ListModified, PollFailed, ShowMeta, SetEtag, StoredWindow, Plan,
       DownloadsDone, RetentionRead, PruneRemove, PruneKeeps, SyncDone,
       SyncStorageFails
<1>2. ASSUME NEW a \in Actors, VerifyStep(a) PROVE FALSE
  BY <1>0, <1>2 DEF VerifyStep, VerifyStart, VerifyDone, CheckFile
<1>3. ASSUME NEW a \in Actors, NEW k \in Ids, DownloadStep(a, k) PROVE FALSE
  <2>1. CASE MarkDownloading(a, k)
    BY <1>0, <2>1 DEF MarkDownloading, can_transition_to
  <2>2. CASE Progress(a, k)
    BY <1>0, <2>2 DEF Progress, set_progress
  <2>3. CASE MarkCached(a, k)
    BY <1>0, <2>3 DEF MarkCached, can_transition_to
  <2>4. CASE MarkFailed(a, k)
    BY <1>0, <2>4 DEF MarkFailed, can_transition_to
  <2> QED
    BY <1>0, <1>3, <2>1, <2>2, <2>3, <2>4
    DEF DownloadStep, Resolve, Fetch, FetchFails, DownloadStorageFails
<1>4. ASSUME Environment PROVE FALSE
  <2>1. PICK k \in Ids : rows' = [rows EXCEPT ![k] =
                                   [rows[k] EXCEPT !.progress = "old"]]
    BY <1>0, <1>4 DEF Environment, UpstreamChanges, ProgressAges, Crash, Damage
  <2> QED
    BY <1>0, <2>1 DEF Row
<1> QED
  BY <1>0, <1>1, <1>2, <1>3, <1>4 DEF Next, vars

(* Only provider.show's answer leads to discover. *)
LEMMA OnlyShowMeta ==
  ASSUME TypeOK, Solo, [Next]_vars, NEW a \in Actors,
         task[a].pc # "discover", task'[a].pc = "discover"
  PROVE  show'.exists = TRUE
<1>0. task \in [Actors -> Task] /\ task[a] \in Task /\ show \in Show /\ task' # task
  BY DEF TypeOK
<1>1. CASE ShowMeta(a)
  BY <1>0, <1>1 DEF ShowMeta, Show
<1>2. ASSUME SyncStep(a), ~ShowMeta(a) PROVE FALSE
  <2>1. CASE ListModified(a)
    <3>1. PICK e, l : task' = [task EXCEPT ![a] =
                         [task[a] EXCEPT !.pc = "show", !.etag = e, !.listing = l]]
      BY <2>1 DEF ListModified
    <3> QED
      BY <1>0, <3>1 DEF Task
  <2>2. CASE StoredWindow(a)
    <3>1. PICK x : task' = [task EXCEPT ![a] =
                              [task[a] EXCEPT !.pc = "plan", !.window = x]]
      BY <2>2 DEF StoredWindow
    <3> QED
      BY <1>0, <3>1 DEF Task
  <2>3. CASE RetentionRead(a)
    <3>1. PICK D : task' = [task EXCEPT ![a] =
                              [task[a] EXCEPT !.pc = "prune", !.doomed = D]]
      BY <2>3 DEF RetentionRead
    <3> QED
      BY <1>0, <3>1 DEF Task
  <2>4. CASE \/ ResetStale(a) \/ ListNotModified(a) \/ Discover(a)
             \/ SetEtag(a) \/ Plan(a) \/ DownloadsDone(a) \/ PruneRemove(a)
    BY <1>0, <2>4 DEF ResetStale, ListNotModified, Discover, SetEtag, Plan,
       DownloadsDone, PruneRemove, Goto, Task
  <2>5. CASE \E r : Return(a, r)
    BY <1>0, <2>5 DEF Return, Idle
  <2>6. CASE PruneMark(a)
    <3>1. CASE \E D : task' = [task EXCEPT ![a] =
                                 [task[a] EXCEPT !.pc = "prune", !.doomed = D]]
      BY <1>0, <3>1 DEF Task
    <3> QED
      BY <2>5, <2>6, <3>1 DEF PruneMark
  <2>7. CASE SyncStart(a)
    BY <1>0, <2>7 DEF SyncStart, Idle
  <2>8. CASE PruneKeeps(a)
    BY <1>0, <2>8 DEF PruneKeeps, Task
  <2> QED
    BY <1>2, <2>1, <2>2, <2>3, <2>4, <2>5, <2>6, <2>7, <2>8
    DEF SyncStep, PollFailed, SyncDone, SyncStorageFails
<1>3. ASSUME VerifyStep(a) PROVE FALSE
  BY <1>0, <1>3 DEF VerifyStep, VerifyStart, VerifyDone, CheckFile, Return, Idle
<1>4. ASSUME NEW i \in Ids, DownloadStep(a, i) PROVE FALSE
  BY <1>0, <1>4, DownloadFrame
<1>5. ASSUME Environment PROVE FALSE
  <2>1. PICK b \in Actors : Return(b, "none")
    BY <1>0, <1>5 DEF Environment, UpstreamChanges, ProgressAges, Crash, Damage
  <2> QED
    BY <1>0, <2>1 DEF Return, Idle
<1>6. \A b \in Actors : b = a
  BY DEF Solo, Alone
<1> QED
  BY <1>0, <1>1, <1>2, <1>3, <1>4, <1>5, <1>6 DEF Next, vars

LEMMA ShowKnownStep ==
  ASSUME TypeOK, Solo, ShowKnown, [Next]_vars
  PROVE  ShowKnown'
<1>1. ASSUME NEW i \in Ids, Exists(rows'[i]) PROVE show'.exists = TRUE
  <2>1. CASE Exists(rows[i])
    BY <2>1, ShowStays DEF ShowKnown
  <2>2. CASE ~Exists(rows[i])
    <3>1. PICK a \in Actors : task[a].pc = "discover"
      BY <1>1, <2>2, OnlyDiscover DEF Discover
    <3> QED
      BY <3>1, ShowStays DEF ShowKnown
  <2> QED
    BY <2>1, <2>2
<1>2. ASSUME NEW a \in Actors, task'[a].pc = "discover" PROVE show'.exists = TRUE
  BY <1>2, OnlyShowMeta, ShowStays DEF ShowKnown
<1> QED
  BY <1>1, <1>2 DEF ShowKnown, Exists

(* Every cached episode is in the feed of its show, and its enclosure is    *)
(* served with the recorded contents, save the one whose file the prune in  *)
(* progress has just removed (lib.rs: sync, apply_retention, write_feed).   *)
(* Transfers and listings may fail, and a check of verify err, at will.     *)
THEOREM FeedIntact == ASSUME Steady PROVE Spec => []CachedIntact
<1>1. Init => EpisodesOK /\ PruneOK /\ ShowKnown
  <2>1. Init => ShowKnown
    BY DEF Init, ShowKnown, NoRow, Exists, Idle
  <2> QED
    BY <2>1, EpisodesInit, PruneInit
<1>2. TypeOK /\ EpisodesOK /\ PruneOK /\ ShowKnown /\ [Next]_vars =>
        EpisodesOK' /\ PruneOK' /\ ShowKnown'
  BY EpisodesStep, PruneStep, ShowKnownStep DEF Steady
<1>3. PruneOK /\ ShowKnown /\ RowsRecorded => CachedIntact
  <2> SUFFICES ASSUME PruneOK, ShowKnown, RowsRecorded, Cached # {}
               PROVE  /\ write_feed # None /\ ToSet(write_feed) = Cached
                      /\ \A i \in Cached :
                           \/ serve_media(rows[i].file) = rows[i].sum
                           \/ BetweenRemoveAndMark(i)
    BY DEF CachedIntact
  <2>1. show.exists = TRUE
    BY DEF ShowKnown, Cached, Exists
  <2>2. {i \in Cached : rows[i].file # None /\ rows[i].sum # None} = Cached
    BY DEF RowsRecorded, Cached
  <2>3. write_feed = NewestFirst(Cached)
    BY <2>1, <2>2 DEF write_feed
  <2>4. Cached \subseteq Ids
    BY DEF Cached
  <2>5. NewestFirst(Cached) \in Seq(Cached) /\ ToSet(NewestFirst(Cached)) = Cached
    BY <2>4, NewestFirstLists
  <2>6. NewestFirst(Cached) \in Seq(Ids)
    BY <2>4, <2>5
  <2>7. write_feed # None
    BY <2>3, <2>6, LibraryAssumption
  <2>8. PICK a \in Actors : TRUE
    BY DEF Steady, Solo, Alone
  <2>9. \A i \in Cached : \/ serve_media(rows[i].file) = rows[i].sum
                          \/ BetweenRemoveAndMark(i)
    BY <2>8 DEF PruneOK, Prune, serve_media, BetweenRemoveAndMark
  <2> QED
    BY <2>3, <2>5, <2>7, <2>9
<1> QED
  BY <1>1, <1>2, <1>3, TypeCorrect, RecordInvariant, PTL DEF Spec
-----------------------------------------------------------------------------
(* What retention leaves. *)

\* The cached episodes that the prune in progress will leave satisfy the
\* policy already.
Keepers(a) == Cached \ task[a].doomed
Retained(a) ==
  /\ task[a].pc = "mark" => task[a].doomed # {}
  /\ task[a].pc \in {"prune", "mark"} =>
       plan(Policy[a], Candidates(NewestFirst(Keepers(a)))) = <<>>
RetainedOK == \A a \in Actors : Retained(a)

(* The candidates apply_retention makes of a set of rows. *)
LEMMA CandidatesType ==
  ASSUME TypeOK, NEW S, S \subseteq Ids
  PROVE  LET list == Candidates(NewestFirst(S))
         IN /\ list \in Seq(Candidate(Ids)) /\ Len(list) = Cardinality(S)
            /\ \A n \in 1..Len(list) :
                 list[n] = [id |-> NewestFirst(S)[n],
                            bytes |-> bytes_of(NewestFirst(S)[n])]
            /\ NewestIdFirst(list)
<1> DEFINE s == NewestFirst(S)
           list == Candidates(s)
           N == Cardinality(S)
<1>1. N \in Nat /\ Lists(s, N, S) /\ s \in Seq(S) /\ Len(s) = N
  BY NewestFirstLists
<1> HIDE DEF s, N
<1>2. DOMAIN s = 1..N /\ \A n \in 1..N : s[n] \in Ids
  BY <1>1
<1>3. \A i \in Ids : bytes_of(i) \in Nat
  BY LibraryAssumption DEF bytes_of, TypeOK, Row
<1>4. list = [n \in 1..N |-> [id |-> s[n], bytes |-> bytes_of(s[n])]]
  BY <1>2 DEF Candidates
<1>5. list \in [1..N -> Candidate(Ids)]
  BY <1>2, <1>3, <1>4 DEF Candidate
<1>6. list \in Seq(Candidate(Ids)) /\ Len(list) = N
  <2> HIDE DEF list
  <2> QED
    BY <1>1, <1>5
<1>7. \A n \in 1..N : list[n] = [id |-> s[n], bytes |-> bytes_of(s[n])]
  BY <1>4
<1>8. NewestIdFirst(list)
  <2> HIDE DEF list
  <2>1. ASSUME NEW n \in 1..N PROVE list[n].id = s[n]
    <3>1. list[n] = [id |-> s[n], bytes |-> bytes_of(s[n])]
      BY <1>7
    <3> QED
      BY <3>1
  <2> QED
    BY <1>1, <1>6, <2>1 DEF NewestIdFirst, Lists, Descending
<1> QED
  BY <1>6, <1>7, <1>8 DEF s, N

(* apply_retention reads the rows: what it will leave satisfies the policy. *)
LEMMA RetentionPlans ==
  ASSUME TypeOK, NEW a \in Actors
  PROVE  LET doomed == ToSet(plan(Policy[a], Candidates(NewestFirst(Cached))))
         IN plan(Policy[a], Candidates(NewestFirst(Cached \ (Cached \cap doomed)))) = <<>>
<1> DEFINE s == NewestFirst(Cached)
           list == Candidates(s)
           acc == split(Policy[a], list)
           K == Cached \ (Cached \cap ToSet(acc.doomed))
           again == Candidates(NewestFirst(K))
<1>1. IsPolicy(Policy[a]) /\ Ids \subseteq Nat /\ Cached \subseteq Ids /\ K \subseteq Ids
  BY LibraryAssumption DEF IsPolicy, Cached
<1>2. /\ list \in Seq(Candidate(Ids)) /\ Len(list) = Cardinality(Cached)
      /\ \A n \in 1..Len(list) : list[n] = [id |-> s[n], bytes |-> bytes_of(s[n])]
      /\ NewestIdFirst(list)
  BY <1>1, CandidatesType
<1>3. s \in Seq(Cached) /\ Len(s) = Cardinality(Cached) /\ ToSet(s) = Cached
  BY <1>1, NewestFirstLists
<1>4. /\ again \in Seq(Candidate(Ids)) /\ Len(again) = Cardinality(K)
      /\ \A n \in 1..Len(again) :
           again[n] = [id |-> NewestFirst(K)[n], bytes |-> bytes_of(NewestFirst(K)[n])]
  BY <1>1, CandidatesType
<1>5. /\ Lists(NewestFirst(K), Cardinality(K), K)
  BY <1>1, NewestFirstLists
<1> HIDE DEF s, list, again
<1>6. acc \in Accumulator(Ids) /\ Partition(acc, list, Len(list))
  BY <1>1, <1>2, SplitRespectsPolicy
<1>7. /\ Descending(acc.kept, Len(acc.kept))
      /\ Elements(acc.kept) \cap Elements(acc.doomed) = {}
  BY <1>1, <1>2, SplitOrder
<1> HIDE DEF acc
<1>8. acc.kept \in Seq(Ids) /\ acc.doomed \in Seq(Ids) /\ Len(acc.kept) \in Nat
  BY <1>6 DEF Accumulator
<1>9. {list[m].id : m \in 1..Len(list)} = Cached
  <2>1. \A m \in 1..Len(list) : list[m].id = s[m]
    BY <1>2
  <2>2. ToSet(s) = {s[m] : m \in 1..Len(list)}
    BY <1>2, <1>3 DEF ToSet
  <2> QED
    BY <1>3, <2>1, <2>2
<1>10. ToSet(acc.doomed) = Elements(acc.doomed)
  BY <1>8 DEF ToSet, Elements
<1>11. K = Elements(acc.kept)
  BY <1>6, <1>7, <1>9, <1>10 DEF Partition
<1> HIDE DEF K
<1>12. Lists(acc.kept, Len(acc.kept), K)
  <2>1. acc.kept \in [1..Len(acc.kept) -> K]
    BY <1>8, <1>11 DEF Elements
  <2>2. \A x \in K : \E k \in 1..Len(acc.kept) : acc.kept[k] = x
    BY <1>11 DEF Elements
  <2> QED
    BY <1>7, <2>1, <2>2 DEF Lists
<1>13. Cardinality(K) = Len(acc.kept)
  BY <1>1, <1>8, <1>12, ListLength
<1>14. NewestFirst(K) = acc.kept
  BY <1>1, <1>5, <1>8, <1>12, <1>13, OneList
<1>15. ASSUME NEW m \in 1..Len(again), NEW n \in 1..Len(list),
              list[n].id = acc.kept[m]
       PROVE  again[m] = list[n]
  <2>1. list[n] = [id |-> s[n], bytes |-> bytes_of(s[n])]
    BY <1>2
  <2>2. s[n] = acc.kept[m]
    BY <1>15, <2>1
  <2> QED
    BY <1>4, <1>14, <2>1, <2>2
<1>16. plan(Policy[a], again) = <<>>
  <2> DEFINE policy == Policy[a]
  <2>1. Len(again) = Len(split(policy, list).kept)
    BY <1>4, <1>13 DEF acc
  <2>2. \A m \in 1..Len(again), n \in 1..Len(list) :
          list[n].id = split(policy, list).kept[m] => again[m] = list[n]
    BY <1>15 DEF acc
  <2>3. IsPolicy(policy)
    BY <1>1
  <2> HIDE DEF policy
  <2>4. plan(policy, again) = <<>>
    BY <1>2, <1>4, <2>1, <2>2, <2>3, KeptIsStable
  <2> QED
    BY <2>4 DEF policy
<1> QED
  BY <1>16 DEF s, list, acc, K, again, plan

(* As long as the same rows are kept, they make the same candidates. *)
LEMMA SameCandidates ==
  ASSUME NEW S, S \subseteq Ids, \A i \in S : rows'[i].sum = rows[i].sum
  PROVE  Candidates(NewestFirst(S))' = Candidates(NewestFirst(S))
<1> DEFINE s == NewestFirst(S)
<1>1. \A n \in DOMAIN s : s[n] \in S
  BY NewestFirstLists DEF ToSet
<1> HIDE DEF s
<1>2. \A i \in S : bytes_of(i)' = bytes_of(i)
  BY DEF bytes_of
<1>3. Candidates(s)' = Candidates(s)
  BY <1>1, <1>2 DEF Candidates
<1> QED
  BY <1>3 DEF s
(* A step that leaves the keepers and their sizes alone. *)
LEMMA RetainedSame ==
  ASSUME NEW a \in Actors, Retained(a), Keepers(a)' = Keepers(a),
         task[a].pc \in {"prune", "mark"},
         task'[a].pc = "mark" => task'[a].doomed # {},
         \A i \in Keepers(a) : rows'[i].sum = rows[i].sum
  PROVE  Retained(a)'
<1> DEFINE S == Keepers(a)
<1>1. S \subseteq Ids /\ \A i \in S : rows'[i].sum = rows[i].sum
  BY DEF Keepers, Cached
<1>2. Candidates(NewestFirst(S))' = Candidates(NewestFirst(S))
  <2>1. PICK Z : Z = Keepers(a)
    OBVIOUS
  <2>2. Candidates(NewestFirst(Z))' = Candidates(NewestFirst(Z))
    BY <1>1, <2>1, SameCandidates
  <2> QED
    BY <2>1, <2>2
<1>3. plan(Policy[a], Candidates(NewestFirst(S))) = <<>>
  BY DEF Retained
<1> QED
  BY <1>2, <1>3 DEF Retained
LEMMA RetainedStep ==
  ASSUME TypeOK, Solo, "io" \notin Faults, EpisodesOK, RetainedOK, [Next]_vars
  PROVE  RetainedOK'
<1> SUFFICES ASSUME NEW a \in Actors PROVE Retained(a)'
  BY DEF RetainedOK
<1>0. /\ rows \in [Ids -> Row] /\ task \in [Actors -> Task] /\ task[a] \in Task
      /\ Retained(a)
  BY DEF TypeOK, RetainedOK
<1>1. \A b \in Actors : b = a
  BY DEF Solo, Alone
<1>2. ASSUME task'[a].pc \notin {"prune", "mark"} PROVE Retained(a)'
  BY <1>2 DEF Retained
<1>3. ASSUME task' = task, \A i \in Ids : rows'[i].st = rows[i].st
                                          /\ rows'[i].sum = rows[i].sum
      PROVE  Retained(a)'
  <2>1. CASE task[a].pc \in {"prune", "mark"}
    <3>1. Keepers(a)' = Keepers(a) /\ Keepers(a) \subseteq Ids
      BY <1>3 DEF Keepers, Cached
    <3>2. task'[a].pc = "mark" => task'[a].doomed # {}
      BY <1>0, <1>3 DEF Retained
    <3> QED
      BY <1>0, <1>3, <2>1, <3>1, <3>2, RetainedSame
  <2> QED
    BY <1>2, <1>3, <2>1
<1>4. CASE UNCHANGED vars
  BY <1>3, <1>4 DEF vars
<1>5. CASE SyncStep(a)
  <2>1. CASE RetentionRead(a)
    <3> DEFINE D == ToSet(plan(Policy[a], Candidates(NewestFirst(Cached))))
    <3>1. /\ rows' = rows
          /\ task' = [task EXCEPT ![a] = [task[a] EXCEPT !.pc = "prune",
                                            !.doomed = Cached \cap D]]
      BY <2>1 DEF RetentionRead
    <3>2. plan(Policy[a], Candidates(NewestFirst(Cached \ (Cached \cap D)))) = <<>>
      BY RetentionPlans
    <3> HIDE DEF D
    <3>3. task'[a].pc = "prune" /\ task'[a].doomed = Cached \cap D
      BY <1>0, <3>1 DEF Task
    <3>4. Cached' = Cached
      BY <3>1 DEF Cached
    <3>5. Keepers(a)' = Cached \ (Cached \cap D)
      BY <3>3, <3>4 DEF Keepers
    <3>6. Candidates(NewestFirst(Keepers(a)))' =
            Candidates(NewestFirst(Cached \ (Cached \cap D)))
      BY <3>1, <3>5 DEF Candidates, bytes_of
    <3> QED
      BY <3>2, <3>3, <3>6 DEF Retained
  <2>2. CASE PruneRemove(a)
    <3>1. /\ rows' = rows /\ task[a].pc = "prune" /\ task[a].doomed # {}
          /\ task'[a].doomed = task[a].doomed
      BY <1>0, <2>2 DEF PruneRemove, Goto, Task
    <3>2. Keepers(a)' = Keepers(a)
      BY <3>1 DEF Keepers, Cached
    <3> QED
      BY <1>0, <3>1, <3>2, RetainedSame
  <2>3. CASE PruneMark(a)
    <3> DEFINE old == Oldest(task[a].doomed)
    <3>1. task[a].pc = "mark" /\ task[a].doomed # {} /\ old \in task[a].doomed
          /\ old \in Ids
      BY <1>0, <2>3, OldestDoomed DEF PruneMark, Retained
    <3>2. CASE Return(a, "illegal")
      BY <1>0, <1>2, <3>2 DEF Return, Idle
    <3>3. CASE /\ rows' = [rows EXCEPT ![old] = mark_pruned(rows[old])]
               /\ task' = [task EXCEPT ![a] = [task[a] EXCEPT !.pc = "prune",
                             !.doomed = task[a].doomed \ {old}]]
      <4> HIDE DEF old
      <4>1. task'[a].pc = "prune" /\ task'[a].doomed = task[a].doomed \ {old}
        BY <1>0, <3>3 DEF Task
      <4>2. rows'[old].st # "cached" /\ \A i \in Ids : i # old => rows'[i] = rows[i]
        BY <1>0, <3>1, <3>3 DEF mark_pruned, Row
      <4>3. Keepers(a)' = Keepers(a)
        BY <3>1, <4>1, <4>2 DEF Keepers, Cached
      <4>4. \A i \in Keepers(a) : rows'[i].sum = rows[i].sum
        BY <3>1, <4>2 DEF Keepers, Cached
      <4> QED
        BY <1>0, <3>1, <4>1, <4>3, <4>4, RetainedSame
    <3> QED
      BY <2>3, <3>2, <3>3 DEF PruneMark
  <2>4. CASE PollFailed(a) \/ SyncDone(a) \/ SyncStorageFails(a)
    BY <1>0, <1>2, <2>4 DEF PollFailed, SyncDone, SyncStorageFails, Return, Idle
  <2>5. CASE ListModified(a)
    <3>1. PICK e, l : task' = [task EXCEPT ![a] =
                         [task[a] EXCEPT !.pc = "show", !.etag = e, !.listing = l]]
      BY <2>5 DEF ListModified
    <3> QED
      BY <1>0, <1>2, <3>1 DEF Task
  <2>6. CASE StoredWindow(a)
    <3>1. PICK x : task' = [task EXCEPT ![a] =
                              [task[a] EXCEPT !.pc = "plan", !.window = x]]
      BY <2>6 DEF StoredWindow
    <3> QED
      BY <1>0, <1>2, <3>1 DEF Task
  <2>7. CASE SyncStart(a)
    BY <1>0, <1>2, <2>7 DEF SyncStart, Idle
  <2>8. CASE \/ ResetStale(a) \/ ListNotModified(a) \/ ShowMeta(a) \/ Discover(a)
             \/ SetEtag(a) \/ Plan(a) \/ DownloadsDone(a)
    <3>1. task'[a].pc \notin {"prune", "mark"}
      BY <1>0, <2>8 DEF ResetStale, ListNotModified, ShowMeta, Discover, SetEtag,
         Plan, DownloadsDone, Goto, Task
    <3> QED
      BY <1>2, <3>1
  <2> QED
    BY <1>5, <2>1, <2>2, <2>3, <2>4, <2>5, <2>6, <2>7, <2>8
    DEF SyncStep, PruneKeeps
<1>6. ASSUME NEW k \in Ids, DownloadStep(a, k) PROVE Retained(a)'
  <2>1. task' = task
    BY <1>6, DownloadFrame
  <2>2. CASE dl[a][k].ph \notin Over
    <3>1. task[a].pc \in {"download", "verify"}
      BY <2>2 DEF EpisodesOK, Episode, EpisodeOK
    <3> QED
      BY <1>2, <2>1, <3>1
  <2>3. CASE dl[a][k].ph \in Over
    <3>1. Progress(a, k)
      BY <1>6, <2>3 DEF DownloadStep, MarkDownloading, Resolve, Fetch,
         FetchFails, MarkCached, MarkFailed, DownloadStorageFails, Over
    <3>2. rows' = [rows EXCEPT ![k] = set_progress(rows[k])]
      BY <3>1 DEF Progress
    <3>3. \A i \in Ids : rows'[i].st = rows[i].st /\ rows'[i].sum = rows[i].sum
      BY <1>0, <3>2 DEF set_progress, Row
    <3> QED
      BY <1>3, <2>1, <3>3
  <2> QED
    BY <2>2, <2>3
<1>7. CASE VerifyStep(a)
  <2>1. CASE VerifyStart(a) \/ VerifyDone(a)
    BY <1>0, <1>2, <2>1 DEF VerifyStart, VerifyDone, Return, Idle
  <2>2. CASE \E i \in Ids : CheckFile(a, i)
    BY <1>3, <2>2 DEF CheckFile
  <2> QED
    BY <1>7, <2>1, <2>2 DEF VerifyStep
<1>8. CASE Environment
  <2>1. CASE Crash(a)
    BY <1>0, <1>2, <2>1 DEF Crash, Return, Idle
  <2>2. CASE /\ task' = task
             /\ \/ rows' = rows
                \/ \E k \in Ids : rows' = [rows EXCEPT ![k] =
                                            [rows[k] EXCEPT !.progress = "old"]]
    <3>1. \A i \in Ids : rows'[i].st = rows[i].st /\ rows'[i].sum = rows[i].sum
      BY <1>0, <2>2 DEF Row
    <3> QED
      BY <1>3, <2>2, <3>1
  <2> QED
    BY <1>1, <1>8, <2>1, <2>2 DEF Environment, UpstreamChanges, ProgressAges, Damage
<1> QED
  BY <1>1, <1>4, <1>5, <1>6, <1>7, <1>8 DEF Next

(* When apply_retention is done the cached episodes satisfy the policy:     *)
(* applied again it would prune nothing (retention.rs: plan is stable on    *)
(* what it keeps; lib.rs: only what plan dooms is pruned, and all of it     *)
(* unless a file cannot be removed).                                        *)
THEOREM PolicyHolds ==
  ASSUME Solo, "io" \notin Faults PROVE Spec => []RetentionHolds
<1>1. Init => EpisodesOK /\ RetainedOK
  <2>1. Init => RetainedOK
    BY DEF Init, RetainedOK, Retained, Idle
  <2> QED
    BY <2>1, EpisodesInit
<1>2. TypeOK /\ EpisodesOK /\ RetainedOK /\ [Next]_vars => EpisodesOK' /\ RetainedOK'
  BY EpisodesStep, RetainedStep
<1>3. RetainedOK => RetentionHolds
  <2> SUFFICES ASSUME RetainedOK, NEW a \in Actors, task[a].pc = "prune",
                      task[a].doomed = {}
               PROVE  plan(Policy[a], Candidates(NewestFirst(Cached))) = <<>>
    BY DEF RetentionHolds
  <2>1. Keepers(a) = Cached
    BY DEF Keepers
  <2> QED
    BY <2>1 DEF RetainedOK, Retained
<1> QED
  BY <1>1, <1>2, <1>3, TypeCorrect, PTL DEF Spec

-----------------------------------------------------------------------------
(* The window a sync plans over. *)

\* Upstream lists newest first and never retracts an episode.
OnlyAdds ==
  \A L \in Listings :
    Descending(L, Len(L)) /\ \A M \in Follows[L] : ToSet(L) \subseteq ToSet(M)

(* Vec::truncate leaves a beginning of the list. *)
LEMMA TakeCuts ==
  ASSUME NEW S, NEW s \in Seq(S), NEW limit \in SUBSET Nat
  PROVE  \E m \in 0..Len(s) :
           /\ take(limit, s) \in Seq(S) /\ Len(take(limit, s)) = m
           /\ \A k \in 1..m : take(limit, s)[k] = s[k]
           /\ m = Len(s) \/ m \in limit
           /\ (\A n \in limit : n >= Len(s)) => m = Len(s)
<1>0. Len(s) \in Nat
  OBVIOUS
<1>1. CASE \E n \in limit : n < Len(s)
  <2> DEFINE n == CHOOSE n \in limit : n < Len(s)
  <2>1. n \in limit /\ n \in Nat /\ n < Len(s)
    BY <1>1
  <2>2. take(limit, s) = SubSeq(s, 1, n)
    BY <1>1 DEF take
  <2> HIDE DEF n
  <2>3. /\ SubSeq(s, 1, n) \in Seq(S) /\ Len(SubSeq(s, 1, n)) = n
        /\ \A k \in 1..n : SubSeq(s, 1, n)[k] = s[k]
    BY <1>0, <2>1
  <2>4. n \in 0..Len(s) /\ ~(n >= Len(s))
    BY <1>0, <2>1
  <2> QED
    BY <2>1, <2>2, <2>3, <2>4
<1>2. CASE ~\E n \in limit : n < Len(s)
  <2>1. take(limit, s) = s
    BY <1>2 DEF take
  <2>2. Len(s) \in 0..Len(s)
    BY <1>0
  <2> QED
    BY <2>1, <2>2
<1> QED
  BY <1>1, <1>2

(* What is newer than an element of the cut list is in it too. *)
LEMMA NewerTaken ==
  ASSUME NEW S, S \subseteq Nat, NEW s \in Seq(S), Descending(s, Len(s)),
         NEW limit \in SUBSET Nat, NEW x \in ToSet(s),
         NEW y \in ToSet(take(limit, s)), x > y
  PROVE  x \in ToSet(take(limit, s))
<1>1. PICK m \in 0..Len(s) :
        /\ take(limit, s) \in Seq(S) /\ Len(take(limit, s)) = m
        /\ \A k \in 1..m : take(limit, s)[k] = s[k]
  BY TakeCuts
<1>2. DOMAIN take(limit, s) = 1..m /\ Len(s) \in Nat /\ DOMAIN s = 1..Len(s)
  BY <1>1
<1>3. PICK k \in 1..m : y = s[k]
  BY <1>1, <1>2 DEF ToSet
<1>4. PICK j \in 1..Len(s) : x = s[j]
  BY <1>2 DEF ToSet
<1>5. k \in 1..Len(s) /\ s[k] \in Nat /\ s[j] \in Nat
  <2>1. \A l \in 1..Len(s) : s[l] \in S
    BY <1>2
  <2>2. k \in 1..Len(s)
    BY <1>2
  <2>3. s[k] \in S /\ s[j] \in S
    BY <2>1, <2>2
  <2> QED
    BY <2>2, <2>3
<1>6. j < k
  <2>1. CASE j = k
    BY <1>3, <1>4, <1>5, <2>1
  <2>2. CASE k < j
    BY <1>3, <1>4, <1>5, <2>2 DEF Descending
  <2> QED
    BY <1>5, <2>1, <2>2
<1>7. j \in 1..m
  BY <1>5, <1>6
<1> QED
  BY <1>1, <1>2, <1>4, <1>7 DEF ToSet

(* A list newest first is the listing of its elements. *)
LEMMA DescendingLists ==
  ASSUME NEW L \in Seq(Ids), Descending(L, Len(L))
  PROVE  /\ ToSet(L) \subseteq Ids /\ Lists(L, Len(L), ToSet(L))
         /\ Cardinality(ToSet(L)) = Len(L) /\ NewestFirst(ToSet(L)) = L
<1>1. ToSet(L) \subseteq Ids /\ Len(L) \in Nat
  BY DEF ToSet
<1>2. Lists(L, Len(L), ToSet(L))
  BY DEF Lists, ToSet
<1>3. ToSet(L) \subseteq Nat
  BY <1>1, LibraryAssumption
<1>4. Cardinality(ToSet(L)) = Len(L)
  BY <1>1, <1>2, <1>3, ListLength
<1>5. Lists(NewestFirst(ToSet(L)), Cardinality(ToSet(L)), ToSet(L))
  BY <1>1, NewestFirstLists
<1> QED
  BY <1>1, <1>2, <1>3, <1>4, <1>5, OneList

(* After a 304: the newest n rows stored are the n newest episodes of the   *)
(* listing, when the first n of it are stored and nothing else than what it *)
(* lists is.                                                                *)
LEMMA RowsArePage ==
  ASSUME NEW L \in Seq(Ids), Descending(L, Len(L)), NEW T \in SUBSET ToSet(L),
         NEW n \in Nat, ToSet(take({n}, L)) \subseteq T
  PROVE  ToSet(take({n}, NewestFirst(T))) = ToSet(take({n}, L))
<1> DEFINE s == NewestFirst(T)
<1>1. /\ Len(L) \in Nat /\ ToSet(L) \subseteq Ids /\ T \subseteq Ids
      /\ Lists(L, Len(L), ToSet(L)) /\ Cardinality(ToSet(L)) = Len(L)
  BY DescendingLists
<1>2. T \subseteq Nat /\ \A j \in 1..Len(L) : L[j] \in Nat
  BY <1>1, LibraryAssumption DEF Lists
<1>3. /\ Cardinality(T) \in Nat /\ Lists(s, Cardinality(T), T)
      /\ s \in Seq(T) /\ Len(s) = Cardinality(T) /\ ToSet(s) = T
  BY <1>1, NewestFirstLists
<1> HIDE DEF s
<1>4. CASE n >= Len(L)
  <2>1. take({n}, L) = L
    BY <1>1, <1>4 DEF take
  <2>2. T = ToSet(L)
    BY <2>1
  <2>3. take({n}, s) = s
    BY <1>1, <1>3, <1>4, <2>2 DEF take
  <2> QED
    BY <1>3, <2>1, <2>2, <2>3 DEF s
<1>5. CASE n < Len(L)
  <2> DEFINE P == {L[k] : k \in 1..n}
             R == T \ P
             r == NewestFirst(R)
             N == n + Cardinality(R)
             t == [k \in 1..N |-> IF k <= n THEN L[k] ELSE r[k - n]]
  <2>1. take({n}, L) = SubSeq(L, 1, n)
    BY <1>5 DEF take
  <2>2. ToSet(take({n}, L)) = P
    <3>1. /\ SubSeq(L, 1, n) \in Seq(Ids) /\ Len(SubSeq(L, 1, n)) = n
          /\ \A k \in 1..n : SubSeq(L, 1, n)[k] = L[k]
      BY <1>1, <1>5
    <3>2. DOMAIN SubSeq(L, 1, n) = 1..n
      BY <3>1
    <3> QED
      BY <2>1, <3>1, <3>2 DEF ToSet
  <2>3. /\ Cardinality(R) \in Nat /\ Lists(r, Cardinality(R), R)
    BY <1>1, NewestFirstLists
  <2>4. N \in Nat /\ n <= N /\ P \subseteq T
    <3>1. N \in Nat /\ n <= N
      <4> HIDE DEF R
      <4> QED
        BY <2>3
    <3> QED
      BY <2>2, <3>1
  <2>5. ASSUME NEW k \in 1..N, k > n
        PROVE  k - n \in 1..Cardinality(R) /\ t[k] = r[k - n] /\ r[k - n] \in R
    <3> HIDE DEF R, r
    <3>1. k - n \in 1..Cardinality(R)
      BY <2>3, <2>5
    <3>2. t[k] = r[k - n]
      BY <2>5
    <3>3. r[k - n] \in R
      BY <2>3, <3>1 DEF Lists
    <3> QED
      BY <3>1, <3>2, <3>3
  <2>6. ASSUME NEW k \in 1..N, k <= n
        PROVE  k \in 1..n /\ k \in 1..Len(L) /\ t[k] = L[k] /\ t[k] \in P
    BY <1>1, <1>5, <2>6
  <2>7. t \in [1..N -> T]
    <3>1. ASSUME NEW k \in 1..N PROVE t[k] \in T
      BY <2>4, <2>5, <2>6
    <3>2. DOMAIN t = 1..N /\ t = [k \in 1..N |-> t[k]]
      OBVIOUS
    <3> HIDE DEF t
    <3> QED
      BY <3>1, <3>2
  <2>8. \A x \in T : \E k \in 1..N : t[k] = x
    <3> SUFFICES ASSUME NEW x \in T PROVE \E k \in 1..N : t[k] = x
      OBVIOUS
    <3>1. CASE x \in P
      <4>1. PICK k \in 1..n : x = L[k]
        BY <3>1
      <4>2. k \in 1..N /\ k <= n
        BY <2>4
      <4> QED
        BY <2>6, <4>1, <4>2
    <3>2. CASE x \in R
      <4>1. PICK j \in 1..Cardinality(R) : r[j] = x
        BY <2>3, <3>2 DEF Lists
      <4>2. n + j \in 1..N /\ n + j > n /\ (n + j) - n = j
        BY <2>3
      <4>3. t[n + j] = r[j]
        <5> HIDE DEF t, N
        <5> QED
          BY <2>5, <4>2
      <4> QED
        BY <4>1, <4>2, <4>3
    <3> QED
      BY <3>1, <3>2
  <2> HIDE DEF t
  <2>9. Descending(t, N)
    <3> SUFFICES ASSUME NEW j \in 1..N, NEW k \in 1..N, j < k PROVE t[j] > t[k]
      BY DEF Descending
    <3>1. CASE k <= n
      <4>1. j \in 1..Len(L) /\ k \in 1..Len(L) /\ t[j] = L[j] /\ t[k] = L[k]
        BY <2>4, <2>6, <3>1
      <4> QED
        BY <4>1 DEF Descending
    <3>2. CASE j > n
      <4>1. /\ j - n \in 1..Cardinality(R) /\ k - n \in 1..Cardinality(R)
            /\ t[j] = r[j - n] /\ t[k] = r[k - n]
        BY <2>4, <2>5, <3>2
      <4>2. j - n < k - n
        BY <2>4
      <4> HIDE DEF r, R
      <4> QED
        BY <2>3, <4>1, <4>2 DEF Lists, Descending
    <3>3. CASE j <= n /\ k > n
      <4>1. t[j] = L[j] /\ j \in 1..Len(L) /\ t[k] \in R
        BY <2>5, <2>6, <3>3
      <4>2. PICK m \in 1..Len(L) : t[k] = L[m]
        BY <1>1, <4>1 DEF Lists
      <4>3. m \notin 1..n
        BY <4>1, <4>2
      <4>4. j < m
        BY <1>1, <3>3, <4>3
      <4> QED
        BY <4>1, <4>2, <4>4 DEF Descending
    <3> QED
      BY <2>4, <3>1, <3>2, <3>3
  <2>10. Lists(t, N, T)
    BY <2>7, <2>8, <2>9 DEF Lists
  <2> HIDE DEF N
  <2>11. Cardinality(T) = N
    BY <1>2, <2>4, <2>10, ListLength
  <2>12. s = t
    BY <1>2, <1>3, <2>4, <2>10, <2>11, OneList
  <2>13. \A k \in 1..n : s[k] = L[k]
    <3> SUFFICES ASSUME NEW k \in 1..n PROVE s[k] = L[k]
      OBVIOUS
    <3>1. k \in 1..N /\ k <= n
      BY <2>4
    <3> QED
      BY <2>6, <2>12, <3>1
  <2>14. PICK m \in 0..Len(s) :
           /\ take({n}, s) \in Seq(T) /\ Len(take({n}, s)) = m
           /\ \A k \in 1..m : take({n}, s)[k] = s[k]
           /\ m = Len(s) \/ m \in {n}
           /\ (\A l \in {n} : l >= Len(s)) => m = Len(s)
    <3>1. {n} \in SUBSET Nat /\ s \in Seq(T)
      BY <1>3
    <3> QED
      BY <3>1, TakeCuts
  <2>15. m = n
    <3>1. CASE n < Len(s)
      <4>1. take({n}, s) = SubSeq(s, 1, n)
        BY <3>1 DEF take
      <4>2. Len(SubSeq(s, 1, n)) = n
        BY <1>3, <3>1
      <4> QED
        BY <2>14, <4>1, <4>2
    <3>2. CASE n >= Len(s)
      BY <1>3, <2>4, <2>11, <2>14, <3>2
    <3> QED
      BY <1>3, <3>1, <3>2
  <2>16. DOMAIN take({n}, s) = 1..n
    BY <2>14, <2>15
  <2>17. ToSet(take({n}, s)) = P
    BY <2>13, <2>14, <2>15, <2>16 DEF ToSet
  <2> QED
    BY <2>2, <2>17 DEF s
<1> QED
  BY <1>1, <1>4, <1>5

(* A page is a beginning of the listing, newest first like it. *)
LEMMA PageCuts ==
  ASSUME OnlyAdds, NEW a \in Actors, NEW L \in Listings
  PROVE  /\ L \in Seq(Ids) /\ Descending(L, Len(L))
         /\ PageOf(a, L) \in Seq(Ids) /\ ToSet(PageOf(a, L)) \subseteq ToSet(L)
         /\ Descending(PageOf(a, L), Len(PageOf(a, L)))
<1>1. L \in Seq(Ids) /\ Descending(L, Len(L))
  BY LibraryAssumption DEF OnlyAdds
<1>2. PICK limit \in SUBSET Nat : PageOf(a, L) = take(limit, L)
  BY LibraryAssumption DEF PageOf, Or
<1>3. PICK m \in 0..Len(L) :
        /\ take(limit, L) \in Seq(Ids) /\ Len(take(limit, L)) = m
        /\ \A k \in 1..m : take(limit, L)[k] = L[k]
  BY <1>1, TakeCuts
<1>4. /\ DOMAIN take(limit, L) = 1..m /\ DOMAIN L = 1..Len(L)
      /\ \A k \in 1..m : k \in 1..Len(L)
  BY <1>1, <1>3
<1>5. ToSet(take(limit, L)) \subseteq ToSet(L)
  BY <1>3, <1>4 DEF ToSet
<1>6. Descending(take(limit, L), m)
  BY <1>1, <1>3, <1>4 DEF Descending
<1> QED
  BY <1>1, <1>2, <1>3, <1>5, <1>6

\* The page a sync was answered with, or told by a 304 that it still holds.
Held(a) == IF task[a].listing = None THEN task[a].etag ELSE task[a].listing

\* It is the page of a listing that has all that is stored.
Answered(a) ==
  \E L \in Listings : /\ Held(a) = PageOf(a, L) /\ Stored \subseteq ToSet(L)
                       /\ ToSet(L) \subseteq ToSet(upstream)

\* A sync from its start to its plan: the etag it sends is that of stored
\* episodes, and after the answer it holds a page.
Traced(a) ==
  /\ task[a].pc \in {"reset", "list", "window"} => task[a].listing = None
  /\ task[a].pc \in {"show", "discover", "etag"} => task[a].listing # None
  /\ /\ task[a].pc \in {"reset", "list", "window", "plan"}
     /\ task[a].listing = None /\ task[a].etag # None
     => ToSet(task[a].etag) \subseteq Stored
  /\ task[a].pc \in {"show", "discover", "etag", "window", "plan"} => Answered(a)
  /\ task[a].pc = "plan" /\ task[a].listing = None =>
       task[a].window = Stored \cap ToSet(take(Limit[a], NewestFirst(Stored)))

TracedOK == Stored \subseteq ToSet(upstream) /\ \A a \in Actors : Traced(a)

(* Rows are inserted by discover alone, those of its page. *)
LEMMA StoredSteps ==
  ASSUME TypeOK, [Next]_vars
  PROVE  \/ Stored' = Stored
         \/ \E a \in Actors : /\ Discover(a)
                              /\ Stored' \subseteq Stored \cup ToSet(task[a].listing)
<1>1. Stored \subseteq Stored'
  BY StoredGrows
<1>2. CASE \E a \in Actors : Discover(a)
  <2>1. PICK a \in Actors : Discover(a)
    BY <1>2
  <2>2. ASSUME NEW i \in Ids, Exists(rows'[i]), i \notin ToSet(task[a].listing)
        PROVE  Exists(rows[i])
    BY <2>1, <2>2 DEF Discover
  <2> QED
    BY <2>1, <2>2 DEF Stored
<1>3. CASE ~\E a \in Actors : Discover(a)
  <2>1. \A i \in Ids : Exists(rows'[i]) => Exists(rows[i])
    BY <1>3, OnlyDiscover
  <2> QED
    BY <1>1, <2>1 DEF Stored
<1> QED
  BY <1>2, <1>3

(* What a step can make of a sync that is on the way to its plan. *)
LEMMA TracedTask ==
  ASSUME TypeOK, Alone, [Next]_vars, NEW a \in Actors
  PROVE  \/ task'[a] = task[a]
         \/ task'[a].pc \notin {"reset", "list", "window", "show", "discover",
                                 "etag", "plan"}
         \/ SyncStart(a) \/ ResetStale(a) \/ ListNotModified(a) \/ ListModified(a)
         \/ ShowMeta(a) \/ Discover(a) \/ SetEtag(a) \/ StoredWindow(a)
<1>0. task \in [Actors -> Task] /\ task[a] \in Task
  BY DEF TypeOK
<1>1. \A b \in Actors : b = a
  BY DEF Alone
<1>2. ASSUME SyncStep(a),
             ~(\/ SyncStart(a) \/ ResetStale(a) \/ ListNotModified(a)
               \/ ListModified(a) \/ ShowMeta(a) \/ Discover(a) \/ SetEtag(a)
               \/ StoredWindow(a))
      PROVE  task'[a].pc \in {"idle", "download", "retain", "prune", "mark"}
  <2>1. CASE \E r : Return(a, r)
    BY <1>0, <2>1 DEF Return, Idle
  <2>2. CASE Plan(a) \/ DownloadsDone(a) \/ PruneRemove(a)
    BY <1>0, <2>2 DEF Plan, DownloadsDone, PruneRemove, Goto, Task
  <2>3. CASE RetentionRead(a)
    <3>1. PICK D : task' = [task EXCEPT ![a] =
                              [task[a] EXCEPT !.pc = "prune", !.doomed = D]]
      BY <2>3 DEF RetentionRead
    <3> QED
      BY <1>0, <3>1 DEF Task
  <2>4. CASE PruneMark(a)
    <3>1. CASE \E D : task' = [task EXCEPT ![a] =
                                 [task[a] EXCEPT !.pc = "prune", !.doomed = D]]
      BY <1>0, <3>1 DEF Task
    <3> QED
      BY <2>1, <2>4, <3>1 DEF PruneMark
  <2>5. CASE PruneKeeps(a)
    <3>1. PICK D : task' = [task EXCEPT ![a] = [task[a] EXCEPT !.doomed = D]]
      BY <2>5 DEF PruneKeeps
    <3>2. task[a].pc = "prune"
      BY <2>5 DEF PruneKeeps
    <3> QED
      BY <1>0, <3>1, <3>2 DEF Task
  <2> QED
    BY <1>2, <2>1, <2>2, <2>3, <2>4, <2>5
    DEF SyncStep, PollFailed, SyncDone, SyncStorageFails
<1>3. ASSUME VerifyStep(a)
      PROVE  task'[a] = task[a] \/ task'[a].pc \in {"idle", "verify"}
  BY <1>0, <1>3 DEF VerifyStep, VerifyStart, VerifyDone, CheckFile, Return, Idle
<1>4. ASSUME NEW i \in Ids, DownloadStep(a, i) PROVE task'[a] = task[a]
  BY <1>4, DownloadFrame
<1>5. ASSUME Environment PROVE task'[a] = task[a] \/ task'[a].pc = "idle"
  <2>1. task' = task \/ \E b \in Actors : Return(b, "none")
    BY <1>5 DEF Environment, UpstreamChanges, ProgressAges, Crash, Damage
  <2> QED
    BY <1>0, <1>1, <2>1 DEF Return, Idle
<1> QED
  BY <1>1, <1>2, <1>3, <1>4, <1>5 DEF Next, vars

LEMMA TracedStep ==
  ASSUME TypeOK, Alone, OnlyAdds, EtagCoversListing, TracedOK, [Next]_vars
  PROVE  TracedOK'
<1> PICK a \in Actors : \A b \in Actors : b = a
  BY DEF Alone
<1>0. /\ task \in [Actors -> Task] /\ task[a] \in Task /\ upstream \in Listings
      /\ Traced(a) /\ Stored \subseteq ToSet(upstream)
  BY DEF TypeOK, TracedOK
<1>1. ToSet(upstream) \subseteq ToSet(upstream')
  <2>1. upstream' = upstream \/ upstream' \in Follows[upstream]
    <3>1. ASSUME NEW b \in Actors, SyncStep(b) PROVE upstream' = upstream
      BY <3>1 DEF SyncStep, SyncStart, ResetStale, ListNotModified, ListModified,
         PollFailed, ShowMeta, Discover, SetEtag, StoredWindow, Plan,
         DownloadsDone, RetentionRead, PruneRemove, PruneKeeps, PruneMark,
         SyncDone, SyncStorageFails
    <3>2. ASSUME NEW b \in Actors, VerifyStep(b) PROVE upstream' = upstream
      BY <3>2 DEF VerifyStep, VerifyStart, VerifyDone, CheckFile
    <3>3. ASSUME NEW b \in Actors, NEW i \in Ids, DownloadStep(b, i)
          PROVE  upstream' = upstream
      BY <3>3, DownloadFrame
    <3>4. ASSUME Environment
          PROVE  upstream' = upstream \/ upstream' \in Follows[upstream]
      BY <3>4 DEF Environment, UpstreamChanges, ProgressAges, Crash, Damage
    <3> QED
      BY <3>1, <3>2, <3>3, <3>4 DEF Next, vars
  <2> QED
    BY <1>0, <2>1 DEF OnlyAdds
\* The page held stays that of a listing, discover included.
<1>2. ASSUME Answered(a), Held(a)' = Held(a),
             Discover(a) => task[a].listing # None
      PROVE  Answered(a)' /\ Stored' \subseteq ToSet(upstream')
  <2>1. PICK L \in Listings : /\ Held(a) = PageOf(a, L)
                               /\ Stored \subseteq ToSet(L)
                               /\ ToSet(L) \subseteq ToSet(upstream)
    BY <1>2 DEF Answered
  <2>2. Stored' \subseteq ToSet(L)
    <3>1. CASE Stored' = Stored
      BY <2>1, <3>1
    <3>2. CASE /\ Discover(a)
               /\ Stored' \subseteq Stored \cup ToSet(task[a].listing)
      <4>1. task[a].listing = PageOf(a, L)
        BY <1>2, <2>1, <3>2 DEF Held
      <4>2. ToSet(PageOf(a, L)) \subseteq ToSet(L)
        BY PageCuts
      <4> QED
        BY <2>1, <3>2, <4>1, <4>2
    <3> QED
      BY <3>1, <3>2, StoredSteps
  <2> QED
    BY <1>1, <1>2, <2>1, <2>2 DEF Answered
\* An answer: the page is that of the listing upstream has now.
<1>3. ASSUME Held(a)' = PageOf(a, upstream), upstream' = upstream, Stored' = Stored
      PROVE  Answered(a)'
  BY <1>0, <1>3 DEF Answered
<1>4. ~Discover(a) => Stored' = Stored
  BY StoredSteps
<1>5. Stored' \subseteq ToSet(upstream')
  <2>1. CASE Discover(a)
    <3>1. task[a].pc = "discover" /\ task[a].listing # None /\ Answered(a)
      BY <1>0, <2>1 DEF Discover, Traced
    <3>2. task'[a].listing = task[a].listing /\ task'[a].etag = task[a].etag
      BY <1>0, <2>1 DEF Discover, Goto, Task
    <3> QED
      BY <1>2, <3>1, <3>2 DEF Held
  <2>2. CASE ~Discover(a)
    BY <1>0, <1>1, <1>4, <2>2
  <2> QED
    BY <2>1, <2>2
<1>6. ASSUME task'[a] = task[a], ~Discover(a) PROVE Traced(a)'
  <2>1. Stored' = Stored /\ Held(a)' = Held(a)
    BY <1>4, <1>6 DEF Held
  <2>2. Answered(a) => Answered(a)'
    BY <1>2, <1>6, <2>1
  <2> QED
    BY <1>0, <1>6, <2>1, <2>2 DEF Traced
<1>7. ASSUME task'[a].pc \notin {"reset", "list", "window", "show", "discover",
                                 "etag", "plan"}
      PROVE  Traced(a)'
  BY <1>7 DEF Traced
<1>8. ASSUME SyncStart(a) PROVE Traced(a)'
  <2>1. /\ task'[a].pc = "reset" /\ task'[a].listing = None
        /\ task'[a].etag = show.etag
    BY <1>0, <1>8 DEF SyncStart, Idle
  <2>2. Stored' = Stored
    BY <1>8 DEF SyncStart, Stored
  <2> QED
    BY <2>1, <2>2 DEF Traced, EtagCoversListing
<1>9. ASSUME ResetStale(a) PROVE Traced(a)'
  <2>1. /\ task[a].pc = "reset" /\ task'[a].pc = "list"
        /\ task'[a].listing = task[a].listing /\ task'[a].etag = task[a].etag
    BY <1>0, <1>9 DEF ResetStale, Goto, Task
  <2>2. Stored' = Stored
    BY <1>4, <2>1 DEF Discover
  <2> QED
    BY <1>0, <2>1, <2>2 DEF Traced
<1>10. ASSUME ListNotModified(a) PROVE Traced(a)'
  <2>1. /\ task[a].pc = "list" /\ task'[a].pc = "window"
        /\ task'[a].listing = task[a].listing /\ task'[a].etag = task[a].etag
    BY <1>0, <1>10 DEF ListNotModified, Goto, Task
  <2>2. /\ task[a].etag = PageOf(a, upstream) /\ upstream' = upstream
        /\ Stored' = Stored
    BY <1>10 DEF ListNotModified, Stored
  <2>3. task[a].listing = None /\ (task[a].etag # None =>
                                     ToSet(task[a].etag) \subseteq Stored)
    BY <1>0, <2>1 DEF Traced
  <2>4. Answered(a)'
    BY <1>3, <2>1, <2>2, <2>3 DEF Held
  <2> QED
    BY <2>1, <2>2, <2>3, <2>4 DEF Traced
<1>11. ASSUME ListModified(a) PROVE Traced(a)'
  <2> DEFINE page == PageOf(a, upstream)
  <2>1. PICK e : task' = [task EXCEPT ![a] =
                    [task[a] EXCEPT !.pc = "show", !.etag = e, !.listing = page]]
    BY <1>11 DEF ListModified
  <2>2. page \in Pages
    BY <1>0 DEF Pages
  <2>3. page # None
    BY <2>2, PageIds
  <2> HIDE DEF page
  <2>4. task'[a].pc = "show" /\ task'[a].listing = page
    BY <1>0, <2>1 DEF Task
  <2>5. upstream' = upstream /\ Stored' = Stored
    BY <1>11 DEF ListModified, Stored
  <2>6. Held(a)' = page
    BY <2>3, <2>4 DEF Held
  <2>7. Answered(a)'
    BY <1>3, <2>5, <2>6 DEF page
  <2> QED
    BY <2>3, <2>4, <2>7 DEF Traced
<1>12. ASSUME ShowMeta(a) \/ Discover(a) \/ SetEtag(a) PROVE Traced(a)'
  <2>1. /\ task[a].pc \in {"show", "discover", "etag"}
        /\ task'[a].pc \in {"discover", "etag", "plan"}
        /\ task'[a].listing = task[a].listing /\ task'[a].etag = task[a].etag
    BY <1>0, <1>12 DEF ShowMeta, Discover, SetEtag, Goto, Task
  <2>2. task[a].listing # None /\ Answered(a)
    BY <1>0, <2>1 DEF Traced
  <2>3. Answered(a)'
    BY <1>2, <2>1, <2>2 DEF Held
  <2> QED
    BY <2>1, <2>2, <2>3 DEF Traced
<1>13. ASSUME StoredWindow(a) PROVE Traced(a)'
  <2> DEFINE w == Stored \cap ToSet(take(Limit[a], NewestFirst(Stored)))
  <2>1. task' = [task EXCEPT ![a] = [task[a] EXCEPT !.pc = "plan", !.window = w]]
    BY <1>13 DEF StoredWindow
  <2> HIDE DEF w
  <2>2. /\ task'[a].pc = "plan" /\ task'[a].window = w
        /\ task'[a].listing = task[a].listing /\ task'[a].etag = task[a].etag
    BY <1>0, <2>1 DEF Task
  <2>3. task[a].pc = "window" /\ Stored' = Stored
    BY <1>13 DEF StoredWindow, Stored
  <2>4. task[a].listing = None /\ Answered(a)
    BY <1>0, <2>3 DEF Traced
  <2>5. Answered(a)'
    BY <1>2, <2>2, <2>3, <2>4 DEF Held, Discover
  <2>6. task'[a].etag # None => ToSet(task'[a].etag) \subseteq Stored'
    BY <1>0, <2>2, <2>3, <2>4 DEF Traced
  <2>7. task'[a].window = (Stored \cap ToSet(take(Limit[a], NewestFirst(Stored))))'
    BY <2>2, <2>3 DEF w
  <2> QED
    BY <2>2, <2>5, <2>6, <2>7 DEF Traced
<1>14. Traced(a)'
  BY <1>6, <1>7, <1>8, <1>9, <1>10, <1>11, <1>12, <1>13, TracedTask
<1> QED
  BY <1>5, <1>14 DEF TracedOK

LEMMA TracedInit == Init => TracedOK
<1> SUFFICES ASSUME Init PROVE TracedOK
  OBVIOUS
<1>1. Stored = {}
  BY DEF Init, Stored, Exists, NoRow
<1>2. \A a \in Actors : task[a].pc = "idle"
  BY DEF Init, Idle
<1> QED
  BY <1>1, <1>2 DEF TracedOK, Traced

\* Every caller has a fetch_last, or the page holds all that is published.
WholeWindow ==
  \A a \in Actors : \/ \E n \in Nat : Limit[a] = {n}
                    \/ Limit[a] = {} /\ \A L \in Listings : Len(L) <= PerPage

(* After a 304 the newest rows stored are the page the etag stands for      *)
(* (lib.rs: "The listing is exactly what we saw last poll, so the stored    *)
(* rows (newest first) bounded by fetch_last are the window"), for one      *)
(* caller and an upstream that does not retract, whatever fails or is       *)
(* killed in between.                                                       *)
THEOREM WindowIsListing ==
  ASSUME Alone, OnlyAdds, WholeWindow PROVE Spec => []StoredWindowIsListing
<1>1. TypeOK /\ EtagCoversListing /\ TracedOK /\ [Next]_vars => TracedOK'
  BY TracedStep
<1>2. TypeOK /\ TracedOK => StoredWindowIsListing
  <2> SUFFICES ASSUME TypeOK, TracedOK, NEW a \in Actors, task[a].pc = "plan",
                      task[a].listing = None
               PROVE  task[a].window = ToSet(task[a].etag)
    BY DEF StoredWindowIsListing
  <2> DEFINE page == task[a].etag
  <2>1. /\ Answered(a) /\ Held(a) = page
        /\ page # None => ToSet(page) \subseteq Stored
        /\ task[a].window = Stored \cap ToSet(take(Limit[a], NewestFirst(Stored)))
    BY DEF TracedOK, Traced, Held
  <2>2. PICK L \in Listings : page = PageOf(a, L) /\ Stored \subseteq ToSet(L)
    BY <2>1 DEF Answered
  <2>3. page # None
    BY <2>2, PageIds DEF Pages
  <2>4. L \in Seq(Ids) /\ Descending(L, Len(L)) /\ Stored \in SUBSET ToSet(L)
    BY <2>2, PageCuts
  <2>5. CASE \E n \in Nat : Limit[a] = {n}
    <3>1. PICK n \in Nat : Limit[a] = {n}
      BY <2>5
    <3>2. page = take({n}, L)
      BY <2>2, <3>1 DEF PageOf, Or
    <3>3. ToSet(take({n}, NewestFirst(Stored))) = ToSet(take({n}, L))
      BY <2>1, <2>3, <2>4, <3>2, RowsArePage
    <3> QED
      BY <2>1, <2>3, <3>1, <3>2, <3>3
  <2>6. CASE Limit[a] = {} /\ Len(L) <= PerPage
    <3>1. page = L
      BY <2>2, <2>4, <2>6, LibraryAssumption DEF PageOf, Or, take
    <3>2. Stored = ToSet(L)
      BY <2>1, <2>2, <2>3, <3>1
    <3>3. take(Limit[a], NewestFirst(Stored)) = NewestFirst(Stored)
      BY <2>6 DEF take
    <3>4. ToSet(NewestFirst(Stored)) = Stored
      BY NewestFirstLists DEF Stored
    <3> QED
      BY <2>1, <3>1, <3>2, <3>3, <3>4
  <2> QED
    BY <2>5, <2>6 DEF WholeWindow
<1> QED
  BY <1>1, <1>2, TracedInit, TypeCorrect, EtagInvariant, PTL DEF Spec

-----------------------------------------------------------------------------
(* What retention prunes after the downloads. *)

\* No policy has a byte cap: what is kept is a matter of places, not of sizes
\* that are known only after a download.
NoCap == \A a \in Actors : Policy[a].max_bytes = {}

(* Before the n-th of a listing come the n - 1 newer ones. *)
LEMMA NewerCount ==
  ASSUME NEW S \in SUBSET Ids, NEW n \in 1..Cardinality(S)
  PROVE  LET T == {x \in S : x > NewestFirst(S)[n]}
         IN IsFiniteSet(T) /\ Cardinality(T) = n - 1
<1> DEFINE s == NewestFirst(S)
           N == Cardinality(S)
           T == {x \in S : x > s[n]}
           f == [k \in 1..(n - 1) |-> s[k]]
<1>1. N \in Nat /\ s \in [1..N -> S] /\ \A j, k \in 1..N : j < k => s[j] > s[k]
  BY NewestFirstLists DEF Lists, Descending
<1>2. \A x \in S : \E k \in 1..N : s[k] = x
  BY NewestFirstLists DEF Lists
<1> HIDE DEF s
<1>3. S \subseteq Nat /\ \A k \in 1..N : s[k] \in Nat
  BY <1>1, LibraryAssumption
<1> HIDE DEF N
<1>4. n \in 1..N /\ n - 1 \in Nat /\ \A k \in 1..(n - 1) : k \in 1..N /\ k < n
  BY <1>1 DEF N
<1>5. \A k \in 1..(n - 1) : s[k] \in T
  BY <1>1, <1>4
<1>6. Descending(f, n - 1)
  BY <1>1, <1>4 DEF Descending
<1>7. ASSUME NEW x \in T PROVE \E k \in 1..(n - 1) : f[k] = x
  <2>1. PICK k \in 1..N : s[k] = x
    BY <1>2
  <2>2. s[k] > s[n] /\ s[k] \in Nat /\ s[n] \in Nat
    BY <1>3, <1>4, <2>1
  <2>3. k < n
    <3>1. CASE k = n
      BY <2>2, <3>1
    <3>2. CASE n < k
      BY <1>1, <1>4, <2>2, <3>2
    <3> QED
      BY <1>1, <1>4, <3>1, <3>2
  <2>4. k \in 1..(n - 1)
    BY <1>1, <1>4, <2>3
  <2> QED
    BY <2>1, <2>4
<1>8. Lists(f, n - 1, T)
  <2>1. f \in [1..(n - 1) -> T]
    BY <1>5
  <2> QED
    BY <1>6, <1>7, <2>1 DEF Lists
<1>9. T \subseteq Nat
  BY <1>3
<1>10. IsFiniteSet(T) /\ Cardinality(T) = n - 1
  <2> HIDE DEF T, f
  <2> QED
    BY <1>4, <1>8, <1>9, ListLength
<1> QED
  BY <1>10 DEF s

(* The window of a plan is a listing of episodes, and has every row that is *)
(* newer than one of them.                                                  *)
LEMMA WindowListed ==
  ASSUME TypeOK, OnlyAdds, NEW a \in Actors, Traced(a), task[a].pc = "plan"
  PROVE  \E S \in SUBSET Ids :
           /\ WindowSeq(a) = NewestFirst(S)
           /\ \A x \in Stored, y \in S : x > y => x \in S
<1>1. Answered(a)
  BY DEF Traced
<1>2. PICK L \in Listings : Held(a) = PageOf(a, L) /\ Stored \subseteq ToSet(L)
  BY <1>1 DEF Answered
<1>3. Stored \in SUBSET Ids /\ Ids \subseteq Nat
  BY LibraryAssumption DEF Stored
<1>4. CASE task[a].listing = None
  <2> DEFINE s == NewestFirst(Stored)
             S == task[a].window
  <2>1. S = Stored \cap ToSet(take(Limit[a], s)) /\ WindowSeq(a) = NewestFirst(S)
    BY <1>4 DEF Traced, WindowSeq
  <2>2. /\ s \in Seq(Stored) /\ ToSet(s) = Stored /\ Len(s) = Cardinality(Stored)
        /\ Descending(s, Len(s))
    BY <1>3, NewestFirstLists DEF Lists
  <2>3. Limit[a] \in SUBSET Nat /\ Stored \subseteq Nat
    BY <1>3, LibraryAssumption
  <2>4. ASSUME NEW x \in Stored, NEW y \in S, x > y PROVE x \in S
    <3>1. y \in ToSet(take(Limit[a], s)) /\ x \in ToSet(s)
      BY <2>1, <2>2
    <3> HIDE DEF s
    <3>2. x \in ToSet(take(Limit[a], s))
      BY <2>2, <2>3, <2>4, <3>1, NewerTaken
    <3> QED
      BY <2>1, <3>2
  <2> QED
    BY <1>3, <2>1, <2>4
<1>5. CASE task[a].listing # None
  <2> DEFINE page == PageOf(a, L)
  <2>1. page = WindowSeq(a)
    BY <1>2, <1>5 DEF Held, WindowSeq
  <2>2. /\ L \in Seq(Ids) /\ Descending(L, Len(L))
        /\ page \in Seq(Ids) /\ Descending(page, Len(page))
    BY PageCuts
  <2>3. PICK limit \in SUBSET Nat : page = take(limit, L)
    BY LibraryAssumption DEF PageOf, Or
  <2> HIDE DEF page
  <2>4. ToSet(page) \in SUBSET Ids /\ NewestFirst(ToSet(page)) = page
    BY <2>2, DescendingLists
  <2>5. ASSUME NEW x \in Stored, NEW y \in ToSet(page), x > y
        PROVE  x \in ToSet(page)
    <3>1. x \in ToSet(L)
      BY <1>2
    <3> QED
      BY <1>3, <2>2, <2>3, <2>5, <3>1, NewerTaken
  <2> QED
    BY <2>1, <2>4, <2>5
<1> QED
  BY <1>4, <1>5

\* Fewer than keep_last rows are newer than i.
Few(a, i) ==
  \A c \in Policy[a].keep_last : Cardinality({x \in Stored : x > i}) < c

(* What the plan wants is among the newest keep_last rows of the table. *)
LEMMA WantedAreFew ==
  ASSUME TypeOK, OnlyAdds, NoCap, NEW a \in Actors, Traced(a),
         task[a].pc = "plan", NEW i \in Wanted(a)
  PROVE  Few(a, i)
<1> DEFINE policy == Policy[a]
<1>1. IsPolicy(policy) /\ policy.max_bytes = {} /\ Ids \subseteq Nat
  BY LibraryAssumption DEF IsPolicy, NoCap
<1>2. PICK S \in SUBSET Ids : /\ WindowSeq(a) = NewestFirst(S)
                               /\ \A x \in Stored, y \in S : x > y => x \in S
  BY WindowListed
<1> DEFINE s == NewestFirst(S)
           list == Candidates(s)
           N == Cardinality(S)
           kept == split(policy, list).kept
<1>3. /\ list \in Seq(Candidate(Ids)) /\ Len(list) = N /\ NewestIdFirst(list)
      /\ \A n \in 1..Len(list) : list[n] = [id |-> s[n], bytes |-> bytes_of(s[n])]
  BY CandidatesType
<1>4. N \in Nat /\ s \in [1..N -> S]
  BY NewestFirstLists DEF Lists
<1>5. i \in ToSet(kept)
  BY <1>2 DEF Wanted
<1> HIDE DEF s, list, policy
<1>6. Distinct(list)
  BY <1>1, <1>3, NewestDistinct
<1>7. split(policy, list) \in Accumulator(Ids) /\ Partition(split(policy, list), list, N)
  BY <1>1, <1>3, SplitRespectsPolicy
<1>8. kept \in Seq(Ids)
  BY <1>7 DEF Accumulator
<1>9. i \in Elements(kept)
  BY <1>5, <1>8 DEF ToSet, Elements
<1>10. PICK n \in 1..N : i = list[n].id
  BY <1>7, <1>9 DEF Partition
<1>11. i = s[n] /\ n \in 1..Len(list)
  BY <1>3, <1>10
<1>12. \A c \in policy.keep_last : n - 1 < c
  BY <1>1, <1>3, <1>6, <1>9, <1>10, <1>11, KeptAreFirst
<1>13. /\ IsFiniteSet({x \in S : x > i})
       /\ Cardinality({x \in S : x > i}) = n - 1
  <2>1. n \in 1..Cardinality(S)
    BY <1>10
  <2> QED
    BY <1>11, <2>1, NewerCount DEF s
<1>14. {x \in Stored : x > i} \subseteq {x \in S : x > i}
  BY <1>2, <1>4, <1>11
<1>15. /\ Cardinality({x \in Stored : x > i}) \in Nat
       /\ Cardinality({x \in Stored : x > i}) <= n - 1
  <2> DEFINE A == {x \in Stored : x > i}
             B == {x \in S : x > i}
  <2>1. A \subseteq B /\ IsFiniteSet(B) /\ Cardinality(B) = n - 1
    BY <1>13, <1>14
  <2> HIDE DEF A, B
  <2>2. IsFiniteSet(A) /\ Cardinality(A) <= Cardinality(B)
    BY <2>1, FS_Subset
  <2>3. Cardinality(A) \in Nat /\ Cardinality(A) <= n - 1
    BY <2>1, <2>2, FS_CardinalityType
  <2> QED
    BY <2>3 DEF A
<1>16. \A c \in policy.keep_last : c \in Nat
  BY <1>1 DEF IsPolicy
<1> QED
  BY <1>10, <1>12, <1>15, <1>16 DEF Few, policy

(* apply_retention leaves the newest keep_last rows alone. *)
LEMMA FewAreLeft ==
  ASSUME TypeOK, NoCap, NEW a \in Actors, NEW i \in Cached, Few(a, i)
  PROVE  i \notin ToSet(plan(Policy[a], Candidates(NewestFirst(Cached))))
<1> DEFINE policy == Policy[a]
           s == NewestFirst(Cached)
           list == Candidates(s)
           N == Cardinality(Cached)
<1>1. IsPolicy(policy) /\ policy.max_bytes = {} /\ Ids \subseteq Nat
  BY LibraryAssumption DEF IsPolicy, NoCap
<1>2. Cached \in SUBSET Ids /\ Stored \in SUBSET Ids /\ Cached \subseteq Stored
  BY DEF Cached, Stored, Exists
<1>3. /\ list \in Seq(Candidate(Ids)) /\ Len(list) = N /\ NewestIdFirst(list)
      /\ \A n \in 1..Len(list) : list[n] = [id |-> s[n], bytes |-> bytes_of(s[n])]
  BY <1>2, CandidatesType
<1>4. N \in Nat /\ \A x \in Cached : \E k \in 1..N : s[k] = x
  BY <1>2, NewestFirstLists DEF Lists
<1>5. PICK n \in 1..N : s[n] = i
  BY <1>4
<1>6. Cardinality({x \in Cached : x > i}) = n - 1
  BY <1>2, <1>5, NewerCount
<1> HIDE DEF s, list, policy
<1>7. Distinct(list)
  BY <1>1, <1>3, NewestDistinct
<1>8. /\ Cardinality({x \in Stored : x > i}) \in Nat
      /\ n - 1 <= Cardinality({x \in Stored : x > i})
  <2> DEFINE A == {x \in Cached : x > i}
             B == {x \in Stored : x > i}
  <2>1. A \subseteq B /\ B \subseteq Ids /\ Cardinality(A) = n - 1
    BY <1>2, <1>6
  <2> HIDE DEF A, B
  <2>2. IsFiniteSet(B)
    BY <2>1, LibraryAssumption, FS_Subset
  <2>3. Cardinality(A) <= Cardinality(B) /\ Cardinality(B) \in Nat
    BY <2>1, <2>2, FS_Subset, FS_CardinalityType
  <2> QED
    BY <2>1, <2>3 DEF B
<1>9. \A c \in policy.keep_last : n - 1 < c
  <2> DEFINE K == Cardinality({x \in Stored : x > i})
  <2>1. \A c \in policy.keep_last : c \in Nat
    BY <1>1 DEF IsPolicy
  <2>2. \A c \in policy.keep_last : K < c
    BY DEF Few, policy
  <2>3. K \in Nat /\ n - 1 <= K /\ n \in Nat
    BY <1>4, <1>8
  <2> HIDE DEF K
  <2> QED
    BY <2>1, <2>2, <2>3
<1>10. n \in 1..Len(list) /\ list[n].id = i
  BY <1>3, <1>5
<1>11. i \notin Elements(plan(policy, list))
  BY <1>1, <1>3, <1>7, <1>9, <1>10, FirstAreKept
<1>12. ToSet(plan(policy, list)) = Elements(plan(policy, list))
  <2>1. split(policy, list) \in Accumulator(Ids)
    BY <1>1, <1>3, SplitRespectsPolicy
  <2>2. plan(policy, list) \in Seq(Ids)
    BY <2>1 DEF plan, Accumulator
  <2> QED
    BY <2>2 DEF ToSet, Elements
<1> QED
  BY <1>11, <1>12 DEF policy, s, list

\* From the plan on, what was queued is among the newest keep_last rows, so
\* nothing that was downloaded is doomed.
Spared(a) ==
  /\ task[a].pc \in {"download", "retain"} =>
       \A i \in Ids : dl[a][i].ph # "none" => Few(a, i)
  /\ task[a].pc \in {"prune", "mark"} =>
       \A i \in task[a].doomed : dl[a][i].ph # "ok"

SparedOK == \A a \in Actors : Spared(a)

(* A download attempt starts nothing anew, and ends before the prune. *)
LEMMA DownloadSpares ==
  ASSUME TypeOK, EpisodesOK, NEW a \in Actors, NEW k \in Ids, DownloadStep(a, k)
  PROVE  /\ \A i \in Ids : dl'[a][i].ph # "none" => dl[a][i].ph # "none"
         /\ task[a].pc \notin {"download", "verify"} => dl' = dl
<1>0. dl \in [Actors -> [Ids -> Job]] /\ dl[a] \in [Ids -> Job]
  BY EpisodeTypes
<1>1. CASE Progress(a, k)
  BY <1>1 DEF Progress
<1>2. CASE ~Progress(a, k)
  <2>1. dl[a][k].ph \notin Over
    BY <1>2 DEF DownloadStep, MarkDownloading, Resolve, Fetch, FetchFails,
       MarkCached, MarkFailed, DownloadStorageFails, Over
  <2>2. task[a].pc \in {"download", "verify"}
    BY <2>1 DEF EpisodesOK, Episode, EpisodeOK
  <2>3. \A i \in Ids \ {k} : dl'[a][i] = dl[a][i]
    <3>1. \E j : dl' = [dl EXCEPT ![a][k] = j] \/ dl' = [dl EXCEPT ![a][k].ph = j]
      <4>1. CASE Resolve(a, k)
        BY <4>1 DEF Resolve
      <4>2. CASE Fetch(a, k)
        BY <4>2 DEF Fetch
      <4>3. CASE \E ph : Phase(a, k, ph)
        BY <4>3 DEF Phase
      <4> QED
        BY <1>2, <4>1, <4>2, <4>3 DEF DownloadStep, MarkDownloading, FetchFails,
           MarkCached, MarkFailed, DownloadStorageFails
    <3> QED
      BY <1>0, <3>1
  <2>4. dl[a][k].ph # "none"
    BY <2>1 DEF Over
  <2>5. ASSUME NEW i \in Ids, dl'[a][i].ph # "none" PROVE dl[a][i].ph # "none"
    <3>1. CASE i = k
      BY <2>4, <3>1
    <3>2. CASE i \in Ids \ {k}
      BY <2>3, <2>5, <3>2
    <3> QED
      BY <3>1, <3>2
  <2>6. \A i \in Ids : dl'[a][i].ph # "none" => dl[a][i].ph # "none"
    BY <2>5
  <2>7. task[a].pc \notin {"download", "verify"} => dl' = dl
    BY <2>2
  <2> QED
    BY <2>6, <2>7, Zenon
<1> QED
  BY <1>1, <1>2

LEMMA SparedStep ==
  ASSUME TypeOK, Solo, OnlyAdds, NoCap, EpisodesOK, TracedOK, SparedOK, [Next]_vars
  PROVE  SparedOK'
<1> PICK a \in Actors : \A b \in Actors : b = a
  BY DEF Solo, Alone
<1>0. /\ task \in [Actors -> Task] /\ task[a] \in Task
      /\ dl \in [Actors -> [Ids -> Job]] /\ Spared(a) /\ Traced(a)
  BY DEF TypeOK, SparedOK, TracedOK
<1>1. ASSUME Stored' = Stored, NEW i \in Ids, Few(a, i) PROVE Few(a, i)'
  BY <1>1 DEF Few
<1>2. ~Discover(a) => Stored' = Stored
  BY StoredSteps
<1>3. ASSUME task'[a].pc \notin {"download", "retain", "prune", "mark"}
      PROVE  Spared(a)'
  BY <1>3 DEF Spared
\* The calls in progress and the task go on as they were.
<1>4. ASSUME ~Discover(a), task[a].pc = "download" \/ dl' = dl,
             \A i \in Ids : dl'[a][i].ph # "none" => dl[a][i].ph # "none",
             task'[a].pc \in {"download", "retain"} =>
               task[a].pc \in {"download", "retain"},
             task'[a].pc \in {"prune", "mark"} =>
               /\ task[a].pc \in {"prune", "mark"}
               /\ task'[a].doomed \subseteq task[a].doomed
      PROVE  Spared(a)'
  <2>1. ASSUME task'[a].pc \in {"download", "retain"}, NEW i \in Ids,
               dl'[a][i].ph # "none"
        PROVE  Few(a, i)'
    BY <1>0, <1>1, <1>2, <1>4, <2>1 DEF Spared
  <2>2. ASSUME task'[a].pc \in {"prune", "mark"}, NEW i \in task'[a].doomed
        PROVE  dl'[a][i].ph # "ok"
    BY <1>0, <1>4, <2>2 DEF Spared
  <2> QED
    BY <2>1, <2>2 DEF Spared
<1>5. ASSUME SyncStep(a) PROVE Spared(a)'
  <2>1. CASE Plan(a)
    <3>1. task[a].pc = "plan" /\ task'[a].pc = "download" /\ Stored' = Stored
      BY <1>0, <2>1 DEF Plan, Goto, Task, Stored
    <3>2. \A i \in Ids : dl'[a][i].ph # "none" => i \in Wanted(a)
      BY <1>0, <2>1 DEF Plan, NoJob
    <3>3. \A i \in Ids : dl'[a][i].ph # "none" => Few(a, i)'
      BY <1>0, <1>1, <3>1, <3>2, WantedAreFew
    <3> QED
      BY <3>1, <3>3 DEF Spared
  <2>2. CASE RetentionRead(a)
    <3> DEFINE D == ToSet(plan(Policy[a], Candidates(NewestFirst(Cached))))
    <3>1. /\ task' = [task EXCEPT ![a] = [task[a] EXCEPT !.pc = "prune",
                                            !.doomed = Cached \cap D]]
          /\ dl' = dl /\ task[a].pc = "retain"
      BY <2>2 DEF RetentionRead
    <3>2. ASSUME NEW i \in Cached \cap D PROVE dl[a][i].ph # "ok"
      <4>1. i \in Ids /\ i \in Cached
        BY DEF Cached
      <4>2. ASSUME dl[a][i].ph = "ok" PROVE FALSE
        <5>1. Few(a, i)
          BY <1>0, <3>1, <4>1, <4>2 DEF Spared
        <5> QED
          BY <4>1, <5>1, FewAreLeft
      <4> QED
        BY <4>2
    <3> HIDE DEF D
    <3>3. task'[a].pc = "prune" /\ task'[a].doomed = Cached \cap D
      BY <1>0, <3>1 DEF Task
    <3> QED
      BY <3>1, <3>2, <3>3 DEF Spared
  <2>3. CASE DownloadsDone(a)
    <3>1. /\ dl' = dl /\ task[a].pc = "download" /\ task'[a].pc = "retain"
      BY <1>0, <2>3 DEF DownloadsDone, Goto, Task
    <3> QED
      BY <1>4, <3>1 DEF Discover
  <2>4. CASE PruneRemove(a)
    <3>1. /\ dl' = dl /\ task[a].pc = "prune" /\ task'[a].pc = "mark"
          /\ task'[a].doomed = task[a].doomed
      BY <1>0, <2>4 DEF PruneRemove, Goto, Task
    <3> QED
      BY <1>4, <3>1 DEF Discover
  <2>5. CASE PruneKeeps(a)
    <3>1. /\ dl' = dl /\ task[a].pc = "prune" /\ task'[a].pc = "prune"
          /\ task'[a].doomed \subseteq task[a].doomed
      BY <1>0, <2>5 DEF PruneKeeps, Task
    <3> QED
      BY <1>4, <3>1 DEF Discover
  <2>6. CASE \E r : Return(a, r)
    <3>1. task'[a].pc = "idle"
      BY <1>0, <2>6 DEF Return, Idle
    <3> QED
      BY <1>3, <3>1
  <2>7. CASE PruneMark(a)
    <3> DEFINE old == Oldest(task[a].doomed)
    <3>1. CASE /\ dl' = dl
               /\ task' = [task EXCEPT ![a] = [task[a] EXCEPT !.pc = "prune",
                             !.doomed = task[a].doomed \ {old}]]
      <4> HIDE DEF old
      <4>1. /\ task[a].pc = "mark" /\ task'[a].pc = "prune"
            /\ task'[a].doomed = task[a].doomed \ {old}
        BY <1>0, <2>7, <3>1 DEF Task, PruneMark
      <4> QED
        BY <1>4, <3>1, <4>1 DEF Discover
    <3> QED
      BY <2>6, <2>7, <3>1 DEF PruneMark
  <2>8. CASE \/ SyncStart(a) \/ ResetStale(a) \/ ListNotModified(a)
             \/ ShowMeta(a) \/ Discover(a) \/ SetEtag(a)
    <3>1. task'[a].pc \notin {"download", "retain", "prune", "mark"}
      <4>1. CASE SyncStart(a)
        BY <1>0, <4>1 DEF SyncStart, Idle
      <4>2. CASE \E pc \in {"list", "window", "discover", "etag", "plan"} :
                   Goto(a, pc)
        BY <1>0, <4>2 DEF Goto, Task
      <4> QED
        BY <2>8, <4>1, <4>2 DEF ResetStale, ListNotModified, ShowMeta, Discover,
           SetEtag
    <3> QED
      BY <1>3, <3>1
  <2>9. CASE ListModified(a)
    <3>1. PICK e, l : task' = [task EXCEPT ![a] =
                         [task[a] EXCEPT !.pc = "show", !.etag = e, !.listing = l]]
      BY <2>9 DEF ListModified
    <3>2. task'[a].pc = "show"
      BY <1>0, <3>1 DEF Task
    <3> QED
      BY <1>3, <3>2
  <2>10. CASE StoredWindow(a)
    <3>1. PICK x : task' = [task EXCEPT ![a] =
                              [task[a] EXCEPT !.pc = "plan", !.window = x]]
      BY <2>10 DEF StoredWindow
    <3>2. task'[a].pc = "plan"
      BY <1>0, <3>1 DEF Task
    <3> QED
      BY <1>3, <3>2
  <2> QED
    BY <1>5, <2>1, <2>2, <2>3, <2>4, <2>5, <2>6, <2>7, <2>8, <2>9, <2>10
    DEF SyncStep, PollFailed, SyncDone, SyncStorageFails
<1>6. ASSUME NEW k \in Ids, DownloadStep(a, k) PROVE Spared(a)'
  <2>1. task' = task
    BY <1>6, DownloadFrame
  <2>2. CASE task[a].pc = "verify"
    BY <1>3, <2>1, <2>2
  <2>3. CASE task[a].pc = "discover"
    BY <1>3, <2>1, <2>3
  <2>4. CASE task[a].pc \notin {"verify", "discover"}
    BY <1>4, <1>6, <2>1, <2>4, DownloadSpares DEF Discover
  <2> QED
    BY <2>2, <2>3, <2>4
<1>7. ASSUME VerifyStep(a) PROVE Spared(a)'
  <2>1. CASE VerifyStart(a) \/ VerifyDone(a)
    <3>1. task'[a].pc \in {"verify", "idle"}
      BY <1>0, <2>1 DEF VerifyStart, VerifyDone, Return, Idle
    <3> QED
      BY <1>3, <3>1
  <2>2. ASSUME NEW k \in Ids, CheckFile(a, k) PROVE Spared(a)'
    <3>1. task' = task /\ dl[a][k].ph = "check" /\ \E ph : Phase(a, k, ph)
      BY <2>2 DEF CheckFile
    <3>2. task[a].pc \in {"download", "verify"}
      BY <3>1 DEF EpisodesOK, Episode, EpisodeOK, Over
    <3>3. \A i \in Ids : dl'[a][i].ph # "none" => dl[a][i].ph # "none"
      <4>1. PICK ph : dl' = [dl EXCEPT ![a][k].ph = ph]
        BY <3>1 DEF Phase
      <4>2. \A i \in Ids \ {k} : dl'[a][i] = dl[a][i]
        BY <1>0, <4>1
      <4> QED
        BY <3>1, <4>2
    <3>4. CASE task[a].pc = "verify"
      BY <1>3, <3>1, <3>4
    <3>5. CASE task[a].pc = "download"
      BY <1>4, <3>1, <3>3, <3>5 DEF Discover
    <3> QED
      BY <3>2, <3>4, <3>5
  <2> QED
    BY <1>7, <2>1, <2>2 DEF VerifyStep
<1>8. ASSUME Environment \/ UNCHANGED vars PROVE Spared(a)'
  <2>1. CASE Crash(a)
    <3>1. task'[a].pc = "idle"
      BY <1>0, <2>1 DEF Crash, Return, Idle
    <3> QED
      BY <1>3, <3>1
  <2>2. CASE task' = task /\ dl' = dl
    <3>1. CASE task[a].pc = "discover"
      BY <1>3, <2>2, <3>1
    <3>2. CASE task[a].pc # "discover"
      BY <1>4, <2>2, <3>2 DEF Discover
    <3> QED
      BY <3>1, <3>2
  <2> QED
    BY <1>8, <2>1, <2>2
    DEF Environment, UpstreamChanges, ProgressAges, Crash, Damage, vars
<1>9. Spared(a)'
  BY <1>5, <1>6, <1>7, <1>8 DEF Next
<1> QED
  BY <1>9 DEF SparedOK

(* A sync never prunes what it has just downloaded (lib.rs: "an episode     *)
(* that would be pruned immediately is never fetched"): for one caller,     *)
(* under a policy that counts episodes, with an upstream that does not      *)
(* retract; whatever fails, and wherever the sync is killed.                *)
THEOREM NothingChurns ==
  ASSUME Solo, OnlyAdds, NoCap PROVE Spec => []NoChurn
<1>1. Init => EpisodesOK /\ TracedOK /\ SparedOK
  <2>1. Init => SparedOK
    BY DEF Init, SparedOK, Spared, Idle
  <2> QED
    BY <2>1, EpisodesInit, TracedInit
<1>2. TypeOK /\ EtagCoversListing /\ EpisodesOK /\ TracedOK /\ SparedOK
        /\ [Next]_vars => EpisodesOK' /\ TracedOK' /\ SparedOK'
  BY EpisodesStep, TracedStep, SparedStep DEF Solo
<1>3. SparedOK => NoChurn
  BY DEF SparedOK, Spared, NoChurn
<1> QED
  BY <1>1, <1>2, <1>3, TypeCorrect, EtagInvariant, PTL DEF Spec

=============================================================================
