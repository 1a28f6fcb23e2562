------------------------------- MODULE Polling -------------------------------
(***************************************************************************)
(* What one poll of a show makes of the data upstream serves: the wire     *)
(* format and its conversion (providers/src/difm/v1.rs, difm.rs), the      *)
(* quarantine, the artwork cache, the two orders of episodes (the          *)
(* provider's and the database's), the retention plan before the downloads *)
(* and the pruning after them (splicefeed/src/lib.rs).                     *)
(*                                                                         *)
(* Library has the interleavings of several syncs over strictly ordered    *)
(* episodes.  Here one scheduled poll follows another, and the data is     *)
(* what is hard: entries that do not parse, equal and missing dates,       *)
(* episodes upstream drops or dates anew, sizes known only after a         *)
(* download, an etag that stands for a page.                               *)
(*                                                                         *)
(* Everything the environment does to the daemon costs one unit of         *)
(* `trouble`, so a behaviour has at most MaxTrouble surprises.             *)
(***************************************************************************)
EXTENDS Storage, Retention, SequencesExt

CONSTANTS Ids,        \* episode slugs; a larger one is later as text
          Dates,      \* publication times; numbers
          Bad,        \* a field, or a body, that does not parse
          Pages,      \* what upstream can publish: sequences of entries
          ImageSets,  \* the show's images upstream can serve
          Sources,    \* where artwork comes from: URLs and local files
          Configs,    \* the configurations an operator can load
          PerPage,    \* page size asked for without fetch_last
          Audio,      \* [Ids -> contents of the episode's audio]
          Playable,   \* the episodes whose details carry an audio link
          Bytes,      \* [Contents -> size]
          MaxTrouble  \* bound on the surprises of a behaviour

(* v1::Episode, the fields the daemon acts on: None is an absent (or       *)
(* empty) field, Bad a field of the wrong type or form.                    *)
Entry == [slug : Ids \cup {None, Bad}, start_at : Dates \cup {None, Bad}]

(* v1::Images: Bad is text that is no URL. *)
Images == [compact : Sources \cup {None, Bad}, default : Sources \cup {None, Bad}]

(* The settings that a poll reads: fetch_last and retention of the show    *)
(* and the global ones they are layered over, and the artwork override.    *)
Limits == [keep_last : SUBSET Nat, max_bytes : SUBSET Nat]
Config == [fetch_last : SUBSET Nat, global_fetch_last : SUBSET Nat,
           retention : SUBSET Limits, global_retention : Limits,
           artwork : Sources \cup {None}]

ASSUME PollingAssumption ==
  /\ Ids \subseteq Nat /\ IsFiniteSet(Ids)
  /\ Dates \subseteq Nat /\ PerPage \in Nat \ {0}
  /\ \A page \in Pages : page \in Seq(Entry)
  /\ ImageSets \subseteq Images
  /\ \A c \in Configs :
       /\ c \in Config
       /\ \A m, n \in c.fetch_last : m = n
       /\ \A m, n \in c.global_fetch_last : m = n
  /\ Playable \subseteq Ids
  /\ Audio \in [Ids -> Contents]
  /\ Bytes \in [Contents -> Nat]
  /\ Paths = Ids
  /\ MaxTrouble \in Nat

VARIABLES
  upstream,    \* what upstream serves: the episode page and the images
  config,      \* the configuration in force
  rows,        \* the episodes table
  dates,       \* its published_at column
  etag,        \* the page whose etag is stored, or None
  art,         \* the show's artwork_path, or None
  artfile,     \* data_dir/artwork: what became of the file of each source
  quarantine,  \* what became of each payload that did not parse
  poll,        \* where the poll is, and its local variables
  trouble      \* surprises left

vars == <<upstream, config, rows, dates, etag, art, artfile, quarantine, poll,
          trouble>>

-----------------------------------------------------------------------------
(* The wire format. *)

(* TryFrom<v1::Episode>: the slug is required, a start_at must parse. *)
Readable(entry) == entry.slug \in Ids /\ entry.start_at # Bad

(* Not assumed of upstream; a hypothesis of the theorems about the window: *)
(* an episode is on a page at most once.                                   *)
OncePerPage ==
  \A page \in Pages : \A m, n \in DOMAIN page :
    Readable(page[m]) /\ Readable(page[n]) /\ page[m].slug = page[n].slug => m = n

(* Show::into_meta: the square image before the banner; the one chosen     *)
(* must normalise to a URL, there is no second try.                        *)
into_meta(images) ==
  LET chosen == IF images.compact # None THEN images.compact ELSE images.default
  IN IF chosen \in Sources THEN chosen ELSE None

(* Option<Timestamp> under Reverse: later first, none last. *)
Newer(d, e) == d # None /\ (e = None \/ d > e)

take(max, seq) ==
  IF \E n \in max : n < Len(seq)
  THEN SubSeq(seq, 1, CHOOSE n \in max : n < Len(seq))
  ELSE seq

(* ShowConfig::fetch_last and ShowConfig::retention, as sync asks for them. *)
limit == Or(config.fetch_last, config.global_fetch_last)
policy == effective(config.retention, config.global_retention)

(* What upstream answers for the page size of the request, which it honours *)
(* (difm.rs: "The API is trusted to honor per_page").                       *)
Served == take(Or(limit, {PerPage}), upstream.page)
Answers == UNION {{SubSeq(page, 1, n) : n \in 0..Len(page)} : page \in Pages}

(* The entries of a page that do not parse, by their places. *)
Unreadable(page) == {n \in DOMAIN page : ~Readable(page[n])}

(* The stable sort, newest first, of the entries at some places of a page. *)
Earlier(page, m, n) ==
  \/ Newer(page[m].start_at, page[n].start_at)
  \/ ~Newer(page[n].start_at, page[m].start_at) /\ m < n

Sorted(page, places) ==
  [k \in 1..Cardinality(places) |->
     CHOOSE n \in places :
       Cardinality({m \in places : Earlier(page, m, n)}) = k - 1]

(* Mutant: reading stops at the first entry that does not parse. *)
episodes_until_bad(page) ==
  LET order == Sorted(page, {m \in DOMAIN page :
                               \A n \in 1..m : Readable(page[n])})
  IN take(limit, [k \in DOMAIN order |-> page[order[k]]])

(* DifmProvider::episodes: the entries that parse, by a stable sort newest *)
(* first, cut to fetch_last.                                               *)
episodes(page) ==
  LET order == Sorted(page, DOMAIN page \ Unreadable(page))
  IN take(limit, [k \in DOMAIN order |-> page[order[k]]])

Slugs(seq) == [n \in DOMAIN seq |-> seq[n].slug]

Payloads == {Bad} \cup
            UNION {{page[n] : n \in Unreadable(page)} : page \in Pages}

(* Quarantine::write for the payloads at some places, one after another    *)
(* and of one label: the file name has a timestamp in milliseconds, so a   *)
(* later payload can take the place of an earlier one, and only the last   *)
(* one is sure to stay.                                                    *)
WriteAll(seq, places) ==
  \E kept \in SUBSET {seq[n] : n \in places} :
    /\ \A n \in places : (\A m \in places : m <= n) => seq[n] \in kept
    /\ quarantine' = [p \in Payloads |->
                        IF p \in kept THEN "written" ELSE quarantine[p]]

(* write_or_note when the disk refuses: an error in the log. *)
NoteAll(seq, places) ==
  quarantine' = [p \in Payloads |->
    IF p \in {seq[n] : n \in places} /\ quarantine[p] = "none" THEN "noted"
    ELSE quarantine[p]]

-----------------------------------------------------------------------------
(* Types and the initial state: a fresh data directory. *)

PCs == {"idle", "show", "artwork", "artset", "artdrop", "discover", "etag",
        "plan", "download", "retain"}

Poll == [pc : PCs,
         page : Answers \cup {<<>>},     \* what upstream answered, or vouched for
         etag : Answers \cup {None},     \* the etag that came with it
         source : Sources \cup {None},   \* the artwork being cached
         existing : Sources \cup {None}, \* artwork_path read before
         window : Seq(Ids),              \* window_ids
         cands : Seq(Candidate(Ids)),    \* what the plan was made over
         fetched : SUBSET Ids]           \* its downloads that succeeded

NoPoll == [pc |-> "idle", page |-> <<>>, etag |-> None, source |-> None,
           existing |-> None, window |-> <<>>, cands |-> <<>>,
           fetched |-> {}]

Init ==
  /\ upstream \in [page : Pages, images : ImageSets]
  /\ config \in Configs
  /\ rows = [i \in Ids |-> NoRow]
  /\ dates = [i \in Ids |-> None]
  /\ etag = None
  /\ art = None
  /\ artfile = [s \in Sources |-> "none"]
  /\ quarantine = [p \in Payloads |-> "none"]
  /\ poll = NoPoll
  /\ trouble = MaxTrouble

Surprise == trouble > 0 /\ trouble' = trouble - 1
Smooth == UNCHANGED trouble
World == <<upstream, config>>
Table == <<rows, dates, etag>>
Artwork == <<art, artfile>>

Goto(pc) == poll' = [poll EXCEPT !.pc = pc]

-----------------------------------------------------------------------------
(* Storage::episodes: ORDER BY published_at DESC, provider_episode_id DESC *)
Before(i, j) ==
  \/ Newer(dates[i], dates[j])
  \/ dates[i] = dates[j] /\ i > j

NewestFirst(S) ==
  [k \in 1..Cardinality(S) |->
     CHOOSE i \in S : Cardinality({j \in S : Before(j, i)}) = k - 1]

Stored == {i \in Ids : Exists(rows[i])}
Cached == {i \in Ids : rows[i].st = "cached"}

bytes_of(i) == IF rows[i].sum = None THEN 0 ELSE Bytes[rows[i].sum]

Candidates(seq) == [n \in DOMAIN seq |->
                      [id |-> seq[n], bytes |-> bytes_of(seq[n])]]

-----------------------------------------------------------------------------
(* The listing. *)

(* 304: the stored rows, newest first and cut to fetch_last, are the       *)
(* window.                                                                 *)
ListNotModified ==
  /\ poll.pc = "idle"
  /\ etag = Served
  /\ poll' = [NoPoll EXCEPT !.pc = "plan", !.page = Served,
                !.window = take(limit, NewestFirst(Stored))]
  /\ Smooth /\ UNCHANGED <<World, Table, Artwork, quarantine>>

(* A page, with its etag or (a surprise) without one; entries that do not  *)
(* parse are quarantined one by one, or (a surprise) only noted.           *)
ListModified ==
  /\ poll.pc = "idle"
  /\ etag # Served
  /\ \/ /\ WriteAll(Served, Unreadable(Served)) /\ Smooth
        /\ poll' = [NoPoll EXCEPT !.pc = "show", !.page = Served,
                                  !.etag = Served]
     \/ /\ WriteAll(Served, Unreadable(Served)) /\ Surprise
        /\ poll' = [NoPoll EXCEPT !.pc = "show", !.page = Served]
     \/ /\ NoteAll(Served, Unreadable(Served)) /\ Surprise
        /\ poll' = [NoPoll EXCEPT !.pc = "show", !.page = Served,
                                  !.etag = Served]
  /\ UNCHANGED <<World, Table, Artwork>>

(* poll_failed: the listing or the show cannot be fetched, or its body     *)
(* does not parse and is quarantined whole.                                *)
PollFailed ==
  /\ poll.pc \in {"idle", "show"}
  /\ Surprise
  /\ \/ WriteAll(<<Bad>>, {1})
     \/ NoteAll(<<Bad>>, {1})
     \/ UNCHANGED quarantine
  /\ poll' = NoPoll
  /\ UNCHANGED <<World, Table, Artwork>>

-----------------------------------------------------------------------------
(* cache_artwork.  The file name is a hash of the source, so a source is   *)
(* its own file name.                                                      *)

(* provider.show, upsert_show; the artwork path is read and the source     *)
(* chosen: the override beats what upstream serves.                        *)
ShowMeta ==
  /\ poll.pc = "show"
  /\ poll' = [poll EXCEPT !.pc = "artwork", !.existing = art,
                !.source = IF config.artwork # None THEN config.artwork
                           ELSE into_meta(upstream.images)]
  /\ Smooth /\ UNCHANGED <<World, Table, Artwork, quarantine>>

(* The source is fetched or copied, unless there is none or its file is    *)
(* there; a failure (a surprise) is only logged.                           *)
FetchArtwork ==
  /\ poll.pc = "artwork"
  /\ IF \/ poll.source = None
        \/ poll.existing = poll.source /\ artfile[poll.source] = "present"
     THEN Goto("discover") /\ Smooth /\ UNCHANGED artfile
     ELSE \/ /\ artfile' = [artfile EXCEPT ![poll.source] = "present"]
             /\ Goto("artset") /\ Smooth
          \/ Goto("discover") /\ Surprise /\ UNCHANGED artfile
  /\ UNCHANGED <<World, Table, art, quarantine>>

(* set_artwork_path, or its failure. *)
SetArtworkPath ==
  /\ poll.pc = "artset"
  /\ \/ art' = poll.source /\ Goto("artdrop") /\ Smooth
     \/ Goto("discover") /\ Surprise /\ UNCHANGED art
  /\ UNCHANGED <<World, Table, artfile, quarantine>>

(* Mutant: the comparison with the new file forgotten. *)
DropOldArtwork_unfiltered ==
  /\ poll.pc = "artdrop"
  /\ Goto("discover") /\ Smooth
  /\ artfile' = [s \in Sources |-> IF s = poll.existing THEN "none"
                                   ELSE artfile[s]]
  /\ UNCHANGED <<World, Table, art, quarantine>>

(* The superseded file is removed; a failure is ignored. *)
DropOldArtwork ==
  /\ poll.pc = "artdrop"
  /\ Goto("discover")
  /\ \/ /\ Smooth
        /\ artfile' = [s \in Sources |->
                         IF s = poll.existing /\ s # poll.source
                         THEN "none" ELSE artfile[s]]
     \/ Surprise /\ UNCHANGED artfile
  /\ UNCHANGED <<World, Table, art, quarantine>>

-----------------------------------------------------------------------------
(* Discovery, plan, downloads, retention. *)

(* discover refreshes published_at of known rows too; of two entries of    *)
(* one episode the later one stays.                                        *)
Discover ==
  /\ poll.pc = "discover"
  /\ LET listed == episodes(poll.page)
         Entries(i) == {n \in DOMAIN listed : listed[n].slug = i}
         At(i) == CHOOSE n \in Entries(i) : \A m \in Entries(i) : m <= n
         Listed == ToSet(Slugs(listed))
     IN /\ rows' = [i \in Ids |-> IF i \in Listed THEN discover(rows[i])
                                  ELSE rows[i]]
        /\ dates' = [i \in Ids |-> IF i \in Listed THEN listed[At(i)].start_at
                                   ELSE dates[i]]
        /\ poll' = [poll EXCEPT !.pc = "etag", !.window = Slugs(listed)]
  /\ Smooth /\ UNCHANGED <<World, etag, Artwork, quarantine>>

(* set_episodes_etag, only once the page's episodes are stored. *)
SetEtag ==
  /\ poll.pc = "etag"
  /\ etag' = poll.etag
  /\ Goto("plan")
  /\ Smooth /\ UNCHANGED <<World, rows, dates, Artwork, quarantine>>

(* The candidates of the plan: the window with the sizes known so far. *)
Plan ==
  /\ poll.pc = "plan"
  /\ poll' = [poll EXCEPT !.pc = "download", !.cands = Candidates(poll.window)]
  /\ Smooth /\ UNCHANGED <<World, Table, Artwork, quarantine>>

(* Mutant: the whole window is fetched and left to the prune. *)
Wanted_window == ToSet(poll.window)

(* The episodes the policy would keep. *)
Wanted == ToSet(split(policy, poll.cands).kept)

(* The wanted episodes without a file are downloaded: one without an audio *)
(* link fails, the others succeed or (a surprise) fail.                    *)
Download ==
  /\ poll.pc = "download"
  /\ LET pending == {i \in Wanted :
                       rows[i].st \in {"discovered", "failed", "pruned"}}
     IN \E ok \in SUBSET (pending \cap Playable) :
          /\ IF ok = pending \cap Playable THEN Smooth ELSE Surprise
          /\ rows' = [i \in Ids |->
               IF i \in ok
               THEN mark_cached(mark_downloading(rows[i]), i, Audio[i])
               ELSE IF i \in pending THEN mark_failed(mark_downloading(rows[i]))
               ELSE rows[i]]
          /\ poll' = [poll EXCEPT !.pc = "retain", !.fetched = ok]
  /\ UNCHANGED <<World, dates, etag, Artwork, quarantine>>

Doomed == ToSet(plan(policy, Candidates(NewestFirst(Cached))))

(* apply_retention over every cached row; the poll is over. *)
ApplyRetention ==
  /\ poll.pc = "retain"
  /\ rows' = [i \in Ids |-> IF i \in Doomed THEN mark_pruned(rows[i])
                            ELSE rows[i]]
  /\ poll' = NoPoll
  /\ Smooth /\ UNCHANGED <<World, dates, etag, Artwork, quarantine>>

-----------------------------------------------------------------------------
(* The environment. *)

UpstreamChanges ==
  /\ Surprise
  /\ upstream' \in [page : Pages, images : {upstream.images}]
                   \cup [page : {upstream.page}, images : ImageSets]
  /\ upstream' # upstream
  /\ UNCHANGED <<config, Table, Artwork, quarantine, poll>>

(* A reload: the scheduler starts the next poll with the new settings. *)
Reload ==
  /\ poll.pc = "idle"
  /\ Surprise
  /\ config' \in Configs \ {config}
  /\ UNCHANGED <<upstream, Table, Artwork, quarantine, poll>>

(* The cached artwork is deleted behind the daemon's back. *)
LoseArtwork ==
  /\ Surprise
  /\ \E s \in Sources :
       /\ artfile[s] = "present"
       /\ artfile' = [artfile EXCEPT ![s] = "lost"]
  /\ UNCHANGED <<World, Table, art, quarantine, poll>>

(* The process is killed and started again. *)
Crash ==
  /\ poll.pc # "idle"
  /\ Surprise
  /\ poll' = NoPoll
  /\ UNCHANGED <<World, Table, Artwork, quarantine>>

Step ==
  \/ ListNotModified \/ ListModified \/ ShowMeta \/ FetchArtwork
  \/ SetArtworkPath \/ DropOldArtwork \/ Discover \/ SetEtag \/ Plan
  \/ Download \/ ApplyRetention

Next ==
  \/ Step \/ PollFailed \/ UpstreamChanges \/ Reload \/ LoseArtwork \/ Crash

(* The scheduler polls for ever. *)
Spec == Init /\ [][Next]_vars /\ WF_vars(Step)

-----------------------------------------------------------------------------
(* Every variable has its type: the tables hold only states, files and     *)
(* dates the code writes, and an etag is that of a page upstream answered. *)
TypeOK ==
  /\ upstream \in [page : Pages, images : ImageSets]
  /\ config \in Configs
  /\ rows \in [Ids -> Row]
  /\ dates \in [Ids -> Dates \cup {None}]
  /\ etag \in Answers \cup {None}
  /\ art \in Sources \cup {None}
  /\ artfile \in [Sources -> {"none", "present", "lost"}]
  /\ quarantine \in [Payloads -> {"none", "written", "noted"}]
  /\ poll \in Poll
  /\ trouble \in 0..MaxTrouble

-----------------------------------------------------------------------------
(* Properties. *)

(* Every policy with limits up to the instance's sizes. *)
Opt(S) == {{}} \cup {{x} : x \in S}
Policies == [keep_last : Opt(0..Cardinality(Ids)),
             max_bytes : Opt(0..(2 * Cardinality(Ids)))]

(* Over any window a poll plans on, the walk is the one greedy choice      *)
(* whatever the policy: an episode is kept exactly when fewer than         *)
(* keep_last newer ones are kept and, unless it would be the only one, the *)
(* kept bytes with it stay within max_bytes (retention.rs: "the stricter   *)
(* limit wins"); the rest is doomed, oldest first ("oldest-first, ready to *)
(* prune").                                                                *)
KeptIsGreedy ==
  poll.pc = "download" => \A p \in Policies : Greedy(p, poll.cands)

(* A poll prunes an episode it has just downloaded only for a reason the   *)
(* plan could not see (lib.rs: "an episode that would be pruned            *)
(* immediately is never fetched", "an optimistic fetch under max_gb is     *)
(* corrected"): under a byte cap a size was not known or a wanted download *)
(* failed; the provider's order of the window is not the database's        *)
(* (equal or missing dates); or a cached episode upstream no longer lists  *)
(* comes before one it lists.                                              *)
ChurnExplained ==
  (poll.pc = "retain" /\ poll.fetched \cap Doomed # {}) =>
    \/ /\ policy.max_bytes # {}
       /\ \/ \E n \in DOMAIN poll.cands :
               poll.cands[n].bytes # bytes_of(poll.cands[n].id)
          \/ ~(Wanted \subseteq Cached)
    \/ \E m, n \in DOMAIN poll.window :
         m < n /\ Before(poll.window[n], poll.window[m])
    \/ \E i \in Cached \ ToSet(poll.window) :
         \E j \in ToSet(poll.window) : Before(i, j)

(* An entry that does not parse costs no other entry, and is not dropped   *)
(* silently: when the etag of a page is stored, every readable entry of it *)
(* has its row, and if there are unreadable ones the quarantine or the log *)
(* tells of one (difm.rs: "one drifted episode quarantines that entry      *)
(* instead of the whole poll").  No later poll would see the page again.   *)
(* An upstream that sends more than the limit asked for would lose the     *)
(* rest to the cut in the provider: see Served.                            *)
EntriesAccounted ==
  etag # None =>
    /\ \A n \in DOMAIN etag : Readable(etag[n]) => Exists(rows[etag[n].slug])
    /\ Unreadable(etag) # {} =>
         \E n \in Unreadable(etag) : quarantine[etag[n]] # "none"

(* The daemon never removes the artwork file its feed names, wherever it   *)
(* is killed: the new file is in place before its path is recorded, and    *)
(* the path before the old file goes (lib.rs: "removed after a successful  *)
(* swap").  It can only be lost to somebody else.                          *)
ArtworkServable == art # None => artfile[art] # "none"

(* Once upstream, the configuration and the network stay as they are,      *)
(* polls stop downloading and pruning: what retention dooms is not fetched *)
(* again, whatever happened before (lib.rs: "corrected (and remembered)    *)
(* after one cycle at most").                                              *)
Settles == <>[](poll.fetched = {} /\ (poll.pc = "retain" => Doomed = {}))

(* A poll downloads only episodes of the listing it got or was told still  *)
(* holds (lib.rs: "Only episodes in the current (possibly                  *)
(* fetch_last-bounded) listing are considered at all: rows outside it stay *)
(* put, and a Failed episode upstream dropped can't retry forever").       *)
OnlyListedFetched ==
  poll.pc = "retain" => poll.fetched \subseteq ToSet(Slugs(poll.page))

=============================================================================
