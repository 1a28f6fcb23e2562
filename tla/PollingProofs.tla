--------------------------- MODULE PollingProofs ---------------------------
(***************************************************************************)
(* Theorems about Polling, for any episodes, pages, images, sources,       *)
(* configurations and number of surprises.                                 *)
(***************************************************************************)
EXTENDS Polling, RetentionProofs, TLAPS

-----------------------------------------------------------------------------
(* Sorting by rank. *)

\* before[x] is the set of the elements of S that come before x, in an order
\* in which any two elements come one before the other.
Ordered(S, before) ==
  /\ before \in [S -> SUBSET S]
  /\ \A x \in S : x \notin before[x]
  /\ \A x, y \in S : x = y \/ x \in before[y] \/ y \in before[x]
  /\ \A x, y \in S : x \in before[y] => before[x] \subseteq before[y]

\* s is S in that order.
Ranked(s, S, before) ==
  /\ s \in Seq(S) /\ Len(s) = Cardinality(S)
  /\ \A k \in 1..Len(s) : Cardinality(before[s[k]]) = k - 1
  /\ \A x \in S : \E k \in 1..Len(s) : s[k] = x
  /\ \A j, k \in 1..Len(s) : j < k => s[j] \in before[s[k]]

(* Every rank below the number of elements is taken, and by one element. *)
LEMMA Ranks ==
  ASSUME NEW S, IsFiniteSet(S), NEW before, Ordered(S, before)
  PROVE  /\ Cardinality(S) \in Nat
         /\ \A x \in S : Cardinality(before[x]) \in 0..(Cardinality(S) - 1)
         /\ \A x, y \in S : x \in before[y] =>
              Cardinality(before[x]) < Cardinality(before[y])
         /\ \A k \in 1..Cardinality(S) :
              \E x \in S : Cardinality(before[x]) = k - 1
<1> DEFINE n == Cardinality(S)
           rank == [x \in S |-> Cardinality(before[x])]
<1>1. n \in Nat
  BY FS_CardinalityType
<1>2. \A x \in S : before[x] \subseteq S /\ x \notin before[x]
  BY DEF Ordered
<1>3. ASSUME NEW x \in S
      PROVE  /\ IsFiniteSet(before[x]) /\ Cardinality(before[x]) \in Nat
             /\ Cardinality(before[x]) < n
  <2>1. before[x] \in SUBSET S /\ before[x] # S
    BY <1>2
  <2> QED
    BY <2>1, FS_Subset, FS_CardinalityType
<1>4. ASSUME NEW x \in S, NEW y \in S, x \in before[y]
      PROVE  Cardinality(before[x]) < Cardinality(before[y])
  <2>1. before[x] \in SUBSET before[y] /\ before[x] # before[y]
    BY <1>2, <1>4 DEF Ordered
  <2> QED
    BY <1>3, <2>1, FS_Subset, FS_CardinalityType
<1>5. rank \in Injection(S, 0..(n - 1))
  <2>1. rank \in [S -> 0..(n - 1)]
    BY <1>1, <1>3
  <2>2. ASSUME NEW x \in S, NEW y \in S, rank[x] = rank[y] PROVE x = y
    <3>1. Cardinality(before[x]) = Cardinality(before[y])
      BY <2>2
    <3>2. x \notin before[y] /\ y \notin before[x]
      BY <1>3, <1>4, <3>1
    <3> QED
      BY <3>2 DEF Ordered
  <2> HIDE DEF rank
  <2> QED
    BY <2>1, <2>2 DEF Injection, IsInjective
<1>6. IsFiniteSet(0..(n - 1)) /\ Cardinality(0..(n - 1)) = n
  BY <1>1, Intervals
<1>7. rank \in Surjection(S, 0..(n - 1))
  <2> HIDE DEF rank
  <2> QED
    BY <1>5, <1>6, FS_Injection DEF n
<1>8. \A k \in 1..n : \E x \in S : Cardinality(before[x]) = k - 1
  <2> SUFFICES ASSUME NEW k \in 1..n
               PROVE  \E x \in S : Cardinality(before[x]) = k - 1
    OBVIOUS
  <2>1. k - 1 \in 0..(n - 1)
    BY <1>1
  <2>2. PICK x \in S : rank[x] = k - 1
    <3> HIDE DEF rank
    <3> QED
      BY <1>7, <2>1 DEF Surjection
  <2> QED
    BY <2>2
<1> QED
  BY <1>1, <1>3, <1>4, <1>8

(* Choosing the element of each rank lists the set in order. *)
LEMMA RankedLists ==
  ASSUME NEW S, IsFiniteSet(S), NEW before, Ordered(S, before), NEW s,
         s = [k \in 1..Cardinality(S) |-> s[k]],
         \A k \in 1..Cardinality(S) :
           (\E x \in S : Cardinality(before[x]) = k - 1) =>
              s[k] \in S /\ Cardinality(before[s[k]]) = k - 1
  PROVE  Ranked(s, S, before)
<1> DEFINE n == Cardinality(S)
<1>1. /\ n \in Nat
      /\ \A x \in S : Cardinality(before[x]) \in 0..(n - 1)
      /\ \A x, y \in S : x \in before[y] =>
              Cardinality(before[x]) < Cardinality(before[y])
      /\ \A k \in 1..n : \E x \in S : Cardinality(before[x]) = k - 1
  BY Ranks
<1>2. ASSUME NEW k \in 1..n
      PROVE  s[k] \in S /\ Cardinality(before[s[k]]) = k - 1
  BY <1>1
<1>3. s \in Seq(S) /\ Len(s) = n
  BY <1>1, <1>2
<1>4. ASSUME NEW j \in 1..n, NEW k \in 1..n, j < k PROVE s[j] \in before[s[k]]
  <2>1. s[j] \in S /\ s[k] \in S
    BY <1>2
  <2>2. Cardinality(before[s[j]]) = j - 1 /\ Cardinality(before[s[k]]) = k - 1
    BY <1>2
  <2>3. s[j] # s[k]
    BY <1>4, <2>2
  <2>4. s[k] \notin before[s[j]]
    BY <1>1, <1>4, <2>1, <2>2
  <2> QED
    BY <2>1, <2>3, <2>4 DEF Ordered
<1>5. ASSUME NEW x \in S PROVE \E k \in 1..n : s[k] = x
  <2>1. Cardinality(before[x]) + 1 \in 1..n
    BY <1>1
  <2>2. PICK k \in 1..n : k = Cardinality(before[x]) + 1
    BY <2>1
  <2>3. s[k] \in S /\ Cardinality(before[s[k]]) = Cardinality(before[x])
    BY <1>1, <1>2, <2>2
  <2>4. x \notin before[s[k]] /\ s[k] \notin before[x]
    BY <1>1, <2>3
  <2>5. s[k] = x
    BY <2>3, <2>4 DEF Ordered
  <2> QED
    BY <2>5
<1> QED
  BY <1>2, <1>3, <1>4, <1>5 DEF Ranked

-----------------------------------------------------------------------------
(* The operators of the model. *)

LEMMA NewerOrder ==
  /\ \A d \in Nat \cup {None} : ~Newer(d, d)
  /\ \A d, e \in Nat \cup {None} : d = e \/ Newer(d, e) \/ Newer(e, d)
  /\ \A d, e \in Nat \cup {None} : Newer(d, e) => ~Newer(e, d)
  /\ \A d, e, f \in Nat \cup {None} : Newer(d, e) /\ Newer(e, f) => Newer(d, f)
  BY DEF Newer

(* The database's order of any set of episodes (Storage::episodes). *)
LEMMA NewestFirstRanked ==
  ASSUME TypeOK, NEW S, S \subseteq Ids
  PROVE  /\ IsFiniteSet(S)
         /\ Ranked(NewestFirst(S), S, [i \in S |-> {j \in S : Before(j, i)}])
<1> DEFINE before == [i \in S |-> {j \in S : Before(j, i)}]
<1>1. IsFiniteSet(S)
  BY PollingAssumption, FS_Subset
<1>2. \A i \in S : i \in Nat /\ dates[i] \in Nat \cup {None}
  BY PollingAssumption DEF TypeOK
<1>3. \A i \in S : ~Before(i, i)
  BY <1>2 DEF Before, Newer
<1>4. \A i, j \in S : i = j \/ Before(i, j) \/ Before(j, i)
  BY <1>2 DEF Before, Newer
<1>5. \A i, j, k \in S : Before(i, j) /\ Before(j, k) => Before(i, k)
  BY <1>2 DEF Before, Newer
<1>6. Ordered(S, before)
  BY <1>3, <1>4, <1>5 DEF Ordered
<1>7. ASSUME NEW k \in 1..Cardinality(S),
             \E i \in S : Cardinality(before[i]) = k - 1
      PROVE  /\ NewestFirst(S)[k] \in S
             /\ Cardinality(before[NewestFirst(S)[k]]) = k - 1
  <2> DEFINE first == CHOOSE i \in S : Cardinality({j \in S : Before(j, i)}) = k - 1
  <2>1. \E i \in S : Cardinality({j \in S : Before(j, i)}) = k - 1
    BY <1>7
  <2>2. first \in S /\ Cardinality({j \in S : Before(j, first)}) = k - 1
    BY <2>1
  <2>3. NewestFirst(S)[k] = first
    BY DEF NewestFirst
  <2> HIDE DEF first
  <2> QED
    BY <2>2, <2>3
<1>8. NewestFirst(S) = [k \in 1..Cardinality(S) |-> NewestFirst(S)[k]]
  <2> DEFINE Nth(k) == CHOOSE i \in S :
                         Cardinality({j \in S : Before(j, i)}) = k - 1
  <2>1. NewestFirst(S) = [k \in 1..Cardinality(S) |-> Nth(k)]
    BY DEF NewestFirst
  <2> HIDE DEF Nth
  <2> QED
    BY <2>1
<1> HIDE DEF before
<1>9. Ranked(NewestFirst(S), S, before)
  BY <1>1, <1>6, <1>7, <1>8, RankedLists
<1> QED
  BY <1>1, <1>9 DEF before

(* The provider's order of the entries at some places of a page, the ones  *)
(* that parse (DifmProvider::episodes).                                    *)
LEMMA SortedRanked ==
  ASSUME NEW page \in Seq(Entry), NEW places, places \subseteq DOMAIN page,
         \A n \in places : Readable(page[n])
  PROVE  /\ IsFiniteSet(places) /\ Cardinality(places) <= Len(page)
         /\ Ranked(Sorted(page, places), places,
                   [n \in places |-> {m \in places : Earlier(page, m, n)}])
<1> DEFINE before == [n \in places |-> {m \in places : Earlier(page, m, n)}]
<1>1. IsFiniteSet(places) /\ Cardinality(places) <= Len(page)
  <2>1. DOMAIN page = 1..Len(page) /\ Len(page) \in Nat
    OBVIOUS
  <2>2. IsFiniteSet(1..Len(page)) /\ Cardinality(1..Len(page)) = Len(page)
    BY <2>1, Intervals
  <2> QED
    BY <2>1, <2>2, FS_Subset
<1>2. \A n \in places : n \in Nat /\ page[n].start_at \in Nat \cup {None}
  <2> SUFFICES ASSUME NEW n \in places
               PROVE  n \in Nat /\ page[n].start_at \in Nat \cup {None}
    OBVIOUS
  <2>1. n \in Nat /\ page[n] \in Entry
    OBVIOUS
  <2>2. page[n].start_at \in Dates \cup {None}
    BY <2>1 DEF Entry, Readable
  <2> QED
    BY <2>1, <2>2, PollingAssumption
<1>3. \A n \in places : ~Earlier(page, n, n)
  BY <1>2 DEF Earlier, Newer
<1>4. \A m, n \in places : m = n \/ Earlier(page, m, n) \/ Earlier(page, n, m)
  BY <1>2 DEF Earlier, Newer
<1>5. ASSUME NEW l \in places, NEW m \in places, NEW n \in places,
             Earlier(page, l, m), Earlier(page, m, n)
      PROVE  Earlier(page, l, n)
  <2> DEFINE a == page[l].start_at
             b == page[m].start_at
             c == page[n].start_at
  <2>1. a \in Nat \cup {None} /\ b \in Nat \cup {None} /\ c \in Nat \cup {None}
    BY <1>2
  <2>2. l \in Nat /\ m \in Nat /\ n \in Nat
    BY <1>2
  <2>3. Newer(a, b) \/ (~Newer(b, a) /\ l < m)
    BY <1>5 DEF Earlier
  <2>4. Newer(b, c) \/ (~Newer(c, b) /\ m < n)
    BY <1>5 DEF Earlier
  <2>5. Newer(a, c) \/ (~Newer(c, a) /\ l < n)
    <3> HIDE DEF a, b, c
    <3> QED
      BY <2>1, <2>2, <2>3, <2>4, NewerOrder
  <2> QED
    BY <2>5 DEF Earlier
<1>6. Ordered(places, before)
  BY <1>3, <1>4, <1>5 DEF Ordered
<1>7. ASSUME NEW k \in 1..Cardinality(places),
             \E n \in places : Cardinality(before[n]) = k - 1
      PROVE  /\ Sorted(page, places)[k] \in places
             /\ Cardinality(before[Sorted(page, places)[k]]) = k - 1
  <2> DEFINE first == CHOOSE n \in places :
                        Cardinality({m \in places : Earlier(page, m, n)}) = k - 1
  <2>1. \E n \in places :
          Cardinality({m \in places : Earlier(page, m, n)}) = k - 1
    BY <1>7
  <2>2. first \in places
        /\ Cardinality({m \in places : Earlier(page, m, first)}) = k - 1
    BY <2>1
  <2>3. Sorted(page, places)[k] = first
    BY DEF Sorted
  <2> HIDE DEF first
  <2> QED
    BY <2>2, <2>3
<1>8. Sorted(page, places)
        = [k \in 1..Cardinality(places) |-> Sorted(page, places)[k]]
  <2> DEFINE Nth(k) == CHOOSE n \in places :
                         Cardinality({m \in places : Earlier(page, m, n)}) = k - 1
  <2>1. Sorted(page, places) = [k \in 1..Cardinality(places) |-> Nth(k)]
    BY DEF Sorted
  <2> HIDE DEF Nth
  <2> QED
    BY <2>1
<1> HIDE DEF before
<1>9. Ranked(Sorted(page, places), places, before)
  BY <1>1, <1>6, <1>7, <1>8, RankedLists
<1> QED
  BY <1>1, <1>9 DEF before

\* t is the prefix of seq that the limit max leaves.
Cut(t, max, seq) ==
  /\ \E n \in 0..Len(seq) : t = SubSeq(seq, 1, n)
  /\ Len(t) \in 0..Len(seq)
  /\ \A n \in 1..Len(t) : t[n] = seq[n]
  /\ (\A n \in max : Len(seq) <= n) => t = seq
  /\ (\A m, n \in max : m = n) => \A n \in max : Len(t) <= n

LEMMA TakeFacts ==
  ASSUME NEW A, NEW max, max \subseteq Nat, NEW seq \in Seq(A)
  PROVE  take(max, seq) \in Seq(A) /\ Cut(take(max, seq), max, seq)
<1>1. Len(seq) \in Nat
  OBVIOUS
<1>2. CASE \E n \in max : n < Len(seq)
  <2>1. PICK n \in max : n < Len(seq) /\ take(max, seq) = SubSeq(seq, 1, n)
    BY <1>2 DEF take
  <2>2. n \in Nat /\ n \in 0..Len(seq)
    BY <1>1, <2>1
  <2>3. /\ SubSeq(seq, 1, n) \in Seq(A) /\ Len(SubSeq(seq, 1, n)) = n
        /\ \A k \in 1..n : SubSeq(seq, 1, n)[k] = seq[k]
    BY <1>1, <2>1, <2>2
  <2> QED
    BY <1>1, <2>1, <2>2, <2>3 DEF Cut
<1>3. CASE ~ \E n \in max : n < Len(seq)
  <2>1. take(max, seq) = seq
    BY <1>3 DEF take
  <2>2. SubSeq(seq, 1, Len(seq)) = seq
    OBVIOUS
  <2>3. \A n \in max : Len(seq) <= n
    BY <1>1, <1>3
  <2>4. take(max, seq) \in Seq(A) /\ Len(take(max, seq)) \in 0..Len(seq)
    BY <1>1, <2>1
  <2>5. take(max, seq) = SubSeq(seq, 1, Len(seq)) /\ Len(seq) \in 0..Len(seq)
    BY <1>1, <2>1, <2>2
  <2> QED
    BY <2>1, <2>3, <2>4, <2>5 DEF Cut
<1> QED
  BY <1>2, <1>3

(* The settings a poll reads. *)
LEMMA ConfigFacts ==
  ASSUME config \in Configs
  PROVE  /\ limit \subseteq Nat /\ \A m, n \in limit : m = n
         /\ IsPolicy(policy)
<1>1. /\ config.fetch_last \subseteq Nat /\ config.global_fetch_last \subseteq Nat
      /\ \A m, n \in config.fetch_last : m = n
      /\ \A m, n \in config.global_fetch_last : m = n
      /\ config.retention \subseteq Limits /\ config.global_retention \in Limits
  BY PollingAssumption DEF Config
<1>2. limit \subseteq Nat /\ \A m, n \in limit : m = n
  BY <1>1 DEF limit, Or
<1>3. CASE config.retention = {}
  BY <1>1, <1>2, <1>3 DEF policy, effective, IsPolicy, Limits
<1>4. CASE config.retention # {}
  <2> DEFINE own == CHOOSE o \in config.retention : TRUE
  <2>1. own \in Limits
    BY <1>1, <1>4
  <2>2. policy = layered_over(own, config.global_retention)
    BY <1>4 DEF policy, effective
  <2> HIDE DEF own
  <2> QED
    BY <1>1, <1>2, <2>1, <2>2 DEF layered_over, Or, IsPolicy, Limits
<1> QED
  BY <1>2, <1>3, <1>4

(* An answer is a sequence of entries. *)
LEMMA AnswerType ==
  ASSUME NEW a \in Answers
  PROVE  /\ a \in Seq(Entry)
         /\ \A n \in Unreadable(a) : a[n] \in Payloads
<1>0. PICK page \in Pages : \E n \in 0..Len(page) : a = SubSeq(page, 1, n)
  BY DEF Answers
<1>1. PICK m \in 0..Len(page) : a = SubSeq(page, 1, m)
  BY <1>0
<1>2. page \in Seq(Entry) /\ Len(page) \in Nat
  BY PollingAssumption
<1>3. a \in Seq(Entry) /\ Len(a) = m /\ \A n \in 1..m : a[n] = page[n]
  BY <1>1, <1>2
<1>4. ASSUME NEW n \in Unreadable(a) PROVE a[n] \in Payloads
  <2>1. n \in 1..m /\ ~Readable(a[n])
    BY <1>3 DEF Unreadable
  <2>2. n \in DOMAIN page /\ a[n] = page[n]
    BY <1>2, <1>3, <2>1
  <2>3. n \in Unreadable(page)
    BY <2>1, <2>2 DEF Unreadable
  <2> QED
    BY <2>2, <2>3 DEF Payloads
<1> QED
  BY <1>3, <1>4

(* What upstream answers is cut to fetch_last. *)
LEMMA ServedFacts ==
  ASSUME TypeOK
  PROVE  Served \in Answers /\ \A n \in limit : Len(Served) <= n
<1> DEFINE max == Or(limit, {PerPage})
<1>1. limit \subseteq Nat /\ \A m, n \in limit : m = n
  BY ConfigFacts DEF TypeOK
<1>2. max \subseteq Nat /\ (\A m, n \in max : m = n) /\ limit \subseteq max
  BY <1>1, PollingAssumption DEF Or
<1>3. upstream.page \in Pages /\ upstream.page \in Seq(Entry)
  BY PollingAssumption DEF TypeOK
<1>4. Served = take(max, upstream.page)
  BY DEF Served
<1> HIDE DEF max
<1>5. /\ \E n \in 0..Len(upstream.page) : Served = SubSeq(upstream.page, 1, n)
      /\ \A n \in max : Len(Served) <= n
  <2>1. Cut(Served, max, upstream.page)
    BY <1>2, <1>3, <1>4, TakeFacts
  <2> QED
    BY <1>2, <2>1 DEF Cut
<1>6. Served \in Answers
  BY <1>3, <1>5 DEF Answers
<1> QED
  BY <1>2, <1>5, <1>6

(* The listing holds readable entries of the page, no place of it twice,   *)
(* and all of them when the page is not longer than fetch_last.            *)
LEMMA EpisodesFacts ==
  ASSUME config \in Configs, NEW page \in Seq(Entry)
  PROVE  /\ episodes(page) \in Seq(Entry)
         /\ \E at \in [DOMAIN episodes(page) -> DOMAIN page \ Unreadable(page)] :
              /\ \A k \in DOMAIN episodes(page) : episodes(page)[k] = page[at[k]]
              /\ \A j, k \in DOMAIN episodes(page) : at[j] = at[k] => j = k
         /\ (\A n \in limit : Len(page) <= n) =>
              \A n \in DOMAIN page \ Unreadable(page) :
                \E k \in DOMAIN episodes(page) : episodes(page)[k] = page[n]
<1> DEFINE places == DOMAIN page \ Unreadable(page)
           order == Sorted(page, places)
           all == [k \in DOMAIN order |-> page[order[k]]]
<1>1. places \subseteq DOMAIN page /\ \A n \in places : Readable(page[n])
  BY DEF Unreadable
<1>2. /\ Cardinality(places) \in Nat /\ Cardinality(places) <= Len(page)
      /\ order \in Seq(places) /\ Len(order) = Cardinality(places)
      /\ \A n \in places : \E k \in 1..Len(order) : order[k] = n
      /\ \A j, k \in 1..Len(order) : order[j] = order[k] => j = k
  <2> HIDE DEF places
  <2>1. IsFiniteSet(places) /\ Cardinality(places) <= Len(page)
        /\ Ranked(order, places, [n \in places |-> {m \in places : Earlier(page, m, n)}])
    BY <1>1, SortedRanked
  <2>2. Cardinality(places) \in Nat
    BY <2>1, FS_CardinalityType
  <2> DEFINE before == [n \in places |-> {m \in places : Earlier(page, m, n)}]
  <2>3. \A k \in 1..Len(order) : Cardinality(before[order[k]]) = k - 1
    BY <2>1 DEF Ranked
  <2> HIDE DEF before, order
  <2>4. \A j, k \in 1..Len(order) : order[j] = order[k] => j = k
    <3> SUFFICES ASSUME NEW j \in 1..Len(order), NEW k \in 1..Len(order),
                        order[j] = order[k]
                 PROVE  j = k
      OBVIOUS
    <3>1. j - 1 = k - 1 /\ j \in Int /\ k \in Int
      BY <2>3
    <3> QED
      BY <3>1
  <2> QED
    BY <2>1, <2>2, <2>4 DEF Ranked
<1>3. episodes(page) = take(limit, all)
  BY DEF episodes
<1> HIDE DEF places, order
<1>4. DOMAIN order = 1..Len(order) /\ Len(order) \in Nat
  BY <1>2
<1>5. /\ all \in Seq(Entry) /\ Len(all) = Len(order)
      /\ \A k \in 1..Len(order) :
           order[k] \in places /\ all[k] = page[order[k]]
  <2>1. \A k \in 1..Len(order) : order[k] \in places /\ page[order[k]] \in Entry
    BY <1>1, <1>2
  <2> QED
    BY <1>4, <2>1
<1> HIDE DEF all
<1>6. limit \subseteq Nat
  BY ConfigFacts
<1>7. /\ episodes(page) \in Seq(Entry) /\ Len(episodes(page)) \in 0..Len(all)
      /\ \A k \in 1..Len(episodes(page)) : episodes(page)[k] = all[k]
      /\ (\A n \in limit : Len(all) <= n) => episodes(page) = all
  <2>1. episodes(page) \in Seq(Entry) /\ Cut(episodes(page), limit, all)
    BY <1>3, <1>5, <1>6, TakeFacts
  <2> QED
    BY <2>1 DEF Cut
<1>8. DOMAIN episodes(page) = 1..Len(episodes(page))
  BY <1>7
<1>9. \E at \in [DOMAIN episodes(page) -> places] :
         /\ \A k \in DOMAIN episodes(page) : episodes(page)[k] = page[at[k]]
         /\ \A j, k \in DOMAIN episodes(page) : at[j] = at[k] => j = k
  <2> DEFINE at == [k \in DOMAIN episodes(page) |-> order[k]]
  <2>1. \A k \in DOMAIN episodes(page) : k \in 1..Len(order)
    BY <1>4, <1>5, <1>7, <1>8
  <2>2. at \in [DOMAIN episodes(page) -> places]
    BY <1>5, <2>1
  <2>3. \A k \in DOMAIN episodes(page) : episodes(page)[k] = page[at[k]]
    BY <1>5, <1>7, <1>8, <2>1
  <2>4. \A j, k \in DOMAIN episodes(page) : at[j] = at[k] => j = k
    BY <1>2, <2>1
  <2> HIDE DEF at
  <2> QED
    BY <2>2, <2>3, <2>4
<1>10. ASSUME \A n \in limit : Len(page) <= n, NEW n \in places
       PROVE  \E k \in DOMAIN episodes(page) : episodes(page)[k] = page[n]
  <2>1. \A m \in limit : Len(all) <= m
    BY <1>2, <1>5, <1>6, <1>10
  <2>2. episodes(page) = all
    BY <1>7, <2>1
  <2>3. PICK k \in 1..Len(order) : order[k] = n
    BY <1>2
  <2> QED
    BY <1>5, <1>8, <2>2, <2>3
<1> QED
  BY <1>7, <1>9, <1>10 DEF places

-----------------------------------------------------------------------------
(* Types. *)

(* The statements on a row leave a row, and none removes it. *)
LEMMA RowOps ==
  /\ \A r \in Row : /\ discover(r) \in Row
                    /\ mark_failed(mark_downloading(r)) \in Row
                    /\ mark_pruned(r) \in Row
  /\ \A r, i, c : i \in Ids /\ c \in Contents => mark_cached(r, i, c) \in Row
  /\ \A r \in Row : /\ Exists(discover(r))
                    /\ Exists(mark_failed(mark_downloading(r)))
                    /\ Exists(mark_pruned(r))
  /\ \A r, i, c : Exists(mark_cached(r, i, c))
<1>1. \A r \in Row : discover(r) \in Row /\ Exists(discover(r))
  BY DEF Row, NoRow, Exists, EpisodeStates, Ages, discover
<1>2. \A r \in Row : /\ mark_failed(mark_downloading(r)) \in Row
                     /\ Exists(mark_failed(mark_downloading(r)))
  BY DEF Row, Exists, EpisodeStates, Ages, mark_failed, mark_downloading
<1>3. \A r \in Row : mark_pruned(r) \in Row /\ Exists(mark_pruned(r))
  BY DEF Row, Exists, EpisodeStates, mark_pruned
<1>4. \A r, i, c : i \in Ids /\ c \in Contents => mark_cached(r, i, c) \in Row
  BY PollingAssumption DEF Row, EpisodeStates, Ages, mark_cached
<1>5. \A r, i, c : Exists(mark_cached(r, i, c))
  BY DEF Exists, mark_cached
<1> QED
  BY <1>1, <1>2, <1>3, <1>4, <1>5

(* Quarantine::write and write_or_note: nothing quarantined or noted is    *)
(* forgotten, and if there is anything to write, some of it is.            *)
LEMMA QuarantineStep ==
  ASSUME NEW seq, NEW places, WriteAll(seq, places) \/ NoteAll(seq, places),
         quarantine \in [Payloads -> {"none", "written", "noted"}]
  PROVE  /\ quarantine' \in [Payloads -> {"none", "written", "noted"}]
         /\ \A p \in Payloads : quarantine[p] # "none" => quarantine'[p] # "none"
  BY DEF WriteAll, NoteAll

\* Of some places of a list there is a last one.
LEMMA LastExists ==
  ASSUME NEW len \in Nat, NEW places \in SUBSET (1..len), places # {}
  PROVE  \E n \in places : \A m \in places : m <= n
<1> DEFINE T == {len - m : m \in places}
<1>1. T \subseteq Nat /\ T # {}
  <2>1. \A m \in places : m \in 1..len /\ len - m \in Nat
    OBVIOUS
  <2> QED
    BY <2>1
<1>2. PICK t \in T : \A u \in T : t <= u
  <2> HIDE DEF T
  <2> QED
    BY <1>1, LeastExists
<1>3. PICK n \in places : t = len - n
  OBVIOUS
<1>4. \A m \in places : len - n <= len - m
  BY <1>2, <1>3
<1> QED
  BY <1>4

LEMMA QuarantineTells ==
  ASSUME NEW a \in Answers, Unreadable(a) # {},
         WriteAll(a, Unreadable(a)) \/ NoteAll(a, Unreadable(a))
  PROVE  \E n \in Unreadable(a) : quarantine'[a[n]] # "none"
<1> DEFINE places == Unreadable(a)
<1>1. a \in Seq(Entry) /\ \A n \in places : a[n] \in Payloads
  BY AnswerType
<1>2. places \subseteq 1..Len(a) /\ Len(a) \in Nat
  BY <1>1 DEF Unreadable
<1> HIDE DEF places
<1>3. PICK n \in places : \A m \in places : m <= n
  BY <1>2, LastExists DEF places
<1>4. a[n] \in Payloads
  BY <1>1
<1>5. CASE WriteAll(a, places)
  <2>1. PICK kept : /\ a[n] \in kept
                    /\ quarantine' = [p \in Payloads |->
                         IF p \in kept THEN "written" ELSE quarantine[p]]
    BY <1>3, <1>5 DEF WriteAll
  <2> QED
    BY <1>4, <2>1 DEF places
<1>6. CASE NoteAll(a, places)
  <2>1. a[n] \in {a[m] : m \in places}
    OBVIOUS
  <2>2. quarantine'[a[n]] # "none"
    BY <1>4, <1>6, <2>1 DEF NoteAll
  <2> QED
    BY <2>2 DEF places
<1> QED
  BY <1>5, <1>6 DEF places

(* The slugs of a listing are episodes, its dates are dates. *)
LEMMA ListingType ==
  ASSUME config \in Configs, NEW page \in Seq(Entry)
  PROVE  /\ Slugs(episodes(page)) \in Seq(Ids)
         /\ \A k \in DOMAIN episodes(page) :
              /\ episodes(page)[k].slug \in Ids
              /\ episodes(page)[k].start_at \in Dates \cup {None}
<1> DEFINE list == episodes(page)
<1>1. list \in Seq(Entry) /\ \A k \in DOMAIN list :
        list[k] \in Entry /\ Readable(list[k])
  <2>1. PICK at \in [DOMAIN list -> DOMAIN page \ Unreadable(page)] :
          \A k \in DOMAIN list : list[k] = page[at[k]]
    BY EpisodesFacts
  <2>2. list \in Seq(Entry)
    BY EpisodesFacts
  <2> HIDE DEF list
  <2> QED
    BY <2>1, <2>2 DEF Unreadable
<1> HIDE DEF list
<1>2. \A k \in DOMAIN list : /\ list[k].slug \in Ids
                             /\ list[k].start_at \in Dates \cup {None}
  BY <1>1 DEF Entry, Readable
<1>3. Slugs(list) \in Seq(Ids)
  BY <1>1, <1>2 DEF Slugs
<1> QED
  BY <1>2, <1>3 DEF list

(* The window of a 304. *)
LEMMA StoredWindow ==
  ASSUME TypeOK
  PROVE  take(limit, NewestFirst(Stored)) \in Seq(Ids)
<1>1. Stored \subseteq Ids
  BY DEF Stored
<1>2. NewestFirst(Stored) \in Seq(Stored)
  BY <1>1, NewestFirstRanked DEF Ranked
<1>3. limit \subseteq Nat
  BY ConfigFacts DEF TypeOK
<1> HIDE DEF TypeOK
<1>4. take(limit, NewestFirst(Stored)) \in Seq(Stored)
  BY <1>2, <1>3, TakeFacts
<1> QED
  BY <1>1, <1>4

(* The candidates of a window. *)
LEMMA CandidatesType ==
  ASSUME TypeOK, NEW window \in Seq(Ids)
  PROVE  /\ Candidates(window) \in Seq(Candidate(Ids))
         /\ Len(Candidates(window)) = Len(window)
         /\ \A n \in 1..Len(window) :
              Candidates(window)[n] = [id |-> window[n], bytes |-> bytes_of(window[n])]
<1>1. \A i \in Ids : bytes_of(i) \in Nat
  BY PollingAssumption DEF TypeOK, bytes_of, Row
<1>2. \A n \in 1..Len(window) :
        [id |-> window[n], bytes |-> bytes_of(window[n])] \in Candidate(Ids)
  BY <1>1 DEF Candidate
<1> QED
  BY <1>2 DEF Candidates

LEMMA NoPollType == NoPoll \in Poll
<1>1. /\ "idle" \in PCs /\ <<>> \in Answers \cup {<<>>}
      /\ None \in Answers \cup {None} /\ None \in Sources \cup {None}
      /\ <<>> \in Seq(Ids) /\ <<>> \in Seq(Candidate(Ids)) /\ {} \in SUBSET Ids
  BY DEF PCs
<1> QED
  BY <1>1 DEF NoPoll, Poll

LEMMA TypeInit == Init => TypeOK
<1> SUFFICES ASSUME Init PROVE TypeOK
  OBVIOUS
<1>1. rows \in [Ids -> Row]
  BY DEF Init, NoRow, Row, EpisodeStates, Ages
<1>2. trouble \in 0..MaxTrouble
  BY PollingAssumption DEF Init
<1> QED
  BY <1>1, <1>2, NoPollType DEF Init, TypeOK

(* A surprise leaves one less. *)
LEMMA TroubleType ==
  ASSUME trouble \in 0..MaxTrouble, Surprise \/ Smooth
  PROVE  trouble' \in 0..MaxTrouble
  BY PollingAssumption DEF Surprise, Smooth

(* Steps that change neither the world nor the table. *)
LEMMA TypeFrame ==
  ASSUME TypeOK, UNCHANGED <<World, Table>>, Surprise \/ Smooth,
         art' \in Sources \cup {None},
         artfile' \in [Sources -> {"none", "present", "lost"}],
         quarantine' \in [Payloads -> {"none", "written", "noted"}],
         poll' \in Poll
  PROVE  TypeOK'
<1>1. trouble' \in 0..MaxTrouble
  BY TroubleType DEF TypeOK
<1> QED
  BY <1>1 DEF TypeOK, World, Table

LEMMA TypeListing ==
  ASSUME TypeOK, ListNotModified \/ ListModified \/ PollFailed
  PROVE  TypeOK'
<1>1. Served \in Answers
  BY ServedFacts
<1>2. CASE ListNotModified
  <2>1. poll' \in Poll
    <3> DEFINE window == take(limit, NewestFirst(Stored))
    <3>1. window \in Seq(Ids)
      BY StoredWindow
    <3>2. poll' = [NoPoll EXCEPT !.pc = "plan", !.page = Served, !.window = window]
      BY <1>2 DEF ListNotModified
    <3> HIDE DEF window
    <3> QED
      BY <1>1, <3>1, <3>2, NoPollType DEF Poll, PCs
  <2>2. Smooth /\ UNCHANGED <<World, Table, Artwork, quarantine>>
    BY <1>2 DEF ListNotModified
  <2> QED
    BY <2>1, <2>2, TypeFrame DEF TypeOK, Artwork
<1>3. CASE ListModified
  <2>1. /\ UNCHANGED <<World, Table, Artwork>> /\ (Surprise \/ Smooth)
        /\ \/ WriteAll(Served, Unreadable(Served))
           \/ NoteAll(Served, Unreadable(Served))
        /\ \/ poll' = [NoPoll EXCEPT !.pc = "show", !.page = Served,
                                     !.etag = Served]
           \/ poll' = [NoPoll EXCEPT !.pc = "show", !.page = Served]
    BY <1>3 DEF ListModified
  <2>2. poll' \in Poll
    <3>1. CASE poll' = [NoPoll EXCEPT !.pc = "show", !.page = Served,
                                      !.etag = Served]
      BY <1>1, <3>1, NoPollType DEF Poll, PCs
    <3>2. CASE poll' = [NoPoll EXCEPT !.pc = "show", !.page = Served]
      BY <1>1, <3>2, NoPollType DEF Poll, PCs
    <3> QED
      BY <2>1, <3>1, <3>2
  <2>3. quarantine' \in [Payloads -> {"none", "written", "noted"}]
    BY <2>1, QuarantineStep DEF TypeOK
  <2> QED
    BY <2>1, <2>2, <2>3, TypeFrame DEF TypeOK, Artwork
<1>4. CASE PollFailed
  <2>1. /\ UNCHANGED <<World, Table, Artwork>> /\ Surprise
        /\ \/ WriteAll(<<Bad>>, {1}) \/ NoteAll(<<Bad>>, {1})
           \/ UNCHANGED quarantine
        /\ poll' = NoPoll
    BY <1>4 DEF PollFailed
  <2>2. poll' \in Poll
    BY <2>1, NoPollType
  <2>3. quarantine' \in [Payloads -> {"none", "written", "noted"}]
    BY <2>1, QuarantineStep DEF TypeOK
  <2> QED
    BY <2>1, <2>2, <2>3, TypeFrame DEF TypeOK, Artwork
<1> QED
  BY <1>2, <1>3, <1>4

(* A poll that moves on. *)
LEMMA GotoType ==
  ASSUME poll \in Poll, NEW pc \in PCs, Goto(pc)
  PROVE  poll' \in Poll
  BY DEF Goto, Poll

LEMMA TypeArtwork ==
  ASSUME TypeOK,
         ShowMeta \/ FetchArtwork \/ SetArtworkPath \/ DropOldArtwork
  PROVE  TypeOK'
<1>0. /\ poll \in Poll /\ art \in Sources \cup {None}
      /\ artfile \in [Sources -> {"none", "present", "lost"}]
      /\ quarantine \in [Payloads -> {"none", "written", "noted"}]
      /\ poll.source \in Sources \cup {None}
  BY DEF TypeOK, Poll
<1>1. CASE ShowMeta
  <2>1. config.artwork \in Sources \cup {None}
    BY PollingAssumption DEF TypeOK, Config
  <2>2. PICK source \in Sources \cup {None} :
          poll' = [poll EXCEPT !.pc = "artwork", !.existing = art,
                               !.source = source]
    BY <1>1, <2>1 DEF ShowMeta, into_meta
  <2>3. poll' \in Poll
    BY <1>0, <2>2 DEF Poll, PCs
  <2>4. Smooth /\ UNCHANGED <<World, Table, Artwork, quarantine>>
    BY <1>1 DEF ShowMeta
  <2> QED
    BY <1>0, <2>3, <2>4, TypeFrame DEF Artwork
<1>2. CASE FetchArtwork
  <2>1. /\ UNCHANGED <<World, Table, art, quarantine>>
        /\ Goto("discover") \/ Goto("artset")
        /\ \/ artfile' = artfile
           \/ artfile' = [artfile EXCEPT ![poll.source] = "present"]
    BY <1>2 DEF FetchArtwork
  <2>2. Smooth \/ Surprise
    BY <1>2 DEF FetchArtwork
  <2>3. poll' \in Poll
    BY <1>0, <2>1, GotoType DEF PCs
  <2>4. artfile' \in [Sources -> {"none", "present", "lost"}]
    BY <1>0, <2>1
  <2> QED
    BY <1>0, <1>2, <2>2, <2>3, <2>4, TypeFrame DEF FetchArtwork
<1>3. CASE SetArtworkPath
  <2>1. /\ Smooth \/ Surprise
        /\ UNCHANGED <<World, Table, artfile, quarantine>>
        /\ Goto("discover") \/ Goto("artdrop")
        /\ art' = art \/ art' = poll.source
    BY <1>3 DEF SetArtworkPath
  <2>2. poll' \in Poll
    BY <1>0, <2>1, GotoType DEF PCs
  <2> QED
    BY <1>0, <2>1, <2>2, TypeFrame
<1>4. CASE DropOldArtwork
  <2>1. /\ Smooth \/ Surprise
        /\ UNCHANGED <<World, Table, art, quarantine>>
        /\ Goto("discover")
        /\ \/ artfile' = artfile
           \/ artfile' = [s \in Sources |->
                            IF s = poll.existing /\ s # poll.source
                            THEN "none" ELSE artfile[s]]
    BY <1>4 DEF DropOldArtwork
  <2>2. poll' \in Poll
    BY <1>0, <2>1, GotoType DEF PCs
  <2>3. artfile' \in [Sources -> {"none", "present", "lost"}]
    BY <1>0, <2>1
  <2> QED
    BY <1>0, <2>1, <2>2, <2>3, TypeFrame
<1> QED
  BY <1>1, <1>2, <1>3, <1>4

(* The page of a poll is a sequence of entries. *)
LEMMA PageType ==
  ASSUME poll \in Poll
  PROVE  poll.page \in Seq(Entry)
<1>1. poll.page \in Answers \cup {<<>>}
  BY DEF Poll
<1>2. <<>> \in Seq(Entry)
  OBVIOUS
<1> QED
  BY <1>1, <1>2, AnswerType

LEMMA TypeDiscover ==
  ASSUME TypeOK, Discover
  PROVE  TypeOK'
<1> DEFINE listed == episodes(poll.page)
           Entries(i) == {n \in DOMAIN listed : listed[n].slug = i}
           At(i) == CHOOSE n \in Entries(i) : \A m \in Entries(i) : m <= n
           Listed == ToSet(Slugs(listed))
<1>0. poll \in Poll /\ config \in Configs /\ poll.page \in Seq(Entry)
  BY PageType DEF TypeOK
<1>1. /\ Slugs(listed) \in Seq(Ids)
      /\ \A k \in DOMAIN listed : /\ listed[k].slug \in Ids
                                  /\ listed[k].start_at \in Dates \cup {None}
  BY <1>0, ListingType
<1>2. /\ rows' = [i \in Ids |-> IF i \in Listed THEN discover(rows[i])
                                ELSE rows[i]]
      /\ dates' = [i \in Ids |-> IF i \in Listed THEN listed[At(i)].start_at
                                 ELSE dates[i]]
      /\ poll' = [poll EXCEPT !.pc = "etag", !.window = Slugs(listed)]
      /\ Smooth /\ UNCHANGED <<World, etag, Artwork, quarantine>>
  BY DEF Discover
<1> HIDE DEF listed
<1>3. ASSUME NEW i \in Listed PROVE At(i) \in DOMAIN listed
  <2>1. /\ Entries(i) \in SUBSET (1..Len(listed)) /\ Entries(i) # {}
        /\ Len(listed) \in Nat
    <3>1. Entries(i) # {}
      BY <1>3 DEF ToSet, Slugs
    <3>2. Len(listed) \in Nat /\ DOMAIN listed = 1..Len(listed)
      BY <1>0, EpisodesFacts DEF listed
    <3> QED
      BY <3>1, <3>2
  <2>2. \E n \in Entries(i) : \A m \in Entries(i) : m <= n
    <3> HIDE DEF Entries
    <3> QED
      BY <2>1, LastExists
  <2> QED
    BY <2>2
<1> HIDE DEF At, Listed
<1>4. dates' \in [Ids -> Dates \cup {None}]
  BY <1>1, <1>2, <1>3 DEF TypeOK
<1>5. rows' \in [Ids -> Row]
  BY <1>2, RowOps DEF TypeOK
<1>6. poll' \in Poll
  BY <1>0, <1>1, <1>2 DEF Poll, PCs
<1>7. trouble' \in 0..MaxTrouble
  BY <1>2, TroubleType DEF TypeOK
<1> QED
  BY <1>2, <1>4, <1>5, <1>6, <1>7 DEF TypeOK, World, Artwork

\* What the downloads of a poll do: `ok` is the set of those that succeed.
Fetched(ok) ==
  /\ poll.pc = "download"
  /\ ok \subseteq Wanted \cap Playable
  /\ \E failed :
       rows' = [i \in Ids |->
         IF i \in ok
         THEN mark_cached(mark_downloading(rows[i]), i, Audio[i])
         ELSE IF i \in failed THEN mark_failed(mark_downloading(rows[i]))
         ELSE rows[i]]
  /\ poll' = [poll EXCEPT !.pc = "retain", !.fetched = ok]
  /\ Smooth \/ Surprise
  /\ UNCHANGED <<World, dates, etag, Artwork, quarantine>>

LEMMA DownloadFacts ==
  ASSUME Download PROVE \E ok : Fetched(ok)
<1> DEFINE pending == {i \in Wanted :
                        rows[i].st \in {"discovered", "failed", "pruned"}}
<1>1. PICK ok \in SUBSET (pending \cap Playable) :
        /\ IF ok = pending \cap Playable THEN Smooth ELSE Surprise
        /\ rows' = [i \in Ids |->
             IF i \in ok
             THEN mark_cached(mark_downloading(rows[i]), i, Audio[i])
             ELSE IF i \in pending THEN mark_failed(mark_downloading(rows[i]))
             ELSE rows[i]]
        /\ poll' = [poll EXCEPT !.pc = "retain", !.fetched = ok]
  BY DEF Download
<1>2. pending \subseteq Wanted
  OBVIOUS
<1>3. /\ poll.pc = "download"
      /\ UNCHANGED <<World, dates, etag, Artwork, quarantine>>
  BY DEF Download
<1> HIDE DEF pending
<1>4. Fetched(ok)
  BY <1>1, <1>2, <1>3 DEF Fetched
<1> QED
  BY <1>4

LEMMA TypeRest ==
  ASSUME TypeOK, SetEtag \/ Plan \/ Download \/ ApplyRetention
  PROVE  TypeOK'
<1>0. poll \in Poll /\ poll.etag \in Answers \cup {None}
      /\ poll.window \in Seq(Ids) /\ rows \in [Ids -> Row]
  BY DEF TypeOK, Poll
<1>1. CASE SetEtag
  <2>1. /\ etag' = poll.etag /\ Goto("plan") /\ Smooth
        /\ UNCHANGED <<World, rows, dates, Artwork, quarantine>>
    BY <1>1 DEF SetEtag
  <2>2. poll' \in Poll
    BY <1>0, <2>1, GotoType DEF PCs
  <2> QED
    BY <1>0, <2>1, <2>2, TroubleType DEF TypeOK, World, Artwork
<1>2. CASE Plan
  <2> DEFINE cands == Candidates(poll.window)
  <2>1. cands \in Seq(Candidate(Ids))
    BY <1>0, CandidatesType
  <2>2. /\ poll' = [poll EXCEPT !.pc = "download", !.cands = cands]
        /\ Smooth /\ UNCHANGED <<World, Table, Artwork, quarantine>>
    BY <1>2 DEF Plan
  <2> HIDE DEF cands
  <2>3. poll' \in Poll
    BY <1>0, <2>1, <2>2 DEF Poll, PCs
  <2> QED
    BY <2>2, <2>3, TypeFrame DEF TypeOK, Artwork
<1>3. CASE Download
  <2>1. PICK ok : Fetched(ok)
    BY <1>3, DownloadFacts
  <2>2. PICK failed :
          rows' = [i \in Ids |->
            IF i \in ok
            THEN mark_cached(mark_downloading(rows[i]), i, Audio[i])
            ELSE IF i \in failed THEN mark_failed(mark_downloading(rows[i]))
            ELSE rows[i]]
    BY <2>1 DEF Fetched
  <2>3. ok \subseteq Ids
    BY <2>1, PollingAssumption DEF Fetched
  <2>4. poll' \in Poll
    BY <1>0, <2>1, <2>3 DEF Fetched, Poll, PCs
  <2>5. ASSUME NEW i \in Ids PROVE rows'[i] \in Row
    <3>1. rows[i] \in Row /\ Audio[i] \in Contents
      BY <1>0, PollingAssumption
    <3> QED
      BY <2>2, <3>1, RowOps
  <2>6. rows' \in [Ids -> Row]
    BY <2>2, <2>5
  <2>7. trouble' \in 0..MaxTrouble
    BY <2>1, TroubleType DEF TypeOK, Fetched
  <2> QED
    BY <2>1, <2>4, <2>6, <2>7 DEF Fetched, TypeOK, World, Artwork
<1>4. CASE ApplyRetention
  <2>1. /\ rows' = [i \in Ids |-> IF i \in Doomed THEN mark_pruned(rows[i])
                                  ELSE rows[i]]
        /\ poll' = NoPoll /\ Smooth
        /\ UNCHANGED <<World, dates, etag, Artwork, quarantine>>
    BY <1>4 DEF ApplyRetention
  <2>2. rows' \in [Ids -> Row]
    BY <1>0, <2>1, RowOps
  <2> QED
    BY <2>1, <2>2, NoPollType, TroubleType DEF TypeOK, World, Artwork
<1> QED
  BY <1>1, <1>2, <1>3, <1>4

LEMMA TypeNext == TypeOK /\ [Next]_vars => TypeOK'
<1> SUFFICES ASSUME TypeOK, [Next]_vars PROVE TypeOK'
  OBVIOUS
<1>1. CASE UpstreamChanges
  <2>1. upstream' \in [page : Pages, images : ImageSets]
    BY <1>1 DEF UpstreamChanges, TypeOK
  <2>2. Surprise /\ UNCHANGED <<config, Table, Artwork, quarantine, poll>>
    BY <1>1 DEF UpstreamChanges
  <2> QED
    BY <2>1, <2>2, TroubleType DEF TypeOK, Table, Artwork
<1>2. CASE Reload
  <2>1. config' \in Configs /\ Surprise
        /\ UNCHANGED <<upstream, Table, Artwork, quarantine, poll>>
    BY <1>2 DEF Reload
  <2> QED
    BY <2>1, TroubleType DEF TypeOK, Table, Artwork
<1>3. CASE LoseArtwork
  <2>1. /\ \E s \in Sources : artfile' = [artfile EXCEPT ![s] = "lost"]
        /\ Surprise /\ UNCHANGED <<World, Table, art, quarantine, poll>>
    BY <1>3 DEF LoseArtwork
  <2>2. artfile' \in [Sources -> {"none", "present", "lost"}]
    BY <2>1 DEF TypeOK
  <2> QED
    BY <2>1, <2>2, TypeFrame DEF TypeOK
<1>4. CASE Crash
  <2>1. /\ poll' = NoPoll /\ Surprise
        /\ UNCHANGED <<World, Table, Artwork, quarantine>>
    BY <1>4 DEF Crash
  <2> QED
    BY <2>1, NoPollType, TypeFrame DEF TypeOK, Artwork
<1>5. CASE UNCHANGED vars
  BY <1>5 DEF vars, TypeOK
<1> QED
  BY <1>1, <1>2, <1>3, <1>4, <1>5, TypeListing, TypeArtwork, TypeDiscover,
     TypeRest
  DEF Next, Step

(* Every variable of a poll keeps its type, for any pages, images and      *)
(* configurations: the tables hold only states, files and dates the code   *)
(* writes, and an etag is that of a page upstream answered (Library::sync, *)
(* DifmProvider::episodes).                                                *)
THEOREM TypeCorrect == Spec => []TypeOK
  BY TypeInit, TypeNext, PTL DEF Spec

-----------------------------------------------------------------------------
(* The inductive invariant. *)

(* The part of TypeOK that the artwork cache rests on.  Which sequences    *)
(* the window and the plan are does not matter to it.                      *)
PollShape ==
  [pc : PCs, page : {poll.page}, etag : {poll.etag},
   source : Sources \cup {None}, existing : Sources \cup {None},
   window : {poll.window}, cands : {poll.cands}, fetched : {poll.fetched}]

ArtworkTypes ==
  /\ upstream.images \in Images
  /\ config.artwork \in Sources \cup {None}
  /\ art \in Sources \cup {None}
  /\ artfile \in [Sources -> {"none", "present", "lost"}]
  /\ poll \in PollShape

(* A source is recorded only when its file is in place, and when the old   *)
(* file goes the record names the new one.                                 *)
SwapInOrder ==
  /\ poll.pc = "artset" =>
       poll.source \in Sources /\ artfile[poll.source] # "none"
  /\ poll.pc = "artdrop" => art = poll.source /\ poll.source \in Sources

IInv == ArtworkTypes /\ SwapInOrder /\ ArtworkServable

-----------------------------------------------------------------------------
(* Lemmas. *)

(* The artwork chosen from upstream's images is a source or none. *)
LEMMA MetaType ==
  ASSUME NEW images
  PROVE  into_meta(images) \in Sources \cup {None}
  BY DEF into_meta

(* A poll that only moves on. *)
LEMMA GotoShape ==
  ASSUME ArtworkTypes, NEW pc \in PCs, Goto(pc)
  PROVE  /\ poll' \in PollShape'
         /\ poll'.pc = pc /\ poll'.source = poll.source
         /\ poll'.existing = poll.existing
  BY DEF ArtworkTypes, PollShape, Goto

(* No poll runs. *)
LEMMA NoPollShape ==
  ASSUME poll' = NoPoll
  PROVE  poll' \in PollShape' /\ poll'.pc = "idle"
  BY DEF PollShape, NoPoll, PCs

(* Steps that leave the artwork alone and do not enter the swap. *)
LEMMA ElsewhereStep ==
  ASSUME IInv, UNCHANGED Artwork,
         upstream'.images \in Images, config'.artwork \in Sources \cup {None},
         poll' \in PollShape', poll'.pc \notin {"artset", "artdrop"}
  PROVE  IInv'
  BY DEF IInv, ArtworkTypes, SwapInOrder, ArtworkServable, Artwork

-----------------------------------------------------------------------------
LEMMA InitIInv == Init => IInv
<1> SUFFICES ASSUME Init PROVE IInv
  OBVIOUS
<1>1. poll \in PollShape /\ poll.pc = "idle"
  BY DEF Init, PollShape, NoPoll, PCs
<1>2. upstream.images \in Images /\ config.artwork \in Sources \cup {None}
  BY PollingAssumption DEF Init, Config
<1> QED
  BY <1>1, <1>2
  DEF Init, IInv, ArtworkTypes, SwapInOrder, ArtworkServable

(* The three steps of cache_artwork. *)
LEMMA CacheArtworkStep ==
  ASSUME IInv, FetchArtwork \/ SetArtworkPath \/ DropOldArtwork
  PROVE  IInv'
<1>0. ArtworkTypes /\ SwapInOrder /\ ArtworkServable /\ poll \in PollShape
  BY DEF IInv, ArtworkTypes
<1>1. poll.source \in Sources \cup {None} /\ poll.existing \in Sources \cup {None}
  BY <1>0 DEF PollShape
<1>2. CASE FetchArtwork
  <2>1. UNCHANGED <<World, art>>
    BY <1>2 DEF FetchArtwork
  <2>2. CASE Goto("discover") /\ UNCHANGED artfile
    <3>1. poll' \in PollShape' /\ poll'.pc = "discover"
      BY <1>0, <2>2, GotoShape DEF PCs
    <3> QED
      BY <1>0, <2>1, <2>2, <3>1, ElsewhereStep
      DEF ArtworkTypes, Artwork, World
  <2>3. CASE /\ artfile' = [artfile EXCEPT ![poll.source] = "present"]
             /\ Goto("artset") /\ poll.source # None
    <3>1. /\ poll' \in PollShape' /\ poll'.pc = "artset"
          /\ poll'.source = poll.source
      BY <1>0, <2>3, GotoShape DEF PCs
    <3>2. poll.source \in Sources
      BY <1>1, <2>3
    <3>3. /\ artfile' \in [Sources -> {"none", "present", "lost"}]
          /\ artfile'[poll.source] = "present"
          /\ \A s \in Sources : artfile[s] # "none" => artfile'[s] # "none"
      BY <1>0, <2>3, <3>2 DEF ArtworkTypes
    <3> QED
      BY <1>0, <2>1, <3>1, <3>2, <3>3
      DEF IInv, ArtworkTypes, SwapInOrder, ArtworkServable, World
  <2> QED
    BY <1>2, <2>2, <2>3 DEF FetchArtwork
<1>3. CASE SetArtworkPath
  <2>1. UNCHANGED <<World, artfile>> /\ poll.pc = "artset"
    BY <1>3 DEF SetArtworkPath
  <2>2. CASE art' = poll.source /\ Goto("artdrop")
    <3>1. /\ poll' \in PollShape' /\ poll'.pc = "artdrop"
          /\ poll'.source = poll.source
      BY <1>0, <2>2, GotoShape DEF PCs
    <3>2. poll.source \in Sources /\ artfile[poll.source] # "none"
      BY <1>0, <2>1 DEF SwapInOrder
    <3> QED
      BY <1>0, <2>1, <2>2, <3>1, <3>2
      DEF IInv, ArtworkTypes, SwapInOrder, ArtworkServable, World
  <2>3. CASE Goto("discover") /\ UNCHANGED art
    <3>1. poll' \in PollShape' /\ poll'.pc = "discover"
      BY <1>0, <2>3, GotoShape DEF PCs
    <3> QED
      BY <1>0, <2>1, <2>3, <3>1, ElsewhereStep
      DEF ArtworkTypes, Artwork, World
  <2> QED
    BY <1>3, <2>2, <2>3 DEF SetArtworkPath
<1>4. CASE DropOldArtwork
  <2>1. UNCHANGED <<World, art>> /\ poll.pc = "artdrop"
    BY <1>4 DEF DropOldArtwork
  <2>2. poll' \in PollShape' /\ poll'.pc = "discover"
    BY <1>0, <1>4, GotoShape DEF DropOldArtwork, PCs
  <2>3. CASE artfile' = [s \in Sources |->
                           IF s = poll.existing /\ s # poll.source
                           THEN "none" ELSE artfile[s]]
    <3>1. art = poll.source /\ art \in Sources
      BY <1>0, <2>1 DEF SwapInOrder
    <3>2. artfile'[art] = artfile[art]
      BY <2>3, <3>1
    <3>3. artfile' \in [Sources -> {"none", "present", "lost"}]
      BY <1>0, <2>3 DEF ArtworkTypes
    <3> QED
      BY <1>0, <2>1, <2>2, <3>2, <3>3
      DEF IInv, ArtworkTypes, SwapInOrder, ArtworkServable, World
  <2>4. CASE UNCHANGED artfile
    BY <1>0, <2>1, <2>2, <2>4, ElsewhereStep DEF ArtworkTypes, Artwork, World
  <2> QED
    BY <1>4, <2>3, <2>4 DEF DropOldArtwork
<1> QED
  BY <1>2, <1>3, <1>4

LEMMA NextIInv == IInv /\ [Next]_vars => IInv'
<1> SUFFICES ASSUME IInv, [Next]_vars PROVE IInv'
  OBVIOUS
<1>0. /\ ArtworkTypes /\ SwapInOrder /\ ArtworkServable /\ poll \in PollShape
      /\ upstream.images \in Images /\ config.artwork \in Sources \cup {None}
  BY DEF IInv, ArtworkTypes
<1>1. CASE FetchArtwork \/ SetArtworkPath \/ DropOldArtwork
  BY <1>1, CacheArtworkStep
<1>2. CASE ListNotModified \/ ListModified
  <2>1. UNCHANGED <<World, Artwork>>
    BY <1>2 DEF ListNotModified, ListModified
  <2>2. poll' \in PollShape' /\ poll'.pc \in {"plan", "show"}
    BY <1>2 DEF ListNotModified, ListModified, NoPoll, PollShape, PCs
  <2> QED
    BY <1>0, <2>1, <2>2, ElsewhereStep DEF World
<1>3. CASE PollFailed \/ Crash
  <2>1. UNCHANGED <<World, Artwork>> /\ poll' = NoPoll
    BY <1>3 DEF PollFailed, Crash
  <2> QED
    BY <1>0, <2>1, NoPollShape, ElsewhereStep DEF World
<1>4. CASE ShowMeta
  <2>1. UNCHANGED <<World, Artwork>>
    BY <1>4 DEF ShowMeta
  <2>2. PICK source \in Sources \cup {None} :
          poll' = [poll EXCEPT !.pc = "artwork", !.existing = art,
                               !.source = source]
    BY <1>0, <1>4, MetaType DEF ShowMeta
  <2>3. poll' \in PollShape' /\ poll'.pc = "artwork"
    BY <1>0, <2>2 DEF ArtworkTypes, PollShape, PCs
  <2> QED
    BY <1>0, <2>1, <2>3, ElsewhereStep DEF World
<1>5. CASE Discover \/ SetEtag \/ Plan \/ Download
  <2>1. UNCHANGED <<World, Artwork>>
    BY <1>5 DEF Discover, SetEtag, Plan, Download
  <2>2. \E pc \in PCs \ {"artset", "artdrop"} : \E window, cands, fetched :
          poll' = [poll EXCEPT !.pc = pc, !.window = window, !.cands = cands,
                               !.fetched = fetched]
    <3>1. CASE Discover
      <4>1. PICK window :
              poll' = [poll EXCEPT !.pc = "etag", !.window = window]
        BY <3>1 DEF Discover
      <4>2. poll' = [poll EXCEPT !.pc = "etag", !.window = window,
                       !.cands = poll.cands, !.fetched = poll.fetched]
        BY <1>0, <4>1 DEF PollShape
      <4> QED
        BY <4>2 DEF PCs
    <3>2. CASE SetEtag
      <4>1. poll' = [poll EXCEPT !.pc = "plan", !.window = poll.window,
                       !.cands = poll.cands, !.fetched = poll.fetched]
        BY <1>0, <3>2 DEF SetEtag, Goto, PollShape
      <4> QED
        BY <4>1 DEF PCs
    <3>3. CASE Plan
      <4>1. PICK cands :
              poll' = [poll EXCEPT !.pc = "download", !.cands = cands]
        BY <3>3 DEF Plan
      <4>2. poll' = [poll EXCEPT !.pc = "download", !.window = poll.window,
                       !.cands = cands, !.fetched = poll.fetched]
        BY <1>0, <4>1 DEF PollShape
      <4> QED
        BY <4>2 DEF PCs
    <3>4. CASE Download
      <4>1. PICK fetched :
              poll' = [poll EXCEPT !.pc = "retain", !.fetched = fetched]
        BY <3>4 DEF Download
      <4>2. poll' = [poll EXCEPT !.pc = "retain", !.window = poll.window,
                       !.cands = poll.cands, !.fetched = fetched]
        BY <1>0, <4>1 DEF PollShape
      <4> QED
        BY <4>2 DEF PCs
    <3> QED
      BY <1>5, <3>1, <3>2, <3>3, <3>4
  <2>3. poll' \in PollShape' /\ poll'.pc \notin {"artset", "artdrop"}
    BY <1>0, <2>2 DEF PollShape
  <2> QED
    BY <1>0, <2>1, <2>3, ElsewhereStep DEF World
<1>6. CASE ApplyRetention
  <2>1. UNCHANGED <<World, Artwork>> /\ poll' = NoPoll
    BY <1>6 DEF ApplyRetention
  <2> QED
    BY <1>0, <2>1, NoPollShape, ElsewhereStep DEF World
<1>7. CASE UpstreamChanges
  <2>1. upstream'.images \in Images
    BY <1>0, <1>7, PollingAssumption DEF UpstreamChanges
  <2>2. UNCHANGED <<config, Artwork, poll>>
    BY <1>7 DEF UpstreamChanges
  <2> QED
    BY <1>0, <2>1, <2>2
    DEF IInv, ArtworkTypes, SwapInOrder, ArtworkServable, Artwork, PollShape
<1>8. CASE Reload
  <2>1. config'.artwork \in Sources \cup {None}
    BY <1>8, PollingAssumption DEF Reload, Config
  <2>2. UNCHANGED <<upstream, Artwork, poll>>
    BY <1>8 DEF Reload
  <2> QED
    BY <1>0, <2>1, <2>2
    DEF IInv, ArtworkTypes, SwapInOrder, ArtworkServable, Artwork, PollShape
<1>9. CASE LoseArtwork
  <2>1. PICK s \in Sources : artfile' = [artfile EXCEPT ![s] = "lost"]
    BY <1>9 DEF LoseArtwork
  <2>2. /\ artfile' \in [Sources -> {"none", "present", "lost"}]
        /\ \A t \in Sources : artfile[t] # "none" => artfile'[t] # "none"
    BY <1>0, <2>1 DEF ArtworkTypes
  <2>3. UNCHANGED <<upstream, config, art, poll>>
    BY <1>9 DEF LoseArtwork, World
  <2> QED
    BY <1>0, <2>2, <2>3
    DEF IInv, ArtworkTypes, SwapInOrder, ArtworkServable, PollShape
<1>10. CASE UNCHANGED vars
  BY <1>0, <1>10
  DEF vars, IInv, ArtworkTypes, SwapInOrder, ArtworkServable, PollShape
<1> QED
  BY <1>1, <1>2, <1>3, <1>4, <1>5, <1>6, <1>7, <1>8, <1>9, <1>10
  DEF Next, Step

-----------------------------------------------------------------------------
(* The artwork the feed names is never removed by the daemon, wherever a   *)
(* poll fails or is killed and whatever the sources change to              *)
(* (Library::cache_artwork).                                               *)
THEOREM ArtworkStays == Spec => []ArtworkServable
<1>1. IInv => ArtworkServable
  BY DEF IInv
<1> QED
  BY InitIInv, NextIInv, <1>1, PTL DEF Spec

-----------------------------------------------------------------------------
(* The entries of a page. *)

\* The quarantine or the log tells of a page that has unreadable entries, and
\* every readable entry of it has its row.
Told(page) ==
  Unreadable(page) # {} =>
    \E n \in Unreadable(page) : quarantine[page[n]] # "none"
AllStored(page) ==
  \A n \in DOMAIN page : Readable(page[n]) => Exists(rows[page[n].slug])

\* From the answer to the etag a page is told of and not longer than
\* fetch_last, so that the listing leaves none of its entries out; the etag of
\* a poll is its page's, and it is stored after the rows.
EntriesInv ==
  /\ poll.etag \in {None, poll.page}
  /\ poll.pc \in {"show", "artwork", "artset", "artdrop", "discover", "etag"} =>
       (\A n \in limit : Len(poll.page) <= n) /\ Told(poll.page)
  /\ poll.pc = "etag" => AllStored(poll.page)
  /\ etag # None => AllStored(etag) /\ Told(etag)

(* No step deletes a row of the episodes table. *)
LEMMA RowsStay ==
  ASSUME TypeOK, [Next]_vars, NEW i \in Ids, Exists(rows[i])
  PROVE  Exists(rows'[i])
<1>0. rows[i] \in Row
  BY DEF TypeOK
<1>1. CASE Discover
  <2>1. PICK Listed : rows' = [j \in Ids |-> IF j \in Listed
                                 THEN discover(rows[j]) ELSE rows[j]]
    BY <1>1 DEF Discover
  <2> QED
    BY <1>0, <2>1, RowOps
<1>2. CASE Download
  <2>0. PICK ok : Fetched(ok)
    BY <1>2, DownloadFacts
  <2>1. PICK failed :
          rows' = [j \in Ids |->
            IF j \in ok
            THEN mark_cached(mark_downloading(rows[j]), j, Audio[j])
            ELSE IF j \in failed THEN mark_failed(mark_downloading(rows[j]))
            ELSE rows[j]]
    BY <2>0 DEF Fetched
  <2> QED
    BY <1>0, <2>1, RowOps
<1>3. CASE ApplyRetention
  <2>1. rows' = [j \in Ids |-> IF j \in Doomed THEN mark_pruned(rows[j])
                               ELSE rows[j]]
    BY <1>3 DEF ApplyRetention
  <2> QED
    BY <1>0, <2>1, RowOps
<1>4. CASE rows' = rows
  BY <1>4
<1> QED
  BY <1>1, <1>2, <1>3, <1>4
  DEF Next, Step, vars, Table, ListNotModified, ListModified, ShowMeta,
      FetchArtwork, SetArtworkPath, DropOldArtwork, SetEtag, Plan, PollFailed,
      UpstreamChanges, Reload, LoseArtwork, Crash

(* Nothing quarantined or noted is forgotten. *)
LEMMA NotesStay ==
  ASSUME TypeOK, [Next]_vars, NEW p \in Payloads, quarantine[p] # "none"
  PROVE  quarantine'[p] # "none"
<1>0. quarantine \in [Payloads -> {"none", "written", "noted"}]
  BY DEF TypeOK
<1>1. CASE \E seq, places : WriteAll(seq, places) \/ NoteAll(seq, places)
  BY <1>0, <1>1, QuarantineStep
<1>2. CASE quarantine' = quarantine
  BY <1>2
<1>3. CASE ListModified
  BY <1>1, <1>3 DEF ListModified
<1>4. CASE PollFailed
  BY <1>1, <1>2, <1>4 DEF PollFailed
<1> QED
  BY <1>2, <1>3, <1>4
  DEF Next, Step, vars, ListNotModified, ShowMeta, FetchArtwork,
      SetArtworkPath, DropOldArtwork, Discover, SetEtag, Plan, Download,
      ApplyRetention, UpstreamChanges, Reload, LoseArtwork, Crash

(* What is said of an answer stays true. *)
LEMMA AnswerStays ==
  ASSUME TypeOK, [Next]_vars, NEW page \in Answers \cup {<<>>}
  PROVE  /\ Told(page) => Told(page)'
         /\ AllStored(page) => AllStored(page)'
<1>1. /\ \A n \in Unreadable(page) : page[n] \in Payloads
      /\ page \in Seq(Entry)
  <2>1. CASE page \in Answers
    BY <2>1, AnswerType
  <2>2. CASE page = <<>>
    BY <2>2 DEF Unreadable
  <2> QED
    BY <2>1, <2>2
<1>2. ASSUME Told(page) PROVE Told(page)'
  BY <1>1, <1>2, NotesStay DEF Told
<1>3. ASSUME AllStored(page) PROVE AllStored(page)'
  <2> SUFFICES ASSUME NEW n \in DOMAIN page, Readable(page[n])
               PROVE  Exists(rows'[page[n].slug])
    BY DEF AllStored
  <2>1. page[n].slug \in Ids /\ Exists(rows[page[n].slug])
    BY <1>3 DEF AllStored, Readable
  <2> QED
    BY <2>1, RowsStay
<1> QED
  BY <1>2, <1>3

LEMMA EntriesInit == Init => EntriesInv
  BY DEF Init, EntriesInv, NoPoll

(* Steps that leave the stored etag alone. *)
LEMMA EtagStays ==
  ASSUME TypeOK, [Next]_vars, EntriesInv, etag' = etag
  PROVE  etag' # None => AllStored(etag)' /\ Told(etag)'
<1> SUFFICES ASSUME etag # None PROVE AllStored(etag)' /\ Told(etag)'
  OBVIOUS
<1>1. PICK page \in Answers : page = etag
  BY DEF TypeOK
<1>2. AllStored(page)' /\ Told(page)'
  BY <1>1, AnswerStays DEF EntriesInv
<1> QED
  BY <1>1, <1>2 DEF AllStored, Told

(* Steps of a poll that keep its page. *)
LEMMA PageStays ==
  ASSUME TypeOK, [Next]_vars, EntriesInv,
         poll'.page = poll.page, poll'.etag = poll.etag, config' = config,
         etag' = etag,
         poll'.pc = poll.pc \/ poll'.pc \in {"download", "retain"}
         \/ /\ poll.pc \in {"show", "artwork", "artset", "artdrop"}
            /\ poll'.pc \in {"artwork", "artset", "artdrop", "discover"}
  PROVE  EntriesInv'
<1>1. PICK page \in Answers \cup {<<>>} : page = poll.page
  BY DEF TypeOK, Poll
<1>2. limit' = limit
  BY DEF limit
<1>3. /\ Told(page) => Told(page)'
      /\ AllStored(page) => AllStored(page)'
  BY AnswerStays
<1>4. /\ Told(poll.page) => Told(poll.page)'
      /\ AllStored(poll.page) => AllStored(poll.page)'
  BY <1>1, <1>3 DEF Told, AllStored
<1> QED
  BY <1>2, <1>4, EtagStays DEF EntriesInv

LEMMA EntriesStep == TypeOK /\ EntriesInv /\ [Next]_vars => EntriesInv'
<1> SUFFICES ASSUME TypeOK, EntriesInv, [Next]_vars PROVE EntriesInv'
  OBVIOUS
<1>0. poll \in Poll
  BY DEF TypeOK
<1>1. CASE ListNotModified \/ PollFailed \/ Crash \/ ApplyRetention
  <2>1. /\ poll' = NoPoll \/ (\E w : poll' = [NoPoll EXCEPT !.pc = "plan",
                                  !.page = Served, !.window = w])
        /\ etag' = etag
    BY <1>1 DEF ListNotModified, PollFailed, Crash, ApplyRetention, Table
  <2>2. poll'.etag = None /\ poll'.pc \in {"idle", "plan"}
    <3>1. CASE poll' = NoPoll
      BY <3>1 DEF NoPoll
    <3>2. CASE \E w : poll' = [NoPoll EXCEPT !.pc = "plan", !.page = Served,
                                             !.window = w]
      <4>1. PICK w : poll' = [NoPoll EXCEPT !.pc = "plan", !.page = Served,
                                            !.window = w]
        BY <3>2
      <4> QED
        BY <4>1 DEF NoPoll
    <3> QED
      BY <2>1, <3>1, <3>2
  <2> QED
    BY <2>1, <2>2, EtagStays DEF EntriesInv
<1>2. CASE ListModified
  <2>1. /\ \/ WriteAll(Served, Unreadable(Served))
           \/ NoteAll(Served, Unreadable(Served))
        /\ \/ poll' = [NoPoll EXCEPT !.pc = "show", !.page = Served,
                                     !.etag = Served]
           \/ poll' = [NoPoll EXCEPT !.pc = "show", !.page = Served]
        /\ etag' = etag /\ config' = config /\ upstream' = upstream
    BY <1>2 DEF ListModified, Table, World
  <2>2. /\ poll'.etag \in {None, poll'.page} /\ poll'.pc = "show"
        /\ poll'.page = Served
    BY <2>1 DEF NoPoll
  <2>3. PICK page \in Answers : page = Served
    BY ServedFacts
  <2>4. \A n \in limit : Len(page) <= n
    BY <2>3, ServedFacts
  <2>5. limit' = limit
    BY <2>1 DEF limit
  <2>6. Told(page)'
    BY <2>1, <2>3, QuarantineTells DEF Told
  <2>7. Told(poll.page)' /\ \A n \in limit' : Len(poll'.page) <= n
    BY <2>2, <2>3, <2>4, <2>5, <2>6 DEF Told
  <2> QED
    BY <2>1, <2>2, <2>7, EtagStays DEF EntriesInv
<1>3. CASE ShowMeta \/ FetchArtwork \/ SetArtworkPath \/ DropOldArtwork
  <2>1. CASE ShowMeta
    <3>1. \E source : poll' = [poll EXCEPT !.pc = "artwork", !.existing = art,
                                           !.source = source]
      BY <2>1 DEF ShowMeta
    <3>2. etag' = etag /\ config' = config /\ poll.pc = "show"
      BY <2>1 DEF ShowMeta, Table, World
    <3> QED
      BY <1>0, <3>1, <3>2, PageStays DEF Poll
  <2>2. CASE FetchArtwork
    <3>1. /\ Goto("discover") \/ Goto("artset")
          /\ etag' = etag /\ config' = config /\ poll.pc = "artwork"
      BY <2>2 DEF FetchArtwork, Table, World
    <3> QED
      BY <1>0, <3>1, PageStays DEF Poll, Goto
  <2>3. CASE SetArtworkPath
    <3>1. /\ Goto("discover") \/ Goto("artdrop")
          /\ etag' = etag /\ config' = config /\ poll.pc = "artset"
      BY <2>3 DEF SetArtworkPath, Table, World
    <3> QED
      BY <1>0, <3>1, PageStays DEF Poll, Goto
  <2>4. CASE DropOldArtwork
    <3>1. /\ Goto("discover")
          /\ etag' = etag /\ config' = config /\ poll.pc = "artdrop"
      BY <2>4 DEF DropOldArtwork, Table, World
    <3> QED
      BY <1>0, <3>1, PageStays DEF Poll, Goto
  <2> QED
    BY <1>3, <2>1, <2>2, <2>3, <2>4
<1>4. CASE Discover
  <2> DEFINE listed == episodes(poll.page)
             Listed == ToSet(Slugs(listed))
  <2>1. /\ rows' = [i \in Ids |-> IF i \in Listed THEN discover(rows[i])
                                  ELSE rows[i]]
        /\ poll' = [poll EXCEPT !.pc = "etag", !.window = Slugs(listed)]
        /\ etag' = etag /\ config' = config /\ poll.pc = "discover"
    BY <1>4 DEF Discover, World
  <2>2. PICK page \in Answers \cup {<<>>} : page = poll.page
    BY <1>0 DEF Poll
  <2>3. /\ page \in Seq(Entry) /\ (\A n \in limit : Len(page) <= n)
        /\ Told(page)
    BY <1>0, <2>1, <2>2, PageType DEF EntriesInv
  <2>4. ASSUME NEW n \in DOMAIN page, Readable(page[n])
        PROVE  Exists(rows'[page[n].slug])
    <3>1. n \in DOMAIN page \ Unreadable(page)
      BY <2>4 DEF Unreadable
    <3>2. config \in Configs
      BY DEF TypeOK
    <3>3. PICK k \in DOMAIN listed : listed[k] = page[n]
      <4>1. (\A m \in limit : Len(page) <= m) =>
              \A m \in DOMAIN page \ Unreadable(page) :
                \E k \in DOMAIN episodes(page) : episodes(page)[k] = page[m]
        BY <2>3, <3>2, EpisodesFacts
      <4>2. \E k \in DOMAIN episodes(page) : episodes(page)[k] = page[n]
        BY <2>3, <3>1, <4>1
      <4> QED
        BY <2>2, <4>2
    <3> HIDE DEF listed
    <3>4. page[n].slug \in Listed
      BY <3>3 DEF ToSet, Slugs
    <3>5. page[n].slug \in Ids /\ rows[page[n].slug] \in Row
      BY <2>4 DEF Readable, TypeOK
    <3> HIDE DEF Listed
    <3> QED
      BY <2>1, <3>4, <3>5, RowOps
  <2> HIDE DEF listed, Listed
  <2>5. AllStored(page)' /\ Told(page)'
    BY <2>3, <2>4, AnswerStays DEF AllStored
  <2>6. limit' = limit
    BY <2>1 DEF limit
  <2>7. /\ poll'.page = page /\ poll'.pc = "etag" /\ poll'.etag = poll.etag
    BY <1>0, <2>1, <2>2 DEF Poll
  <2>8. /\ AllStored(poll.page)' /\ Told(poll.page)'
        /\ \A n \in limit' : Len(poll'.page) <= n
    BY <2>3, <2>5, <2>6, <2>7 DEF AllStored, Told
  <2> QED
    BY <2>1, <2>2, <2>7, <2>8, EtagStays DEF EntriesInv
<1>5. CASE SetEtag
  <2>1. /\ etag' = poll.etag /\ Goto("plan") /\ poll.pc = "etag"
        /\ rows' = rows /\ quarantine' = quarantine
    BY <1>5 DEF SetEtag
  <2>2. poll'.pc = "plan" /\ poll'.etag = poll.etag /\ poll'.page = poll.page
    BY <1>0, <2>1 DEF Goto, Poll
  <2>3. AllStored(poll.page) /\ Told(poll.page) /\ poll.etag \in {None, poll.page}
    BY <2>1 DEF EntriesInv
  <2>4. etag' # None => AllStored(etag)' /\ Told(etag)'
    BY <2>1, <2>3 DEF AllStored, Told
  <2> QED
    BY <2>2, <2>3, <2>4 DEF EntriesInv
<1>6. CASE Plan \/ Download
  <2>1. /\ poll'.page = poll.page /\ poll'.etag = poll.etag
        /\ poll'.pc \in {"download", "retain"}
    <3>1. CASE Plan
      <4>1. \E c : poll' = [poll EXCEPT !.pc = "download", !.cands = c]
        BY <3>1 DEF Plan
      <4> QED
        BY <1>0, <4>1 DEF Poll
    <3>2. CASE Download
      BY <1>0, <3>2, DownloadFacts DEF Fetched, Poll
    <3> QED
      BY <1>6, <3>1, <3>2
  <2>2. etag' = etag /\ config' = config
    BY <1>6 DEF Plan, Download, Table, World
  <2> QED
    BY <2>1, <2>2, PageStays
<1>7. CASE UpstreamChanges \/ LoseArtwork \/ UNCHANGED vars
  <2>1. poll' = poll /\ config' = config /\ etag' = etag
    BY <1>7 DEF UpstreamChanges, LoseArtwork, vars, Table, World
  <2> QED
    BY <2>1, PageStays
<1>8. CASE Reload
  <2>1. poll' = poll /\ poll.pc = "idle" /\ etag' = etag
    BY <1>8 DEF Reload, Table
  <2> QED
    BY <2>1, EtagStays DEF EntriesInv
<1> QED
  BY <1>1, <1>2, <1>3, <1>4, <1>5, <1>6, <1>7, <1>8 DEF Next, Step

(* An etag is stored only for a page whose readable entries all have rows  *)
(* and whose unreadable ones left a trace, wherever polls fail, are killed *)
(* or find the disk full, for any pages and any limits                     *)
(* (DifmProvider::episodes, Storage::discover, set_episodes_etag).         *)
THEOREM NothingLost == Spec => []EntriesAccounted
<1>1. EntriesInv => EntriesAccounted
  BY DEF EntriesInv, EntriesAccounted, AllStored, Told
<1> QED
  BY EntriesInit, EntriesStep, TypeCorrect, <1>1, PTL DEF Spec

-----------------------------------------------------------------------------
(* The plan. *)

\* No episode is twice in the window, nor among the candidates.
WindowInv ==
  /\ \A m, n \in 1..Len(poll.window) : poll.window[m] = poll.window[n] => m = n
  /\ Distinct(poll.cands)

LEMMA WindowInit == Init => WindowInv
  BY DEF Init, WindowInv, NoPoll, Distinct

(* The rows of the database are listed once each. *)
LEMMA StoredOnce ==
  ASSUME TypeOK
  PROVE  LET window == take(limit, NewestFirst(Stored))
         IN \A m, n \in 1..Len(window) : window[m] = window[n] => m = n
<1> DEFINE all == NewestFirst(Stored)
           window == take(limit, all)
           before == [i \in Stored |-> {j \in Stored : Before(j, i)}]
<1>1. Stored \subseteq Ids
  BY DEF Stored
<1>2. Ranked(all, Stored, before)
  BY <1>1, NewestFirstRanked
<1>3. limit \subseteq Nat
  BY ConfigFacts DEF TypeOK
<1> HIDE DEF all, before
<1>4. /\ all \in Seq(Stored)
      /\ \A k \in 1..Len(all) : Cardinality(before[all[k]]) = k - 1
  BY <1>2 DEF Ranked
<1>5. Cut(window, limit, all) /\ window \in Seq(Stored)
  BY <1>3, <1>4, TakeFacts
<1> HIDE DEF window
<1>6. \A k \in 1..Len(window) : k \in 1..Len(all) /\ window[k] = all[k]
  BY <1>4, <1>5 DEF Cut
<1>7. ASSUME NEW m \in 1..Len(window), NEW n \in 1..Len(window),
             window[m] = window[n]
      PROVE  m = n
  <2>1. all[m] = all[n] /\ m \in 1..Len(all) /\ n \in 1..Len(all)
    BY <1>6, <1>7
  <2>2. m - 1 = n - 1
    BY <1>4, <2>1
  <2> QED
    BY <2>2
<1> QED
  BY <1>7 DEF window, all

(* The listing of a page that lists no episode twice lists none twice. *)
LEMMA ListingOnce ==
  ASSUME OncePerPage, config \in Configs, NEW page \in Answers \cup {<<>>}
  PROVE  LET window == Slugs(episodes(page))
         IN \A m, n \in 1..Len(window) : window[m] = window[n] => m = n
<1> DEFINE list == episodes(page)
           window == Slugs(list)
<1>1. page \in Seq(Entry)
  <2>1. <<>> \in Seq(Entry)
    OBVIOUS
  <2> QED
    BY <2>1, AnswerType
<1>2. \A m, n \in DOMAIN page :
        Readable(page[m]) /\ Readable(page[n]) /\ page[m].slug = page[n].slug => m = n
  <2>1. CASE page = <<>>
    BY <2>1
  <2>2. CASE page \in Answers
    <3>1. PICK whole \in Pages : \E l \in 0..Len(whole) : page = SubSeq(whole, 1, l)
      BY <2>2 DEF Answers
    <3>2. PICK l \in 0..Len(whole) : page = SubSeq(whole, 1, l)
      BY <3>1
    <3>3. whole \in Seq(Entry) /\ Len(whole) \in Nat
      BY PollingAssumption
    <3>4. \A n \in DOMAIN page : n \in DOMAIN whole /\ page[n] = whole[n]
      BY <3>2, <3>3
    <3> QED
      BY <3>4 DEF OncePerPage
  <2> QED
    BY <2>1, <2>2
<1>3. /\ list \in Seq(Entry)
      /\ \E at \in [DOMAIN list -> DOMAIN page \ Unreadable(page)] :
           /\ \A k \in DOMAIN list : list[k] = page[at[k]]
           /\ \A j, k \in DOMAIN list : at[j] = at[k] => j = k
  BY <1>1, EpisodesFacts
<1> HIDE DEF list
<1>4. PICK at \in [DOMAIN list -> DOMAIN page \ Unreadable(page)] :
           /\ \A k \in DOMAIN list : list[k] = page[at[k]]
           /\ \A j, k \in DOMAIN list : at[j] = at[k] => j = k
  BY <1>3
<1>5. \A k \in DOMAIN list : at[k] \in DOMAIN page /\ Readable(page[at[k]])
  BY <1>4 DEF Unreadable
<1>6. /\ \A m \in 1..Len(window) : m \in DOMAIN list /\ window[m] = list[m].slug
  BY <1>3 DEF Slugs
<1> HIDE DEF window
<1>7. ASSUME NEW m \in 1..Len(window), NEW n \in 1..Len(window),
             window[m] = window[n]
      PROVE  m = n
  <2>1. /\ m \in DOMAIN list /\ n \in DOMAIN list
        /\ page[at[m]].slug = page[at[n]].slug
    BY <1>4, <1>6, <1>7
  <2>2. at[m] = at[n]
    BY <1>2, <1>5, <2>1
  <2> QED
    BY <1>4, <2>1, <2>2
<1> QED
  BY <1>7 DEF window, list

LEMMA WindowStep ==
  ASSUME OncePerPage
  PROVE  TypeOK /\ WindowInv /\ [Next]_vars => WindowInv'
<1> SUFFICES ASSUME TypeOK, WindowInv, [Next]_vars PROVE WindowInv'
  OBVIOUS
<1>0. poll \in Poll
  BY DEF TypeOK
<1>1. CASE poll'.window = poll.window /\ poll'.cands = poll.cands
  BY <1>1 DEF WindowInv, Distinct
<1>2. CASE poll'.window = <<>> /\ poll'.cands = <<>>
  BY <1>2 DEF WindowInv, Distinct
<1>3. CASE ListNotModified
  <2> DEFINE window == take(limit, NewestFirst(Stored))
  <2>1. poll' = [NoPoll EXCEPT !.pc = "plan", !.page = Served, !.window = window]
    BY <1>3 DEF ListNotModified
  <2>2. \A m, n \in 1..Len(window) : window[m] = window[n] => m = n
    BY StoredOnce
  <2> HIDE DEF window
  <2>3. poll'.window = window /\ poll'.cands = <<>>
    BY <2>1 DEF NoPoll
  <2> QED
    BY <2>2, <2>3 DEF WindowInv, Distinct
<1>4. CASE Discover
  <2> DEFINE window == Slugs(episodes(poll.page))
  <2>1. poll' = [poll EXCEPT !.pc = "etag", !.window = window]
    BY <1>4 DEF Discover
  <2>2. PICK page \in Answers \cup {<<>>} : page = poll.page
    BY <1>0 DEF Poll
  <2>3. config \in Configs
    BY DEF TypeOK
  <2>4. \A m, n \in 1..Len(window) : window[m] = window[n] => m = n
    BY <2>2, <2>3, ListingOnce
  <2> HIDE DEF window
  <2>5. poll'.window = window /\ poll'.cands = poll.cands
    BY <1>0, <2>1 DEF Poll
  <2> QED
    BY <2>4, <2>5 DEF WindowInv, Distinct
<1>5. CASE Plan
  <2> DEFINE cands == Candidates(poll.window)
  <2>1. poll' = [poll EXCEPT !.pc = "download", !.cands = cands]
    BY <1>5 DEF Plan
  <2>2. poll.window \in Seq(Ids)
    BY <1>0 DEF Poll
  <2>3. /\ Len(cands) = Len(poll.window)
        /\ \A n \in 1..Len(poll.window) :
             cands[n] = [id |-> poll.window[n], bytes |-> bytes_of(poll.window[n])]
    BY <2>2, CandidatesType
  <2> HIDE DEF cands
  <2>4. ASSUME NEW n \in 1..Len(cands) PROVE cands[n].id = poll.window[n]
    <3>1. cands[n] = [id |-> poll.window[n], bytes |-> bytes_of(poll.window[n])]
      BY <2>3
    <3> QED
      BY <3>1
  <2>5. Distinct(cands)
    BY <2>3, <2>4 DEF Distinct, WindowInv
  <2>6. poll'.window = poll.window /\ poll'.cands = cands
    BY <1>0, <2>1 DEF Poll
  <2> QED
    BY <2>5, <2>6 DEF WindowInv, Distinct
<1>6. CASE PollFailed \/ Crash \/ ApplyRetention
  <2>1. poll' = NoPoll
    BY <1>6 DEF PollFailed, Crash, ApplyRetention
  <2> QED
    BY <1>2, <2>1 DEF NoPoll
<1>7. CASE ListModified
  <2>1. \/ poll' = [NoPoll EXCEPT !.pc = "show", !.page = Served, !.etag = Served]
        \/ poll' = [NoPoll EXCEPT !.pc = "show", !.page = Served]
    BY <1>7 DEF ListModified
  <2>2. poll'.window = <<>> /\ poll'.cands = <<>>
    <3>1. CASE poll' = [NoPoll EXCEPT !.pc = "show", !.page = Served,
                                      !.etag = Served]
      BY <3>1 DEF NoPoll
    <3>2. CASE poll' = [NoPoll EXCEPT !.pc = "show", !.page = Served]
      BY <3>2 DEF NoPoll
    <3> QED
      BY <2>1, <3>1, <3>2
  <2> QED
    BY <1>2, <2>2
<1>8. CASE ShowMeta
  <2>1. \E source : poll' = [poll EXCEPT !.pc = "artwork", !.existing = art,
                                         !.source = source]
    BY <1>8 DEF ShowMeta
  <2> QED
    BY <1>0, <1>1, <2>1 DEF Poll
<1>9. CASE FetchArtwork \/ SetArtworkPath \/ DropOldArtwork \/ SetEtag
  <2>1. \E pc : poll' = [poll EXCEPT !.pc = pc]
    BY <1>9 DEF FetchArtwork, SetArtworkPath, DropOldArtwork, SetEtag, Goto
  <2> QED
    BY <1>0, <1>1, <2>1 DEF Poll
<1>10. CASE Download
  BY <1>0, <1>1, <1>10, DownloadFacts DEF Fetched, Poll
<1>11. CASE UpstreamChanges \/ LoseArtwork \/ Reload \/ UNCHANGED vars
  <2>1. poll' = poll
    BY <1>11 DEF UpstreamChanges, LoseArtwork, Reload, vars
  <2> QED
    BY <1>1, <2>1
<1> QED
  BY <1>3, <1>4, <1>5, <1>6, <1>7, <1>8, <1>9, <1>10, <1>11 DEF Next, Step

(* When upstream lists no episode twice, the plan of every poll is the     *)
(* greedy choice over its window, whatever the policy and the sizes        *)
(* (retention.rs, split; Library::sync).                                   *)
THEOREM PlanIsGreedy ==
  ASSUME OncePerPage PROVE Spec => []KeptIsGreedy
<1>1. TypeOK /\ WindowInv => KeptIsGreedy
  <2> SUFFICES ASSUME TypeOK, WindowInv, NEW p \in Policies
               PROVE  Greedy(p, poll.cands)
    BY DEF KeptIsGreedy
  <2>1. poll.cands \in Seq(Candidate(Ids)) /\ Distinct(poll.cands)
    BY DEF TypeOK, Poll, WindowInv
  <2>2. IsPolicy(p)
    <3>1. Cardinality(Ids) \in Nat
      BY PollingAssumption, FS_CardinalityType
    <3>2. Opt(0..Cardinality(Ids)) \subseteq SUBSET Nat
          /\ Opt(0..(2 * Cardinality(Ids))) \subseteq SUBSET Nat
      BY <3>1 DEF Opt
    <3> QED
      BY <3>2 DEF Policies, IsPolicy
  <2> QED
    BY <2>1, <2>2, WalkIsGreedy
<1> QED
  BY WindowInit, WindowStep, TypeCorrect, <1>1, PTL DEF Spec

-----------------------------------------------------------------------------
(* What retention prunes after the downloads. *)

\* The candidates of a plan are those of the window, and what a poll has
\* fetched was wanted and is cached.
FetchedInv ==
  /\ poll.pc \in {"download", "retain"} =>
       /\ Len(poll.cands) = Len(poll.window)
       /\ \A n \in 1..Len(poll.window) : poll.cands[n].id = poll.window[n]
  /\ poll.pc = "retain" => poll.fetched \subseteq Wanted \cap Cached

LEMMA FetchedInit == Init => FetchedInv
  BY DEF Init, FetchedInv, NoPoll

LEMMA FetchedStep == TypeOK /\ FetchedInv /\ [Next]_vars => FetchedInv'
<1> SUFFICES ASSUME TypeOK, FetchedInv, [Next]_vars PROVE FetchedInv'
  OBVIOUS
<1>0. poll \in Poll
  BY DEF TypeOK
<1>1. CASE poll'.pc \notin {"download", "retain"}
  BY <1>1 DEF FetchedInv
<1>2. CASE Plan
  <2> DEFINE cands == Candidates(poll.window)
  <2>1. poll' = [poll EXCEPT !.pc = "download", !.cands = cands]
    BY <1>2 DEF Plan
  <2>2. poll.window \in Seq(Ids)
    BY <1>0 DEF Poll
  <2>3. /\ Len(cands) = Len(poll.window)
        /\ \A n \in 1..Len(poll.window) :
             cands[n] = [id |-> poll.window[n], bytes |-> bytes_of(poll.window[n])]
    BY <2>2, CandidatesType
  <2> HIDE DEF cands
  <2>4. ASSUME NEW n \in 1..Len(poll.window) PROVE cands[n].id = poll.window[n]
    <3>1. cands[n] = [id |-> poll.window[n], bytes |-> bytes_of(poll.window[n])]
      BY <2>3
    <3> QED
      BY <3>1
  <2>5. poll'.window = poll.window /\ poll'.cands = cands /\ poll'.pc = "download"
    BY <1>0, <2>1 DEF Poll
  <2> QED
    BY <2>3, <2>4, <2>5 DEF FetchedInv
<1>3. CASE Download
  <2>1. PICK ok : Fetched(ok)
    BY <1>3, DownloadFacts
  <2>2. /\ poll'.window = poll.window /\ poll'.cands = poll.cands
        /\ poll'.pc = "retain" /\ poll'.fetched = ok /\ poll.pc = "download"
    BY <1>0, <2>1 DEF Fetched, Poll
  <2>3. config' = config /\ ok \subseteq Wanted /\ ok \subseteq Ids
    BY <2>1, PollingAssumption DEF Fetched, World
  <2>4. Wanted' = Wanted
    BY <2>2, <2>3 DEF Wanted, policy
  <2>5. ASSUME NEW i \in ok PROVE i \in Cached'
    <3>1. rows'[i].st = "cached"
      BY <2>1, <2>3 DEF Fetched, mark_cached
    <3> QED
      BY <2>3, <3>1 DEF Cached
  <2> QED
    BY <2>2, <2>3, <2>4, <2>5 DEF FetchedInv
<1>4. CASE UpstreamChanges \/ LoseArtwork \/ UNCHANGED vars
  <2>1. poll' = poll /\ config' = config /\ rows' = rows
    BY <1>4 DEF UpstreamChanges, LoseArtwork, vars, World, Table
  <2>2. Wanted' = Wanted /\ Cached' = Cached
    BY <2>1 DEF Wanted, policy, Cached
  <2> QED
    BY <2>1, <2>2 DEF FetchedInv
<1>5. CASE Reload
  <2>1. poll' = poll /\ poll.pc = "idle"
    BY <1>5 DEF Reload
  <2> QED
    BY <1>1, <2>1
<1>6. CASE PollFailed \/ Crash \/ ApplyRetention
  <2>1. poll' = NoPoll
    BY <1>6 DEF PollFailed, Crash, ApplyRetention
  <2> QED
    BY <1>1, <2>1 DEF NoPoll
<1>7. CASE ListNotModified
  <2>1. \E window : poll' = [NoPoll EXCEPT !.pc = "plan", !.page = Served,
                                          !.window = window]
    BY <1>7 DEF ListNotModified
  <2>2. poll'.pc = "plan"
    BY <2>1 DEF NoPoll
  <2> QED
    BY <1>1, <2>2
<1>8. CASE ListModified
  <2>1. \/ poll' = [NoPoll EXCEPT !.pc = "show", !.page = Served, !.etag = Served]
        \/ poll' = [NoPoll EXCEPT !.pc = "show", !.page = Served]
    BY <1>8 DEF ListModified
  <2>2. poll'.pc = "show"
    BY <2>1 DEF NoPoll
  <2> QED
    BY <1>1, <2>2
<1>9. CASE ShowMeta
  <2>1. \E source : poll' = [poll EXCEPT !.pc = "artwork", !.existing = art,
                                         !.source = source]
    BY <1>9 DEF ShowMeta
  <2>2. poll'.pc = "artwork"
    BY <1>0, <2>1 DEF Poll
  <2> QED
    BY <1>1, <2>2
<1>10. CASE FetchArtwork \/ SetArtworkPath \/ DropOldArtwork \/ SetEtag
  <2>1. \E pc \in {"discover", "artset", "artdrop", "plan"} :
          poll' = [poll EXCEPT !.pc = pc]
    BY <1>10 DEF FetchArtwork, SetArtworkPath, DropOldArtwork, SetEtag, Goto
  <2>2. poll'.pc \in {"discover", "artset", "artdrop", "plan"}
    BY <1>0, <2>1 DEF Poll
  <2> QED
    BY <1>1, <2>2
<1>11. CASE Discover
  <2>1. \E window : poll' = [poll EXCEPT !.pc = "etag", !.window = window]
    BY <1>11 DEF Discover
  <2>2. poll'.pc = "etag"
    BY <1>0, <2>1 DEF Poll
  <2> QED
    BY <1>1, <2>2
<1> QED
  BY <1>2, <1>3, <1>4, <1>5, <1>6, <1>7, <1>8, <1>9, <1>10, <1>11 DEF Next, Step

(* The candidates of apply_retention are the cached rows in the database's *)
(* order, each once.                                                       *)
LEMMA CachedCandidates ==
  ASSUME TypeOK
  PROVE  LET s == NewestFirst(Cached)
             again == Candidates(s)
         IN /\ s \in Seq(Ids) /\ again \in Seq(Candidate(Ids))
            /\ Len(again) = Len(s)
            /\ \A k \in 1..Len(s) : /\ s[k] \in Cached
                                    /\ again[k].id = s[k]
                                    /\ again[k].bytes = bytes_of(s[k])
            /\ \A i \in Cached : \E k \in 1..Len(s) : s[k] = i
            /\ \A j, k \in 1..Len(s) : j < k => Before(s[j], s[k])
            /\ Distinct(again)
<1> DEFINE s == NewestFirst(Cached)
           again == Candidates(s)
           before == [i \in Cached |-> {j \in Cached : Before(j, i)}]
<1>1. Cached \subseteq Ids
  BY DEF Cached
<1>2. Ranked(s, Cached, before)
  BY <1>1, NewestFirstRanked
<1> HIDE DEF s
<1>3. /\ s \in Seq(Cached)
      /\ \A i \in Cached : \E k \in 1..Len(s) : s[k] = i
      /\ \A j, k \in 1..Len(s) : j < k => s[j] \in before[s[k]]
      /\ \A k \in 1..Len(s) : Cardinality(before[s[k]]) = k - 1
  <2> HIDE DEF before
  <2> QED
    BY <1>2 DEF Ranked
<1>4. s \in Seq(Ids) /\ Len(s) \in Nat /\ \A k \in 1..Len(s) : s[k] \in Cached
  BY <1>1, <1>3
<1>5. \A j, k \in 1..Len(s) : j < k => Before(s[j], s[k])
  BY <1>3, <1>4
<1>6. /\ again \in Seq(Candidate(Ids)) /\ Len(again) = Len(s)
      /\ \A k \in 1..Len(s) : again[k] = [id |-> s[k], bytes |-> bytes_of(s[k])]
  BY <1>4, CandidatesType
<1> HIDE DEF again
<1>7. ASSUME NEW k \in 1..Len(s)
      PROVE  again[k].id = s[k] /\ again[k].bytes = bytes_of(s[k])
  <2>1. again[k] = [id |-> s[k], bytes |-> bytes_of(s[k])]
    BY <1>6
  <2> QED
    BY <2>1
<1>8. Distinct(again)
  <2> SUFFICES ASSUME NEW j \in 1..Len(again), NEW k \in 1..Len(again),
                      again[j].id = again[k].id
               PROVE  j = k
    BY DEF Distinct
  <2>1. s[j] = s[k] /\ j \in 1..Len(s) /\ k \in 1..Len(s)
    BY <1>6, <1>7
  <2> HIDE DEF before
  <2>2. j - 1 = k - 1
    BY <1>3, <2>1
  <2> QED
    BY <2>2
<1> QED
  BY <1>3, <1>4, <1>5, <1>6, <1>7, <1>8 DEF again, s

(* When none of the explanations holds, an episode just fetched is kept:   *)
(* what comes before it among the cached ones is in the window before it.  *)
LEMMA FetchedKept ==
  ASSUME TypeOK, WindowInv, FetchedInv, poll.pc = "retain",
         NEW i \in poll.fetched,
         \/ policy.max_bytes = {}
         \/ /\ \A n \in DOMAIN poll.cands :
                 poll.cands[n].bytes = bytes_of(poll.cands[n].id)
            /\ Wanted \subseteq Cached,
         \A m, n \in DOMAIN poll.window :
           m < n => ~Before(poll.window[n], poll.window[m]),
         \A x \in Cached \ ToSet(poll.window) :
           \A j \in ToSet(poll.window) : ~Before(x, j)
  PROVE  i \notin Doomed
<1> DEFINE window == poll.window
           list == poll.cands
           s == NewestFirst(Cached)
           again == Candidates(s)
           kept == Elements(split(policy, list).kept)
<1>1. /\ window \in Seq(Ids) /\ list \in Seq(Candidate(Ids)) /\ Distinct(list)
      /\ Len(list) = Len(window) /\ Len(list) \in Nat
      /\ \A n \in 1..Len(window) : list[n].id = window[n]
      /\ \A m, n \in 1..Len(window) : window[m] = window[n] => m = n
  BY DEF TypeOK, Poll, WindowInv, FetchedInv
<1>2. IsPolicy(policy)
  BY ConfigFacts DEF TypeOK
<1>3. /\ s \in Seq(Ids) /\ again \in Seq(Candidate(Ids))
      /\ Len(again) = Len(s) /\ Distinct(again)
      /\ \A k \in 1..Len(s) : /\ s[k] \in Cached /\ again[k].id = s[k]
                              /\ again[k].bytes = bytes_of(s[k])
      /\ \A x \in Cached : \E k \in 1..Len(s) : s[k] = x
      /\ \A j, k \in 1..Len(s) : j < k => Before(s[j], s[k])
  BY CachedCandidates
<1>4. split(policy, list) \in Accumulator(Ids)
      /\ Partition(split(policy, list), list, Len(list))
  BY <1>1, <1>2, SplitRespectsPolicy
<1>5. Wanted = kept
  <2>1. split(policy, list).kept \in Seq(Ids)
    BY <1>4 DEF Accumulator
  <2> QED
    BY <2>1 DEF Wanted, ToSet, Elements
<1>6. Doomed = Elements(plan(policy, again))
  <2>1. split(policy, again) \in Accumulator(Ids)
    BY <1>2, <1>3, SplitRespectsPolicy
  <2>2. plan(policy, again) \in Seq(Ids)
    BY <2>1 DEF plan, Accumulator
  <2> QED
    BY <2>2 DEF Doomed, ToSet, Elements
<1> HIDE DEF s, again, kept
<1>7. i \in kept /\ i \in Cached
  BY <1>5 DEF FetchedInv
<1>8. kept \subseteq {window[m] : m \in 1..Len(window)}
  BY <1>1, <1>4 DEF kept, Partition
<1>9. PICK n \in 1..Len(window) : window[n] = i
  BY <1>7, <1>8
<1>10. PICK q \in 1..Len(s) : s[q] = i
  BY <1>3, <1>7
<1>11. \A m, k \in 1..Len(window) : m < k => ~Before(window[k], window[m])
  BY <1>1
\* Up to i the cached ones are in the window.
<1>12. ASSUME NEW k \in 1..q PROVE \E m \in 1..Len(window) : window[m] = s[k]
  <2>1. k \in 1..Len(s) /\ s[k] \in Cached
    BY <1>3, <1>10
  <2>2. CASE k = q
    BY <1>9, <1>10, <2>2
  <2>3. CASE k < q
    <3>1. Before(s[k], i)
      BY <1>3, <1>10, <2>1, <2>3
    <3>2. i \in ToSet(window)
      BY <1>1, <1>9 DEF ToSet
    <3>3. s[k] \in ToSet(window)
      BY <2>1, <3>1, <3>2
    <3> QED
      BY <1>1, <3>3 DEF ToSet
  <2> QED
    BY <1>10, <2>2, <2>3
<1> DEFINE at == [k \in 1..q |-> CHOOSE m \in 1..Len(window) : window[m] = s[k]]
<1>13. \A k \in 1..q : at[k] \in 1..Len(window) /\ window[at[k]] = s[k]
  BY <1>12
<1>14. at \in [1..q -> 1..Len(window)]
  <2> DEFINE Place(k) == CHOOSE m \in 1..Len(window) : window[m] = s[k]
  <2>1. \A k \in 1..q : Place(k) \in 1..Len(window)
    BY <1>12
  <2>2. at = [k \in 1..q |-> Place(k)]
    OBVIOUS
  <2> HIDE DEF Place, at
  <2> QED
    BY <2>1, <2>2
<1> HIDE DEF at
<1>15. at[q] = n
  <2>1. q \in 1..q
    BY <1>3, <1>10
  <2> QED
    BY <1>1, <1>9, <1>10, <1>13, <2>1
<1>16. ASSUME NEW j \in 1..q, NEW k \in 1..q, j < k PROVE at[j] < at[k]
  <2>1. j \in 1..Len(s) /\ k \in 1..Len(s)
    BY <1>3, <1>10
  <2>2. Before(window[at[j]], window[at[k]])
    BY <1>3, <1>13, <1>16, <2>1
  <2>3. at[j] # at[k]
    <3>1. s[j] # s[k]
      <4>1. again[j].id # again[k].id
        BY <1>3, <1>16, <2>1 DEF Distinct
      <4> QED
        BY <1>3, <2>1, <4>1
    <3> QED
      BY <1>13, <3>1
  <2>4. ~(at[k] < at[j])
    BY <1>11, <1>13, <2>2
  <2> QED
    BY <1>1, <1>13, <2>3, <2>4
<1>17. Inside(at, q, list)
  BY <1>1, <1>14, <1>16 DEF Inside
<1>18. list[at[q]].id \in kept
  BY <1>1, <1>7, <1>9, <1>15
<1>19. \/ policy.max_bytes = {}
       \/ /\ \A k \in 1..q : again[k] = list[at[k]]
          /\ \A m \in 1..at[q] : list[m].id \in kept => \E k \in 1..q : at[k] = m
  <2> SUFFICES ASSUME \A k \in DOMAIN list : list[k].bytes = bytes_of(list[k].id),
                      Wanted \subseteq Cached
               PROVE  /\ \A k \in 1..q : again[k] = list[at[k]]
                      /\ \A m \in 1..at[q] :
                           list[m].id \in kept => \E k \in 1..q : at[k] = m
    OBVIOUS
  <2>1. ASSUME NEW k \in 1..q PROVE again[k] = list[at[k]]
    <3>1. k \in 1..Len(s) /\ at[k] \in 1..Len(list)
      BY <1>1, <1>3, <1>10, <1>13
    <3>2. again[k] \in Candidate(Ids) /\ list[at[k]] \in Candidate(Ids)
      BY <1>1, <1>3, <3>1
    <3>3. again[k].id = list[at[k]].id
      <4>1. again[k].id = s[k]
        BY <1>3, <3>1
      <4>2. list[at[k]].id = window[at[k]]
        BY <1>1, <3>1
      <4> QED
        BY <1>13, <4>1, <4>2
    <3>4. list[at[k]].bytes = bytes_of(list[at[k]].id)
      BY <1>1, <3>1
    <3>5. again[k].bytes = list[at[k]].bytes
      BY <1>3, <3>1, <3>3, <3>4
    <3> QED
      BY <3>2, <3>3, <3>5 DEF Candidate
  <2>2. ASSUME NEW m \in 1..at[q], list[m].id \in kept
        PROVE  \E k \in 1..q : at[k] = m
    <3>1. m \in 1..Len(window) /\ m <= n /\ n \in Nat
      BY <1>1, <1>15
    <3>2. window[m] \in Cached
      BY <1>1, <1>5, <2>2, <3>1
    <3>3. PICK k \in 1..Len(s) : s[k] = window[m]
      BY <1>3, <3>2
    <3>4. k <= q
      <4>1. ASSUME q < k PROVE FALSE
        <5>1. Before(window[n], window[m])
          BY <1>3, <1>9, <1>10, <3>3, <4>1
        <5>2. CASE m < n
          BY <1>11, <3>1, <5>1, <5>2
        <5>3. CASE m = n
          <6>1. again[q].id = again[k].id
            BY <1>3, <1>9, <1>10, <3>3, <5>3
          <6> QED
            BY <1>3, <1>10, <4>1, <6>1 DEF Distinct
        <5> QED
          BY <3>1, <5>2, <5>3
      <4> QED
        BY <1>3, <1>10, <3>3, <4>1
    <3>5. k \in 1..q
      BY <1>3, <1>10, <3>3, <3>4
    <3>6. at[k] = m
      BY <1>1, <1>13, <3>1, <3>3, <3>5
    <3> QED
      BY <3>5, <3>6
  <2> QED
    BY <2>1, <2>2
<1>20. q \in 1..Len(again)
  BY <1>3
<1>21. again[q].id \notin Elements(plan(policy, again))
  BY <1>1, <1>2, <1>3, <1>17, <1>18, <1>19, <1>20, StillKept DEF kept
<1> QED
  BY <1>3, <1>6, <1>10, <1>21

(* When upstream lists no episode twice, a poll prunes what it has just    *)
(* downloaded only for one of the reasons the plan could not see, for any  *)
(* pages, policies, sizes and failures (Library::sync, apply_retention).   *)
THEOREM NoOtherChurn ==
  ASSUME OncePerPage PROVE Spec => []ChurnExplained
<1>1. TypeOK /\ WindowInv /\ FetchedInv => ChurnExplained
  <2> SUFFICES ASSUME TypeOK, WindowInv, FetchedInv, ~ChurnExplained PROVE FALSE
    OBVIOUS
  <2>1. poll.pc = "retain" /\ poll.fetched \cap Doomed # {}
    BY DEF ChurnExplained
  <2>2. PICK i \in poll.fetched : i \in Doomed
    BY <2>1
  <2>3. /\ \/ policy.max_bytes = {}
           \/ /\ \A n \in DOMAIN poll.cands :
                   poll.cands[n].bytes = bytes_of(poll.cands[n].id)
              /\ Wanted \subseteq Cached
        /\ \A m, n \in DOMAIN poll.window :
             m < n => ~Before(poll.window[n], poll.window[m])
        /\ \A x \in Cached \ ToSet(poll.window) :
             \A j \in ToSet(poll.window) : ~Before(x, j)
    BY DEF ChurnExplained
  <2> QED
    BY <2>1, <2>2, <2>3, FetchedKept
<1> QED
  BY WindowInit, WindowStep, FetchedInit, FetchedStep, TypeCorrect, <1>1, PTL
  DEF Spec

=============================================================================
