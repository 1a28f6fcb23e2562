-------------------------- MODULE RetentionProofs --------------------------
(***************************************************************************)
(* Theorems about retention planning (crates/core/src/retention.rs) for    *)
(* every policy and every list of candidates, and the facts about newest-  *)
(* first sequences that the proofs about its callers need.                 *)
(*                                                                         *)
(* Induction is over sets: to show P for every n, show that {n : P} holds  *)
(* 0 and with n also n + 1.                                                *)
(***************************************************************************)
EXTENDS Retention, FiniteSetTheorems, WellFoundedInduction, TLAPS

-----------------------------------------------------------------------------
(* Natural numbers. *)

(* Every nonempty set of naturals has a least element. *)
LEMMA LeastExists ==
  ASSUME NEW T, T \subseteq Nat, T # {}
  PROVE  \E m \in T : \A n \in T : m <= n
<1> DEFINE R == OpToRel(<, Nat)
<1>1. IsWellFoundedOn(R, Nat)
  BY NatLessThanWellFounded
<1>2. R = {ss \in Nat \X Nat : ss[1] < ss[2]}
  BY DEF OpToRel
<1> HIDE DEF R
<1>3. PICK m \in T : \A y \in T : <<y, m>> \notin R
  BY <1>1, WFMin
<1>4. ASSUME NEW y \in T PROVE m <= y
  <2>1. ~(y < m)
    BY <1>2, <1>3
  <2> QED
    BY <2>1
<1> QED
  BY <1>4

(* Induction up to a bound. *)
LEMMA UpTo ==
  ASSUME NEW N \in Nat, NEW T, 0 \in T,
         \A n \in 0..N : n \in T /\ n + 1 <= N => n + 1 \in T
  PROVE  0..N \subseteq T
<1> DEFINE Bad == 0..N \ T
<1>1. SUFFICES ASSUME Bad # {} PROVE FALSE
  OBVIOUS
<1>2. PICK m \in Bad : \A n \in Bad : m <= n
  <2>1. Bad \subseteq Nat
    OBVIOUS
  <2> HIDE DEF Bad
  <2> QED
    BY <1>1, <2>1, LeastExists
<1>3. m # 0 /\ m \in 0..N
  BY <1>2
<1>4. m - 1 \in 0..N /\ m - 1 \notin Bad
  BY <1>2, <1>3
<1> QED
  BY <1>2, <1>3, <1>4

(* The numbers below a bound. *)
LEMMA Intervals ==
  ASSUME NEW n \in Nat
  PROVE  /\ IsFiniteSet(1..n) /\ Cardinality(1..n) = n
         /\ IsFiniteSet(0..(n - 1)) /\ Cardinality(0..(n - 1)) = n
<1>1. 0 \in Int /\ 1 \in Int /\ n \in Int /\ n - 1 \in Int
  OBVIOUS
<1>2. /\ IsFiniteSet(1..n)
      /\ Cardinality(1..n) = IF 1 > n THEN 0 ELSE n - 1 + 1
  BY <1>1, FS_Interval
<1>3. /\ IsFiniteSet(0..(n - 1))
      /\ Cardinality(0..(n - 1)) = IF 0 > n - 1 THEN 0 ELSE (n - 1) - 0 + 1
  BY <1>1, FS_Interval
<1> QED
  BY <1>2, <1>3

-----------------------------------------------------------------------------
(* Newest-first sequences. *)

\* f lists the set S of numbers, largest first.
Descending(f, n) == \A j, k \in 1..n : j < k => f[j] > f[k]
Lists(f, n, S) == /\ f \in [1..n -> S] /\ Descending(f, n)
                  /\ \A x \in S : \E k \in 1..n : f[k] = x

(* Every finite set of numbers can be listed. *)
LEMMA CanList ==
  ASSUME NEW S, S \subseteq Nat, IsFiniteSet(S)
  PROVE  \E f : Lists(f, Cardinality(S), S)
<1> DEFINE N == Cardinality(S)
           T == {n \in Nat : \A Q \in SUBSET S : Cardinality(Q) = n =>
                               \E f : Lists(f, n, Q)}
<1>1. N \in Nat
  BY FS_CardinalityType
<1>2. \A Q \in SUBSET S : IsFiniteSet(Q) /\ Q \subseteq Nat
  BY FS_Subset
<1>3. 0 \in T
  <2>1. SUFFICES ASSUME NEW Q \in SUBSET S, Cardinality(Q) = 0
                 PROVE  \E f : Lists(f, 0, Q)
    OBVIOUS
  <2>2. Q = {}
    BY <1>2, <2>1, FS_EmptySet
  <2>3. Lists([k \in 1..0 |-> 0], 0, Q)
    BY <2>2 DEF Lists, Descending
  <2> QED
    BY <2>3
<1>4. ASSUME NEW n \in 0..N, n \in T PROVE n + 1 \in T
  <2>1. SUFFICES ASSUME NEW Q \in SUBSET S, Cardinality(Q) = n + 1
                 PROVE  \E f : Lists(f, n + 1, Q)
    OBVIOUS
  <2>2. Q # {}
    BY <1>4, <2>1, FS_EmptySet
  <2>3. PICK x \in Q : \A y \in Q : x <= y
    BY <1>2, <2>2, LeastExists
  <2>4. Cardinality(Q \ {x}) = n
    BY <1>2, <1>4, <2>1, <2>3, FS_RemoveElement
  <2>5. PICK g : Lists(g, n, Q \ {x})
    BY <1>4, <2>4
  <2> DEFINE f == [k \in 1..(n + 1) |-> IF k = n + 1 THEN x ELSE g[k]]
  <2>6. \A k \in 1..n : f[k] = g[k] /\ g[k] \in Q \ {x}
    BY <1>4, <2>5 DEF Lists
  <2>7. f[n + 1] = x
    BY <1>4
  <2>8. f \in [1..(n + 1) -> Q]
    BY <1>4, <2>3, <2>6, <2>7
  <2>9. Descending(f, n + 1)
    <3>1. SUFFICES ASSUME NEW j \in 1..(n + 1), NEW k \in 1..(n + 1), j < k
                   PROVE  f[j] > f[k]
      BY DEF Descending
    <3>2. j \in 1..n
      BY <1>4, <3>1
    <3>3. CASE k = n + 1
      <4>1. g[j] \in Nat /\ x \in Nat /\ g[j] # x /\ x <= g[j]
        BY <1>2, <2>3, <2>6, <3>2
      <4> QED
        BY <2>6, <2>7, <3>2, <3>3, <4>1
    <3>4. CASE k \in 1..n
      BY <2>5, <2>6, <3>1, <3>2, <3>4 DEF Lists, Descending
    <3> QED
      BY <1>4, <3>1, <3>3, <3>4
  <2>10. \A y \in Q : \E k \in 1..(n + 1) : f[k] = y
    <3>1. SUFFICES ASSUME NEW y \in Q, y # x PROVE \E k \in 1..(n + 1) : f[k] = y
      BY <1>4, <2>7
    <3>2. PICK k \in 1..n : g[k] = y
      BY <2>5, <3>1 DEF Lists
    <3> QED
      BY <1>4, <2>6, <3>2
  <2> HIDE DEF f
  <2> QED
    BY <2>8, <2>9, <2>10 DEF Lists
<1>5. 0..N \subseteq T
  <2> HIDE DEF T, N
  <2> QED
    BY <1>1, <1>3, <1>4, UpTo
<1> QED
  BY <1>1, <1>5

(* There is only one way to list a set. *)
LEMMA OneList ==
  ASSUME NEW S, S \subseteq Nat, NEW n \in Nat, NEW f, NEW g,
         Lists(f, n, S), Lists(g, n, S)
  PROVE  f = g
<1> DEFINE Bad == {k \in 1..n : f[k] # g[k]}
<1>1. SUFFICES ASSUME Bad # {} PROVE FALSE
  BY DEF Lists
<1>2. PICK m \in Bad : \A k \in Bad : m <= k
  <2>1. Bad \subseteq Nat
    OBVIOUS
  <2> HIDE DEF Bad
  <2> QED
    BY <1>1, <2>1, LeastExists
<1>3. \A k \in 1..n : k < m => f[k] = g[k]
  BY <1>2
<1>4. m \in 1..n /\ f[m] # g[m] /\ f[m] \in S /\ g[m] \in S
  BY <1>2 DEF Lists
<1>5. \A k \in 1..n : f[k] \in Nat /\ g[k] \in Nat
  BY DEF Lists
<1>6. CASE f[m] > g[m]
  <2>1. PICK k \in 1..n : g[k] = f[m]
    BY <1>4 DEF Lists
  <2>2. CASE k < m
    BY <1>3, <1>4, <1>5, <2>1, <2>2 DEF Lists, Descending
  <2>3. CASE k = m
    BY <1>4, <2>1, <2>3
  <2>4. CASE m < k
    BY <1>4, <1>5, <1>6, <2>1, <2>4 DEF Lists, Descending
  <2> QED
    BY <1>4, <2>2, <2>3, <2>4
<1>7. CASE g[m] > f[m]
  <2>1. PICK k \in 1..n : f[k] = g[m]
    BY <1>4 DEF Lists
  <2>2. CASE k < m
    BY <1>3, <1>4, <1>5, <2>1, <2>2 DEF Lists, Descending
  <2>3. CASE k = m
    BY <1>4, <2>1, <2>3
  <2>4. CASE m < k
    BY <1>4, <1>5, <1>7, <2>1, <2>4 DEF Lists, Descending
  <2> QED
    BY <1>4, <2>2, <2>3, <2>4
<1> QED
  BY <1>4, <1>5, <1>6, <1>7

(* What is listed is counted by its length. *)
LEMMA ListLength ==
  ASSUME NEW S, S \subseteq Nat, NEW n \in Nat, NEW f, Lists(f, n, S)
  PROVE  IsFiniteSet(S) /\ Cardinality(S) = n
<1>1. f \in Bijection(1..n, S)
  <2>1. \A j, k \in 1..n : j # k => f[j] # f[k]
    <3>1. \A k \in 1..n : f[k] \in Nat
      BY DEF Lists
    <3> QED
      BY <3>1 DEF Lists, Descending
  <2> QED
    BY <2>1 DEF Lists, Bijection, Injection, Surjection, IsInjective
<1>2. ExistsBijection(1..n, S)
  BY <1>1 DEF ExistsBijection
<1> QED
  BY <1>2, FS_NatBijection, FS_CountingElements
-----------------------------------------------------------------------------
(* The walk of split, one candidate after another. *)

\* A policy, and what the walk has made of candidates with ids from a set.
IsPolicy(policy) ==
  policy \in [keep_last : SUBSET Nat, max_bytes : SUBSET Nat]
Accumulator(ids) == [kept : Seq(ids), bytes : Nat, doomed : Seq(ids)]

\* The accumulator after each candidate.
IsWalk(w, policy, list, n) ==
  w = [m \in 0..n |-> IF m = 0 THEN Nothing
                      ELSE consider(policy, w[m - 1], list[m])]

(* split is the last accumulator of a walk. *)
LEMMA WalkExists ==
  ASSUME NEW policy, NEW list, Len(list) \in Nat
  PROVE  \E w : /\ IsWalk(w, policy, list, Len(list))
                /\ split(policy, list) = w[Len(list)]
<1> DEFINE N == Len(list)
           T == {n \in Nat : \E w : IsWalk(w, policy, list, n)}
<1>1. 0 \in T
  <2>1. IsWalk([m \in 0..0 |-> Nothing], policy, list, 0)
    BY DEF IsWalk
  <2> QED
    BY <2>1
<1>2. ASSUME NEW n \in 0..N, n \in T PROVE n + 1 \in T
  <2>1. PICK w : IsWalk(w, policy, list, n)
    BY <1>2
  <2> DEFINE v == [m \in 0..(n + 1) |->
                     IF m = n + 1 THEN consider(policy, w[n], list[n + 1])
                     ELSE w[m]]
  <2>2. \A m \in 0..n : v[m] = w[m]
    BY <1>2
  <2>3. \A m \in 0..(n + 1) :
          v[m] = IF m = 0 THEN Nothing ELSE consider(policy, v[m - 1], list[m])
    <3>1. SUFFICES ASSUME NEW m \in 0..(n + 1)
                   PROVE v[m] = IF m = 0 THEN Nothing
                                ELSE consider(policy, v[m - 1], list[m])
      OBVIOUS
    <3>2. CASE m = n + 1
      BY <1>2, <2>2, <3>2
    <3>3. CASE m \in 1..n
      <4>1. w[m] = consider(policy, w[m - 1], list[m])
        BY <2>1, <3>3 DEF IsWalk
      <4>2. v[m] = w[m] /\ v[m - 1] = w[m - 1]
        BY <2>2, <3>3
      <4> QED
        BY <3>3, <4>1, <4>2
    <3>4. CASE m = 0
      BY <1>2, <2>1, <2>2, <3>4 DEF IsWalk
    <3> QED
      BY <1>2, <3>1, <3>2, <3>3, <3>4
  <2>4. DOMAIN v = 0..(n + 1) /\ v = [m \in 0..(n + 1) |-> v[m]]
    OBVIOUS
  <2> HIDE DEF v
  <2>5. IsWalk(v, policy, list, n + 1)
    BY <2>3, <2>4 DEF IsWalk
  <2> QED
    BY <1>2, <2>5
<1>3. N \in T
  <2> HIDE DEF T, N
  <2>1. N \in Nat
    BY DEF N
  <2>2. 0..N \subseteq T
    BY <1>1, <1>2, <2>1, UpTo
  <2> QED
    BY <2>1, <2>2
<1>4. \E w : IsWalk(w, policy, list, Len(list))
  BY <1>3
<1> DEFINE w == CHOOSE f : IsWalk(f, policy, list, Len(list))
<1>5. IsWalk(w, policy, list, Len(list))
  BY <1>4
<1>6. split(policy, list) = w[Len(list)]
  BY DEF split, IsWalk
<1> QED
  BY <1>5, <1>6

(* The equations of a walk. *)
LEMMA WalkEquations ==
  ASSUME NEW policy, NEW list, NEW n \in Nat, NEW w, IsWalk(w, policy, list, n)
  PROVE  /\ w[0] = Nothing
         /\ \A m \in 1..n : w[m] = consider(policy, w[m - 1], list[m])
<1>1. \A m \in 0..n : w[m] = IF m = 0 THEN Nothing
                             ELSE consider(policy, w[m - 1], list[m])
  BY DEF IsWalk
<1>2. \A m \in 1..n : m \in 0..n /\ m # 0
  OBVIOUS
<1> QED
  BY <1>1, <1>2
-----------------------------------------------------------------------------
(* What one candidate changes. *)

Elements(s) == {s[k] : k \in 1..Len(s)}

LEMMA AppendFacts ==
  ASSUME NEW A, NEW s \in Seq(A), NEW x \in A
  PROVE  /\ Append(s, x) \in Seq(A) /\ Len(Append(s, x)) = Len(s) + 1
         /\ \A k \in 1..Len(s) : Append(s, x)[k] = s[k]
         /\ Append(s, x)[Len(s) + 1] = x
         /\ Elements(Append(s, x)) = Elements(s) \cup {x}
<1>1. /\ Append(s, x) \in Seq(A) /\ Len(Append(s, x)) = Len(s) + 1
      /\ \A k \in 1..Len(s) : Append(s, x)[k] = s[k]
      /\ Append(s, x)[Len(s) + 1] = x
  OBVIOUS
<1>2. Len(s) \in Nat
  OBVIOUS
<1>3. Elements(Append(s, x)) = Elements(s) \cup {x}
  <2>1. 1..(Len(s) + 1) = 1..Len(s) \cup {Len(s) + 1}
    BY <1>2
  <2> QED
    BY <1>1, <2>1 DEF Elements
<1> QED
  BY <1>1, <1>3

LEMMA PrependFacts ==
  ASSUME NEW A, NEW s \in Seq(A), NEW x \in A
  PROVE  /\ <<x>> \o s \in Seq(A) /\ Len(<<x>> \o s) = Len(s) + 1
         /\ (<<x>> \o s)[1] = x
         /\ \A k \in 1..Len(s) : (<<x>> \o s)[k + 1] = s[k]
         /\ Elements(<<x>> \o s) = Elements(s) \cup {x}
<1>1. Len(s) \in Nat /\ <<x>> \in Seq(A) /\ Len(<<x>>) = 1
  OBVIOUS
<1>2. <<x>> \o s \in Seq(A) /\ Len(<<x>> \o s) = Len(s) + 1
  BY <1>1
<1>3. (<<x>> \o s)[1] = x /\ \A k \in 1..Len(s) : (<<x>> \o s)[k + 1] = s[k]
  BY <1>1
<1> DEFINE t == <<x>> \o s
<1> HIDE DEF t
<1>4. Elements(t) = Elements(s) \cup {x}
  <2>1. Len(t) = Len(s) + 1 /\ t[1] = x /\ \A k \in 1..Len(s) : t[k + 1] = s[k]
    BY <1>2, <1>3 DEF t
  <2>2. ASSUME NEW k \in 1..Len(t) PROVE t[k] \in Elements(s) \cup {x}
    <3>1. CASE k = 1
      BY <2>1, <3>1
    <3>2. CASE k # 1
      <4>1. k - 1 \in 1..Len(s) /\ t[(k - 1) + 1] = s[k - 1] /\ (k - 1) + 1 = k
        BY <1>1, <2>1, <3>2
      <4> QED
        BY <4>1 DEF Elements
    <3> QED
      BY <3>1, <3>2
  <2>3. ASSUME NEW k \in 1..Len(s) PROVE s[k] \in Elements(t)
    <3>1. k + 1 \in 1..Len(t) /\ t[k + 1] = s[k]
      BY <1>1, <2>1
    <3> QED
      BY <3>1 DEF Elements
  <2>4. x \in Elements(t)
    BY <1>1, <2>1 DEF Elements
  <2> QED
    BY <2>2, <2>3, <2>4 DEF Elements
<1> QED
  BY <1>2, <1>3, <1>4 DEF t

TooMuch(policy, acc, c) == over_count(policy, acc) \/ over_bytes(policy, acc, c)

\* A candidate is rejected, or kept.
Considered(policy, acc, c, r) ==
  \/ /\ TooMuch(policy, acc, c)
     /\ r.kept = acc.kept /\ r.bytes = acc.bytes
     /\ r.doomed = <<c.id>> \o acc.doomed
     /\ Elements(r.doomed) = Elements(acc.doomed) \cup {c.id}
  \/ /\ ~TooMuch(policy, acc, c)
     /\ r.kept = Append(acc.kept, c.id)
     /\ r.bytes = acc.bytes + c.bytes /\ r.doomed = acc.doomed

LEMMA ConsiderFacts ==
  ASSUME NEW ids, NEW policy, NEW acc \in Accumulator(ids),
         NEW c \in Candidate(ids)
  PROVE  /\ consider(policy, acc, c) \in Accumulator(ids)
         /\ Considered(policy, acc, c, consider(policy, acc, c))
<1> DEFINE r == consider(policy, acc, c)
<1>1. /\ acc.kept \in Seq(ids) /\ acc.doomed \in Seq(ids) /\ acc.bytes \in Nat
      /\ c.id \in ids /\ c.bytes \in Nat
  BY DEF Accumulator, Candidate
<1>2. CASE TooMuch(policy, acc, c)
  <2>1. r = [acc EXCEPT !.doomed = <<c.id>> \o acc.doomed]
    BY <1>2 DEF consider, TooMuch
  <2>2. /\ <<c.id>> \o acc.doomed \in Seq(ids)
        /\ Elements(<<c.id>> \o acc.doomed) = Elements(acc.doomed) \cup {c.id}
    BY <1>1, PrependFacts
  <2>3. r.kept = acc.kept /\ r.bytes = acc.bytes /\ r.doomed = <<c.id>> \o acc.doomed
    BY <2>1 DEF Accumulator
  <2>4. r \in Accumulator(ids)
    BY <2>1, <2>2 DEF Accumulator
  <2> HIDE DEF r
  <2>5. Considered(policy, acc, c, r)
    BY <1>2, <2>2, <2>3 DEF Considered
  <2> QED
    BY <2>4, <2>5 DEF r
<1>3. CASE ~TooMuch(policy, acc, c)
  <2>1. r = [acc EXCEPT !.kept = Append(acc.kept, c.id),
                        !.bytes = acc.bytes + c.bytes]
    BY <1>3 DEF consider, TooMuch
  <2>2. Append(acc.kept, c.id) \in Seq(ids) /\ acc.bytes + c.bytes \in Nat
    BY <1>1
  <2>3. /\ r.kept = Append(acc.kept, c.id)
        /\ r.bytes = acc.bytes + c.bytes /\ r.doomed = acc.doomed
    BY <2>1 DEF Accumulator
  <2>4. r \in Accumulator(ids)
    BY <2>1, <2>2 DEF Accumulator
  <2> HIDE DEF r
  <2>5. Considered(policy, acc, c, r)
    BY <1>3, <2>3 DEF Considered
  <2> QED
    BY <2>4, <2>5 DEF r
<1> QED
  BY <1>2, <1>3
-----------------------------------------------------------------------------
(* What the walk has done after n candidates. *)

\* Every candidate is kept or doomed, and the caps of the policy hold.
Partition(acc, list, n) ==
  Elements(acc.kept) \cup Elements(acc.doomed) = {list[m].id : m \in 1..n}
Caps(policy, acc) ==
  /\ \A c \in policy.keep_last : Len(acc.kept) <= c
  /\ \A c \in policy.max_bytes : acc.bytes <= c \/ Len(acc.kept) <= 1

LEMMA WalkFacts ==
  ASSUME NEW ids, NEW policy, IsPolicy(policy), NEW list \in Seq(Candidate(ids)),
         NEW w, IsWalk(w, policy, list, Len(list))
  PROVE  \A n \in 0..Len(list) : /\ w[n] \in Accumulator(ids)
                                 /\ Partition(w[n], list, n)
                                 /\ Caps(policy, w[n])
<1> DEFINE N == Len(list)
           T == {n \in Nat : /\ w[n] \in Accumulator(ids)
                             /\ Partition(w[n], list, n)
                             /\ Caps(policy, w[n])}
<1>1. N \in Nat /\ \A m \in 1..N : list[m] \in Candidate(ids)
  OBVIOUS
<1>2. w[0] = Nothing /\ \A m \in 1..N : w[m] = consider(policy, w[m - 1], list[m])
  BY <1>1, WalkEquations
<1>3. 0 \in T
  <2>1. Nothing \in Accumulator(ids)
    BY DEF Nothing, Accumulator
  <2>2. Partition(Nothing, list, 0)
    BY DEF Partition, Nothing, Elements
  <2>3. Caps(policy, Nothing)
    <3>1. policy.keep_last \subseteq Nat /\ policy.max_bytes \subseteq Nat
      BY DEF IsPolicy
    <3>2. Len(Nothing.kept) = 0 /\ Nothing.bytes = 0
      BY DEF Nothing
    <3> QED
      BY <3>1, <3>2 DEF Caps
  <2> QED
    BY <1>2, <2>1, <2>2, <2>3
<1>4. ASSUME NEW n \in 0..N, n \in T, n + 1 <= N PROVE n + 1 \in T
  <2> DEFINE acc == w[n]
             r == w[n + 1]
             c == list[n + 1]
  <2>1. n + 1 \in 1..N /\ (n + 1) - 1 = n
    BY <1>1, <1>4
  <2>2. r = consider(policy, acc, c) /\ c \in Candidate(ids)
    BY <1>1, <1>2, <2>1
  <2>3. acc \in Accumulator(ids) /\ Partition(acc, list, n) /\ Caps(policy, acc)
    BY <1>4
  <2>4. {list[m].id : m \in 1..(n + 1)} = {list[m].id : m \in 1..n} \cup {c.id}
    <3>1. 1..(n + 1) = 1..n \cup {n + 1}
      BY <1>4
    <3> QED
      BY <3>1
  <2>5. acc.kept \in Seq(ids) /\ c.id \in ids /\ acc.bytes \in Nat /\ c.bytes \in Nat
    BY <2>2, <2>3 DEF Accumulator, Candidate
  <2>6. policy.keep_last \subseteq Nat /\ policy.max_bytes \subseteq Nat
    BY DEF IsPolicy
  <2> HIDE DEF acc, r, c, N
  <2>7. /\ r \in Accumulator(ids)
        /\ Considered(policy, acc, c, r)
    BY <2>2, <2>3, ConsiderFacts
  <2>8. CASE /\ r.kept = acc.kept /\ r.bytes = acc.bytes
             /\ Elements(r.doomed) = Elements(acc.doomed) \cup {c.id}
    <3>1. Partition(r, list, n + 1)
      BY <2>3, <2>4, <2>8 DEF Partition
    <3>2. Caps(policy, r)
      BY <2>3, <2>8 DEF Caps
    <3> QED
      BY <1>4, <2>7, <3>1, <3>2 DEF r
  <2>9. CASE /\ ~TooMuch(policy, acc, c)
             /\ r.kept = Append(acc.kept, c.id)
             /\ r.bytes = acc.bytes + c.bytes /\ r.doomed = acc.doomed
    <3>1. /\ Len(r.kept) = Len(acc.kept) + 1 /\ Len(acc.kept) \in Nat
          /\ Elements(r.kept) = Elements(acc.kept) \cup {c.id}
      BY <2>5, <2>9, AppendFacts
    <3>2. Partition(r, list, n + 1)
      BY <2>3, <2>4, <2>9, <3>1 DEF Partition
    <3>3. \A k \in policy.keep_last : Len(r.kept) <= k
      BY <2>6, <2>9, <3>1 DEF TooMuch, over_count
    <3>4. ASSUME NEW k \in policy.max_bytes PROVE r.bytes <= k \/ Len(r.kept) <= 1
      <4>1. CASE acc.kept = <<>>
        BY <3>1, <4>1
      <4>2. CASE acc.kept # <<>>
        BY <2>5, <2>6, <2>9, <4>2 DEF TooMuch, over_bytes
      <4> QED
        BY <4>1, <4>2
    <3> QED
      BY <1>4, <2>7, <3>2, <3>3, <3>4 DEF r, Caps
  <2> QED
    BY <2>7, <2>8, <2>9 DEF Considered
<1>5. 0..N \subseteq T
  <2> HIDE DEF T, N
  <2> QED
    BY <1>1, <1>3, <1>4, UpTo
<1> QED
  BY <1>5

(* Every candidate of the list is kept or doomed; at most keep_last are    *)
(* kept, and their bytes stay below max_bytes unless only the newest is    *)
(* kept (retention.rs, the loop of plan).                                  *)
THEOREM SplitRespectsPolicy ==
  ASSUME NEW ids, NEW policy, IsPolicy(policy), NEW list \in Seq(Candidate(ids))
  PROVE  /\ split(policy, list) \in Accumulator(ids)
         /\ Partition(split(policy, list), list, Len(list))
         /\ Caps(policy, split(policy, list))
<1>1. Len(list) \in Nat
  OBVIOUS
<1>2. PICK w : /\ IsWalk(w, policy, list, Len(list))
               /\ split(policy, list) = w[Len(list)]
  BY <1>1, WalkExists
<1>3. Len(list) \in 0..Len(list)
  BY <1>1
<1> QED
  BY <1>2, <1>3, WalkFacts
-----------------------------------------------------------------------------
(* The order of what is kept. *)

\* The candidates are listed newest first.
NewestIdFirst(list) == \A j, k \in 1..Len(list) : j < k => list[j].id > list[k].id

LEMMA WalkOrder ==
  ASSUME NEW ids, ids \subseteq Nat, NEW policy, IsPolicy(policy),
         NEW list \in Seq(Candidate(ids)), NewestIdFirst(list),
         NEW w, IsWalk(w, policy, list, Len(list))
  PROVE  \A n \in 0..Len(list) : /\ Descending(w[n].kept, Len(w[n].kept))
                                 /\ Elements(w[n].kept) \cap Elements(w[n].doomed) = {}
<1> DEFINE N == Len(list)
           T == {n \in Nat : /\ Descending(w[n].kept, Len(w[n].kept))
                             /\ Elements(w[n].kept) \cap Elements(w[n].doomed) = {}}
<1>1. N \in Nat /\ \A m \in 1..N : list[m] \in Candidate(ids)
  OBVIOUS
<1>2. w[0] = Nothing /\ \A m \in 1..N : w[m] = consider(policy, w[m - 1], list[m])
  BY <1>1, WalkEquations
<1>3. 0 \in T
  <2>1. Len(Nothing.kept) = 0 /\ Len(Nothing.doomed) = 0
    BY DEF Nothing
  <2> QED
    BY <1>2, <2>1 DEF Descending, Elements
<1>4. ASSUME NEW n \in 0..N, n \in T, n + 1 <= N PROVE n + 1 \in T
  <2> DEFINE acc == w[n]
             r == w[n + 1]
             c == list[n + 1]
  <2>1. n + 1 \in 1..N /\ (n + 1) - 1 = n
    BY <1>1, <1>4
  <2>2. r = consider(policy, acc, c) /\ c \in Candidate(ids)
    BY <1>1, <1>2, <2>1
  <2>3. acc \in Accumulator(ids) /\ Partition(acc, list, n)
    BY <1>4, WalkFacts
  <2>4. \A m \in 1..n : list[m].id > c.id
    BY <1>1, <1>4, <2>1 DEF NewestIdFirst
  <2>5. acc.kept \in Seq(ids) /\ c.id \in ids /\ Len(acc.kept) \in Nat
    BY <2>2, <2>3 DEF Accumulator, Candidate
  <2>6. c.id \notin Elements(acc.kept) /\ c.id \notin Elements(acc.doomed)
        /\ \A x \in Elements(acc.kept) : x > c.id
    <3> DEFINE earlier == {list[m].id : m \in 1..n}
    <3>1. \A x \in earlier : x > c.id
      BY <2>4
    <3>2. c.id \in Nat
      BY <2>5
    <3>3. Elements(acc.kept) \subseteq earlier /\ Elements(acc.doomed) \subseteq earlier
      BY <2>3 DEF Partition
    <3> HIDE DEF earlier, acc, c
    <3>4. c.id \notin earlier
      BY <3>1, <3>2
    <3> QED
      BY <3>1, <3>3, <3>4
  <2>7. /\ Descending(acc.kept, Len(acc.kept))
        /\ Elements(acc.kept) \cap Elements(acc.doomed) = {}
    BY <1>4
  <2> HIDE DEF acc, r, c, N
  <2>8. /\ r \in Accumulator(ids)
        /\ Considered(policy, acc, c, r)
    BY <2>2, <2>3, ConsiderFacts
  <2>9. CASE /\ r.kept = acc.kept
             /\ Elements(r.doomed) = Elements(acc.doomed) \cup {c.id}
    BY <1>4, <2>6, <2>7, <2>9 DEF r
  <2>10. CASE r.kept = Append(acc.kept, c.id) /\ r.doomed = acc.doomed
    <3>1. /\ Len(r.kept) = Len(acc.kept) + 1
          /\ \A k \in 1..Len(acc.kept) : r.kept[k] = acc.kept[k]
          /\ r.kept[Len(acc.kept) + 1] = c.id
          /\ Elements(r.kept) = Elements(acc.kept) \cup {c.id}
      BY <2>5, <2>10, AppendFacts
    <3>2. \A k \in 1..Len(acc.kept) : acc.kept[k] > c.id
      BY <2>6 DEF Elements
    <3>3. Descending(r.kept, Len(r.kept))
      <4>1. SUFFICES ASSUME NEW j \in 1..Len(r.kept), NEW k \in 1..Len(r.kept), j < k
                     PROVE  r.kept[j] > r.kept[k]
        BY DEF Descending
      <4>2. j \in 1..Len(acc.kept) /\ r.kept[j] = acc.kept[j]
        BY <2>5, <3>1, <4>1
      <4>3. CASE k = Len(acc.kept) + 1
        BY <3>1, <3>2, <4>2, <4>3
      <4>4. CASE k \in 1..Len(acc.kept)
        BY <2>7, <3>1, <4>1, <4>2, <4>4 DEF Descending
      <4> QED
        BY <2>5, <3>1, <4>1, <4>3, <4>4
    <3>4. Elements(r.kept) \cap Elements(r.doomed) = {}
      BY <2>6, <2>7, <2>10, <3>1
    <3> QED
      BY <1>4, <3>3, <3>4 DEF r
  <2> QED
    BY <2>8, <2>9, <2>10 DEF Considered
<1>5. 0..N \subseteq T
  <2> HIDE DEF T, N
  <2> QED
    BY <1>1, <1>3, <1>4, UpTo
<1> QED
  BY <1>5

(* What was kept stays kept, in its place. *)
LEMMA WalkExtends ==
  ASSUME NEW ids, NEW policy, IsPolicy(policy), NEW list \in Seq(Candidate(ids)),
         NEW w, IsWalk(w, policy, list, Len(list)), NEW m \in 0..Len(list)
  PROVE  \A n \in 0..Len(list) : m <= n =>
           /\ Len(w[m].kept) <= Len(w[n].kept)
           /\ \A k \in 1..Len(w[m].kept) : w[n].kept[k] = w[m].kept[k]
<1> DEFINE N == Len(list)
           T == {n \in Nat : m <= n =>
                   /\ Len(w[m].kept) <= Len(w[n].kept)
                   /\ \A k \in 1..Len(w[m].kept) : w[n].kept[k] = w[m].kept[k]}
<1>1. N \in Nat /\ \A n \in 1..N : list[n] \in Candidate(ids)
  OBVIOUS
<1>2. \A n \in 1..N : w[n] = consider(policy, w[n - 1], list[n])
  BY <1>1, WalkEquations
<1>3. \A n \in 0..N : w[n] \in Accumulator(ids) /\ w[n].kept \in Seq(ids)
                      /\ Len(w[n].kept) \in Nat
  <2>1. \A n \in 0..N : w[n] \in Accumulator(ids)
    BY WalkFacts
  <2> QED
    BY <2>1 DEF Accumulator
<1>4. 0 \in T
  BY <1>3
<1>5. ASSUME NEW n \in 0..N, n \in T, n + 1 <= N PROVE n + 1 \in T
  <2>1. CASE m = n + 1
    BY <1>3, <1>5, <2>1
  <2>2. CASE m <= n
    <3> DEFINE acc == w[n]
               r == w[n + 1]
               c == list[n + 1]
    <3>1. n + 1 \in 1..N /\ (n + 1) - 1 = n
      BY <1>1, <1>5
    <3>2. r = consider(policy, acc, c) /\ c \in Candidate(ids)
      BY <1>1, <1>2, <3>1
    <3>3. acc \in Accumulator(ids) /\ acc.kept \in Seq(ids) /\ Len(acc.kept) \in Nat
          /\ c.id \in ids
      BY <1>3, <3>2 DEF Candidate
    <3>4. /\ Len(w[m].kept) <= Len(acc.kept) /\ Len(w[m].kept) \in Nat
          /\ \A k \in 1..Len(w[m].kept) : acc.kept[k] = w[m].kept[k]
      BY <1>3, <1>5, <2>2
    <3> HIDE DEF acc, r, c, N
    <3>5. r.kept = acc.kept \/ r.kept = Append(acc.kept, c.id)
      <4>1. Considered(policy, acc, c, r)
        BY <3>2, <3>3, ConsiderFacts
      <4> QED
        BY <4>1 DEF Considered
    <3>6. /\ Len(acc.kept) <= Len(r.kept)
          /\ \A k \in 1..Len(acc.kept) : r.kept[k] = acc.kept[k]
      BY <3>3, <3>5, AppendFacts
    <3>7. Len(r.kept) \in Nat
      BY <3>3, <3>5, AppendFacts
    <3>8. 1..Len(w[m].kept) \subseteq 1..Len(acc.kept)
      BY <3>3, <3>4
    <3>9. /\ Len(w[m].kept) <= Len(r.kept)
          /\ \A k \in 1..Len(w[m].kept) : r.kept[k] = w[m].kept[k]
      <4>1. Len(w[m].kept) <= Len(r.kept)
        BY <3>3, <3>4, <3>6, <3>7
      <4>2. \A k \in 1..Len(w[m].kept) : r.kept[k] = w[m].kept[k]
        BY <3>4, <3>6, <3>8
      <4> QED
        BY <4>1, <4>2
    <3> QED
      BY <1>5, <3>9 DEF r
  <2> QED
    BY <1>1, <1>5, <2>1, <2>2
<1>6. 0..N \subseteq T
  <2> HIDE DEF T, N
  <2> QED
    BY <1>1, <1>4, <1>5, UpTo
<1> QED
  BY <1>6
(* What is kept of a newest-first list is newest first, and not doomed. *)
LEMMA SplitOrder ==
  ASSUME NEW ids, ids \subseteq Nat, NEW policy, IsPolicy(policy),
         NEW list \in Seq(Candidate(ids)), NewestIdFirst(list)
  PROVE  LET kept == split(policy, list).kept
         IN /\ Descending(kept, Len(kept))
            /\ Elements(kept) \cap Elements(split(policy, list).doomed) = {}
<1>1. Len(list) \in Nat /\ Len(list) \in 0..Len(list)
  OBVIOUS
<1>2. PICK w : /\ IsWalk(w, policy, list, Len(list))
               /\ split(policy, list) = w[Len(list)]
  BY <1>1, WalkExists
<1> QED
  BY <1>1, <1>2, WalkOrder

(* Retention applied again to what it kept prunes nothing: a poll after a  *)
(* poll leaves the feed alone (lib.rs, apply_retention after the plan).    *)
THEOREM KeptIsStable ==
  ASSUME NEW ids, NEW policy, IsPolicy(policy),
         NEW list \in Seq(Candidate(ids)), NEW again \in Seq(Candidate(ids)),
         Len(again) = Len(split(policy, list).kept),
         \A m \in 1..Len(again), n \in 1..Len(list) :
           list[n].id = split(policy, list).kept[m] => again[m] = list[n]
  PROVE  plan(policy, again) = <<>>
<1> DEFINE N == Len(list)
           M == Len(again)
<1>1. N \in Nat /\ M \in Nat /\ \A n \in 1..N : list[n] \in Candidate(ids)
  OBVIOUS
<1>2. PICK w : IsWalk(w, policy, list, N) /\ split(policy, list) = w[N]
  BY <1>1, WalkExists
<1>3. PICK v : IsWalk(v, policy, again, M) /\ split(policy, again) = v[M]
  BY <1>1, WalkExists
<1>4. /\ w[0] = Nothing /\ v[0] = Nothing
      /\ \A n \in 1..N : w[n] = consider(policy, w[n - 1], list[n])
      /\ \A m \in 1..M : v[m] = consider(policy, v[m - 1], again[m])
  BY <1>1, <1>2, <1>3, WalkEquations
<1>5. /\ \A n \in 0..N : w[n] \in Accumulator(ids)
      /\ \A m \in 0..M : v[m] \in Accumulator(ids)
  BY <1>2, <1>3, WalkFacts
<1>6. \A n \in 0..N : /\ Len(w[n].kept) <= M
                      /\ \A k \in 1..Len(w[n].kept) : w[N].kept[k] = w[n].kept[k]
  <2> SUFFICES ASSUME NEW n \in 0..N
               PROVE  /\ Len(w[n].kept) <= M
                      /\ \A k \in 1..Len(w[n].kept) : w[N].kept[k] = w[n].kept[k]
    OBVIOUS
  <2>1. N \in 0..N /\ n <= N
    BY <1>1
  <2> QED
    BY <1>2, <2>1, WalkExtends
<1> DEFINE T == {n \in Nat : /\ v[Len(w[n].kept)].kept = w[n].kept
                             /\ v[Len(w[n].kept)].bytes = w[n].bytes
                             /\ v[Len(w[n].kept)].doomed = <<>>}
<1>7. 0 \in T
  <2>1. Len(Nothing.kept) = 0 /\ Nothing.doomed = <<>>
    BY DEF Nothing
  <2> QED
    BY <1>4, <2>1
<1>8. ASSUME NEW n \in 0..N, n \in T, n + 1 <= N PROVE n + 1 \in T
  <2> DEFINE acc == w[n]
             r == w[n + 1]
             c == list[n + 1]
             L == Len(acc.kept)
             u == v[L]
  <2>1. n + 1 \in 1..N /\ (n + 1) - 1 = n /\ n + 1 \in 0..N
    BY <1>1, <1>8
  <2>2. r = consider(policy, acc, c) /\ c \in Candidate(ids)
    BY <1>1, <1>4, <2>1
  <2>3. acc \in Accumulator(ids) /\ acc.kept \in Seq(ids) /\ L \in Nat /\ c.id \in ids
    BY <1>5, <2>2 DEF Accumulator, Candidate
  <2>4. u.kept = acc.kept /\ u.bytes = acc.bytes /\ u.doomed = <<>>
    BY <1>8
  <2>5. Considered(policy, acc, c, r)
    <3> HIDE DEF acc, r, c
    <3> QED
      BY <2>2, <2>3, ConsiderFacts
  <2>6. CASE r.kept = acc.kept /\ r.bytes = acc.bytes
    BY <1>8, <2>4, <2>6
  <2>7. CASE /\ ~TooMuch(policy, acc, c) /\ r.kept = Append(acc.kept, c.id)
             /\ r.bytes = acc.bytes + c.bytes
    <3>1. Len(r.kept) = L + 1 /\ r.kept[L + 1] = c.id
      BY <2>3, <2>7
    <3>2. L + 1 \in 1..M /\ L \in 0..M /\ (L + 1) - 1 = L
      BY <1>1, <1>6, <2>1, <2>3, <3>1
    <3>3. w[N].kept[L + 1] = c.id
      <4>1. \A k \in 1..Len(r.kept) : w[N].kept[k] = r.kept[k]
        BY <1>6, <2>1
      <4> HIDE DEF acc, r, c, L, N
      <4>2. L + 1 \in 1..Len(r.kept)
        BY <2>3, <3>1
      <4> QED
        BY <3>1, <4>1, <4>2
    <3>4. again[L + 1] = c
      BY <1>2, <2>1, <3>2, <3>3
    <3>5. v[L + 1] = consider(policy, u, c) /\ u \in Accumulator(ids)
      BY <1>4, <1>5, <3>2, <3>4
    <3>6. ~TooMuch(policy, u, c)
      BY <2>4, <2>7 DEF TooMuch, over_count, over_bytes
    <3>7. Considered(policy, u, c, v[L + 1])
      <4> HIDE DEF acc, r, c, L, u
      <4> QED
        BY <2>2, <3>5, ConsiderFacts
    <3>8. /\ v[L + 1].kept = r.kept /\ v[L + 1].bytes = r.bytes
          /\ v[L + 1].doomed = <<>>
      <4> HIDE DEF acc, r, c, L, u
      <4> QED
        BY <2>4, <2>7, <3>6, <3>7 DEF Considered
    <3>9. /\ v[Len(r.kept)].kept = r.kept /\ v[Len(r.kept)].bytes = r.bytes
          /\ v[Len(r.kept)].doomed = <<>>
      BY <3>1, <3>8
    <3> QED
      BY <1>8, <3>9
  <2> QED
    BY <2>5, <2>6, <2>7 DEF Considered
<1>9. 0..N \subseteq T
  <2> HIDE DEF T, N
  <2> QED
    BY <1>1, <1>7, <1>8, UpTo
<1>10. v[M].doomed = <<>>
  BY <1>1, <1>2, <1>9
<1> QED
  BY <1>3, <1>10 DEF plan

-----------------------------------------------------------------------------
(* The walk makes the greedy choice. *)

\* No episode is listed twice.
Distinct(list) == \A j, k \in 1..Len(list) : list[j].id = list[k].id => j = k

\* The places of the kept ones among the first n candidates, and of the others.
KeptPlaces(w, policy, list, n) ==
  {m \in 1..n : ~TooMuch(policy, w[m - 1], list[m])}
OtherPlaces(w, policy, list, n) == (1..n) \ KeptPlaces(w, policy, list, n)

(* One more candidate. *)
LEMMA PlacesStep ==
  ASSUME NEW w, NEW policy, NEW list, NEW n \in Nat
  PROVE  /\ TooMuch(policy, w[n], list[n + 1]) =>
              /\ KeptPlaces(w, policy, list, n + 1) = KeptPlaces(w, policy, list, n)
              /\ OtherPlaces(w, policy, list, n + 1)
                   = OtherPlaces(w, policy, list, n) \cup {n + 1}
         /\ ~TooMuch(policy, w[n], list[n + 1]) =>
              /\ KeptPlaces(w, policy, list, n + 1)
                   = KeptPlaces(w, policy, list, n) \cup {n + 1}
              /\ OtherPlaces(w, policy, list, n + 1) = OtherPlaces(w, policy, list, n)
<1>1. 1..(n + 1) = (1..n) \cup {n + 1} /\ n + 1 \notin 1..n /\ (n + 1) - 1 = n
  OBVIOUS
<1>2. KeptPlaces(w, policy, list, n + 1) =
        {m \in (1..n) \cup {n + 1} : ~TooMuch(policy, w[m - 1], list[m])}
  BY <1>1 DEF KeptPlaces
<1>3. ASSUME TooMuch(policy, w[n], list[n + 1])
      PROVE  KeptPlaces(w, policy, list, n + 1) = KeptPlaces(w, policy, list, n)
  BY <1>1, <1>2, <1>3 DEF KeptPlaces
<1>4. ASSUME ~TooMuch(policy, w[n], list[n + 1])
      PROVE  KeptPlaces(w, policy, list, n + 1)
               = KeptPlaces(w, policy, list, n) \cup {n + 1}
  BY <1>1, <1>2, <1>4 DEF KeptPlaces
<1>5. n + 1 \notin KeptPlaces(w, policy, list, n)
  BY <1>1 DEF KeptPlaces
<1> QED
  BY <1>1, <1>3, <1>4, <1>5 DEF OtherPlaces

\* The accumulator holds the ids at some places, and as many.
Holds(acc, list, places) ==
  /\ IsFiniteSet(places) /\ Cardinality(places) = Len(acc.kept)
  /\ Elements(acc.kept) = {list[m].id : m \in places}

(* The accumulator holds the ids at the kept places, and counts them. *)
LEMMA WalkCounts ==
  ASSUME NEW ids, NEW policy, IsPolicy(policy), NEW list \in Seq(Candidate(ids)),
         NEW w, IsWalk(w, policy, list, Len(list))
  PROVE  \A n \in 0..Len(list) :
           Holds(w[n], list, KeptPlaces(w, policy, list, n))
<1> DEFINE N == Len(list)
           K(n) == KeptPlaces(w, policy, list, n)
           T == {n \in Nat : /\ IsFiniteSet(K(n)) /\ Cardinality(K(n)) = Len(w[n].kept)
                             /\ Elements(w[n].kept) = {list[m].id : m \in K(n)}}
<1>1. N \in Nat /\ \A m \in 1..N : list[m] \in Candidate(ids)
  OBVIOUS
<1>2. w[0] = Nothing /\ \A m \in 1..N : w[m] = consider(policy, w[m - 1], list[m])
  BY <1>1, WalkEquations
<1>3. 0 \in T
  <2>1. K(0) = {} /\ Len(Nothing.kept) = 0
    BY DEF KeptPlaces, Nothing
  <2>2. IsFiniteSet(K(0)) /\ Cardinality(K(0)) = 0
    BY <2>1, FS_EmptySet
  <2>3. Elements(w[0].kept) = {}
    BY <1>2, <2>1 DEF Elements
  <2> HIDE DEF K
  <2> QED
    BY <1>2, <2>1, <2>2, <2>3
<1>4. ASSUME NEW n \in 0..N, n \in T, n + 1 <= N PROVE n + 1 \in T
  <2> DEFINE acc == w[n]
             r == w[n + 1]
             c == list[n + 1]
  <2>1. n + 1 \in 1..N /\ (n + 1) - 1 = n /\ n \in Nat
    BY <1>1, <1>4
  <2>2. r = consider(policy, acc, c) /\ c \in Candidate(ids)
    BY <1>1, <1>2, <2>1
  <2>3. acc \in Accumulator(ids) /\ acc.kept \in Seq(ids) /\ c.id \in ids
    <3>1. acc \in Accumulator(ids)
      BY <1>4, WalkFacts
    <3> QED
      BY <2>2, <3>1 DEF Accumulator, Candidate
  <2>4. /\ IsFiniteSet(K(n)) /\ Cardinality(K(n)) = Len(acc.kept)
        /\ Elements(acc.kept) = {list[m].id : m \in K(n)}
    BY <1>4
  <2>5. Considered(policy, acc, c, r)
    <3> HIDE DEF acc, r, c
    <3> QED
      BY <2>2, <2>3, ConsiderFacts
  <2>6. CASE TooMuch(policy, acc, c)
    <3>1. r.kept = acc.kept
      BY <2>5, <2>6 DEF Considered
    <3>2. K(n + 1) = K(n)
      BY <2>1, <2>6, PlacesStep
    <3> HIDE DEF K
    <3> QED
      BY <2>1, <2>4, <3>1, <3>2
  <2>7. CASE ~TooMuch(policy, acc, c)
    <3>1. r.kept = Append(acc.kept, c.id)
      BY <2>5, <2>7 DEF Considered
    <3>2. K(n + 1) = K(n) \cup {n + 1}
      BY <2>1, <2>7, PlacesStep
    <3>3. n + 1 \notin K(n)
      BY <2>1 DEF KeptPlaces
    <3> HIDE DEF K
    <3>4. IsFiniteSet(K(n + 1)) /\ Cardinality(K(n + 1)) = Cardinality(K(n)) + 1
      <4>1. IsFiniteSet(K(n))
        BY <2>4
      <4>2. /\ IsFiniteSet(K(n) \cup {n + 1})
            /\ Cardinality(K(n) \cup {n + 1}) = Cardinality(K(n)) + 1
        BY <3>3, <4>1, FS_AddElement
      <4> QED
        BY <3>2, <4>2
    <3>5. /\ Len(r.kept) = Len(acc.kept) + 1
          /\ Elements(r.kept) = Elements(acc.kept) \cup {c.id}
      <4> HIDE DEF acc, r, c
      <4> QED
        BY <2>3, <3>1, AppendFacts
    <3>6. {list[m].id : m \in K(n) \cup {n + 1}}
            = {list[m].id : m \in K(n)} \cup {list[n + 1].id}
      OBVIOUS
    <3>7. Elements(r.kept) = {list[m].id : m \in K(n + 1)}
      BY <2>4, <3>2, <3>5, <3>6
    <3> QED
      BY <2>1, <2>4, <3>4, <3>5, <3>7
  <2> QED
    BY <2>6, <2>7
<1>5. 0..N \subseteq T
  <2> HIDE DEF T, N
  <2> QED
    BY <1>1, <1>3, <1>4, UpTo
<1> QED
  BY <1>5 DEF Holds

(* The doomed are the ids at the other places, last place first. *)
LEMMA WalkDoomed ==
  ASSUME NEW ids, NEW policy, IsPolicy(policy), NEW list \in Seq(Candidate(ids)),
         NEW w, IsWalk(w, policy, list, Len(list))
  PROVE  \A n \in 0..Len(list) :
           \E f : /\ Lists(f, Len(w[n].doomed), OtherPlaces(w, policy, list, n))
                  /\ \A k \in 1..Len(w[n].doomed) : w[n].doomed[k] = list[f[k]].id
<1> DEFINE N == Len(list)
           O(n) == OtherPlaces(w, policy, list, n)
           T == {n \in Nat :
                   \E f : /\ Lists(f, Len(w[n].doomed), O(n))
                          /\ \A k \in 1..Len(w[n].doomed) :
                               w[n].doomed[k] = list[f[k]].id}
<1>1. N \in Nat /\ \A m \in 1..N : list[m] \in Candidate(ids)
  OBVIOUS
<1>2. w[0] = Nothing /\ \A m \in 1..N : w[m] = consider(policy, w[m - 1], list[m])
  BY <1>1, WalkEquations
<1>3. 0 \in T
  <2>1. O(0) = {} /\ Len(w[0].doomed) = 0
    BY <1>2 DEF OtherPlaces, Nothing
  <2> DEFINE f == [k \in 1..0 |-> 0]
  <2>2. Lists(f, 0, {}) /\ \A k \in 1..0 : w[0].doomed[k] = list[f[k]].id
    BY DEF Lists, Descending
  <2> HIDE DEF O, f
  <2>3. /\ Lists(f, Len(w[0].doomed), O(0))
        /\ \A k \in 1..Len(w[0].doomed) : w[0].doomed[k] = list[f[k]].id
    BY <2>1, <2>2
  <2> QED
    BY <2>3
<1>4. ASSUME NEW n \in 0..N, n \in T, n + 1 <= N PROVE n + 1 \in T
  <2> DEFINE acc == w[n]
             r == w[n + 1]
             c == list[n + 1]
             L == Len(acc.doomed)
  <2>1. n + 1 \in 1..N /\ (n + 1) - 1 = n /\ n \in Nat
    BY <1>1, <1>4
  <2>2. r = consider(policy, acc, c) /\ c \in Candidate(ids)
    BY <1>1, <1>2, <2>1
  <2>3. /\ acc \in Accumulator(ids) /\ acc.doomed \in Seq(ids) /\ c.id \in ids
        /\ L \in Nat
    <3>1. acc \in Accumulator(ids)
      BY <1>4, WalkFacts
    <3> QED
      BY <2>2, <3>1 DEF Accumulator, Candidate
  <2>4. PICK f : /\ Lists(f, L, O(n))
                 /\ \A k \in 1..L : acc.doomed[k] = list[f[k]].id
    <3> HIDE DEF O
    <3>1. \E f : /\ Lists(f, Len(w[n].doomed), O(n))
                 /\ \A k \in 1..Len(w[n].doomed) :
                      w[n].doomed[k] = list[f[k]].id
      BY <1>4, Zenon
    <3> QED
      BY <3>1, Zenon
  <2>5. Considered(policy, acc, c, r)
    <3> HIDE DEF acc, r, c
    <3> QED
      BY <2>2, <2>3, ConsiderFacts
  <2>6. CASE ~TooMuch(policy, acc, c)
    <3>1. r.doomed = acc.doomed
      BY <2>5, <2>6 DEF Considered
    <3>2. O(n + 1) = O(n)
      BY <2>1, <2>6, PlacesStep
    <3> HIDE DEF O
    <3> QED
      BY <2>1, <2>4, <3>1, <3>2
  <2>7. CASE TooMuch(policy, acc, c)
    <3>1. r.doomed = <<c.id>> \o acc.doomed
      BY <2>5, <2>7 DEF Considered
    <3>2. O(n + 1) = O(n) \cup {n + 1}
      BY <2>1, <2>7, PlacesStep
    <3>3. O(n) \subseteq 1..n
      BY DEF OtherPlaces
    <3>4. /\ Len(r.doomed) = L + 1 /\ r.doomed[1] = c.id
          /\ \A k \in 1..L : r.doomed[k + 1] = acc.doomed[k]
      <4> HIDE DEF acc, r, c
      <4> QED
        BY <2>3, <3>1, PrependFacts DEF L
    <3> HIDE DEF O, L
    <3> DEFINE g == [k \in 1..(L + 1) |-> IF k = 1 THEN n + 1 ELSE f[k - 1]]
    <3>5. /\ g[1] = n + 1
          /\ \A k \in 1..L : g[k + 1] = f[k] /\ f[k] \in O(n) /\ f[k] \in 1..n
      BY <2>3, <2>4, <3>3 DEF Lists
    <3>6. DOMAIN g = 1..(L + 1) /\ g = [k \in 1..(L + 1) |-> g[k]]
      OBVIOUS
    <3> HIDE DEF g
    <3>7. ASSUME NEW k \in 1..(L + 1), k # 1
          PROVE  k - 1 \in 1..L /\ (k - 1) + 1 = k
      BY <2>3, <3>7
    <3>8. ASSUME NEW k \in 1..(L + 1)
          PROVE  /\ g[k] \in O(n + 1) /\ r.doomed[k] = list[g[k]].id
      <4>1. CASE k = 1
        BY <3>2, <3>4, <3>5, <4>1
      <4>2. CASE k # 1
        <5>1. k - 1 \in 1..L /\ (k - 1) + 1 = k
          BY <3>7, <4>2
        <5>2. g[k] = f[k - 1] /\ f[k - 1] \in O(n)
              /\ r.doomed[k] = acc.doomed[k - 1]
          BY <3>4, <3>5, <5>1
        <5> QED
          BY <2>4, <3>2, <5>1, <5>2
      <4> QED
        BY <4>1, <4>2
    <3>9. Descending(g, L + 1)
      <4> SUFFICES ASSUME NEW j \in 1..(L + 1), NEW k \in 1..(L + 1), j < k
                   PROVE  g[j] > g[k]
        BY DEF Descending
      <4>1. k # 1 /\ k - 1 \in 1..L /\ (k - 1) + 1 = k
        BY <2>3
      <4>2. g[k] = f[k - 1] /\ f[k - 1] \in 1..n
        BY <3>5, <4>1
      <4>3. CASE j = 1
        BY <2>1, <3>5, <4>2, <4>3
      <4>4. CASE j # 1
        <5>1. j - 1 \in 1..L /\ (j - 1) + 1 = j /\ j - 1 < k - 1
          BY <2>3, <4>4
        <5>2. g[j] = f[j - 1]
          BY <3>5, <5>1
        <5>3. f[j - 1] > f[k - 1]
          BY <2>4, <4>1, <5>1 DEF Lists, Descending
        <5> QED
          BY <4>2, <5>2, <5>3
      <4> QED
        BY <4>3, <4>4
    <3>10. ASSUME NEW x \in O(n + 1) PROVE \E k \in 1..(L + 1) : g[k] = x
      <4>1. CASE x = n + 1
        <5>1. 1 \in 1..(L + 1)
          BY <2>3
        <5> QED
          BY <3>5, <4>1, <5>1
      <4>2. CASE x \in O(n)
        <5>1. PICK k \in 1..L : f[k] = x
          BY <2>4, <4>2 DEF Lists
        <5>2. k + 1 \in 1..(L + 1) /\ g[k + 1] = x
          BY <2>3, <3>5, <5>1
        <5> QED
          BY <5>2
      <4> QED
        BY <3>2, <3>10, <4>1, <4>2
    <3>11. Lists(g, L + 1, O(n + 1))
      BY <3>6, <3>8, <3>9, <3>10 DEF Lists
    <3> QED
      BY <2>1, <3>4, <3>8, <3>11
  <2> QED
    BY <2>6, <2>7
<1>5. 0..N \subseteq T
  <2> HIDE DEF T, N
  <2> QED
    BY <1>1, <1>3, <1>4, UpTo
<1> QED
  BY <1>5

\* The running totals of the reference.
IsSum(s, list, kept) ==
  s = [m \in 0..Len(list) |->
         IF m = 0 THEN 0
         ELSE s[m - 1] + IF list[m].id \in kept THEN list[m].bytes ELSE 0]

(* The accumulator's bytes are those of the kept ones. *)
LEMMA WalkBytes ==
  ASSUME NEW ids, NEW policy, IsPolicy(policy), NEW list \in Seq(Candidate(ids)),
         NEW w, IsWalk(w, policy, list, Len(list)), NEW kept,
         \A m \in 1..Len(list) :
           list[m].id \in kept <=> ~TooMuch(policy, w[m - 1], list[m])
  PROVE  \A n \in 0..Len(list) : BytesUpTo(list, kept, n) = w[n].bytes
<1> DEFINE N == Len(list)
           g == [m \in 0..N |-> w[m].bytes]
           Size(m) == IF list[m].id \in kept THEN list[m].bytes ELSE 0
<1>1. N \in Nat /\ \A m \in 1..N : list[m] \in Candidate(ids)
  OBVIOUS
<1>2. w[0] = Nothing /\ \A m \in 1..N : w[m] = consider(policy, w[m - 1], list[m])
  BY <1>1, WalkEquations
<1>3. w[0].bytes = 0
  BY <1>2 DEF Nothing
<1>4. ASSUME NEW m \in 1..N PROVE w[m].bytes = w[m - 1].bytes + Size(m)
  <2>1. m - 1 \in 0..N
    BY <1>1
  <2>2. w[m - 1] \in Accumulator(ids)
    BY <2>1, WalkFacts
  <2>3. Considered(policy, w[m - 1], list[m], w[m])
    BY <1>1, <1>2, <2>2, ConsiderFacts
  <2>4. w[m - 1].bytes \in Nat /\ list[m].bytes \in Nat
    BY <1>1, <2>2 DEF Accumulator, Candidate
  <2>5. CASE TooMuch(policy, w[m - 1], list[m])
    <3>1. w[m].bytes = w[m - 1].bytes
      BY <2>3, <2>5 DEF Considered
    <3>2. Size(m) = 0
      BY <2>5
    <3> QED
      BY <2>4, <3>1, <3>2
  <2>6. CASE ~TooMuch(policy, w[m - 1], list[m])
    <3>1. w[m].bytes = w[m - 1].bytes + list[m].bytes
      BY <2>3, <2>6 DEF Considered
    <3>2. Size(m) = list[m].bytes
      BY <2>6
    <3> QED
      BY <3>1, <3>2
  <2> QED
    BY <2>5, <2>6
<1>5. IsSum(g, list, kept)
  <2>1. \A m \in 0..N : g[m] = IF m = 0 THEN 0 ELSE g[m - 1] + Size(m)
    <3> SUFFICES ASSUME NEW m \in 0..N
                 PROVE  g[m] = IF m = 0 THEN 0 ELSE g[m - 1] + Size(m)
      OBVIOUS
    <3> HIDE DEF Size
    <3>1. CASE m = 0
      BY <1>1, <1>3, <3>1
    <3>2. CASE m # 0
      <4>1. m \in 1..N /\ m - 1 \in 0..N
        BY <1>1, <3>2
      <4> QED
        BY <1>4, <3>2, <4>1
    <3> QED
      BY <3>1, <3>2
  <2>2. g = [m \in 0..N |-> g[m]]
    OBVIOUS
  <2> HIDE DEF g
  <2> QED
    BY <2>1, <2>2 DEF IsSum
<1> DEFINE sum == CHOOSE s : IsSum(s, list, kept)
<1>6. IsSum(sum, list, kept)
  <2> HIDE DEF g
  <2> QED
    BY <1>5
<1>7. \A n \in 0..N : BytesUpTo(list, kept, n) = sum[n]
  BY DEF BytesUpTo, IsSum
<1> HIDE DEF sum
<1>8. \A m \in 0..N : sum[m] = IF m = 0 THEN 0 ELSE sum[m - 1] + Size(m)
  BY <1>6 DEF IsSum
<1> DEFINE T == {n \in Nat : sum[n] = w[n].bytes}
<1>9. 0..N \subseteq T
  <2> HIDE DEF Size
  <2>1. 0 \in T
    BY <1>1, <1>3, <1>8
  <2>2. ASSUME NEW n \in 0..N, n \in T, n + 1 <= N PROVE n + 1 \in T
    <3>1. n + 1 \in 1..N /\ n + 1 \in 0..N /\ (n + 1) - 1 = n /\ n + 1 # 0
      BY <1>1, <2>2
    <3>2. sum[n] = w[n].bytes
      BY <2>2
    <3>3. sum[n + 1] = sum[n] + Size(n + 1)
      BY <1>8, <3>1
    <3>4. w[n + 1].bytes = w[n].bytes + Size(n + 1)
      BY <1>4, <3>1
    <3> QED
      BY <3>1, <3>2, <3>3, <3>4
  <2> HIDE DEF T, N
  <2> QED
    BY <1>1, <2>1, <2>2, UpTo
<1> QED
  BY <1>7, <1>9

(* Over candidates none of which is listed twice, the walk is the greedy   *)
(* choice for every policy: it keeps a candidate exactly when the limits   *)
(* allow it beside the newer ones kept, and dooms the others oldest first  *)
(* (retention.rs: "the stricter limit wins", "oldest-first, ready to       *)
(* prune").                                                                *)
THEOREM WalkIsGreedy ==
  ASSUME NEW ids, NEW policy, IsPolicy(policy),
         NEW list \in Seq(Candidate(ids)), Distinct(list)
  PROVE  Greedy(policy, list)
<1> DEFINE N == Len(list)
           chosen == split(policy, list).kept
           kept == {chosen[k] : k \in DOMAIN chosen}
           newer(n) == {m \in 1..(n - 1) : list[m].id \in kept}
           rest == {n \in DOMAIN list : list[n].id \notin kept}
<1>1. N \in Nat /\ N \in 0..N /\ DOMAIN list = 1..N
  OBVIOUS
<1>2. PICK w : IsWalk(w, policy, list, N) /\ split(policy, list) = w[N]
  BY <1>1, WalkExists
<1> DEFINE K(n) == KeptPlaces(w, policy, list, n)
<1>3. \A n \in 0..N : /\ IsFiniteSet(K(n)) /\ Cardinality(K(n)) = Len(w[n].kept)
                      /\ Elements(w[n].kept) = {list[m].id : m \in K(n)}
  <2>1. \A n \in 0..N : Holds(w[n], list, K(n))
    BY <1>2, WalkCounts
  <2> HIDE DEF K, N
  <2> QED
    BY <2>1 DEF Holds
<1>4. \A n \in 0..N : /\ w[n] \in Accumulator(ids) /\ w[n].kept \in Seq(ids)
                      /\ w[n].doomed \in Seq(ids)
  <2>1. \A n \in 0..N : w[n] \in Accumulator(ids)
    BY <1>2, WalkFacts
  <2> QED
    BY <2>1 DEF Accumulator
<1>5. kept = {list[m].id : m \in K(N)}
  <2>1. chosen = w[N].kept /\ chosen \in Seq(ids)
    BY <1>1, <1>2, <1>4
  <2>2. kept = Elements(w[N].kept)
    <3> HIDE DEF chosen
    <3> QED
      BY <2>1 DEF Elements
  <2> HIDE DEF kept, K
  <2> QED
    BY <1>1, <1>3, <2>2
<1>6. ASSUME NEW m \in 1..N
      PROVE  list[m].id \in kept <=> ~TooMuch(policy, w[m - 1], list[m])
  <2>1. m \in K(N) <=> ~TooMuch(policy, w[m - 1], list[m])
    BY DEF KeptPlaces
  <2>2. K(N) \subseteq 1..N
    BY DEF KeptPlaces
  <2>3. list[m].id \in {list[k].id : k \in K(N)} <=> m \in K(N)
    <3> HIDE DEF K
    <3> QED
      BY <2>2 DEF Distinct
  <2> HIDE DEF kept, K
  <2> QED
    BY <1>5, <2>1, <2>3
<1> HIDE DEF kept
<1>7. \A n \in 0..N : BytesUpTo(list, kept, n) = w[n].bytes
  BY <1>2, <1>6, WalkBytes
<1>8. ASSUME NEW n \in 1..N
      PROVE  list[n].id \in kept <=>
               /\ \A c \in policy.keep_last : Cardinality(newer(n)) < c
               /\ \/ newer(n) = {}
                  \/ \A max \in policy.max_bytes :
                       BytesUpTo(list, kept, n - 1) + list[n].bytes <= max
  <2> DEFINE acc == w[n - 1]
  <2>1. n - 1 \in 0..N /\ 1..(n - 1) \subseteq 1..N
    BY <1>1
  <2>2. newer(n) = K(n - 1)
    BY <1>6, <2>1 DEF KeptPlaces
  <2>3. /\ IsFiniteSet(newer(n)) /\ Cardinality(newer(n)) = Len(acc.kept)
        /\ acc.kept \in Seq(ids) /\ Len(acc.kept) \in Nat /\ acc.bytes \in Nat
        /\ list[n].bytes \in Nat
    <3>1. acc \in Accumulator(ids) /\ list[n] \in Candidate(ids)
      BY <1>4, <2>1
    <3>2. /\ acc.kept \in Seq(ids) /\ Len(acc.kept) \in Nat /\ acc.bytes \in Nat
          /\ list[n].bytes \in Nat
      BY <3>1 DEF Accumulator, Candidate
    <3>3. IsFiniteSet(K(n - 1)) /\ Cardinality(K(n - 1)) = Len(acc.kept)
      BY <1>3, <2>1
    <3> HIDE DEF K, newer, acc
    <3> QED
      BY <2>2, <3>2, <3>3
  <2>4. newer(n) = {} <=> acc.kept = <<>>
    <3>1. newer(n) = {} <=> Cardinality(newer(n)) = 0
      BY <2>3, FS_EmptySet
    <3> HIDE DEF newer, acc
    <3>2. acc.kept = <<>> <=> Len(acc.kept) = 0
      BY <2>3
    <3> QED
      BY <2>3, <3>1, <3>2
  <2>5. BytesUpTo(list, kept, n - 1) = acc.bytes
    BY <1>7, <2>1
  <2>6. policy.keep_last \subseteq Nat /\ policy.max_bytes \subseteq Nat
    BY DEF IsPolicy
  <2> DEFINE c == list[n]
  <2>7. list[n].id \in kept <=> ~over_count(policy, acc) /\ ~over_bytes(policy, acc, c)
    BY <1>6 DEF TooMuch
  <2> HIDE DEF newer, acc
  <2>8. ~over_count(policy, acc) <=>
          \A k \in policy.keep_last : Cardinality(newer(n)) < k
    BY <2>3, <2>6 DEF over_count
  <2>9. ~over_bytes(policy, acc, c) <=>
          \/ newer(n) = {}
          \/ \A max \in policy.max_bytes :
               BytesUpTo(list, kept, n - 1) + list[n].bytes <= max
    <3>1. \A max \in policy.max_bytes :
            ~(acc.bytes + c.bytes > max) <=>
              BytesUpTo(list, kept, n - 1) + list[n].bytes <= max
      BY <2>3, <2>5, <2>6
    <3> QED
      BY <2>4, <3>1 DEF over_bytes
  <2> QED
    BY <2>7, <2>8, <2>9
<1>9. \E f \in [1..Cardinality(rest) -> rest] :
        /\ \A j, k \in 1..Cardinality(rest) : j < k => f[j] > f[k]
        /\ plan(policy, list) = [k \in 1..Cardinality(rest) |-> list[f[k]].id]
  <2> DEFINE doomed == w[N].doomed
  <2>1. doomed \in Seq(ids) /\ Len(doomed) \in Nat /\ plan(policy, list) = doomed
    BY <1>1, <1>2, <1>4 DEF plan
  <2>2. rest = OtherPlaces(w, policy, list, N)
    BY <1>1, <1>6 DEF OtherPlaces, KeptPlaces
  <2>3. PICK f : /\ Lists(f, Len(doomed), OtherPlaces(w, policy, list, N))
                 /\ \A k \in 1..Len(doomed) : doomed[k] = list[f[k]].id
    BY <1>1, <1>2, WalkDoomed
  <2>4. rest \subseteq Nat
    BY <1>1
  <2> HIDE DEF rest, doomed
  <2>5. Cardinality(rest) = Len(doomed)
    BY <2>1, <2>2, <2>3, <2>4, ListLength
  <2>6. f \in [1..Cardinality(rest) -> rest]
        /\ \A j, k \in 1..Cardinality(rest) : j < k => f[j] > f[k]
    BY <2>2, <2>3, <2>5 DEF Lists, Descending
  <2>7. doomed = [k \in 1..Cardinality(rest) |-> list[f[k]].id]
    BY <2>1, <2>3, <2>5
  <2> QED
    BY <2>1, <2>6, <2>7
<1> QED
  <2> HIDE DEF newer, rest
  <2> USE DEF kept
  <2> QED
    BY <1>1, <1>8, <1>9 DEF Greedy, newer, rest

-----------------------------------------------------------------------------
(* The walk over a part of the list. *)

\* Two accumulators that decide alike.
Alike(a, b) == a.kept = b.kept /\ a.bytes = b.bytes

\* v is the walk over `again`, whose first q candidates are at the places `at`
\* of the list that w walks over.
Inside(at, q, list) ==
  /\ at \in [1..q -> 1..Len(list)]
  /\ \A j, k \in 1..q : j < k => at[j] < at[k]

LEMMA AlikeDecides ==
  ASSUME NEW policy, NEW a, NEW b, NEW c, Alike(a, b)
  PROVE  TooMuch(policy, a, c) <=> TooMuch(policy, b, c)
  BY DEF Alike, TooMuch, over_count, over_bytes

(* Rejected candidates change no later decision. *)
LEMMA WalkSkips ==
  ASSUME NEW ids, NEW policy, IsPolicy(policy), NEW list \in Seq(Candidate(ids)),
         NEW w, IsWalk(w, policy, list, Len(list)),
         NEW a \in 0..Len(list), NEW b \in 0..Len(list), a <= b,
         \A m \in (a + 1)..b : TooMuch(policy, w[m - 1], list[m])
  PROVE  Alike(w[b], w[a])
<1> DEFINE N == Len(list)
           T == {n \in Nat : a <= n /\ n <= b => Alike(w[n], w[a])}
<1>1. N \in Nat /\ \A m \in 1..N : list[m] \in Candidate(ids)
  OBVIOUS
<1>2. \A m \in 1..N : w[m] = consider(policy, w[m - 1], list[m])
  BY <1>1, WalkEquations
<1>3. 0 \in T
  <2>1. CASE a = 0
    BY <2>1 DEF Alike
  <2>2. CASE a # 0
    BY <1>1, <2>2
  <2> QED
    BY <2>1, <2>2
<1>4. ASSUME NEW n \in 0..N, n \in T, n + 1 <= N PROVE n + 1 \in T
  <2> SUFFICES ASSUME a <= n + 1, n + 1 <= b PROVE Alike(w[n + 1], w[a])
    BY <1>1, <1>4
  <2>1. CASE a = n + 1
    BY <2>1 DEF Alike
  <2>2. CASE a # n + 1
    <3>1. /\ n + 1 \in 1..N /\ n + 1 \in (a + 1)..b /\ (n + 1) - 1 = n
          /\ a <= n /\ n <= b
      BY <1>1, <1>4, <2>2
    <3>2. Alike(w[n], w[a])
      BY <1>4, <3>1
    <3>3. TooMuch(policy, w[n], list[n + 1])
      BY <3>1
    <3>4. w[n] \in Accumulator(ids)
      BY <1>4, WalkFacts
    <3>5. w[n + 1] = consider(policy, w[n], list[n + 1])
          /\ list[n + 1] \in Candidate(ids)
      BY <1>1, <1>2, <3>1
    <3>6. Considered(policy, w[n], list[n + 1], w[n + 1])
      BY <3>4, <3>5, ConsiderFacts
    <3> QED
      BY <3>2, <3>3, <3>6 DEF Considered, Alike
  <2> QED
    BY <2>1, <2>2
<1>5. 0..N \subseteq T
  <2> HIDE DEF T, N
  <2> QED
    BY <1>1, <1>3, <1>4, UpTo
<1> QED
  BY <1>1, <1>5

(* A part of the list that has all the kept ones is decided like the list. *)
LEMMA PartDecides ==
  ASSUME NEW ids, NEW policy, IsPolicy(policy),
         NEW list \in Seq(Candidate(ids)), NEW again \in Seq(Candidate(ids)),
         NEW w, IsWalk(w, policy, list, Len(list)),
         NEW v, IsWalk(v, policy, again, Len(again)),
         NEW q \in 1..Len(again), NEW at, Inside(at, q, list),
         \A k \in 1..q : again[k] = list[at[k]],
         \A m \in 1..at[q] : ~TooMuch(policy, w[m - 1], list[m]) =>
           \E k \in 1..q : at[k] = m
  PROVE  TooMuch(policy, v[q - 1], again[q])
           <=> TooMuch(policy, w[at[q] - 1], list[at[q]])
<1> DEFINE N == Len(list)
           M == Len(again)
           pos(k) == IF k = 0 THEN 0 ELSE at[k]
<1>1. /\ N \in Nat /\ M \in Nat /\ q \in Nat /\ q <= M
      /\ \A k \in 1..M : again[k] \in Candidate(ids)
  OBVIOUS
<1>2. /\ \A k \in 1..q : at[k] \in 1..N
      /\ \A j, k \in 1..q : j < k => at[j] < at[k]
  BY DEF Inside
<1>3. \A m \in 1..N : w[m] = consider(policy, w[m - 1], list[m])
  BY <1>1, WalkEquations
<1>4. v[0] = Nothing /\ w[0] = Nothing
      /\ \A k \in 1..M : v[k] = consider(policy, v[k - 1], again[k])
  BY <1>1, WalkEquations
<1>5. /\ \A n \in 0..N : w[n] \in Accumulator(ids)
      /\ \A n \in 0..M : v[n] \in Accumulator(ids)
  BY WalkFacts
\* Just before the place of the next candidate the list's walk stands where
\* the part's walk does.
<1>6. ASSUME NEW k \in 0..(q - 1), Alike(v[k], w[pos(k)])
      PROVE  Alike(v[k], w[at[k + 1] - 1])
  <2>1. k + 1 \in 1..q /\ at[k + 1] \in 1..N /\ at[k + 1] - 1 \in 0..N
    BY <1>1, <1>2
  <2>2. pos(k) \in 0..N /\ pos(k) <= at[k + 1] - 1
    <3>1. CASE k = 0
      BY <1>1, <2>1, <3>1
    <3>2. CASE k # 0
      <4>1. k \in 1..q /\ k < k + 1
        BY <1>1, <3>2
      <4>2. at[k] \in 1..N /\ at[k] < at[k + 1]
        BY <1>2, <2>1, <4>1
      <4> QED
        BY <1>1, <2>1, <3>2, <4>2
    <3> QED
      BY <3>1, <3>2
  <2>3. ASSUME NEW m \in (pos(k) + 1)..(at[k + 1] - 1),
               ~TooMuch(policy, w[m - 1], list[m])
        PROVE  FALSE
    <3>1. m \in Nat /\ m # 0 /\ pos(k) < m /\ m < at[k + 1]
      BY <1>1, <2>1, <2>2
    <3>2. at[k + 1] <= at[q]
      <4>1. CASE k + 1 = q
        BY <1>2, <2>1, <4>1
      <4>2. CASE k + 1 < q
        BY <1>1, <1>2, <2>1, <4>2
      <4> QED
        BY <1>1, <2>1, <4>1, <4>2
    <3>3. at[q] \in 1..N
      BY <1>1, <1>2
    <3>4. m \in 1..at[q]
      BY <1>1, <2>1, <3>1, <3>2, <3>3
    <3>5. PICK j \in 1..q : at[j] = m
      BY <2>3, <3>4
    <3>6. j < k + 1
      <4>1. ~(at[k + 1] < at[j]) /\ at[k + 1] # at[j]
        BY <2>1, <3>1, <3>5
      <4>2. ~(k + 1 < j) /\ j # k + 1
        BY <1>2, <2>1, <4>1
      <4> QED
        BY <1>1, <4>2
    <3>7. k # 0 /\ k \in 1..q
      BY <1>1, <3>6
    <3>8. j <= k /\ (j = k \/ at[j] < at[k])
      BY <1>1, <1>2, <3>6, <3>7
    <3>9. pos(k) = at[k] /\ at[k] \in 1..N
      BY <1>2, <3>7
    <3> QED
      BY <3>1, <3>5, <3>8, <3>9
  <2> HIDE DEF pos
  <2>4. Alike(w[at[k + 1] - 1], w[pos(k)])
    BY <2>1, <2>2, <2>3, WalkSkips
  <2> QED
    BY <1>6, <2>4 DEF Alike
<1> DEFINE T == {k \in Nat : k <= q => Alike(v[k], w[pos(k)])}
<1>7. 0 \in T
  BY <1>4 DEF Alike
<1>8. ASSUME NEW k \in 0..(q - 1), k \in T, k + 1 <= q - 1 PROVE k + 1 \in T
  <2>1. k + 1 \in 1..q /\ (k + 1) - 1 = k /\ k <= q /\ k + 1 \in 1..M /\ k \in 0..M
        /\ k + 1 # 0
    BY <1>1, <1>8
  <2>2. at[k + 1] \in 1..N /\ at[k + 1] - 1 \in 0..N
    BY <1>1, <1>2, <2>1
  <2>3. Alike(v[k], w[at[k + 1] - 1])
    BY <1>6, <1>8, <2>1
  <2>4. again[k + 1] = list[at[k + 1]] /\ again[k + 1] \in Candidate(ids)
    BY <1>1, <2>1
  <2>5. Considered(policy, v[k], again[k + 1], v[k + 1])
    BY <1>4, <1>5, <2>1, <2>4, ConsiderFacts
  <2>6. Considered(policy, w[at[k + 1] - 1], again[k + 1], w[at[k + 1]])
    BY <1>3, <1>5, <2>2, <2>4, ConsiderFacts
  <2>7. TooMuch(policy, v[k], again[k + 1])
          <=> TooMuch(policy, w[at[k + 1] - 1], again[k + 1])
    BY <2>3, AlikeDecides
  <2>8. Alike(v[k + 1], w[at[k + 1]])
    BY <2>3, <2>5, <2>6, <2>7 DEF Considered, Alike
  <2>9. pos(k + 1) = at[k + 1]
    BY <2>1
  <2> HIDE DEF pos
  <2> QED
    BY <2>1, <2>8, <2>9
<1>9. q - 1 \in T
  <2> HIDE DEF T
  <2>1. q - 1 \in Nat /\ q - 1 \in 0..(q - 1)
    BY <1>1
  <2>2. 0..(q - 1) \subseteq T
    BY <1>7, <1>8, <2>1, UpTo
  <2> QED
    BY <2>1, <2>2
<1>10. Alike(v[q - 1], w[at[q] - 1])
  <2>1. q - 1 \in 0..(q - 1) /\ (q - 1) + 1 = q /\ q - 1 <= q
    BY <1>1
  <2>2. Alike(v[q - 1], w[pos(q - 1)])
    BY <1>9, <2>1
  <2> QED
    BY <1>6, <2>1, <2>2
<1>11. again[q] = list[at[q]]
  OBVIOUS
<1> QED
  BY <1>10, <1>11, AlikeDecides

(* Without a byte cap a part of the list keeps what the list keeps: there  *)
(* is never more before a candidate than in the list.                      *)
LEMMA PartCounts ==
  ASSUME NEW ids, NEW policy, IsPolicy(policy), policy.max_bytes = {},
         NEW list \in Seq(Candidate(ids)), NEW again \in Seq(Candidate(ids)),
         NEW w, IsWalk(w, policy, list, Len(list)),
         NEW v, IsWalk(v, policy, again, Len(again)),
         NEW q \in 1..Len(again), NEW at, Inside(at, q, list),
         ~TooMuch(policy, w[at[q] - 1], list[at[q]])
  PROVE  ~TooMuch(policy, v[q - 1], again[q])
<1> DEFINE N == Len(list)
           M == Len(again)
           n == at[q]
<1>1. N \in Nat /\ M \in Nat /\ q \in Nat /\ q # 0 /\ q <= M
  OBVIOUS
<1>2. /\ \A k \in 1..q : at[k] \in 1..N
      /\ \A j, k \in 1..q : j < k => at[j] < at[k]
  BY DEF Inside
<1>3. q <= n /\ n \in 1..N
  <2> DEFINE T == {k \in Nat : k # 0 => k <= at[k]}
  <2>1. 0 \in T
    OBVIOUS
  <2>2. ASSUME NEW k \in 0..q, k \in T, k + 1 <= q PROVE k + 1 \in T
    <3>1. k + 1 \in 1..q /\ at[k + 1] \in 1..N
      BY <1>1, <1>2, <2>2
    <3>2. CASE k = 0
      BY <1>1, <3>1, <3>2
    <3>3. CASE k # 0
      <4>1. k \in 1..q /\ k < k + 1 /\ k <= at[k]
        BY <1>1, <2>2, <3>3
      <4>2. at[k] < at[k + 1] /\ at[k] \in 1..N
        BY <1>2, <3>1, <4>1
      <4> QED
        BY <1>1, <2>2, <3>1, <4>1, <4>2
    <3> QED
      BY <3>2, <3>3
  <2> HIDE DEF T
  <2>3. 0..q \subseteq T
    BY <1>1, <2>1, <2>2, UpTo
  <2>4. q \in T /\ q \in 1..q
    BY <1>1, <2>3
  <2> USE DEF T
  <2> QED
    BY <1>1, <1>2, <2>4
<1> HIDE DEF n
<1>4. q - 1 \in 0..M /\ q - 1 \in Nat /\ n - 1 \in 0..N /\ n - 1 \in Nat
  BY <1>1, <1>3
<1>5. Len(v[q - 1].kept) \in Nat /\ Len(v[q - 1].kept) <= q - 1
  <2> DEFINE K == KeptPlaces(v, policy, again, q - 1)
  <2>1. Holds(v[q - 1], again, K)
    BY <1>4, WalkCounts
  <2>2. K \in SUBSET (1..(q - 1))
    BY DEF KeptPlaces
  <2> HIDE DEF K
  <2>3. Cardinality(K) <= Cardinality(1..(q - 1)) /\ Cardinality(K) \in Nat
    <3>1. IsFiniteSet(1..(q - 1)) /\ IsFiniteSet(K)
      BY <1>4, <2>1, Intervals DEF Holds
    <3> QED
      BY <2>2, <3>1, FS_Subset, FS_CardinalityType
  <2>4. Cardinality(1..(q - 1)) = q - 1
    BY <1>4, Intervals
  <2> QED
    BY <2>1, <2>3, <2>4 DEF Holds
<1>6. Len(w[n - 1].kept) = n - 1
  <2>1. ASSUME NEW m \in 1..(n - 1) PROVE ~TooMuch(policy, w[m - 1], list[m])
    <3>1. m - 1 \in 0..N /\ m - 1 <= n - 1
      BY <1>1, <1>3, <1>4
    <3>2. Len(w[m - 1].kept) <= Len(w[n - 1].kept)
      BY <1>4, <3>1, WalkExtends
    <3>3. Len(w[m - 1].kept) \in Nat /\ Len(w[n - 1].kept) \in Nat
      <4>1. w[m - 1] \in Accumulator(ids) /\ w[n - 1] \in Accumulator(ids)
        BY <1>4, <3>1, WalkFacts
      <4>2. w[m - 1].kept \in Seq(ids) /\ w[n - 1].kept \in Seq(ids)
        BY <4>1 DEF Accumulator
      <4> QED
        BY <4>2
    <3>4. \A c \in policy.keep_last : c \in Nat /\ ~(Len(w[n - 1].kept) >= c)
      BY DEF TooMuch, over_count, IsPolicy, n
    <3>5. \A c \in policy.keep_last : ~(Len(w[m - 1].kept) >= c)
      BY <3>2, <3>3, <3>4
    <3> QED
      BY <3>5 DEF TooMuch, over_count, over_bytes
  <2>2. KeptPlaces(w, policy, list, n - 1) = 1..(n - 1)
    BY <2>1 DEF KeptPlaces
  <2>3. Holds(w[n - 1], list, KeptPlaces(w, policy, list, n - 1))
    BY <1>4, WalkCounts
  <2>4. Cardinality(1..(n - 1)) = n - 1
    BY <1>4, Intervals
  <2> QED
    BY <2>2, <2>3, <2>4 DEF Holds
<1>7. \A c \in policy.keep_last : c \in Nat /\ ~(Len(w[n - 1].kept) >= c)
  BY DEF TooMuch, over_count, IsPolicy, n
<1>8. \A c \in policy.keep_last : ~(Len(v[q - 1].kept) >= c)
  BY <1>1, <1>3, <1>5, <1>6, <1>7
<1> QED
  BY <1>8 DEF TooMuch, over_count, over_bytes

(* Which candidates are kept, and which doomed. *)
LEMMA KeptAt ==
  ASSUME NEW ids, NEW policy, IsPolicy(policy),
         NEW list \in Seq(Candidate(ids)), Distinct(list),
         NEW w, IsWalk(w, policy, list, Len(list)),
         split(policy, list) = w[Len(list)], NEW n \in 1..Len(list)
  PROVE  /\ list[n].id \in Elements(split(policy, list).kept)
              <=> ~TooMuch(policy, w[n - 1], list[n])
         /\ list[n].id \in Elements(plan(policy, list))
              => TooMuch(policy, w[n - 1], list[n])
<1> DEFINE N == Len(list)
           K == KeptPlaces(w, policy, list, N)
<1>1. N \in Nat /\ N \in 0..N
  OBVIOUS
<1>2. Elements(w[N].kept) = {list[m].id : m \in K}
  <2>1. Holds(w[N], list, K)
    BY <1>1, WalkCounts
  <2> HIDE DEF K
  <2> QED
    BY <2>1 DEF Holds
<1>3. K \subseteq 1..N /\ (n \in K <=> ~TooMuch(policy, w[n - 1], list[n]))
  BY DEF KeptPlaces
<1>4. list[n].id \in {list[m].id : m \in K} <=> n \in K
  <2> HIDE DEF K
  <2> QED
    BY <1>3 DEF Distinct
<1>5. ASSUME list[n].id \in Elements(w[N].doomed)
      PROVE  TooMuch(policy, w[n - 1], list[n])
  <2>1. PICK f : /\ Lists(f, Len(w[N].doomed), OtherPlaces(w, policy, list, N))
                 /\ \A k \in 1..Len(w[N].doomed) : w[N].doomed[k] = list[f[k]].id
    BY <1>1, WalkDoomed
  <2>2. PICK k \in 1..Len(w[N].doomed) : list[n].id = w[N].doomed[k]
    BY <1>5 DEF Elements
  <2>3. f[k] \in OtherPlaces(w, policy, list, N)
    BY <2>1 DEF Lists
  <2>4. f[k] = n
    BY <2>1, <2>2, <2>3 DEF Distinct, OtherPlaces
  <2> QED
    BY <1>3, <2>3, <2>4 DEF OtherPlaces
<1> QED
  BY <1>2, <1>3, <1>4, <1>5 DEF plan

(* A candidate that the list keeps is not doomed in a part of the list     *)
(* where all that come before it are in the list before it: without a byte *)
(* cap, or when the part has all that the list keeps, of the same sizes.   *)
LEMMA StillKept ==
  ASSUME NEW ids, NEW policy, IsPolicy(policy),
         NEW list \in Seq(Candidate(ids)), Distinct(list),
         NEW again \in Seq(Candidate(ids)), Distinct(again),
         NEW q \in 1..Len(again), NEW at, Inside(at, q, list),
         list[at[q]].id \in Elements(split(policy, list).kept),
         \/ policy.max_bytes = {}
         \/ /\ \A k \in 1..q : again[k] = list[at[k]]
            /\ \A m \in 1..at[q] :
                 list[m].id \in Elements(split(policy, list).kept) =>
                   \E k \in 1..q : at[k] = m
  PROVE  again[q].id \notin Elements(plan(policy, again))
<1>1. Len(list) \in Nat /\ Len(again) \in Nat
  OBVIOUS
<1>2. PICK w : /\ IsWalk(w, policy, list, Len(list))
               /\ split(policy, list) = w[Len(list)]
  BY <1>1, WalkExists
<1>3. PICK v : /\ IsWalk(v, policy, again, Len(again))
               /\ split(policy, again) = v[Len(again)]
  BY <1>1, WalkExists
<1>4. at[q] \in 1..Len(list)
  BY DEF Inside
<1>5. \A n \in 1..Len(list) : list[n].id \in Elements(split(policy, list).kept)
              <=> ~TooMuch(policy, w[n - 1], list[n])
  BY <1>2, KeptAt
<1>6. ~TooMuch(policy, w[at[q] - 1], list[at[q]])
  BY <1>4, <1>5
<1>7. ~TooMuch(policy, v[q - 1], again[q])
  <2>1. CASE policy.max_bytes = {}
    BY <1>2, <1>3, <1>6, <2>1, PartCounts
  <2>2. CASE /\ \A k \in 1..q : again[k] = list[at[k]]
             /\ \A m \in 1..at[q] :
                  list[m].id \in Elements(split(policy, list).kept) =>
                    \E k \in 1..q : at[k] = m
    <3>1. ASSUME NEW m \in 1..at[q], ~TooMuch(policy, w[m - 1], list[m])
          PROVE  \E k \in 1..q : at[k] = m
      <4>1. m \in 1..Len(list)
        BY <1>1, <1>4
      <4> QED
        BY <1>5, <2>2, <3>1, <4>1
    <3> QED
      BY <1>2, <1>3, <1>6, <2>2, <3>1, PartDecides
  <2> QED
    BY <2>1, <2>2
<1> QED
  BY <1>3, <1>7, KeptAt

-----------------------------------------------------------------------------
(* A policy without a byte cap. *)

LEMMA NewestDistinct ==
  ASSUME NEW ids, ids \subseteq Nat, NEW list \in Seq(Candidate(ids)),
         NewestIdFirst(list)
  PROVE  Distinct(list)
<1>1. \A k \in 1..Len(list) : list[k] \in Candidate(ids)
  OBVIOUS
<1>2. Len(list) \in Nat /\ \A k \in 1..Len(list) : list[k].id \in Nat
  <2>1. \A k \in 1..Len(list) : list[k].id \in ids
    BY <1>1 DEF Candidate
  <2>2. Len(list) \in Nat
    OBVIOUS
  <2> QED
    BY <2>1, <2>2
<1> SUFFICES ASSUME NEW j \in 1..Len(list), NEW k \in 1..Len(list),
                    list[j].id = list[k].id, j # k
             PROVE  FALSE
  BY DEF Distinct
<1>3. j < k \/ k < j
  BY <1>2
<1> QED
  BY <1>2, <1>3 DEF NewestIdFirst

\* The kept ones among those before the n-th candidate.
NewerKept(policy, list, n) ==
  {m \in 1..(n - 1) : list[m].id \in Elements(split(policy, list).kept)}

LEMMA CountDecides ==
  ASSUME NEW ids, NEW policy, IsPolicy(policy), policy.max_bytes = {},
         NEW list \in Seq(Candidate(ids)), Distinct(list), NEW n \in 1..Len(list)
  PROVE  list[n].id \in Elements(split(policy, list).kept) <=>
           \A c \in policy.keep_last : Cardinality(NewerKept(policy, list, n)) < c
<1> DEFINE chosen == split(policy, list).kept
           kept == {chosen[k] : k \in DOMAIN chosen}
<1>1. kept = Elements(chosen)
  <2>1. split(policy, list) \in Accumulator(ids)
    BY SplitRespectsPolicy
  <2>2. chosen \in Seq(ids)
    BY <2>1 DEF Accumulator
  <2> HIDE DEF chosen
  <2> QED
    BY <2>2 DEF Elements
<1>2. n \in DOMAIN list
  OBVIOUS
<1>3. Greedy(policy, list)
  BY WalkIsGreedy
<1>4. list[n].id \in kept <=>
        \A c \in policy.keep_last :
          Cardinality({m \in 1..(n - 1) : list[m].id \in kept}) < c
  BY <1>2, <1>3 DEF Greedy
<1> QED
  BY <1>1, <1>4 DEF NewerKept

LEMMA NewerKeptFinite ==
  ASSUME NEW policy, NEW list, NEW n \in Nat \ {0}
  PROVE  /\ IsFiniteSet(NewerKept(policy, list, n))
         /\ Cardinality(NewerKept(policy, list, n)) \in Nat
         /\ Cardinality(NewerKept(policy, list, n)) <= n - 1
<1>1. n - 1 \in Nat
  OBVIOUS
<1>2. IsFiniteSet(1..(n - 1)) /\ Cardinality(1..(n - 1)) = n - 1
  BY <1>1, Intervals
<1>3. NewerKept(policy, list, n) \subseteq 1..(n - 1)
  BY DEF NewerKept
<1> QED
  BY <1>2, <1>3, FS_Subset, FS_CardinalityType

(* Only the first keep_last candidates are kept. *)
LEMMA KeptAreFirst ==
  ASSUME NEW ids, NEW policy, IsPolicy(policy), policy.max_bytes = {},
         NEW list \in Seq(Candidate(ids)), Distinct(list), NEW n \in 1..Len(list),
         list[n].id \in Elements(split(policy, list).kept)
  PROVE  \A c \in policy.keep_last : n - 1 < c
<1> DEFINE K(m) == NewerKept(policy, list, m)
<1>1. Len(list) \in Nat /\ n \in Nat \ {0} /\ n - 1 \in Nat
  OBVIOUS
<1>2. \A c \in policy.keep_last : Cardinality(K(n)) < c /\ c \in Nat
  BY CountDecides DEF IsPolicy
<1>3. ASSUME NEW m \in 1..(n - 1), m \notin K(n) PROVE FALSE
  <2>1. m \in 1..Len(list) /\ m \in Nat \ {0}
    BY <1>1
  <2>2. list[m].id \notin Elements(split(policy, list).kept)
    BY <1>3 DEF NewerKept
  <2>3. PICK c \in policy.keep_last : ~(Cardinality(K(m)) < c)
    BY <2>1, <2>2, CountDecides
  <2>4. K(m) \subseteq K(n)
    <3>1. 1..(m - 1) \subseteq 1..(n - 1)
      BY <1>1
    <3> QED
      BY <3>1 DEF NewerKept
  <2>5. /\ Cardinality(K(m)) <= Cardinality(K(n))
        /\ Cardinality(K(m)) \in Nat /\ Cardinality(K(n)) \in Nat
    <3>1. IsFiniteSet(K(n))
      BY <1>1, NewerKeptFinite
    <3> HIDE DEF K
    <3> QED
      BY <2>4, <3>1, FS_Subset, FS_CardinalityType
  <2> HIDE DEF K
  <2> QED
    BY <1>2, <2>3, <2>5
<1>4. K(n) = 1..(n - 1)
  BY <1>3 DEF NewerKept
<1>5. Cardinality(K(n)) = n - 1
  BY <1>1, <1>4, Intervals
<1> QED
  BY <1>2, <1>5

(* And none of the first keep_last is doomed. *)
LEMMA FirstAreKept ==
  ASSUME NEW ids, NEW policy, IsPolicy(policy), policy.max_bytes = {},
         NEW list \in Seq(Candidate(ids)), Distinct(list), NEW n \in 1..Len(list),
         \A c \in policy.keep_last : n - 1 < c
  PROVE  list[n].id \notin Elements(plan(policy, list))
<1>1. Len(list) \in Nat /\ n \in Nat \ {0} /\ n - 1 \in Nat
  OBVIOUS
<1>2. /\ Cardinality(NewerKept(policy, list, n)) <= n - 1
      /\ Cardinality(NewerKept(policy, list, n)) \in Nat
  BY <1>1, NewerKeptFinite
<1>3. \A c \in policy.keep_last : c \in Nat
  BY DEF IsPolicy
<1>4. \A c \in policy.keep_last : Cardinality(NewerKept(policy, list, n)) < c
  BY <1>1, <1>2, <1>3
<1>5. list[n].id \in Elements(split(policy, list).kept)
  BY <1>4, CountDecides
<1>6. PICK w : /\ IsWalk(w, policy, list, Len(list))
               /\ split(policy, list) = w[Len(list)]
  BY <1>1, WalkExists
<1> QED
  BY <1>5, <1>6, KeptAt

=============================================================================
