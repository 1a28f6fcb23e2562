------------------------------ MODULE Retention ------------------------------
(***************************************************************************)
(* Retention planning (crates/core/src/retention.rs and the policy records *)
(* of crates/core/src/config.rs): which episodes of a newest-first list a  *)
(* policy keeps and which ones it dooms.                                   *)
(*                                                                         *)
(* An Option is a set with at most one element, so `is_some_and` is \E.    *)
(***************************************************************************)
EXTENDS Naturals, Sequences, FiniteSets

(* Unlimited is Retention::default(): no field set. *)
Unlimited == [keep_last |-> {}, max_bytes |-> {}]

(* Option::or *)
Or(opt, fallback) == IF opt # {} THEN opt ELSE fallback

(* A per-show policy with its unset fields filled from the global one. *)
layered_over(own, fallback) ==
  [keep_last |-> Or(own.keep_last, fallback.keep_last),
   max_bytes |-> Or(own.max_bytes, fallback.max_bytes)]

(* ShowConfig::retention: `own` is the optional [shows.retention] table. *)
effective(own, global) ==
  IF own = {} THEN global
  ELSE layered_over(CHOOSE o \in own : TRUE, global)

-----------------------------------------------------------------------------
(* A candidate: an episode of `ids` and its size. *)
Candidate(ids) == [id : ids, bytes : Nat]

(* The accumulator of the walk: the ids kept so far, newest first, their   *)
(* bytes, and the ids rejected so far, oldest first.                       *)
Nothing == [kept |-> <<>>, bytes |-> 0, doomed |-> <<>>]

over_count(policy, acc) == \E n \in policy.keep_last : Len(acc.kept) >= n

(* Mutant: the cap off by one. *)
over_bytes_strict(policy, acc, candidate) ==
  /\ acc.kept # <<>>
  /\ \E max \in policy.max_bytes : acc.bytes + candidate.bytes >= max

(* The byte cap never evicts the newest kept episode on its own. *)
over_bytes(policy, acc, candidate) ==
  /\ acc.kept # <<>>
  /\ \E max \in policy.max_bytes : acc.bytes + candidate.bytes > max

(* One iteration of the loop. *)
consider(policy, acc, candidate) ==
  IF over_count(policy, acc) \/ over_bytes(policy, acc, candidate)
  THEN [acc EXCEPT !.doomed = <<candidate.id>> \o @]
  ELSE [acc EXCEPT !.kept = Append(@, candidate.id),
                   !.bytes = @ + candidate.bytes]

(* The walk from newest to oldest. *)
split(policy, newest_first) ==
  LET walk[n \in 0..Len(newest_first)] ==
        IF n = 0 THEN Nothing
        ELSE consider(policy, walk[n - 1], newest_first[n])
  IN walk[Len(newest_first)]

(* The ids to prune, oldest first. *)
plan(policy, newest_first) == split(policy, newest_first).doomed

-----------------------------------------------------------------------------
(* The reference: what a policy should choose, without a walk. *)

(* The bytes of the kept ones among the first n candidates. *)
BytesUpTo(newest_first, kept, n) ==
  LET sum[m \in 0..Len(newest_first)] ==
        IF m = 0 THEN 0
        ELSE sum[m - 1] + IF newest_first[m].id \in kept
                          THEN newest_first[m].bytes ELSE 0
  IN sum[n]

(* A candidate is kept exactly when fewer than keep_last newer ones are    *)
(* and, unless it would be the only one, the kept bytes with it stay       *)
(* within max_bytes; the others are doomed, oldest first.                  *)
Greedy(policy, newest_first) ==
  LET chosen == split(policy, newest_first).kept
      kept == {chosen[k] : k \in DOMAIN chosen}
      newer(n) == {m \in 1..(n - 1) : newest_first[m].id \in kept}
      rest == {n \in DOMAIN newest_first : newest_first[n].id \notin kept}
  IN /\ \A n \in DOMAIN newest_first :
          newest_first[n].id \in kept <=>
            /\ \A c \in policy.keep_last : Cardinality(newer(n)) < c
            /\ \/ newer(n) = {}
               \/ \A max \in policy.max_bytes :
                    BytesUpTo(newest_first, kept, n - 1)
                      + newest_first[n].bytes <= max
     /\ \E f \in [1..Cardinality(rest) -> rest] :
          /\ \A j, k \in 1..Cardinality(rest) : j < k => f[j] > f[k]
          /\ plan(policy, newest_first)
               = [k \in 1..Cardinality(rest) |-> newest_first[f[k]].id]

=============================================================================
