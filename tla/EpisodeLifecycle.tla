-------------------------- MODULE EpisodeLifecycle --------------------------
(***************************************************************************)
(* What the documentation of EpisodeState (crates/core/src/domain.rs)      *)
(* promises of the episodes of a show, whoever works on them: Discovered   *)
(* -> Downloading -> Cached -> Pruned, Failed as a retryable detour, a new *)
(* download out of Cached or Pruned, and no way back to not being known.   *)
(* One storage call may move several episodes at once.                     *)
(***************************************************************************)
CONSTANT Ids
VARIABLE st

Init == st = [i \in Ids |-> "absent"]

Discover(i) == st[i] = "absent" /\ st'[i] = "discovered"
Download(i) == /\ st[i] \in {"discovered", "failed", "cached", "pruned"}
               /\ st'[i] = "downloading"
Finish(i) == st[i] = "downloading" /\ st'[i] \in {"cached", "failed"}
Prune(i) == st[i] = "cached" /\ st'[i] = "pruned"
Stay(i) == st'[i] = st[i]

Next ==
  /\ st' \in [Ids -> {"discovered", "downloading", "cached", "pruned",
                      "failed", "absent"}]
  /\ \A i \in Ids : Discover(i) \/ Download(i) \/ Finish(i) \/ Prune(i)
                    \/ Stay(i)

Spec == Init /\ [][Next]_st
=============================================================================
