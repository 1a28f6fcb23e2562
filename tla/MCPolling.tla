------------------------------ MODULE MCPolling ------------------------------
(***************************************************************************)
(* A small instance of Polling: three episodes, pages with the cases that  *)
(* upstream really serves.                                                 *)
(***************************************************************************)
EXTENDS Polling

CONSTANTS url, square, banner  \* an override, and upstream's two images

E(slug, start_at) == [slug |-> slug, start_at |-> start_at]

(* An old page, a newer one, equal dates, a missing date, dates set anew,  *)
(* and drifted entries among good ones.                                    *)
MCPages ==
  {<<E(1, 1)>>,
   <<E(2, 2), E(1, 1)>>,
   <<E(1, 1), E(2, 1), E(3, 1)>>,
   <<E(3, None), E(2, 2), E(1, 1)>>,
   <<E(1, 2), E(2, 1)>>,
   <<E(None, 2), E(3, 2), E(2, Bad), E(1, 1)>>}

MCImages == {[compact |-> square, default |-> banner],
             [compact |-> None, default |-> banner]}

(* No limit is set anywhere. *)
KeepAll == [fetch_last |-> {}, global_fetch_last |-> {},
            retention |-> {}, global_retention |-> Unlimited,
            artwork |-> None]

(* Limits and caps that bite on three episodes of sizes 1, 2 and 3. *)
KeepOne == [KeepAll EXCEPT !.global_retention.keep_last = {1}]
KeepTwoOfTwo ==
  [KeepAll EXCEPT !.global_fetch_last = {3}, !.fetch_last = {2},
                  !.global_retention.keep_last = {1}, !.artwork = url,
                  !.retention = {[Unlimited EXCEPT !.keep_last = {2}]}]
CapOfThree == [KeepAll EXCEPT !.retention = {[Unlimited EXCEPT !.max_bytes = {3}]}]

MCConfigs == {KeepOne, KeepTwoOfTwo, CapOfThree}

(* Upstream drops its newest episode; every episode is kept. *)
DroppingPages == {<<E(2, 2), E(1, 1)>>, <<E(1, 1)>>}
KeepEverything == {KeepAll}

(* Every page of these lists an episode at most once. *)
ASSUME EachOnce == OncePerPage

MCAudio == [i \in Ids |-> i]
SizeIsContent == [c \in Contents |-> c]

=============================================================================
