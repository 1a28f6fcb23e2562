------------------------------ MODULE MCLibrary ------------------------------
(***************************************************************************)
(* Small instances of Library: three episodes at most, one or two actors.  *)
(***************************************************************************)
EXTENDS Library

(* Two episodes, then three. *)
Two == {1, 2}
Three == {1, 2, 3}

(* Two callers of the engine. *)
CONSTANTS a1, a2
Solo == {a1}
Pair == {a1, a2}
Nobody == {}

(* A stem of its own for each episode. *)
OwnStem == [i \in Ids |-> i]

MCPaths == {<<Stem[i], ext>> : i \in Ids, ext \in Exts}

(* Contents are named by their size. *)
OneContent == {1}
TwoContents == {1, 2}
SizeIsContent == [c \in Contents |-> c]

(* Listings of a show that publishes one episode after another. *)
Published2 == {<<1>>, <<2, 1>>}
Published3 == {<<1>>, <<2, 1>>, <<3, 2, 1>>}

(* A regular show only ever publishes something newer. *)
Publishing == [L \in Listings |-> {M \in Listings : L[1] < M[1]}]

(* Any listing can replace any other: episodes are also retracted. *)
Retracting == [L \in Listings |-> Listings \ {L}]

NoLimit == [a \in Actors |-> {}]
LimitTwo == [a \in Actors |-> {2}]

(* fetch_last was 1 and a reload raised it to 2. *)
Widened == [a \in Actors |-> IF a = a1 THEN {1} ELSE {2}]

Keep(n) == [Unlimited EXCEPT !.keep_last = {n}]
KeepOne == [a \in Actors |-> Keep(1)]
=============================================================================
