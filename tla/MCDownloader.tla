---------------------------- MODULE MCDownloader ----------------------------
(* Small instances of Downloader. *)
EXTENDS Downloader

CONSTANTS f1, f2, d1

(* Two calls that write to one destination. *)
TwoFetches == {f1, f2}
SameDest == [f \in Fetches |-> d1]
=============================================================================
