----------------------------- MODULE MCControl -----------------------------
(***************************************************************************)
(* Small instances of Control: one client, a TUI or a shell, and a daemon  *)
(* that starts twice.  Clients share nothing but the broadcast channel,    *)
(* which none of them slows.                                               *)
(***************************************************************************)
EXTENDS Control
============================================================================
