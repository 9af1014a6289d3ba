----------------------------- MODULE MCProvider -----------------------------
(* Two threads on a table of two sessions.                                 *)
EXTENDS Provider
=============================================================================
