----------------------------- MODULE MCSeatGate -----------------------------
(***************************************************************************)
(* Two sessions, two callers of set_enabled, and a word that is exhausted  *)
(* after the seventh transition.                                           *)
(***************************************************************************)
EXTENDS SeatGate
=============================================================================
