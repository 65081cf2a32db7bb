----------------------------- MODULE MCCompanion -----------------------------
(* A small instance of Companion. *)
EXTENDS Companion

AllTools == {"status", "poll", "act", "replay"}
=============================================================================
