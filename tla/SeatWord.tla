------------------------------ MODULE SeatWord ------------------------------
(***************************************************************************)
(* The words of the operator gate (crates/agent-seat-x11/src/seat.rs).  An *)
(* odd word is enabled, an even one is disabled, and the largest word is   *)
(* disabled for good.                                                      *)
(***************************************************************************)
EXTENDS Integers

CONSTANTS DISABLED_TERMINAL,   \* u64::MAX: the last word, odd, never enabled
          NoPermit             \* Option::None

ASSUME GateAssumption ==
    /\ DISABLED_TERMINAL \in Nat
    /\ DISABLED_TERMINAL % 2 = 1
    /\ NoPermit \notin Nat

Words == 0 .. DISABLED_TERMINAL

is_enabled(raw) == raw # DISABLED_TERMINAL /\ raw % 2 = 1

\* Mutant: any permit of an enabled generation is good while the seat is on.
accepts_any_enabled(word, p) == p # NoPermit /\ is_enabled(word) /\ is_enabled(p)

accepts(word, p) == p # NoPermit /\ word = p /\ is_enabled(p)
=============================================================================
