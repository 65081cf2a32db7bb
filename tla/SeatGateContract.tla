-------------------------- MODULE SeatGateContract --------------------------
(***************************************************************************)
(* What the operator gate of the X11 provider promises, with no counter in *)
(* it: a permit taken while the seat is on is good until the seat is next  *)
(* switched off, and is never good again.  SeatGate implements this with   *)
(* one 64-bit atomic word.                                                 *)
(***************************************************************************)
CONSTANT Holders        \* whoever keeps a permit: the session threads

VARIABLES on,           \* is the seat enabled
          good,         \* holders whose permit is accepted
          exhausted     \* the gate has shut for the rest of the process

gateVars == <<on, good, exhausted>>

GateInit == /\ on = FALSE
            /\ good = {}
            /\ exhausted = FALSE

\* A holder asks for a permit; it gets one exactly when the seat is on.
Issue(h) == /\ good' = IF on THEN good \cup {h} ELSE good \ {h}
            /\ UNCHANGED <<on, exhausted>>

Enable == /\ ~on /\ ~exhausted
          /\ on' = TRUE
          /\ UNCHANGED <<good, exhausted>>

\* Switching off voids every permit at once.
Disable == /\ on
           /\ on' = FALSE
           /\ good' = {}
           /\ UNCHANGED exhausted

\* The transition space is used up: only ever from the off state.
Exhaust == /\ ~on
           /\ exhausted' = TRUE
           /\ UNCHANGED <<on, good>>

GateNext == \/ \E h \in Holders : Issue(h)
            \/ Enable \/ Disable \/ Exhaust

GateSpec == GateInit /\ [][GateNext]_gateVars
=============================================================================
