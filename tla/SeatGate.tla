------------------------------ MODULE SeatGate ------------------------------
(***************************************************************************)
(* The volatile operator gate (crates/agent-seat-x11/src/seat.rs): one     *)
(* atomic word shared by the serve loop, which switches it, and by every   *)
(* session thread, which reads it.  An odd word is enabled, an even one is *)
(* disabled, and the largest word is disabled for good.  set_enabled is a  *)
(* compare-and-swap loop; each of its shared accesses is a step here.      *)
(***************************************************************************)
EXTENDS SeatWord

CONSTANTS Holders,   \* threads that keep a permit
          Setters    \* threads that call set_enabled

VARIABLES gate,       \* SeatGate.0
          permit,     \* the SeatPermit each holder keeps
          pc,         \* per setter: "idle", or "loop" inside set_enabled
          want,       \* per setter: the argument `enabled`
          current,    \* per setter: the local `current`
          returned,   \* per setter: how its last call ended
          acked       \* history: the highest word a disable has answered with

vars == <<gate, permit, pc, want, current, returned, acked>>

TypeOK == /\ gate \in Words
          /\ permit \in [Holders -> Words \cup {NoPermit}]
          /\ pc \in [Setters -> {"idle", "loop"}]
          /\ want \in [Setters -> BOOLEAN]
          /\ current \in [Setters -> Words]
          /\ returned \in [Setters -> {"none", "ok", "err"}]
          /\ acked \in Words

Init == /\ gate = 0
        /\ permit = [h \in Holders |-> NoPermit]
        /\ pc = [s \in Setters |-> "idle"]
        /\ want = [s \in Setters |-> FALSE]
        /\ current = [s \in Setters |-> 0]
        /\ returned = [s \in Setters |-> "none"]
        /\ acked = 0

-----------------------------------------------------------------------------
\* SeatGate::permit, called by a session thread before it serves its peer.
Permit(h) == /\ permit' = [permit EXCEPT ![h] = IF is_enabled(gate) THEN gate
                                                ELSE NoPermit]
             /\ UNCHANGED <<gate, pc, want, current, returned, acked>>

\* set_enabled is entered: the first load.
Load(s) == /\ pc[s] = "idle"
           /\ \E e \in BOOLEAN : want' = [want EXCEPT ![s] = e]
           /\ pc' = [pc EXCEPT ![s] = "loop"]
           /\ current' = [current EXCEPT ![s] = gate]
           /\ UNCHANGED <<gate, permit, returned, acked>>

Return(s, how) == /\ pc' = [pc EXCEPT ![s] = "idle"]
                  /\ returned' = [returned EXCEPT ![s] = how]

\* A call that leaves the seat off with word r answers its caller with r.
Acknowledge(s, r) == acked' = IF want[s] \/ r < acked THEN acked ELSE r

\* The word already is as wanted: return its status.
Satisfied(s) == /\ pc[s] = "loop"
                /\ is_enabled(current[s]) <=> want[s]
                /\ Return(s, "ok")
                /\ Acknowledge(s, current[s])
                /\ UNCHANGED <<gate, permit, want, current>>

\* checked_add has no next word, or the next word is the terminal one: the
\* gate is stored shut.  Only a disable that finds no next word still succeeds.
Spent(s) == /\ pc[s] = "loop"
            /\ ~(is_enabled(current[s]) <=> want[s])
            /\ current[s] + 1 >= DISABLED_TERMINAL
            /\ gate' = DISABLED_TERMINAL
            /\ IF current[s] = DISABLED_TERMINAL /\ ~want[s]
               THEN Return(s, "ok") /\ Acknowledge(s, DISABLED_TERMINAL)
               ELSE Return(s, "err") /\ UNCHANGED acked
            /\ UNCHANGED <<permit, want, current>>

SpaceLeft(s) == /\ pc[s] = "loop"
                /\ ~(is_enabled(current[s]) <=> want[s])
                /\ current[s] + 1 < DISABLED_TERMINAL

\* Mutant: a plain store in place of the compare_exchange.
Swap_store(s) == /\ SpaceLeft(s)
                 /\ gate' = current[s] + 1
                 /\ Return(s, "ok")
                 /\ Acknowledge(s, current[s] + 1)
                 /\ UNCHANGED <<permit, want, current>>

\* compare_exchange succeeds.
Swap(s) == /\ SpaceLeft(s)
           /\ gate = current[s]
           /\ gate' = current[s] + 1
           /\ Return(s, "ok")
           /\ Acknowledge(s, current[s] + 1)
           /\ UNCHANGED <<permit, want, current>>

\* compare_exchange fails: go round with the word observed.
Retry(s) == /\ SpaceLeft(s)
            /\ gate # current[s]
            /\ current' = [current EXCEPT ![s] = gate]
            /\ UNCHANGED <<gate, permit, pc, want, returned, acked>>

Next == \/ \E h \in Holders : Permit(h)
        \/ \E s \in Setters : Load(s) \/ Satisfied(s) \/ Spent(s) \/ Swap(s) \/ Retry(s)

Spec == Init /\ [][Next]_vars

-----------------------------------------------------------------------------
\* Once `seat disable` has been answered, no permit taken before the answer is
\* accepted any more, whatever the gate does afterwards.
NoPermitOutlivesDisable ==
    \A h \in Holders : accepts(gate, permit[h]) => permit[h] > acked

\* Switching the seat off never fails, not even when the transition space is
\* exhausted; only an enable can return the exhaustion error.
DisableNeverFails ==
    \A s \in Setters : returned[s] = "err" => pc[s] = "loop" \/ want[s]

\* A permit that is refused stays refused: disable followed by enable does not
\* revive the sessions of the older generation.
RefusedForGood ==
    [][\A h \in Holders :
          /\ permit[h] # NoPermit
          /\ ~accepts(gate, permit[h])
          /\ permit'[h] = permit[h]
          => ~accepts(gate', permit'[h])]_vars

\* The word implements the contract: what a permit is worth is what the
\* contract says, through every interleaving of loads, swaps and retries.
Contract == INSTANCE SeatGateContract
              WITH on <- is_enabled(gate),
                   good <- {h \in Holders : accepts(gate, permit[h])},
                   exhausted <- gate = DISABLED_TERMINAL

ImplementsContract == Contract!GateSpec
=============================================================================
