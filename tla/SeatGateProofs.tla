--------------------------- MODULE SeatGateProofs ---------------------------
(***************************************************************************)
(* Proofs about SeatGate for any number of sessions, any number of callers *)
(* of set_enabled and any odd terminal word, u64::MAX included.            *)
(***************************************************************************)
EXTENDS SeatGate, TLAPS

\* Whatever a thread still remembers is not newer than the word itself, and
\* a word that answered a disable is a disabled word.
IInv == /\ TypeOK
        /\ \A h \in Holders : permit[h] # NoPermit =>
                /\ permit[h] \in Nat
                /\ permit[h] <= gate
                /\ is_enabled(permit[h])
        /\ \A s \in Setters : pc[s] = "loop" => current[s] <= gate
        /\ acked <= gate
        /\ ~is_enabled(acked)
        /\ DisableNeverFails

\* Arithmetic of the word: the next word has the opposite status unless it is
\* the terminal one, and an enabled word is never the last but one.
LEMMA NextWord ==
    ASSUME NEW w \in Words
    PROVE  /\ is_enabled(w) /\ w + 1 < DISABLED_TERMINAL => ~is_enabled(w + 1)
           /\ ~is_enabled(w) /\ w + 1 < DISABLED_TERMINAL => is_enabled(w + 1)
           /\ is_enabled(w) => w + 1 < DISABLED_TERMINAL
           /\ w + 1 < DISABLED_TERMINAL => w + 1 \in Words
           /\ DISABLED_TERMINAL \in Words
           /\ ~is_enabled(DISABLED_TERMINAL)
           /\ 0 \in Words /\ ~is_enabled(0)
  BY GateAssumption DEF Words, is_enabled

\* A new gate satisfies the invariant.
LEMMA InitIInv == Init => IInv
  BY GateAssumption, NextWord DEF Init, IInv, TypeOK, Words, DisableNeverFails, is_enabled

\* Every shared access of permit and set_enabled keeps it.
LEMMA StepIInv == IInv /\ [Next]_vars => IInv'
  <1> SUFFICES ASSUME IInv, [Next]_vars PROVE IInv'
    OBVIOUS
  <1> USE GateAssumption DEF IInv, TypeOK, DisableNeverFails
  <1>s. UNCHANGED vars => IInv'
    BY DEF vars
  <1>1. ASSUME NEW h \in Holders, Permit(h) PROVE IInv'
    BY <1>1 DEF Permit, Words
  <1>2. ASSUME NEW s \in Setters, Load(s) PROVE IInv'
    BY <1>2 DEF Load, Words
  <1>3. ASSUME NEW s \in Setters, Satisfied(s) PROVE IInv'
    BY <1>3 DEF Satisfied, Return, Acknowledge, Words
  <1>4. ASSUME NEW s \in Setters, Spent(s) PROVE IInv'
    <2>1. current[s] \in Words /\ want[s] \in BOOLEAN
      OBVIOUS
    <2>2. ~(current[s] + 1 < DISABLED_TERMINAL)
      BY <1>4, <2>1 DEF Spent, Words
    <2>3. ~is_enabled(current[s])
      BY <2>1, <2>2, NextWord
    <2>4. want[s]
      BY <1>4, <2>1, <2>3 DEF Spent
    <2>5. gate' = DISABLED_TERMINAL /\ gate <= gate' /\ gate' \in Words
      BY <1>4 DEF Spent, Words
    <2>6. /\ permit' = permit /\ want' = want /\ current' = current /\ acked' = acked
          /\ pc' = [pc EXCEPT ![s] = "idle"]
          /\ returned' = [returned EXCEPT ![s] = "err"]
      BY <1>4, <2>4 DEF Spent, Return
    <2>7. QED
      BY <2>4, <2>5, <2>6 DEF Words
  <1>5. ASSUME NEW s \in Setters, Swap(s) PROVE IInv'
    <2>1. gate' = gate + 1 /\ gate' \in Words /\ (~want[s] => ~is_enabled(gate'))
      BY <1>5, NextWord DEF Swap, SpaceLeft
    <2>2. QED
      BY <1>5, <2>1 DEF Swap, SpaceLeft, Return, Acknowledge, Words
  <1>6. ASSUME NEW s \in Setters, Retry(s) PROVE IInv'
    BY <1>6 DEF Retry, SpaceLeft, Words
  <1>7. QED
    BY <1>s, <1>1, <1>2, <1>3, <1>4, <1>5, <1>6 DEF Next

\* The strengthened invariant holds throughout.
THEOREM Inductive == Spec => []IInv
  BY InitIInv, StepIInv, PTL DEF Spec

\* seat.rs keeps its word, permits and locals in range: no transition wraps.
THEOREM TypeCorrect == Spec => []TypeOK
  <1>1. IInv => TypeOK
    BY DEF IInv
  <1>2. QED
    BY <1>1, Inductive, PTL

\* After a disable is acknowledged no earlier permit is accepted, for any
\* number of threads and any length of the transition space.
THEOREM DisableRevokes == Spec => []NoPermitOutlivesDisable
  <1>1. IInv => NoPermitOutlivesDisable
    BY GateAssumption DEF IInv, TypeOK, NoPermitOutlivesDisable, accepts, Words
  <1>2. QED
    BY <1>1, Inductive, PTL

\* The exhaustion error of set_enabled is only ever returned to an enable.
THEOREM DisableSucceeds == Spec => []DisableNeverFails
  <1>1. IInv => DisableNeverFails
    BY DEF IInv
  <1>2. QED
    BY <1>1, Inductive, PTL

-----------------------------------------------------------------------------
\* The gate word never goes back, and an enabled word is only ever left.
LEMMA WordAdvances ==
    ASSUME IInv, [Next]_vars
    PROVE  /\ gate \in Nat /\ gate' \in Nat
           /\ gate <= gate'
  <1> USE GateAssumption DEF IInv, TypeOK, Words
  <1>1. IInv'
    BY StepIInv
  <1>2. ASSUME NEW s \in Setters, Spent(s) \/ Swap(s) PROVE gate <= gate'
    BY <1>2 DEF Spent, Swap, SpaceLeft
  <1>3. QED
    BY <1>1, <1>2 DEF Next, Permit, Load, Satisfied, Retry, vars

\* A refused permit stays refused whatever the other threads do.
THEOREM NeverRevived == Spec => RefusedForGood
  <1>1. IInv /\ [Next]_vars =>
           [\A h \in Holders : /\ permit[h] # NoPermit
                               /\ ~accepts(gate, permit[h])
                               /\ permit'[h] = permit[h]
                               => ~accepts(gate', permit'[h])]_vars
    <2> SUFFICES ASSUME IInv, [Next]_vars, NEW h \in Holders,
                        permit[h] # NoPermit, ~accepts(gate, permit[h]),
                        permit'[h] = permit[h], accepts(gate', permit'[h])
                 PROVE  FALSE
      OBVIOUS
    <2>1. permit[h] < gate
      BY GateAssumption DEF IInv, TypeOK, Words, accepts
    <2>2. gate' = permit[h]
      BY DEF accepts
    <2>3. QED
      BY <2>1, <2>2, WordAdvances DEF IInv
  <1>2. QED
    BY <1>1, Inductive, PTL DEF Spec, RefusedForGood

-----------------------------------------------------------------------------
Good == {h \in Holders : accepts(gate, permit[h])}

\* While the seat is off no permit is good; a permit is good when it is the word.
LEMMA GoodPermits ==
    ASSUME IInv
    PROVE  /\ ~is_enabled(gate) => Good = {}
           /\ \A h \in Holders : h \in Good <=> is_enabled(gate) /\ permit[h] = gate
  BY GateAssumption DEF IInv, TypeOK, Words, Good, accepts

\* The word implements SeatGateContract: every step of every thread is a step
\* of the contract or leaves the contract's state alone.
THEOREM WordImplementsContract == Spec => ImplementsContract
  <1>1. Init => Contract!GateInit
    <2> SUFFICES ASSUME Init PROVE Contract!GateInit
      OBVIOUS
    <2>1. gate = 0 /\ ~is_enabled(gate)
      BY NextWord, GateAssumption DEF Init, Words
    <2>2. gate # DISABLED_TERMINAL
      BY <2>1, GateAssumption
    <2>3. Good = {}
      BY DEF Init, accepts, Good
    <2>4. (is_enabled(gate) = FALSE) /\ ((gate = DISABLED_TERMINAL) = FALSE)
      BY <2>1, <2>2, Zenon DEF is_enabled
    <2>5. QED
      BY <2>3, <2>4, Zenon DEF Contract!GateInit, Good
  <1>2. IInv /\ IInv' /\ [Next]_vars => [Contract!GateNext]_(Contract!gateVars)
    <2> SUFFICES ASSUME IInv, IInv', [Next]_vars
                 PROVE  [Contract!GateNext]_(Contract!gateVars)
      OBVIOUS
    <2> USE GateAssumption
    <2> USE DEF Contract!GateNext, Contract!gateVars
    <2>1. ASSUME NEW h \in Holders, Permit(h) PROVE Contract!Issue(h)
      <3>1. gate' = gate /\ \A k \in Holders \ {h} : permit'[k] = permit[k]
        BY <2>1 DEF Permit, IInv, TypeOK
      <3>2. permit'[h] = IF is_enabled(gate) THEN gate ELSE NoPermit
        BY <2>1 DEF Permit, IInv, TypeOK
      <3>3. gate \in Nat
        BY DEF IInv, TypeOK, Words
      <3>4. accepts(gate', permit'[h]) <=> is_enabled(gate)
        BY <3>1, <3>2, <3>3 DEF accepts
      <3>5. Good' = IF is_enabled(gate) THEN Good \cup {h} ELSE Good \ {h}
        BY <3>1, <3>4 DEF Good
      <3>6. QED
        BY <3>1, <3>5 DEF Contract!Issue, Good
    <2>2. ASSUME NEW s \in Setters, Spent(s) PROVE Contract!Exhaust
      <3>1. current[s] \in Words /\ gate \in Words /\ current[s] <= gate
        BY <2>2 DEF Spent, IInv, TypeOK
      <3>2. ~(current[s] + 1 < DISABLED_TERMINAL)
        BY <2>2, <3>1 DEF Spent, Words
      <3>3. ~(gate + 1 < DISABLED_TERMINAL)
        BY <3>1, <3>2 DEF Words
      <3>4. ~is_enabled(gate)
        BY <3>1, <3>3, NextWord
      <3>5. gate' = DISABLED_TERMINAL /\ ~is_enabled(gate')
        BY <2>2, NextWord, <3>1 DEF Spent
      <3>6. Good = {} /\ Good' = {}
        BY <3>4, <3>5, GoodPermits, <2>2 DEF Spent, Good, accepts
      <3>7. is_enabled(gate') = is_enabled(gate)
        BY <3>4, <3>5, Zenon DEF is_enabled
      <3>8. (gate' = DISABLED_TERMINAL) = TRUE
        BY <3>5
      <3>9. QED
        BY <3>4, <3>6, <3>7, <3>8, Zenon DEF Contract!Exhaust, Good
    <2>3. ASSUME NEW s \in Setters, Swap(s) PROVE Contract!Enable \/ Contract!Disable
      <3>1. /\ gate \in Words /\ gate + 1 < DISABLED_TERMINAL
            /\ gate' = gate + 1 /\ permit' = permit
        BY <2>3 DEF Swap, SpaceLeft, IInv, TypeOK
      <3>2. ~is_enabled(gate') <=> is_enabled(gate)
        BY <3>1, NextWord
      <3>3. gate # DISABLED_TERMINAL /\ gate' # DISABLED_TERMINAL
        BY <3>1 DEF Words
      <3>4. (gate' = DISABLED_TERMINAL) = (gate = DISABLED_TERMINAL)
        BY <3>3, Zenon
      <3>5. Good' = {}
        BY <3>1 DEF IInv, Good, accepts, Words
      <3>6. CASE is_enabled(gate)
        <4>1. is_enabled(gate') = FALSE
          BY <3>2, <3>6, Zenon DEF is_enabled
        <4>2. QED
          BY <3>4, <3>5, <3>6, <4>1, Zenon DEF Contract!Disable, Good
      <3>7. CASE ~is_enabled(gate)
        <4>1. is_enabled(gate') = TRUE
          BY <3>2, <3>7, Zenon DEF is_enabled
        <4>2. Good = {}
          BY <3>7, GoodPermits
        <4>3. QED
          BY <3>3, <3>4, <3>5, <3>7, <4>1, <4>2, Zenon DEF Contract!Enable, Good
      <3>8. QED
        BY <3>6, <3>7
    <2>4. ASSUME NEW s \in Setters, Load(s) \/ Satisfied(s) \/ Retry(s) PROVE UNCHANGED Contract!gateVars
      BY <2>4 DEF Load, Satisfied, Retry
    <2>5. QED
      BY <2>1, <2>2, <2>3, <2>4 DEF Next, vars
  <1>3. QED
    BY <1>1, <1>2, Inductive, PTL DEF Spec, ImplementsContract, Contract!GateSpec
=============================================================================
