--------------------------- MODULE ProviderProofs ---------------------------
(***************************************************************************)
(* The provider process for any number of connections, any request and     *)
(* session bounds, any length of an input request and any odd terminal     *)
(* word of the gate.                                                       *)
(***************************************************************************)
EXTENDS Provider, TLAPS

\* The prover of the leaves that name none, and how long it may take.
USE ZenonT(60)

\* Where a session has not yet asked for a permit, and where it has passed claim.
Before == {"unborn", "queued", "rejected", "hello", "permit"}
Serving == {"idle", "read", "got", "check", "inject", "effect", "reply"}

\* A permit is an enabled word of the past or of now.
PermitInv(c) ==
    /\ permit[c] # NoPermit => permit[c] <= gate /\ is_enabled(permit[c])
    /\ at[c] \in Before => permit[c] = NoPermit

\* A late effect is one of a session whose permit is refused by now, and which
\* is past the gate's last look at it.
LateInv(c) ==
    late[c] # 0 => /\ late[c] = 1
                   /\ ~accepts(gate, permit[c])
                   /\ at[c] \notin Before \cup {"inject", "effect"}

\* The counters of the request loop, and who may hold the persistent slot.
LoopInv(c) ==
    /\ at[c] \in {"check", "inject"} => todo[c] > 0
    /\ at[c] \in Serving \ {"idle"} => served[c] < max_requests
    /\ guard[c] => at[c] \in Serving

IInv == /\ world \in Worlds
        /\ TypeOK
        /\ acked <= gate
        /\ ~is_enabled(acked)
        /\ SlotIsHeldOnce
        /\ \A c \in Conns : PermitInv(c) /\ LateInv(c) /\ LoopInv(c)

-----------------------------------------------------------------------------
\* Arithmetic of the word, as in seat.rs: 0 and the terminal word are disabled.
LEMMA WordFacts ==
    /\ 0 \in Words /\ ~is_enabled(0)
    /\ DISABLED_TERMINAL \in Words /\ ~is_enabled(DISABLED_TERMINAL)
    /\ \A w \in Words : w \in Nat /\ w # NoPermit
  BY SMTT(60), GateAssumption DEF Words, is_enabled

\* What set_enabled makes of the word: it never goes back, and a disable leaves
\* a disabled one.
LEMMA SetEnabled ==
    ASSUME NEW w \in Words, NEW cmd
    PROVE  /\ set_enabled(w, cmd = "enable") \in Words
           /\ w <= set_enabled(w, cmd = "enable")
           /\ cmd = "disable" => ~is_enabled(set_enabled(w, cmd = "enable"))
  BY SMTT(60), GateAssumption DEF set_enabled, Words, is_enabled

\* A permit that is refused stays refused when the word advances.
LEMMA StaysRefused ==
    ASSUME NEW w \in Words, NEW v \in Words, w <= v,
           NEW p \in Words, p <= w, is_enabled(p), ~accepts(w, p)
    PROVE  ~accepts(v, p)
  BY SMTT(60), GateAssumption DEF accepts, Words

\* The counters of a request start at 0.
LEMMA Zero == ASSUME world \in Worlds PROVE 0 \in 0 .. world.units /\ 0 \in 0 .. max_requests
  BY SMTT(60), ProviderAssumption

\* The provider starts in the invariant.
LEMMA InitIInv == Init => IInv
  <1> SUFFICES ASSUME Init PROVE IInv
    OBVIOUS
  <1>1. TypeOK
    BY WordFacts, Zero DEF Init, TypeOK, Ats
  <1>2. SlotIsHeldOnce
    BY DEF Init, SlotIsHeldOnce
  <1>3. \A c \in Conns : PermitInv(c) /\ LateInv(c) /\ LoopInv(c)
    BY DEF Init, PermitInv, LateInv, LoopInv, Serving
  <1>4. QED
    BY SMTT(60), <1>1, <1>2, <1>3, WordFacts DEF Init, IInv

-----------------------------------------------------------------------------
\* The process may end at any moment.
LEMMA ExitIInv ==
    ASSUME IInv, NEW how \in {"ok", "err"}, Exit(how), UNCHANGED world,
           gate' \in Words, gate <= gate', acked' = acked,
           stopping' = stopping, selection' = selection
    PROVE  IInv'
  <1>1. TypeOK'
    BY Zero DEF IInv, TypeOK, Exit, Ats, Running
  <1>2. SlotIsHeldOnce'
    BY DEF Exit, SlotIsHeldOnce
  <1>3. \A c \in Conns : PermitInv(c)' /\ LateInv(c)' /\ LoopInv(c)'
    <2> TAKE c \in Conns
    <2>1. /\ permit'[c] = NoPermit /\ late'[c] = 0 /\ guard'[c] = FALSE
          /\ at'[c] \notin Serving
      BY DEF Exit, Serving, Running
    <2>2. QED
      BY <2>1 DEF PermitInv, LateInv, LoopInv, Serving
  <1>4. acked' <= gate'
    BY SMTT(60) DEF IInv, TypeOK, Words
  <1>5. QED
    BY <1>1, <1>2, <1>3, <1>4 DEF IInv

\* A thread may return wherever it runs.
LEMMA ReturnIInv ==
    ASSUME IInv, NEW c \in Conns, at[c] \in Running, Return(c),
           UNCHANGED serveVars, UNCHANGED world
    PROVE  IInv'
  <1>1. TypeOK'
    BY Zero DEF IInv, TypeOK, Return, Goto, Ats, serveVars
  <1>2. SlotIsHeldOnce'
    BY DEF IInv, TypeOK, Return, SlotIsHeldOnce, serveVars
  <1>3. \A d \in Conns : PermitInv(d)' /\ LateInv(d)' /\ LoopInv(d)'
    BY DEF IInv, TypeOK, Return, Goto, PermitInv, LateInv, LoopInv, Serving, Before,
           serveVars
  <1>4. QED
    BY <1>1, <1>2, <1>3 DEF IInv, serveVars

\* Steps of the world and of the serve loop that touch no session.
LEMMA OutsideIInv ==
    ASSUME IInv, UNCHANGED sessionVars, UNCHANGED world,
           TypeOK', gate <= gate', acked' <= gate', ~is_enabled(acked'),
           loop = "exited" => loop' = "exited"
    PROVE  IInv'
  <1>1. SlotIsHeldOnce'
    BY DEF IInv, SlotIsHeldOnce, sessionVars
  <1>2. ASSUME NEW c \in Conns PROVE PermitInv(c)' /\ LateInv(c)' /\ LoopInv(c)'
    <2>1. /\ permit' = permit /\ late' = late /\ at' = at /\ todo' = todo
          /\ served' = served /\ guard' = guard
      BY DEF sessionVars
    <2>2. gate \in Words /\ gate' \in Words /\ permit[c] \in Words \cup {NoPermit}
      BY DEF IInv, TypeOK
    <2>3. PermitInv(c)'
      BY SMTT(60), <2>1, <2>2 DEF IInv, PermitInv, Words
    <2>4. LateInv(c)'
      <3>1. CASE permit[c] = NoPermit
        BY <2>1, <3>1 DEF IInv, LateInv, accepts
      <3>2. CASE permit[c] # NoPermit
        BY <2>1, <2>2, <3>2, StaysRefused DEF IInv, PermitInv, LateInv
      <3>3. QED
        BY <3>1, <3>2
    <2>5. QED
      BY <2>1, <2>3, <2>4 DEF IInv, LoopInv
  <1>3. QED
    BY <1>1, <1>2 DEF IInv

\* Steps of one thread that goes from one place to another.
LEMMA MoveIInv ==
    ASSUME IInv, NEW c \in Conns, NEW where \in Ats, Goto(c, where),
           UNCHANGED <<serveVars, slot, guard, permit, served, todo, late>>, UNCHANGED world,
           at[c] \in Before \/ where \notin Before,
           late[c] # 0 => where \notin Before \cup {"inject", "effect"},
           where \in {"check", "inject"} => todo[c] > 0,
           where \in Serving \ {"idle"} => served[c] < max_requests,
           guard[c] => where \in Serving
    PROVE  IInv'
  <1>1. TypeOK'
    BY DEF IInv, TypeOK, Goto, serveVars
  <1>2. SlotIsHeldOnce'
    BY DEF IInv, SlotIsHeldOnce, serveVars
  <1>3. \A d \in Conns : PermitInv(d)' /\ LateInv(d)' /\ LoopInv(d)'
    BY DEF IInv, TypeOK, Goto, PermitInv, LateInv, LoopInv, serveVars
  <1>4. QED
    BY <1>1, <1>2, <1>3 DEF IInv, serveVars

-----------------------------------------------------------------------------
\* The operator, the signals, the X server and the serve loop keep the invariant.
LEMMA ServeIInv ==
    ASSUME IInv, UNCHANGED world,
           Signal \/ Clear \/ Operator \/ Leave \/ Serve \/ LoopError
    PROVE  IInv'
  <1> USE DEF serveVars, sessionVars
  <1>t. TypeOK /\ acked <= gate /\ ~is_enabled(acked) /\ gate \in Nat
    BY WordFacts DEF IInv, TypeOK
  <1>1. CASE Signal
    BY SMTT(60), <1>1, <1>t, OutsideIInv DEF Signal, TypeOK
  <1>2. CASE Clear
    BY SMTT(60), <1>2, <1>t, OutsideIInv DEF Clear, TypeOK
  <1>3. CASE Operator
    <2>1. TypeOK'
      <3>1. control' \in [cmd : world.commands, here : BOOLEAN]
        BY SMTT(60), <1>3 DEF Operator
      <3>2. QED
        BY <1>3, <1>t, <3>1 DEF Operator, TypeOK
    <2>2. QED
      BY SMTT(60), <1>3, <1>t, <2>1, OutsideIInv DEF Operator
  <1>4. CASE Leave
    <2>1. control \in [cmd : world.commands, here : BOOLEAN]
      BY SMTT(60), <1>4, <1>t DEF Leave, TypeOK, NoCommand
    <2>2. control' \in [cmd : world.commands, here : BOOLEAN]
      BY <1>4, <2>1 DEF Leave
    <2>3. TypeOK'
      BY <1>4, <1>t, <2>2 DEF Leave, TypeOK
    <2>4. QED
      BY SMTT(60), <1>4, <1>t, <2>3, OutsideIInv DEF Leave
  <1>5. CASE Stop \/ NothingToAnswer \/ Lost \/ NoPeer
    <2>1. TypeOK'
      BY <1>5, <1>t DEF Stop, NothingToAnswer, Lost, NoPeer, TypeOK
    <2>2. QED
      BY SMTT(60), <1>5, <1>t, <2>1, OutsideIInv DEF Stop, NothingToAnswer, Lost, NoPeer
  <1>6. CASE Answer
    <2>1. gate' \in Words /\ gate <= gate' /\ (control.cmd = "disable" => ~is_enabled(gate'))
      BY SMTT(60), <1>6, <1>t, SetEnabled DEF Answer, TypeOK
    <2>2. CASE control.here /\ ~(control.cmd = "enable" /\ gate' = DISABLED_TERMINAL)
      <3>1. /\ acked' = IF control.cmd = "disable" THEN gate' ELSE acked
            /\ UNCHANGED sessionVars /\ loop # "exited"
            /\ loop' = "reap" /\ control' = NoCommand
            /\ UNCHANGED <<ended, stopping, selection>>
        BY <1>6, <2>2 DEF Answer
      <3>2. acked' <= gate' /\ ~is_enabled(acked') /\ acked' \in Words
        BY SMTT(60), <3>1, <2>1, <1>t DEF TypeOK, Words
      <3>3. TypeOK'
        BY <3>1, <3>2, <2>1, <1>t DEF TypeOK
      <3>4. QED
        BY <3>1, <3>2, <3>3, <2>1, OutsideIInv
    <2>3. CASE ~(control.here /\ ~(control.cmd = "enable" /\ gate' = DISABLED_TERMINAL))
      BY <1>6, <2>1, <2>3, ExitIInv DEF Answer
    <2>4. QED
      BY <2>2, <2>3
  <1>7. CASE Reap
    <2>1. TypeOK'
      BY <1>7, <1>t DEF Reap, TypeOK, Ats
    <2>2. \A c \in Conns : PermitInv(c)' /\ LateInv(c)' /\ LoopInv(c)'
      BY <1>7, <1>t DEF Reap, IInv, TypeOK, PermitInv, LateInv, LoopInv, Before, Serving
    <2>3. QED
      BY <1>7, <2>1, <2>2 DEF Reap, IInv, SlotIsHeldOnce
  <1>8. ASSUME NEW c \in Conns, Accept(c) PROVE IInv'
    <2>1. TypeOK'
      BY <1>8, <1>t DEF Accept, TypeOK, Ats, Running
    <2>2. \A d \in Conns : PermitInv(d)' /\ LateInv(d)' /\ LoopInv(d)'
      BY <1>8, <1>t DEF Accept, IInv, TypeOK, PermitInv, LateInv, LoopInv, Before, Serving
    <2>3. QED
      BY <1>8, <2>1, <2>2 DEF Accept, IInv, SlotIsHeldOnce
  <1>9. CASE Join \/ LoopError
    <2>1. \E how \in {"ok", "err"} : Exit(how)
      BY <1>9 DEF Join, LoopError
    <2>2. QED
      BY SMTT(60), <1>9, <1>t, <2>1, ExitIInv DEF Join, LoopError, TypeOK
  <1>10. QED
    BY <1>1, <1>2, <1>3, <1>4, <1>5, <1>6, <1>7, <1>8, <1>9 DEF Serve

\* Every step of a session thread keeps it.
LEMMA SessionIInv ==
    ASSUME IInv, UNCHANGED world, NEW c \in Conns, Connect(c) \/ Wake(c) \/ Proceed(c)
    PROVE  IInv'
  <1> USE DEF Before, Serving
  <1>t. /\ TypeOK /\ PermitInv(c) /\ LateInv(c) /\ LoopInv(c)
        /\ served[c] \in 0 .. max_requests /\ max_requests \in Nat /\ world.units \in Nat
        /\ todo[c] \in 0 .. world.units
    BY ProviderAssumption DEF IInv, TypeOK
  <1>m. ASSUME NEW where \in {"queued", "permit", "claim", "idle", "read", "got", "check",
                               "inject", "effect", "reply"}
        PROVE  where \in Ats
    BY DEF Ats, Running
  <1>r. ASSUME Return(c), UNCHANGED serveVars, at[c] \in Running PROVE IInv'
    BY <1>r, ReturnIInv
  <1>1. CASE Connect(c)
    BY <1>1, <1>t, <1>m, MoveIInv DEF Connect, Goto, LateInv, PermitInv, LoopInv
  <1>2. CASE Wake(c) \/ Await(c)
    BY <1>2, <1>t, <1>m, MoveIInv DEF Wake, Await, LateInv, PermitInv, LoopInv
  <1>3. CASE Hello(c)
    BY <1>3, <1>t, <1>m, <1>r, MoveIInv DEF Hello, LateInv, PermitInv, LoopInv, Running
  <1>4. CASE Permit(c)
    <2>1. CASE is_enabled(gate)
      <3>1. /\ permit' = [permit EXCEPT ![c] = gate] /\ Goto(c, "recheck") /\ at[c] = "permit"
            /\ UNCHANGED <<slot, guard, served, todo, late>> /\ UNCHANGED serveVars
        BY <1>4, <2>1 DEF Permit
      <3>2. TypeOK'
        BY <3>1, <1>t DEF TypeOK, Goto, Ats, Running, serveVars
      <3>3. \A d \in Conns : PermitInv(d)' /\ LateInv(d)' /\ LoopInv(d)'
        BY SMTT(60), <3>1, <1>t, <2>1, WordFacts
           DEF IInv, TypeOK, Goto, PermitInv, LateInv, LoopInv, serveVars
      <3>4. QED
        BY <3>1, <3>2, <3>3 DEF IInv, SlotIsHeldOnce, serveVars
    <2>2. CASE ~is_enabled(gate)
      BY <1>4, <2>2, <1>r DEF Permit, Running
    <2>3. QED
      BY <2>1, <2>2
  <1>5. CASE Recheck(c)
    BY <1>5, <1>t, <1>m, <1>r, MoveIInv DEF Recheck, LateInv, PermitInv, LoopInv, Running
  <1>6. CASE Claim(c)
    <2>1. CASE Return(c)
      BY <1>6, <2>1, <1>r DEF Claim, Running
    <2>2. CASE ~Return(c)
      <3>1. /\ at[c] = "claim" /\ slot' = (slot \/ private_devices)
            /\ guard' = [guard EXCEPT ![c] = private_devices /\ ~slot]
            /\ Goto(c, "idle")
            /\ UNCHANGED <<permit, served, todo, late>> /\ UNCHANGED serveVars
        BY <1>6, <2>2 DEF Claim
      <3>2. TypeOK'
        BY <3>1, <1>t, ProviderAssumption DEF TypeOK, Goto, Ats, Running, serveVars
      <3>3. ~guard[c]
        BY <3>1, <1>t DEF LoopInv
      <3>4. SlotIsHeldOnce'
        BY <3>1, <3>3, <1>t, ProviderAssumption DEF IInv, TypeOK, SlotIsHeldOnce, serveVars
      <3>5. \A d \in Conns : PermitInv(d)' /\ LateInv(d)' /\ LoopInv(d)'
        BY <3>1, <1>t DEF IInv, TypeOK, Goto, PermitInv, LateInv, LoopInv, serveVars
      <3>6. QED
        BY <3>1, <3>2, <3>4, <3>5 DEF IInv, serveVars
    <2>3. QED
      BY <2>1, <2>2
  <1>7. CASE Finish(c)
    BY <1>7, <1>r DEF Finish, Running
  <1>8. CASE Read(c)
    BY <1>8, <1>t, <1>m, <1>r, MoveIInv DEF Read, LateInv, PermitInv, LoopInv, Running
  <1>9. CASE Dispatch(c)
    <2>1. CASE ~accepts(gate, permit[c])
      BY <1>9, <2>1, <1>r DEF Dispatch, Running
    <2>2. CASE accepts(gate, permit[c])
      <3>1. /\ at[c] = "got" /\ Begin(c)
            /\ UNCHANGED <<slot, guard, permit, served, late>> /\ UNCHANGED serveVars
        BY <1>9, <2>2 DEF Dispatch
      <3>2. late[c] = 0
        BY <2>2, <1>t DEF LateInv
      <3>3. ASSUME NEW n \in 1 .. world.units, Goto(c, "check"), todo' = [todo EXCEPT ![c] = n]
            PROVE  IInv'
        <4>1. TypeOK'
          BY SMTT(60), <3>1, <3>3, <1>t DEF TypeOK, Goto, Ats, Running, serveVars
        <4>2. \A d \in Conns : PermitInv(d)' /\ LateInv(d)' /\ LoopInv(d)'
          BY SMTT(60), <3>1, <3>2, <3>3, <1>t
             DEF IInv, TypeOK, Goto, PermitInv, LateInv, LoopInv, serveVars
        <4>3. QED
          BY <3>1, <3>3, <4>1, <4>2 DEF IInv, SlotIsHeldOnce, serveVars
      <3>4. ASSUME Goto(c, "effect") \/ Goto(c, "reply"), UNCHANGED todo PROVE IInv'
        BY <3>1, <3>2, <3>4, <1>t, <1>m, MoveIInv DEF LoopInv, PermitInv
      <3>5. QED
        BY <3>1, <3>3, <3>4 DEF Begin
    <2>3. QED
      BY <2>1, <2>2
  <1>10. CASE Check(c)
    BY <1>10, <1>t, <1>m, MoveIInv DEF Check, LateInv, PermitInv, LoopInv
  <1>11. CASE Effect(c)
    <2>1. /\ at[c] \in {"inject", "effect"} /\ late[c] = 0
          /\ UNCHANGED <<slot, guard, permit, served>> /\ UNCHANGED serveVars
      BY <1>11, <1>t DEF Effect, LateInv
    <2>2. /\ todo' = [todo EXCEPT ![c] = IF at[c] = "inject" THEN todo[c] - 1 ELSE 0]
          /\ todo'[c] \in 0 .. world.units
          /\ todo'[c] # 0 => todo'[c] > 0
      BY SMTT(60), <1>11, <2>1, <1>t DEF Effect, LoopInv, TypeOK
    <2>3. Goto(c, IF todo'[c] = 0 THEN "reply" ELSE "check")
      BY <1>11 DEF Effect
    <2>4. late' = [late EXCEPT ![c] = IF accepts(gate, permit[c]) THEN 0 ELSE 1]
      BY SMTT(60), <1>11, <2>1, <1>t DEF Effect, TypeOK
    <2>5. TypeOK'
      BY <2>1, <2>2, <2>3, <2>4, <1>t DEF TypeOK, Goto, Ats, Running, serveVars
    <2>6. \A d \in Conns : PermitInv(d)' /\ LateInv(d)' /\ LoopInv(d)'
      BY <2>1, <2>2, <2>3, <2>4, <1>t
         DEF IInv, TypeOK, Goto, PermitInv, LateInv, LoopInv, serveVars
    <2>7. QED
      BY <2>1, <2>5, <2>6 DEF IInv, SlotIsHeldOnce, serveVars
  <1>12. CASE Reply(c)
    <2>1. CASE Return(c)
      BY <1>12, <2>1, <1>r DEF Reply, Running
    <2>2. CASE ~Return(c)
      <3>1. /\ at[c] = "reply" /\ served' = [served EXCEPT ![c] = served[c] + 1]
            /\ todo' = [todo EXCEPT ![c] = 0] /\ Goto(c, "idle")
            /\ UNCHANGED <<slot, guard, permit, late>> /\ UNCHANGED serveVars
        BY <1>12, <2>2 DEF Reply
      <3>2. served[c] + 1 \in 0 .. max_requests
        BY SMTT(60), <3>1, <1>t DEF LoopInv
      <3>3. TypeOK'
        BY <3>1, <3>2, <1>t, Zero DEF IInv, TypeOK, Goto, Ats, Running, serveVars
      <3>4. \A d \in Conns : PermitInv(d)' /\ LateInv(d)' /\ LoopInv(d)'
        BY <3>1, <1>t DEF IInv, TypeOK, Goto, PermitInv, LateInv, LoopInv, serveVars
      <3>5. QED
        BY <3>1, <3>3, <3>4 DEF IInv, SlotIsHeldOnce, serveVars
    <2>3. QED
      BY <2>1, <2>2
  <1>13. QED
    BY <1>1, <1>2, <1>3, <1>4, <1>5, <1>6, <1>7, <1>8, <1>9, <1>10, <1>11, <1>12 DEF Proceed

\* Every step of the provider keeps the invariant.
LEMMA StepIInv == IInv /\ [Next]_vars => IInv'
  <1> SUFFICES ASSUME IInv, [Next]_vars PROVE IInv'
    OBVIOUS
  <1>1. CASE UNCHANGED vars
    BY <1>1
       DEF vars, serveVars, sessionVars, IInv, TypeOK, SlotIsHeldOnce, PermitInv, LateInv,
           LoopInv
  <1>2. CASE Next
    BY <1>1, <1>2, ServeIInv, SessionIInv DEF Next, Ended
  <1>3. QED
    BY <1>1, <1>2

\* The strengthened invariant holds throughout.
THEOREM Inductive == Spec => []IInv
  BY InitIInv, StepIInv, PTL DEF Spec

\* lib.rs and session.rs keep their counters in range: a session never answers
\* more than max_requests requests and no unit of a request is counted twice.
THEOREM TypeCorrect == Spec => []TypeOK
  <1>1. IInv => TypeOK
    BY DEF IInv
  <1>2. QED
    BY <1>1, Inductive, PTL

\* From the moment its permit is revoked a session has at most one more effect
\* on the desktop: the per-unit look at the gate in session.rs bounds what an
\* input request of any length does after a disable.
THEOREM RevokedSessionStops == Spec => []AtMostOneLateEffect
  <1>1. IInv => AtMostOneLateEffect
    BY SMTT(60) DEF IInv, TypeOK, LateInv, AtMostOneLateEffect
  <1>2. QED
    BY <1>1, Inductive, PTL

\* PersistentSessionGuard neither leaks nor shares the persistent slot, on any
\* way out of session::run.
THEOREM SlotIsNotLeaked == Spec => []SlotIsHeldOnce
  <1>1. IInv => SlotIsHeldOnce
    BY DEF IInv
  <1>2. QED
    BY <1>1, Inductive, PTL

\* A disable that was answered is final for every session: no request begins
\* under a permit that is as old as the acknowledgement.
THEOREM DisableIsFinal == Spec => NoRequestBeginsRevoked
  <1>1. ASSUME IInv, [Next]_vars, NEW c \in Conns,
               at[c] = "got", at'[c] \in {"check", "effect", "reply"}
        PROVE  permit[c] > acked
    <2>1. at'[c] # at[c]
      BY <1>1
    <2>2. \A d \in Conns \ {c} : ~Connect(d) /\ ~Wake(d) /\ ~Proceed(d)
      <3> SUFFICES ASSUME NEW d \in Conns \ {c}, Connect(d) \/ Wake(d) \/ Proceed(d)
                   PROVE  at'[c] = at[c]
        BY <2>1
      <3>1. QED
        BY <1>1
           DEF Connect, Wake, Proceed, Hello, Permit, Recheck, Claim, Finish, Await, Read,
               Dispatch, Begin, Check, Effect, Reply, Return, Goto, IInv, TypeOK
    <2>3. ~Connect(c) /\ ~Wake(c) /\ (Proceed(c) => Dispatch(c))
      BY <1>1
         DEF Connect, Wake, Proceed, Hello, Permit, Recheck, Claim, Finish, Await, Read,
             Check, Effect, Reply
    <2>4. ASSUME Signal \/ Clear \/ Operator \/ Leave \/ Serve \/ LoopError \/ Ended
                 \/ UNCHANGED vars
          PROVE  at'[c] \in {"killed", "got"}
      <3>1. CASE Reap \/ Answer \/ Join \/ LoopError \/ \E d \in Conns : Accept(d)
        BY <3>1, <1>1
           DEF Reap, Answer, Join, LoopError, Accept, Exit, sessionVars, IInv, TypeOK,
               Running
      <3>2. QED
        BY <2>4, <3>1, <1>1
           DEF Signal, Clear, Operator, Leave, Serve, Ended, Stop, NothingToAnswer, Lost,
               NoPeer, vars, sessionVars
    <2>5. Dispatch(c)
      BY <1>1, <2>2, <2>3, <2>4 DEF Next
    <2>6. accepts(gate, permit[c])
      <3> SUFFICES ASSUME ~accepts(gate, permit[c]) PROVE at'[c] = "finished"
        BY <1>1
      <3>1. QED
        BY <1>1, <2>5 DEF Dispatch, Return, Goto, IInv, TypeOK
    <2>7. QED
      BY SMTT(60), <1>1, <2>6 DEF accepts, IInv, TypeOK, Words
  <1>2. IInv /\ [Next]_vars =>
            [\A c \in Conns : at[c] = "got" /\ at'[c] \in {"check", "effect", "reply"}
                                 => permit[c] > acked]_vars
    BY <1>1
  <1>3. QED
    BY <1>2, Inductive, PTL DEF Spec, NoRequestBeginsRevoked
=============================================================================
