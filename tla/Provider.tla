------------------------------ MODULE Provider ------------------------------
(***************************************************************************)
(* The provider process (crates/agent-seat-x11/src/lib.rs and session.rs): *)
(* the serve loop that answers the operator and admits peers, one thread   *)
(* per admitted session, and what they share: the seat gate, the stopping  *)
(* flag, the persistent-session slot and the X11 selection.                *)
(*                                                                         *)
(* Only the serve loop switches the gate, so set_enabled is one step here; *)
(* SeatGate has its individual accesses.                                   *)
(***************************************************************************)
EXTENDS SeatWord, FiniteSets

CONSTANTS MAX_CONNS,        \* bound: connections peers open during the run
          Worlds,           \* bounds: what may happen outside the process
          max_sessions,     \* Config::max_sessions
          max_requests,     \* Config::max_requests
          private_devices   \* Config::provider_private_devices

ASSUME ProviderAssumption ==
    /\ MAX_CONNS \in Nat
    /\ max_sessions \in Nat \ {0}
    /\ max_requests \in Nat \ {0}
    /\ private_devices \in BOOLEAN
    /\ \A w \in Worlds :
          /\ w.conns \in 0 .. MAX_CONNS   \* peers that connect
          /\ w.units \in Nat \ {0}        \* characters of one input request
          /\ w.commands \subseteq {"status", "enable", "disable", "unusable"}
          /\ w.last \in Words             \* the word at which operators stop enabling
          /\ w.faults \subseteq {"signal", "clear", "leave", "error"}

\* Connections, in the order in which they are opened.
Conns == 1 .. MAX_CONNS

VARIABLES world,       \* the member of Worlds this run happens in
          loop,        \* where the serve loop is
          ended,       \* how the process ended
          stopping,    \* the flag the signal handlers set
          selection,   \* "held", or "cleared" by another X11 client
          control,     \* the operator's pending command
          gate,        \* SeatGate.0
          acked,       \* history: the highest word a disable was answered with
          slot,        \* persistent_session
          at,          \* per connection: where its session is
          permit,      \* per connection: seat_permit
          guard,       \* per connection: PersistentSessionGuard::is_active
          served,      \* per connection: requests answered
          todo,        \* per connection: units left of the request at hand
          late         \* history: effects of a session after its revocation

serveVars == <<loop, ended, stopping, selection, control, gate, acked>>
sessionVars == <<slot, at, permit, guard, served, todo, late>>
vars == <<world, serveVars, sessionVars>>

NoCommand == [cmd |-> "none", here |-> FALSE]

\* Threads that run session::run.
Running == {"hello", "permit", "recheck", "claim", "idle", "read", "got",
            "check", "inject", "effect", "reply"}
Ats == Running \cup {"unborn", "queued", "rejected", "finished", "reaped", "killed"}

Live == {c \in Conns : at[c] \in Running}

\* The join handles in `sessions`: reap has not collected them yet.
sessions == {c \in Conns : at[c] \in Running \cup {"finished"}}

TypeOK == /\ loop \in {"control", "reap", "lost", "accept", "join", "exited"}
          /\ ended \in {"no", "ok", "err"}
          /\ stopping \in BOOLEAN
          /\ selection \in {"held", "cleared"}
          /\ control \in [cmd : world.commands, here : BOOLEAN] \cup {NoCommand}
          /\ gate \in Words
          /\ acked \in Words
          /\ slot \in BOOLEAN
          /\ at \in [Conns -> Ats]
          /\ permit \in [Conns -> Words \cup {NoPermit}]
          /\ guard \in [Conns -> BOOLEAN]
          /\ served \in [Conns -> 0 .. max_requests]
          /\ todo \in [Conns -> 0 .. world.units]
          /\ late \in [Conns -> Nat]

Init == /\ world \in Worlds
        /\ loop = "control"
        /\ ended = "no"
        /\ stopping = FALSE
        /\ selection = "held"
        /\ control = NoCommand
        /\ gate = 0
        /\ acked = 0
        /\ slot = FALSE
        /\ at = [c \in Conns |-> "unborn"]
        /\ permit = [c \in Conns |-> NoPermit]
        /\ guard = [c \in Conns |-> FALSE]
        /\ served = [c \in Conns |-> 0]
        /\ todo = [c \in Conns |-> 0]
        /\ late = [c \in Conns |-> 0]

-----------------------------------------------------------------------------
\* The world outside the process.

\* SIGINT or SIGTERM.
Signal == /\ "signal" \in world.faults
          /\ loop # "exited"
          /\ stopping' = TRUE
          /\ UNCHANGED <<loop, ended, selection, control, gate, acked, sessionVars>>

\* Another X11 client takes the selection; SelectionClear is queued.
Clear == /\ "clear" \in world.faults
         /\ loop # "exited"
         /\ selection' = "cleared"
         /\ UNCHANGED <<loop, ended, stopping, control, gate, acked, sessionVars>>

\* `agent-seat-x11 seat ...` (or a stranger) writes to the control socket.
Operator == /\ loop # "exited"
            /\ control = NoCommand
            /\ \E cmd \in world.commands :
                  /\ cmd = "enable" => gate < world.last
                  /\ control' = [cmd |-> cmd, here |-> TRUE]
            /\ UNCHANGED <<loop, ended, stopping, selection, gate, acked, sessionVars>>

\* The operator's own read times out, or the operator is interrupted.
Leave == /\ "leave" \in world.faults
         /\ control.here
         /\ control' = [control EXCEPT !.here = FALSE]
         /\ UNCHANGED <<loop, ended, stopping, selection, gate, acked, sessionVars>>

Connect(c) == /\ loop # "exited"
              /\ c <= world.conns
              /\ at[c] = "unborn"
              /\ \A d \in Conns : at[d] = "unborn" => c <= d
              /\ at' = [at EXCEPT ![c] = "queued"]
              /\ UNCHANGED <<serveVars, slot, permit, guard, served, todo, late>>

-----------------------------------------------------------------------------
\* The serve loop.

\* run returns and the process ends: threads that still run end with it.
Exit(how) == /\ loop' = "exited"
             /\ ended' = how
             /\ at' = [c \in Conns |-> IF at[c] \in Running THEN "killed" ELSE at[c]]
             /\ control' = NoCommand
             /\ slot' = FALSE
             /\ permit' = [c \in Conns |-> NoPermit]
             /\ guard' = [c \in Conns |-> FALSE]
             /\ served' = [c \in Conns |-> 0]
             /\ todo' = [c \in Conns |-> 0]
             /\ late' = [c \in Conns |-> 0]

\* while !stopping
Stop == /\ loop = "control"
        /\ stopping
        /\ loop' = "join"
        /\ UNCHANGED <<ended, stopping, selection, control, gate, acked, sessionVars>>

set_enabled(word, enabled) ==
    IF is_enabled(word) <=> enabled THEN word
    ELSE IF word + 1 >= DISABLED_TERMINAL THEN DISABLED_TERMINAL
    ELSE word + 1

\* Mutant: an unusable request is left in the backlog.
NothingToAnswer_keeps == /\ loop = "control"
                         /\ ~stopping
                         /\ control.cmd \in {"none", "unusable"}
                         /\ loop' = "reap"
                         /\ UNCHANGED <<ended, stopping, selection, control, gate, acked,
                                        sessionVars>>

\* seat::handle_pending with nothing to answer: no connection, a peer of another
\* user, an unreadable request or an unknown command.
NothingToAnswer == /\ loop = "control"
                   /\ ~stopping
                   /\ control.cmd \in {"none", "unusable"}
                   /\ control' = NoCommand
                   /\ loop' = "reap"
                   /\ UNCHANGED <<ended, stopping, selection, gate, acked, sessionVars>>

\* seat::handle_pending with a command.  Exhaustion of the transition space and
\* an answer that cannot be written are errors of the serve loop.
Answer == /\ loop = "control"
          /\ ~stopping
          /\ control.cmd \in {"status", "enable", "disable"}
          /\ gate' = IF control.cmd = "status" THEN gate
                     ELSE set_enabled(gate, control.cmd = "enable")
          /\ IF control.here /\ ~(control.cmd = "enable" /\ gate' = DISABLED_TERMINAL)
             THEN /\ acked' = IF control.cmd = "disable" THEN gate' ELSE acked
                  /\ control' = NoCommand
                  /\ loop' = "reap"
                  /\ UNCHANGED <<ended, sessionVars>>
             ELSE Exit("err") /\ UNCHANGED acked
          /\ UNCHANGED <<stopping, selection>>

\* reap and LaunchSupervisor::reap.
Reap == /\ loop = "reap"
        /\ at' = [c \in Conns |-> IF at[c] = "finished" THEN "reaped" ELSE at[c]]
        /\ loop' = "lost"
        /\ UNCHANGED <<ended, stopping, selection, control, gate, acked,
                       slot, permit, guard, served, todo, late>>

\* Mutant: SelectionClear is discarded with the other events.
Lost_unnoticed == /\ loop = "lost"
                  /\ loop' = "accept"
                  /\ UNCHANGED <<ended, stopping, selection, control, gate, acked, sessionVars>>

\* Ownership::lost.
Lost == /\ loop = "lost"
        /\ loop' = IF selection = "cleared" THEN "join" ELSE "accept"
        /\ UNCHANGED <<ended, stopping, selection, control, gate, acked, sessionVars>>

Full == Cardinality(sessions) >= max_sessions

\* accept, of the peer that has waited longest: over the bound it is turned
\* away, otherwise it gets a thread.
Accept(c) == /\ loop = "accept"
             /\ at[c] = "queued"
             /\ \A d \in Conns : at[d] = "queued" => c <= d
             /\ at' = [at EXCEPT ![c] = IF Full THEN "rejected" ELSE "hello"]
             /\ loop' = "control"
             /\ UNCHANGED <<ended, stopping, selection, control, gate, acked,
                            slot, permit, guard, served, todo, late>>

\* accept would block: sleep and go round.
NoPeer == /\ loop = "accept"
          /\ \A c \in Conns : at[c] # "queued"
          /\ loop' = "control"
          /\ UNCHANGED <<ended, stopping, selection, control, gate, acked, sessionVars>>

\* Any other error of the loop: accept, peer credentials, the X11 connection,
\* thread creation.  run returns it without joining the sessions.
LoopError == /\ "error" \in world.faults
             /\ loop \in {"control", "lost", "accept"}
             /\ Exit("err")
             /\ UNCHANGED <<stopping, selection, gate, acked>>

\* Every session is joined; then the selection is withdrawn, which fails if it
\* is lost and may fail otherwise.
Join == /\ loop = "join"
        /\ Live = {}
        /\ \E how \in {"ok", "err"} : (how = "ok" => selection = "held") /\ Exit(how)
        /\ UNCHANGED <<stopping, selection, gate, acked>>

Serve == \/ Stop \/ NothingToAnswer \/ Answer \/ Reap \/ Lost \/ NoPeer \/ Join
         \/ \E c \in Conns : Accept(c)

-----------------------------------------------------------------------------
\* A session thread.

Goto(c, where) == at' = [at EXCEPT ![c] = where]

\* session::run returns: the guard is dropped with the rest of its frame.
Return(c) == /\ Goto(c, "finished")
             /\ guard' = [guard EXCEPT ![c] = FALSE]
             /\ slot' = (slot /\ ~guard[c])
             /\ permit' = [permit EXCEPT ![c] = NoPermit]
             /\ served' = [served EXCEPT ![c] = 0]
             /\ todo' = [todo EXCEPT ![c] = 0]
             /\ late' = [late EXCEPT ![c] = 0]

\* read_frame gives a compatible hello, or the thread ends: another message, an
\* incompatible revision, end of file, a read error or the read timeout.
Hello(c) == /\ at[c] = "hello"
            /\ \/ Goto(c, "permit") /\ UNCHANGED <<slot, guard, permit, served, todo, late>>
               \/ Return(c)
            /\ UNCHANGED serveVars

\* seat.permit()
Permit(c) == /\ at[c] = "permit"
             /\ IF is_enabled(gate)
                THEN /\ permit' = [permit EXCEPT ![c] = gate]
                     /\ Goto(c, "recheck")
                     /\ UNCHANGED <<slot, guard, served, todo, late>>
                ELSE Return(c)
             /\ UNCHANGED serveVars

\* config.granted, which may refuse, and seat.accepts.
Recheck(c) == /\ at[c] = "recheck"
              /\ \/ /\ accepts(gate, permit[c])
                    /\ Goto(c, "claim")
                    /\ UNCHANGED <<slot, guard, permit, served, todo, late>>
                 \/ Return(c)
              /\ UNCHANGED serveVars

\* Mutant: the slot is stored without looking at it.
Claim_store(c) == /\ at[c] = "claim"
                  /\ slot' = (slot \/ private_devices)
                  /\ guard' = [guard EXCEPT ![c] = private_devices]
                  /\ Goto(c, "idle")
                  /\ UNCHANGED <<serveVars, permit, served, todo, late>>

\* PersistentSessionGuard::claim and the welcome, whose write may fail.
Claim(c) == /\ at[c] = "claim"
            /\ \/ /\ slot' = (slot \/ private_devices)
                  /\ guard' = [guard EXCEPT ![c] = private_devices /\ ~slot]
                  /\ Goto(c, "idle")
                  /\ UNCHANGED <<permit, served, todo, late>>
               \/ Return(c)
            /\ UNCHANGED serveVars

\* Mutant: a persistent session does not look at `stopping`.
Finish_ignores_stopping(c) ==
             /\ at[c] = "idle"
             /\ served[c] = max_requests
             /\ Return(c)
             /\ UNCHANGED serveVars

\* The request bound is reached; or a persistent session sees `stopping`.
Finish(c) == /\ at[c] = "idle"
             /\ served[c] = max_requests \/ (guard[c] /\ stopping)
             /\ Return(c)
             /\ UNCHANGED serveVars

\* A persistent session waits, without a limit, until its peer has sent something.
Wake(c) == /\ at[c] = "idle"
           /\ served[c] < max_requests
           /\ guard[c]
           /\ ~stopping
           /\ Goto(c, "read")
           /\ UNCHANGED <<serveVars, slot, permit, guard, served, todo, late>>

\* Other sessions go straight to the read, which is bounded by the timeout.
Await(c) == /\ at[c] = "idle"
            /\ served[c] < max_requests
            /\ ~guard[c]
            /\ Goto(c, "read")
            /\ UNCHANGED <<serveVars, slot, permit, guard, served, todo, late>>

\* read_frame gives a request, or the thread ends: goodbye, a second hello, end
\* of file, a read error or the read timeout.
Read(c) == /\ at[c] = "read"
           /\ \/ Goto(c, "got") /\ UNCHANGED <<slot, guard, permit, served, todo, late>>
              \/ Return(c)
           /\ UNCHANGED serveVars

\* handle: an input request of several units, a request with one effect that
\* does not ask the gate again, or one without effect (or not authorized).
Begin(c) == \/ \E n \in 1 .. world.units : Goto(c, "check") /\ todo' = [todo EXCEPT ![c] = n]
            \/ (Goto(c, "effect") \/ Goto(c, "reply")) /\ UNCHANGED todo

\* Mutant: the gate is not looked at before a request is dispatched.
Dispatch_unchecked(c) ==
               /\ at[c] = "got"
               /\ Begin(c)
               /\ UNCHANGED <<serveVars, slot, guard, permit, served, late>>

\* A refused permit is answered with `revoked` and ends the session.
Dispatch(c) == /\ at[c] = "got"
               /\ IF accepts(gate, permit[c])
                  THEN /\ Begin(c)
                       /\ UNCHANGED <<slot, guard, permit, served, late>>
                  ELSE Return(c)
               /\ UNCHANGED serveVars

\* Mutant: the units of an input request do not ask the gate.
Check_skipped(c) ==
            /\ at[c] = "check"
            /\ \/ Goto(c, "inject")
               \/ Goto(c, "reply")
            /\ UNCHANGED <<serveVars, slot, guard, permit, served, todo, late>>

\* Every unit of an input request asks the gate again; it may also be refused
\* for other reasons (focus, geometry, X11).
Check(c) == /\ at[c] = "check"
            /\ \/ accepts(gate, permit[c]) /\ Goto(c, "inject")
               \/ Goto(c, "reply")
            /\ UNCHANGED <<serveVars, slot, guard, permit, served, todo, late>>

\* The effect on the desktop: one unit of input, or the whole of another request.
Effect(c) == /\ at[c] \in {"inject", "effect"}
             /\ todo' = [todo EXCEPT ![c] = IF at[c] = "inject" THEN @ - 1 ELSE 0]
             /\ Goto(c, IF todo'[c] = 0 THEN "reply" ELSE "check")
             /\ late' = [late EXCEPT ![c] = @ + IF accepts(gate, permit[c]) THEN 0 ELSE 1]
             /\ UNCHANGED <<serveVars, slot, guard, permit, served>>

\* The response is written, or its write fails and the thread ends.
Reply(c) == /\ at[c] = "reply"
            /\ \/ /\ served' = [served EXCEPT ![c] = @ + 1]
                  /\ todo' = [todo EXCEPT ![c] = 0]
                  /\ Goto(c, "idle")
                  /\ UNCHANGED <<slot, guard, permit, late>>
               \/ Return(c)
            /\ UNCHANGED serveVars

\* What a thread does by itself; Wake needs its peer.
Proceed(c) == \/ Hello(c) \/ Permit(c) \/ Recheck(c) \/ Claim(c) \/ Finish(c) \/ Await(c)
              \/ Read(c) \/ Dispatch(c) \/ Check(c) \/ Effect(c) \/ Reply(c)

-----------------------------------------------------------------------------
\* The process has ended.
Ended == loop = "exited" /\ UNCHANGED vars

Next == /\ \/ Signal \/ Clear \/ Operator \/ Leave \/ Serve \/ LoopError \/ Ended
           \/ \E c \in Conns : Connect(c) \/ Wake(c) \/ Proceed(c)
        /\ UNCHANGED world

Spec == Init /\ [][Next]_vars

\* Every thread is scheduled: each step of the serve loop ends by itself, and
\* every read and write of a session ends by its timeout.
FairSpec == /\ Spec
            /\ WF_vars(Serve /\ UNCHANGED world)
            /\ \A c \in Conns : WF_vars(Proceed(c) /\ UNCHANGED world)

-----------------------------------------------------------------------------
\* "A disable acknowledgement means later requests cannot begin in the old
\* generation" (docs/tier-0.5-seat-gate.md): a request is dispatched only under
\* a permit younger than every disable that has been answered.
NoRequestBeginsRevoked ==
    [][\A c \in Conns : at[c] = "got" /\ at'[c] \in {"check", "effect", "reply"}
                            => permit[c] > acked]_vars

\* "One request that was already executing may still finish": from the moment
\* its permit is revoked, a session has at most one more effect on the desktop,
\* be it the rest of a request or one unit of an input request.
AtMostOneLateEffect == \A c \in Conns : late[c] <= 1

\* The persistent slot is taken exactly when one thread holds its guard, and no
\* two threads hold it: it is neither leaked on any exit path nor shared.
SlotIsHeldOnce ==
    loop # "exited" =>
        /\ slot <=> \E c \in Conns : guard[c]
        /\ \A c, d \in Conns : guard[c] /\ guard[d] => c = d

\* SIGINT or SIGTERM ends the provider, whatever its sessions are doing.
SignalEndsProvider == stopping ~> loop = "exited"

\* Losing the selection ends the provider, unless the persistent session keeps it: the
\* sessions it joins all end by a deadline but that one.
LossWaitsOnlyForPersistent == selection = "cleared" ~> loop = "exited" \/ slot

\* A command sent to the control socket does not stay pending for ever: it is taken
\* up, or the provider ends; only a provider that has lost the selection and waits for
\* its persistent session leaves its operator without an answer.
ControlIsServed ==
    control # NoCommand ~> control = NoCommand \/ (selection = "cleared" /\ slot)
=============================================================================
