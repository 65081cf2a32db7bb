------------------------------ MODULE Companion ------------------------------
(***************************************************************************)
(* The MCP companion, crates/agent-seat-mcp/src/mcp.rs and seat.rs: one    *)
(* host drives it over stdio, one call at a time; it keeps one legacy      *)
(* provider session or several modern contexts, each a connection to a     *)
(* provider with pointer slots of its own.  The provider is seen from the  *)
(* outside: it executes what it has read, answers, and may close or refuse *)
(* a session at any moment.                                                *)
(***************************************************************************)
EXTENDS Naturals, Sequences, SequencesExt, Functions, FiniteSets

CONSTANTS MAX_MODERN_CONTEXTS,
          MAX_POINTER_SLOTS,
          SlotNames,
          Eras,          \* bound: the protocol eras this host uses
          Inherited,     \* was a connected socket inherited
          Late,          \* tools whose answer may come after the read deadline
          Closes,        \* may the provider close sessions by itself
          MaxSessions,   \* bound: provider connections
          MaxCalls,      \* bound: tool calls of the host
          None

ASSUME CompanionAssumption ==
    /\ MAX_MODERN_CONTEXTS \in Nat /\ MAX_POINTER_SLOTS \in Nat
    /\ Inherited \in BOOLEAN /\ Closes \in BOOLEAN
    /\ Late \subseteq {"status", "poll", "act", "replay"}
    /\ MaxSessions \in Nat /\ MaxCalls \in Nat

Tools == {"status", "poll", "act", "save", "replay"}
Serials == 1 .. MaxCalls

\* The call of Seat::call that is waiting for its answer.
Rpcs == [call : Serials, era : {"legacy", "modern"}, context : Nat \cup {None}, tool : Tools,
         session : Nat, of : Nat, id : Nat]

ASSUME NoneAssumption == None \notin Nat \cup Rpcs

VARIABLES inherited_seat, legacy,      \* legacy: the handshake of the legacy era
          legacy_session, legacy_recovery_required,
          modern_contexts, next,       \* Contexts
          sessions,     \* every connection made so far
          rpc,          \* the call in progress at a provider, or None
          serial,       \* calls the host has made
          result,       \* what the host was told last
          executed      \* how often a provider has executed each call

server == <<inherited_seat, legacy, legacy_session, legacy_recovery_required,
            modern_contexts, next>>
vars == <<server, sessions, rpc, serial, result, executed>>

NewSession(era) == [era |-> era, open |-> TRUE, next_request |-> 1, inbox |-> <<>>,
                    outbox |-> <<>>, pointer_slots |-> {}, status_ok |-> FALSE]

TypeOK == /\ inherited_seat \in BOOLEAN
          /\ legacy \in {"new", "negotiated", "initialized"}
          /\ legacy_session \in {None} \cup DOMAIN sessions
          /\ legacy_recovery_required \in BOOLEAN
          /\ IsInjective(modern_contexts)
          /\ Range(modern_contexts) \subseteq DOMAIN sessions
          /\ Cardinality(DOMAIN modern_contexts) <= MAX_MODERN_CONTEXTS
          /\ \A s \in DOMAIN sessions :
                /\ Cardinality(sessions[s].pointer_slots) <= MAX_POINTER_SLOTS
                /\ Len(sessions[s].inbox) <= 1
          /\ rpc \in Rpcs \cup {None}
          /\ rpc # None => rpc.session \in DOMAIN sessions
          /\ serial \in 0 .. MaxCalls
          /\ executed \in [Serials -> Nat]

Init == /\ inherited_seat = Inherited
        /\ legacy = "new"
        /\ legacy_session = None
        /\ legacy_recovery_required = FALSE
        /\ modern_contexts = <<>>
        /\ next = 1
        /\ sessions = <<>>
        /\ rpc = None
        /\ serial = 0
        /\ result = None
        /\ executed = [c \in Serials |-> 0]

-----------------------------------------------------------------------------
\* initialize and notifications/initialized.
Handshake == /\ "legacy" \in Eras
             /\ rpc = None
             /\ \/ legacy = "new" /\ legacy' = "negotiated"
                \/ legacy = "negotiated" /\ legacy' = "initialized"
             /\ UNCHANGED <<inherited_seat, legacy_session, legacy_recovery_required,
                            modern_contexts, next, sessions, rpc, serial, result, executed>>

\* The host makes a call; a call that ends here, without a provider, is answered.
Begin == rpc = None /\ serial < MaxCalls /\ serial' = serial + 1

Local(outcome) == rpc' = None /\ result' = [call |-> serial', outcome |-> outcome]

\* connect_seat: the inherited connection once, then whatever discovery finds.
connect_seat == /\ Len(sessions) < MaxSessions
                /\ inherited_seat' = FALSE

\* Seat::call writes the request; nothing is read yet.
Request(ss, s, era, context, tool, of) ==
    LET id == ss[s].next_request
        frame == [id |-> id, call |-> serial']
    IN /\ sessions' = [ss EXCEPT ![s].next_request = id + 1,
                                 ![s].inbox = IF ss[s].open THEN Append(@, frame) ELSE @]
       /\ rpc' = [call |-> serial', era |-> era, context |-> context, tool |-> tool,
                  session |-> s, of |-> of, id |-> id]
       /\ UNCHANGED result

\* Slots are saved with the identity of a client, which only this session knows.
Slot(name, s) == [name |-> name, of |-> s]

\* pointer_slot_call for a save: nothing is sent.
Save(ss, s) ==
    \E n \in SlotNames :
        LET slots == ss[s].pointer_slots
            others == {t \in slots : t.name # n}
        IN IF others = slots /\ Cardinality(slots) >= MAX_POINTER_SLOTS
           THEN sessions' = ss /\ Local("capacity")
           ELSE /\ sessions' = [ss EXCEPT ![s].pointer_slots = others \cup {Slot(n, s)}]
                /\ Local("done")

\* One tool on session s of ss.
Tool(ss, s, era, context, tool) ==
    \/ tool = "save" /\ Save(ss, s)
    \/ /\ tool = "replay"
       /\ \/ \E slot \in ss[s].pointer_slots :
                Request(ss, s, era, context, tool, slot.of)
          \/ \E n \in SlotNames : /\ n \notin {slot.name : slot \in ss[s].pointer_slots}
                                  /\ sessions' = ss
                                  /\ Local("not_found")
    \/ tool \notin {"save", "replay"} /\ Request(ss, s, era, context, tool, s)

-----------------------------------------------------------------------------
\* The sessions after a new connection.
Opened(era) == Append(sessions, NewSession(era))

\* provider_call_legacy and pointer_slot_legacy.
LegacyCall(tool) ==
    /\ legacy = "initialized"
    /\ Begin
    /\ \/ /\ legacy_recovery_required /\ tool # "status"
          /\ Local("status_required")
          /\ UNCHANGED <<inherited_seat, legacy_session, sessions>>
       \/ /\ ~legacy_recovery_required \/ tool = "status"
          /\ \/ /\ legacy_session # None
                /\ Tool(sessions, legacy_session, "legacy", None, tool)
                /\ UNCHANGED <<inherited_seat, legacy_session>>
             \/ /\ legacy_session = None
                /\ connect_seat
                /\ legacy_session' = Len(sessions) + 1
                /\ Tool(Opened("legacy"), Len(sessions) + 1, "legacy", None, tool)
             \/ /\ legacy_session = None
                /\ ~inherited_seat
                /\ Local("unavailable")
                /\ UNCHANGED <<inherited_seat, legacy_session, sessions>>
    /\ UNCHANGED <<legacy, legacy_recovery_required, modern_contexts, next, executed>>

is_full == Cardinality(DOMAIN modern_contexts) >= MAX_MODERN_CONTEXTS

\* create_modern_context, up to the request.  The connection it makes cannot be
\* addressed until the context is inserted.
ModernStatus ==
    /\ "modern" \in Eras
    /\ Begin
    /\ \/ is_full /\ Local("capacity") /\ UNCHANGED <<inherited_seat, sessions>>
       \/ /\ ~is_full /\ connect_seat
          /\ LET s == Len(sessions) + 1
             IN Request(Opened("modern"), s, "modern", None, "status", s)
       \/ /\ ~is_full /\ ~inherited_seat
          /\ Local("unavailable")
          /\ UNCHANGED <<inherited_seat, sessions>>
    /\ UNCHANGED <<legacy, legacy_session, legacy_recovery_required, modern_contexts, next,
                   executed>>

\* Mutant: a failed call resets the whole server.
Discard_all(c) == modern_contexts' = <<>>

Discard(c) == modern_contexts' = Restrict(modern_contexts, DOMAIN modern_contexts \ {c})

\* provider_call_modern, pointer_slot_modern and seat_release with any context the
\* host has ever been given.
ModernCall(c) ==
    /\ Begin
    /\ IF c \notin DOMAIN modern_contexts
       THEN Local("stale_context") /\ UNCHANGED <<modern_contexts, sessions>>
       ELSE \/ Discard(c) /\ Local("done") /\ UNCHANGED sessions
            \/ /\ \E tool \in Tools \ {"status"} :
                     Tool(sessions, modern_contexts[c], "modern", c, tool)
               /\ UNCHANGED modern_contexts
    /\ UNCHANGED <<inherited_seat, legacy, legacy_session, legacy_recovery_required, next,
                   executed>>

-----------------------------------------------------------------------------
\* The provider executes what it has read, whether or not anyone still waits for the
\* answer, and answers.  "reconnect" is an answer after which it ends the session.
Serve(s) ==
    LET frame == Head(sessions[s].inbox)
        answer(outcome) == Append(sessions[s].outbox, [id |-> frame.id, outcome |-> outcome])
        done == [executed EXCEPT ![frame.call] = @ + 1]
    IN /\ sessions[s].inbox # <<>>
       /\ \/ \E outcome \in {"ok", "error"} :
                /\ sessions' = [sessions EXCEPT ![s].inbox = <<>>, ![s].outbox = answer(outcome)]
                /\ executed' = IF outcome = "ok" THEN done ELSE executed
          \/ /\ Closes
             /\ sessions' = [sessions EXCEPT ![s].inbox = <<>>, ![s].open = FALSE,
                                             ![s].outbox = answer("reconnect")]
             /\ UNCHANGED executed
          \/ /\ Closes     \* it goes down between the effect and the answer
             /\ sessions' = [sessions EXCEPT ![s].inbox = <<>>, ![s].open = FALSE]
             /\ executed' = done
       /\ UNCHANGED <<server, rpc, serial, result>>

\* The provider closes a session: idle, stopped or gone.
Close(s) == /\ Closes
            /\ sessions[s].open
            /\ sessions' = [sessions EXCEPT ![s].open = FALSE, ![s].inbox = <<>>]
            /\ UNCHANGED <<server, rpc, serial, result, executed>>

\* Mutant: a dead legacy session is simply replaced at the next call.
ended_unmarked ==
    IF rpc.era = "legacy"
    THEN legacy_session' = None /\ UNCHANGED <<legacy_recovery_required, modern_contexts>>
    ELSE Discard(rpc.context) /\ UNCHANGED <<legacy_session, legacy_recovery_required>>

\* What a failed call, or an outcome that requires a new connection, leaves behind.
ended ==
    IF rpc.era = "legacy"
    THEN /\ legacy_session' = None
         /\ legacy_recovery_required' = TRUE
         /\ UNCHANGED modern_contexts
    ELSE Discard(rpc.context) /\ UNCHANGED <<legacy_session, legacy_recovery_required>>

\* Contexts::insert.
insert == /\ modern_contexts' = [c \in DOMAIN modern_contexts \cup {next} |->
                                    IF c = next THEN rpc.session ELSE modern_contexts[c]]
          /\ next' = next + 1

\* Seat::call reads the answer to its request: the frame must carry its id.
Answered ==
    /\ rpc # None
    /\ sessions[rpc.session].outbox # <<>>
    /\ LET answer == Head(sessions[rpc.session].outbox)
           outcome == IF answer.id = rpc.id THEN answer.outcome ELSE "malformed"
           status_ok == rpc.tool = "status" /\ outcome = "ok"
           creating == rpc.era = "modern" /\ rpc.context = None
       IN /\ sessions' = [sessions EXCEPT
                 ![rpc.session].outbox = Tail(@),
                 ![rpc.session].status_ok = @ \/ status_ok]
          /\ result' = [call |-> rpc.call, outcome |-> outcome]
          /\ \/ /\ creating /\ outcome # "malformed"
                /\ insert
                /\ UNCHANGED <<legacy_session, legacy_recovery_required>>
             \/ /\ outcome = "malformed" \/ (outcome = "reconnect" /\ ~creating)
                /\ ended
                /\ UNCHANGED next
             \/ /\ outcome \in {"ok", "error"} /\ ~creating
                /\ legacy_recovery_required' =
                       (legacy_recovery_required /\ ~(rpc.era = "legacy" /\ status_ok))
                /\ UNCHANGED <<legacy_session, modern_contexts, next>>
    /\ rpc' = None
    /\ UNCHANGED <<inherited_seat, legacy, serial, executed>>

\* Mutant: the request is written again to a new connection.
Failed_retry(why) ==
    /\ sessions' = Append(sessions, [NewSession(rpc.era) EXCEPT
                       !.next_request = 2, !.inbox = <<[id |-> 1, call |-> rpc.call]>>])
    /\ rpc' = [rpc EXCEPT !.session = Len(sessions) + 1, !.of = Len(sessions) + 1, !.id = 1]
    /\ Len(sessions) < MaxSessions
    /\ IF rpc.era = "legacy"
       THEN legacy_session' = Len(sessions) + 1 /\ UNCHANGED modern_contexts
       ELSE modern_contexts' = [c \in DOMAIN modern_contexts |->
                IF c = rpc.context THEN Len(sessions) + 1 ELSE modern_contexts[c]]
            /\ UNCHANGED legacy_session
    /\ UNCHANGED <<inherited_seat, legacy, legacy_recovery_required, next, serial, result,
                   executed>>

\* Seat::call fails: nothing is tried again.
Failed(why) ==
    /\ result' = [call |-> rpc.call, outcome |-> why]
    /\ rpc' = None
    /\ ended
    /\ UNCHANGED <<inherited_seat, legacy, next, sessions, serial, executed>>

\* The connection has ended with nothing left to read.
Eof == /\ rpc # None
       /\ ~sessions[rpc.session].open
       /\ sessions[rpc.session].outbox = <<>>
       /\ Failed("ended")

\* The read deadline passes before the provider has answered.
TimedOut == /\ rpc # None
            /\ rpc.tool \in Late
            /\ sessions[rpc.session].open
            /\ sessions[rpc.session].outbox = <<>>
            /\ Failed("timeout")

-----------------------------------------------------------------------------
Host == \/ Handshake
        \/ \E tool \in Tools : LegacyCall(tool)
        \/ ModernStatus
        \/ \E c \in 1 .. next - 1 : ModernCall(c)

ProviderStep == \E s \in DOMAIN sessions : Serve(s) \/ Close(s)

Finish == Answered \/ Eof \/ TimedOut

Next == Host \/ ProviderStep \/ Finish

Spec == Init /\ [][Next]_vars

-----------------------------------------------------------------------------
\* A call is executed at most once, whatever fails after it was written, and a call
\* the host was told has succeeded was executed: provider_call_legacy and
\* provider_call_modern discard the connection of a failed call and do not repeat it.
\* A save or a release never leaves the companion.
ExecutedAtMostOnce ==
    /\ \A c \in Serials : executed[c] <= 1
    /\ result # None /\ result.outcome = "ok" => executed[result.call] = 1

\* Once a legacy connection has been lost, a tool other than seat_status reaches the
\* next provider only after seat_status has succeeded on that very connection: the
\* host cannot act with a view it took from the provider before
\* (legacy_recovery_required in provider_call_legacy).
StatusComesFirst ==
    [][\A s \in DOMAIN sessions' :
          (/\ rpc = None /\ rpc' # None
           /\ rpc'.era = "legacy" /\ rpc'.session = s /\ rpc'.tool # "status")
          => \/ \A t \in 1 .. s - 1 : sessions[t].era # "legacy"
             \/ sessions'[s].status_ok]_vars

\* A context outlives whatever happens to others: besides its release it ends only
\* with a call of its own, on a connection the provider has closed or whose answer
\* did not come in time.  A late answer costs the context it belongs to and no other
\* (Seat::call, IO_TIMEOUT, Contexts::remove in provider_call_modern).
ContextLasts ==
    [][\A c \in DOMAIN modern_contexts \ DOMAIN modern_contexts' :
          rpc # None =>
              /\ c = rpc.context
              /\ ~sessions[rpc.session].open \/ result'.outcome = "timeout"]_vars
=============================================================================
