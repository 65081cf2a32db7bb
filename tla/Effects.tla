------------------------------ MODULE Effects ------------------------------
(***************************************************************************)
(* What one session does to the X server on behalf of an agent: keyboard   *)
(* and pointer input (observer/input.rs), text insertion through the       *)
(* clipboard selection (observer/text_transfer.rs) and obscured capture    *)
(* (observer/capture.rs).  Every operation runs inside server grabs.  While *)
(* the server is grabbed no other X client acts, but the volatile seat can *)
(* be disabled, a request can be refused and the connection can break.     *)
(*                                                                         *)
(* The gate is a Boolean here: SeatGateProofs shows that a permit, once     *)
(* refused, is refused for ever, so it only goes from TRUE to FALSE.       *)
(***************************************************************************)
EXTENDS KeyboardMap

CONSTANTS
    Windows,        \* the managed windows of the desktop
    Target,         \* the window every request of this session names
    Fleeting,       \* the windows that leave the scope, close and reopen
    Text, Chord,    \* the symbols of a text; a key with modifiers
    Keyboards,      \* the keyboards, map and state, that may be met
    MaxTransferEvents,    \* MAX_TRANSFER_EVENTS
    MaxSelectionRequests, \* MAX_SELECTION_REQUESTS
    Refusals        \* bound: the sets of kinds of requests that are refused

ASSUME EffectsAssumption ==
    /\ Target \in Windows
    /\ Fleeting \subseteq Windows
    /\ Text # <<>>
    /\ \A k \in Keyboards : IsKeyboard(k)
    /\ {MaxTransferEvents, MaxSelectionRequests} \subseteq Nat

VARIABLES
    pc, op, stage,  \* the request being served, and the grab it is in
    result,         \* the value of the closure run under the grab
    held, strike,   \* the modifiers and the key or button still to press
    pressed,        \* what is to be released, the last pressed first
    completed,      \* keyboard_text's count
    keyboard,       \* the keyboard read under the grab, while it is of use
    terminal,       \* the terminal of the reply
    grabbed, lost, enabled, refused,
    aim,            \* where input goes: the focus, or the window at the point
    status,
    down,           \* the keys and buttons that are down
    selection, owned,           \* the clipboard, and the transfer window
    queue, request,             \* events of the connection, the one served
    events_seen, selection_requests,
    served, settled, late,      \* last_delivery, and the two clocks
    scanned,        \* the clients a refresh without a grab has read
    redirected,     \* redirected_clients
    storage,        \* the server's record of our redirections
    pixmap

script == <<held, strike, pressed>>
control == <<pc, op, stage, result, script, completed, keyboard, terminal>>
desk == <<aim, status>>
transfer == <<queue, request, events_seen, selection_requests,
              served, settled, late>>
capture == <<scanned, redirected, storage, pixmap>>
server == <<grabbed, lost, enabled, refused>>
vars == <<control, desk, transfer, capture, server, down, selection, owned>>

KeyboardOps == {"text", "key", "insert"}
PointerOps == {"move", "click"}
Ops == KeyboardOps \cup PointerOps \cup {"capture", "observe"}

Requests == [from: {"target", "foreign"}, kind: {"text", "other"}]
NoRequest == [from |-> "nobody", kind |-> "other"]
Clear == [from |-> "server", kind |-> "clear"]
Noise == [from |-> "server", kind |-> "noise"]

(* The requests that may be refused: those that undo something, and the    *)
(* others.                                                                 *)
Kinds == {"effect", "best_effort", "cleanup", "free"}

Scoped == {w \in Windows : status[w] = "scoped"}

(* Buttons have a number that no key has.                                  *)
Button == 0
NoKey == {}

(* One balanced stroke: modifiers down, key down and up, modifiers up.     *)
type_key(stroke) ==
    /\ held' = stroke.modifiers
    /\ strike' = {stroke.key}
    /\ pressed' = <<>>

click_button == type_key([key |-> Button, modifiers |-> {}])

(* The symbol a keyboard request resolves next, and with which modifiers.  *)
Wanted ==
    CASE op = "text"   -> [symbol |-> Text[completed + 1], modifiers |-> {}]
      [] op = "insert" -> [symbol |-> "v", modifiers |-> {"Control"}]
      [] OTHER         -> Chord

(* The keyboard the server shows: the keys this session left down count.   *)
Live(k) == [k EXCEPT !.base = @ \cup Bits(k, down)]

----------------------------------------------------------------------------
Init ==
    /\ pc = "idle" /\ op = "observe" /\ stage = "act" /\ result = "none"
    /\ held = {} /\ strike = NoKey /\ pressed = <<>>
    /\ completed = 0 /\ keyboard = {} /\ terminal = "none"
    /\ grabbed = FALSE /\ lost = FALSE /\ enabled = TRUE /\ refused = {}
    /\ aim \in Windows
    /\ status = [w \in Windows |-> "scoped"]
    /\ down = {} /\ selection = "none" /\ owned = FALSE
    /\ queue = <<>> /\ request = NoRequest
    /\ events_seen = 0 /\ selection_requests = 0
    /\ served = FALSE /\ settled = FALSE /\ late = FALSE
    /\ scanned = {} /\ redirected = {} /\ storage = {} /\ pixmap = FALSE

(* A request of this kind fails: the server refuses it, or the connection  *)
(* is gone.  Each kind is refused at most once.                            *)
Refuse(kind) ==
    \/ lost /\ UNCHANGED server
    \/ /\ ~ lost
       /\ kind \notin refused
       /\ refused' = refused \cup {kind}
       /\ refused' \in Refusals
       /\ UNCHANGED <<grabbed, lost, enabled>>

(* There is nothing to press or to release.                                *)
Silent == held' = {} /\ strike' = NoKey /\ pressed' = <<>>

(* The request returns: the reply stays until the next one begins.         *)
Reply(t) ==
    /\ pc' = "idle" /\ terminal' = t
    /\ stage' = "act" /\ result' = "none"
    /\ Silent

Begin(o) ==
    /\ pc = "idle"
    /\ op' = o
    /\ pc' = CASE o = "insert"  -> "create"
               [] o = "observe" -> "scan"
               [] OTHER         -> "grab"
    /\ stage' = IF o = "text" THEN "preflight" ELSE "act"
    /\ completed' = 0 /\ terminal' = "none"
    /\ UNCHANGED <<result, script, keyboard, desk, capture, server, down, selection, owned,
                   queue, request, events_seen, selection_requests,
                   served, settled, late>>

(* What the server undoes when it loses the connection.                    *)
Disconnected ==
    /\ owned' = FALSE
    /\ selection' = IF selection = "ours" THEN "none" ELSE selection
    /\ storage' = {} /\ pixmap' = FALSE

(* Dropping the observer gives every redirection back, then disconnects.   *)
Drop ==
    /\ pc = "idle"
    /\ pc' = "closed"
    /\ redirected' = {}
    /\ Disconnected
    /\ UNCHANGED <<op, stage, result, script, completed, keyboard, terminal, desk,
                   transfer, scanned, server, down>>

----------------------------------------------------------------------------
(* under_server_grab.  A closure leaves its value in result.               *)
Acquire ==
    /\ pc = "grab"
    /\ \/ /\ ~ lost
          /\ grabbed' = TRUE
          /\ pc' = "check"
          /\ UNCHANGED result
       \/ /\ lost
          /\ result' = "error"
          /\ pc' = "next"
          /\ UNCHANGED grabbed
    /\ UNCHANGED <<op, stage, script, completed, keyboard, terminal, lost, enabled, refused,
                   desk, transfer, capture, down, selection, owned>>

(* The closure returns r.                                                  *)
Return(r) == result' = r /\ pc' = "ungrab" /\ Silent

Release ==
    /\ pc = "ungrab"
    /\ grabbed' = FALSE
    /\ keyboard' = {}
    /\ result' = IF lost THEN "error" ELSE result
    /\ pc' = "next"
    /\ UNCHANGED <<op, stage, script, completed, terminal, lost, enabled, refused,
                   desk, transfer, capture, down, selection, owned>>

----------------------------------------------------------------------------
(* Mutant: a departed window is forgotten but stays redirected.            *)
Redirect_departed(clients, departed, added) ==
    /\ redirected' = (redirected \ departed) \cup added
    /\ storage' = storage \cup added

Redirect(clients, departed, added) ==
    /\ redirected' = (redirected \ departed) \cup added
    /\ storage' = (storage \ departed) \cup added

(* reconcile_capture_targets: the departed windows are given back, then    *)
(* the new ones taken, in any order.  Unredirecting a window the server    *)
(* does not hold for us fails, and so does redirecting one that is gone.   *)
departing(clients) == redirected \ clients
additions(clients) == clients \ redirected
Unreturnable(clients) == {w \in departing(clients) : status[w] # "gone" /\ w \notin storage}
Unobtainable(clients) == {w \in additions(clients) : status[w] = "gone"}

Reconciled(clients) ==
    /\ Unreturnable(clients) = {} /\ Unobtainable(clients) = {} /\ ~ lost
    /\ Redirect(clients, departing(clients), additions(clients))
    /\ UNCHANGED server

ReconcileFails(clients) ==
    /\ ~ lost
    /\ \E departed \in SUBSET (departing(clients) \ Unreturnable(clients)),
          added \in SUBSET (additions(clients) \ Unobtainable(clients)) :
        /\ added # {} => departed = departing(clients)
        /\ departed \cup added # departing(clients) \cup additions(clients)
        /\ \/ /\ IF departed = departing(clients) THEN Unobtainable(clients) # {}
                                                 ELSE Unreturnable(clients) # {}
              /\ UNCHANGED server
           \/ Refuse("effect")
        /\ Redirect(clients, departed, added)

(* target, require_focus_owned_by, pointer_destination.                    *)
Aimed ==
    /\ Target \in Scoped
    /\ op \in KeyboardOps \cup PointerOps => aim = Target

(* The first part of every closure: refresh, find the target, and see that *)
(* it is where the effect will go.  Besides a target that is elsewhere, an *)
(* inconclusive answer (no client identity, a hit test past its bound) is  *)
(* an error.                                                               *)
Check ==
    /\ pc = "check"
    /\ \/ Reconciled(Scoped) /\ Return("error")
       \/ /\ Reconciled(Scoped)
          /\ Aimed
          /\ pc' = CASE stage = "preflight" -> "resolve"
                     [] op = "capture"      -> "name"
                     [] op = "key"          -> "resolve"
                     [] OTHER               -> "accepts"
          /\ UNCHANGED <<result, script>>
       \/ ReconcileFails(Scoped) /\ Return("error")
       \/ lost /\ Return("error") /\ UNCHANGED <<server, redirected, storage>>
    /\ UNCHANGED <<op, stage, completed, keyboard, terminal, desk, transfer,
                   scanned, pixmap, down, selection, owned>>

(* The seat is asked before every effect, inside the grab.                 *)
Accepts ==
    /\ pc = "accepts"
    /\ IF ~ enabled THEN Return("false")
       ELSE /\ pc' = CASE stage = "evidence" -> "owner"
                       [] stage = "serve"    -> "answer"
                       [] op = "insert" /\ stage = "act" -> "claim"
                       [] op = "text"        -> "resolve"
                       [] op \in PointerOps  -> "motion"
                       [] OTHER              -> "send"
            /\ UNCHANGED <<result, script>>
    /\ UNCHANGED <<op, stage, completed, keyboard, terminal, desk, transfer, capture,
                   server, down, selection, owned>>

(* Looking symbols up in the keyboard as it is under this grab.  Other     *)
(* clients and the person may have changed it since the last one.  A text  *)
(* is looked up as a whole first, then again character by character.  A    *)
(* failed or incomplete answer is an error.                                *)
Resolve ==
    /\ pc = "resolve"
    /\ \/ Return("error") /\ UNCHANGED keyboard
       \/ /\ ~ lost /\ stage = "preflight"
          /\ \E k \in Keyboards : \A i \in DOMAIN Text :
                 resolve_with_modifiers(Live(k), Text[i], {}) # {}
          /\ Return("true")
          /\ UNCHANGED keyboard
       \/ /\ ~ lost /\ stage # "preflight"
          /\ \E k \in Keyboards :
             \E s \in resolve_with_modifiers(Live(k), Wanted.symbol, Wanted.modifiers) :
                 keyboard' = {Live(k)} /\ type_key(s)
          /\ pc' = IF op = "text" THEN "send" ELSE "accepts"
          /\ UNCHANGED result
    /\ UNCHANGED <<op, stage, completed, terminal, desk, transfer, capture,
                   server, down, selection, owned>>

----------------------------------------------------------------------------
(* pointer_move and pointer_click begin with a motion.                     *)
Move ==
    /\ pc = "motion"
    /\ \/ /\ ~ lost
          /\ IF op = "click" THEN pc' = "send" /\ click_button /\ UNCHANGED result
                             ELSE Return("true")
          /\ UNCHANGED server
       \/ Refuse("effect") /\ Return("error")
    /\ UNCHANGED <<op, stage, completed, keyboard, terminal, desk, transfer, capture, down,
                   selection, owned>>

(* What a stroke presses next: the modifiers in any order, then the key.   *)
Pressable == IF held # {} THEN held ELSE strike

(* fake_input, synchronized: a press, or the release of what is down.      *)
Press(c) ==
    /\ pc = "send" /\ ~ lost
    /\ down' = down \cup {c}
    /\ pressed' = <<c>> \o pressed
    /\ held' = held \ {c}
    /\ strike' = IF held = {} THEN NoKey ELSE strike
    /\ UNCHANGED <<pc, op, stage, result, completed, keyboard, terminal, desk, transfer,
                   capture, server, selection, owned>>

Unpress ==
    /\ pc = "send" /\ ~ lost
    /\ Pressable = {}
    /\ down' = down \ {Head(pressed)}
    /\ IF Len(pressed) = 1 THEN Return("true")
       ELSE pressed' = Tail(pressed) /\ UNCHANGED <<pc, result, held, strike>>
    /\ UNCHANGED <<op, stage, completed, keyboard, terminal, desk, transfer, capture, server,
                   selection, owned>>

(* Mutant: a refused input abandons the rest of the stroke.                *)
SendFails_abandoned ==
    /\ pc = "send"
    /\ Refuse("effect")
    /\ Return("error")
    /\ UNCHANGED <<op, stage, completed, keyboard, terminal, desk, transfer, capture,
                   down, selection, owned>>

(* What is down is still released after a refused input, the refused       *)
(* release included.                                                       *)
SendFails ==
    /\ pc = "send"
    /\ Refuse("effect")
    /\ held' = {} /\ strike' = NoKey
    /\ result' = "error"
    /\ pc' = IF pressed = <<>> THEN "ungrab" ELSE "recover"
    /\ UNCHANGED <<op, stage, pressed, completed, keyboard, terminal, desk, transfer, capture,
                   down, selection, owned>>

(* release_keys and best_effort_release: an error is ignored.              *)
BestEffortRelease ==
    /\ pc = "recover"
    /\ \/ ~ lost /\ down' = down \ {Head(pressed)} /\ UNCHANGED server
       \/ Refuse("best_effort") /\ UNCHANGED down
    /\ pressed' = Tail(pressed)
    /\ pc' = IF Len(pressed) = 1 THEN "ungrab" ELSE "recover"
    /\ UNCHANGED <<op, stage, result, held, strike, completed, keyboard, terminal, desk,
                   transfer, capture, selection, owned>>

----------------------------------------------------------------------------
(* text_insert.                                                            *)
create_transfer_owner ==
    /\ pc = "create"
    /\ \/ /\ ~ lost
          /\ owned' = TRUE
          /\ pc' = "grab"
          /\ UNCHANGED <<stage, result, script, terminal, server>>
       \/ Refuse("effect") /\ Reply("error") /\ UNCHANGED owned
    /\ UNCHANGED <<op, completed, keyboard, desk, transfer, capture, down, selection>>

claim_transfer_selection ==
    /\ pc = "claim"
    /\ \/ /\ ~ lost
          /\ selection' = "ours"
          /\ stage' = "paste"
          /\ pc' = "resolve"
          /\ UNCHANGED <<result, script, server>>
       \/ Refuse("effect") /\ Return("error") /\ UNCHANGED <<stage, selection>>
    /\ UNCHANGED <<op, completed, keyboard, terminal, desk, transfer, capture, down, owned>>

(* The transfer is over, with this result; the cleanup comes next.         *)
Finish(t) ==
    /\ terminal' = t
    /\ pc' = "cleanup"
    /\ stage' = "act" /\ result' = "none"

(* Mutant: the inner loop reads as many events as there are.               *)
WithinBounds_unbounded == selection_requests' <= MaxSelectionRequests

WithinBounds ==
    /\ events_seen' <= MaxTransferEvents
    /\ selection_requests' <= MaxSelectionRequests

(* The inner loop of wait_for_transfer: events are taken until none is     *)
(* left, and the number of them is bounded.  The counter stops one past its *)
(* bound.                                                                  *)
Drain ==
    /\ pc = "drain"
    /\ \/ /\ lost
          /\ Finish("error")
          /\ UNCHANGED <<queue, request, events_seen, selection_requests>>
       \/ /\ ~ lost /\ queue = <<>>
          /\ stage' = "evidence" /\ pc' = "grab"
          /\ UNCHANGED <<result, terminal, queue, request, events_seen, selection_requests>>
       \/ /\ ~ lost /\ queue # <<>>
          /\ queue' = Tail(queue)
          /\ events_seen' = IF events_seen > MaxTransferEvents THEN events_seen
                                                             ELSE events_seen + 1
          /\ selection_requests' =
                 IF Head(queue) \in Requests THEN selection_requests + 1
                                             ELSE selection_requests
          /\ IF ~ WithinBounds \/ Head(queue) = Clear
             THEN Finish("interrupted") /\ UNCHANGED request
             ELSE IF Head(queue) \in Requests
             THEN /\ request' = Head(queue)
                  /\ stage' = "serve" /\ pc' = "grab"
                  /\ UNCHANGED <<result, terminal>>
             ELSE UNCHANGED <<pc, stage, result, terminal, request>>
    /\ UNCHANGED <<op, script, completed, keyboard, served, settled, late,
                   desk, capture, server, down, selection, owned>>

(* transfer_evidence_is_current.                                           *)
Owner ==
    /\ pc = "owner"
    /\ Return(IF lost THEN "error" ELSE IF selection = "ours" THEN "true" ELSE "false")
    /\ UNCHANGED <<op, stage, completed, keyboard, terminal, desk, transfer, capture,
                   server, down, selection, owned>>

(* handle_selection_request hands over the text itself only to the X       *)
(* client of the target and only while the clipboard is still ours.        *)
Entitled ==
    /\ request.from = "target"
    /\ selection = "ours"
    /\ request.kind = "text"

Answer ==
    /\ pc = "answer"
    /\ \/ /\ ~ lost
          /\ Return(IF Entitled THEN "true" ELSE "false")
          /\ UNCHANGED server
       \/ Refuse("effect") /\ Return("error")
    /\ UNCHANGED <<op, stage, completed, keyboard, terminal, desk, queue, request,
                   events_seen, selection_requests, served, settled, late,
                   capture, down, selection, owned>>

(* The end of wait_for_transfer's loop: the two clocks, and the poll.      *)
Clock ==
    /\ pc = "clock"
    /\ IF served /\ (settled \/ late) THEN Finish("delivered")
       ELSE IF late THEN Finish("offered")
       ELSE pc' = "drain" /\ UNCHANGED <<stage, result, terminal>>
    /\ UNCHANGED <<op, script, completed, keyboard, desk, transfer, capture, server,
                   down, selection, owned>>

Cleared == IF selection = "ours" THEN "none" ELSE selection

(* release_transfer_owner, one grab of its own: the clipboard is given up  *)
(* if it is still ours, then the window is destroyed.  What is left in the *)
(* event queue names a window that no later transfer owns; one such event   *)
(* is kept.                                                                *)
release_transfer_owner ==
    /\ pc = "cleanup"
    /\ \/ /\ ~ lost
          /\ selection' = Cleared /\ owned' = FALSE
          /\ Reply(terminal)
          /\ UNCHANGED server
       \/ /\ Refuse("cleanup")
          /\ selection' \in (IF lost THEN {selection} ELSE {selection, Cleared})
          /\ Reply("error")
          /\ UNCHANGED owned
    /\ queue' = IF queue = <<>> THEN <<>> ELSE << Noise >>
    /\ request' = NoRequest
    /\ events_seen' = 0 /\ selection_requests' = 0
    /\ served' = FALSE /\ settled' = FALSE /\ late' = FALSE
    /\ UNCHANGED <<op, completed, keyboard, desk, capture, down>>

----------------------------------------------------------------------------
(* read_redirected_pixmap: the pixmap is named, read and freed.            *)
NamePixmap ==
    /\ pc = "name"
    /\ \/ /\ ~ lost /\ Target \in redirected /\ Target \in storage
          /\ pixmap' = TRUE
          /\ pc' = "read"
          /\ UNCHANGED <<result, script, server>>
       \/ Target \notin storage /\ Return("error") /\ UNCHANGED <<pixmap, server>>
       \/ Refuse("effect") /\ Return("error") /\ UNCHANGED pixmap
    /\ UNCHANGED <<op, stage, completed, keyboard, terminal, desk, transfer, scanned,
                   redirected, storage, down, selection, owned>>

(* A region outside the window, an unsupported format or a failed read is  *)
(* an error, and the pixmap is freed all the same.                         *)
ReadPixmap ==
    /\ pc = "read"
    /\ pc' = "free"
    /\ result' \in (IF lost THEN {"error"} ELSE {"true", "error"})
    /\ UNCHANGED <<op, stage, script, completed, keyboard, terminal, desk, transfer,
                   capture, server, down, selection, owned>>

FreePixmap ==
    /\ pc = "free"
    /\ \/ ~ lost /\ pixmap' = FALSE /\ Return(result) /\ UNCHANGED server
       \/ Refuse("free") /\ Return("error") /\ UNCHANGED pixmap
    /\ UNCHANGED <<op, stage, completed, keyboard, terminal, desk, transfer, scanned,
                   redirected, storage, down, selection, owned>>

(* A snapshot or an event poll refreshes without a grab, so the clients it *)
(* has read may be gone when their redirection is reconciled.              *)
Scan ==
    /\ pc = "scan"
    /\ IF lost THEN Reply("error") /\ UNCHANGED scanned
       ELSE /\ scanned' = Scoped
            /\ pc' = "reconcile"
            /\ UNCHANGED <<stage, result, script, terminal>>
    /\ UNCHANGED <<op, completed, keyboard, desk, transfer, redirected, storage, pixmap,
                   server, down, selection, owned>>

Reconcile ==
    /\ pc = "reconcile"
    /\ scanned' = {}
    /\ \/ Reconciled(scanned) /\ Reply("observed")
       \/ ReconcileFails(scanned) /\ Reply("error")
       \/ lost /\ Reply("error") /\ UNCHANGED <<server, redirected, storage>>
    /\ UNCHANGED <<op, completed, keyboard, desk, transfer, pixmap, down, selection, owned>>

----------------------------------------------------------------------------
(* What the caller of under_server_grab does with the closure's value.     *)

(* keyboard_text: an error on the first character is the reply, a later    *)
(* one only ends the text.                                                 *)
NextText ==
    /\ completed' = IF stage = "act" /\ result = "true" THEN completed + 1 ELSE completed
    /\ \/ /\ result = "true"
          /\ pc' = "loop" /\ stage' = "act" /\ result' = "none"
          /\ UNCHANGED <<terminal, script>>
       \/ result = "error" /\ completed = 0 /\ Reply("error")
       \/ result = "error" /\ completed > 0 /\ Reply("interrupted")
       \/ result = "false" /\ Reply("interrupted")

Loop ==
    /\ pc = "loop"
    /\ IF enabled /\ completed < Len(Text)
       THEN pc' = "grab" /\ result' = "none" /\ UNCHANGED <<stage, script, terminal>>
       ELSE Reply(IF enabled THEN "queued" ELSE "interrupted")
    /\ UNCHANGED <<op, completed, keyboard, desk, transfer, capture, server, down,
                   selection, owned>>

(* action_reply. *)
NextAction ==
    /\ completed' = IF result = "true" THEN 1 ELSE 0
    /\ Reply(CASE result = "error" -> "error"
               [] op = "capture"   -> "captured"
               [] result = "true" /\ enabled -> "queued"
               [] OTHER            -> "interrupted")

(* Mutant: a failed paste returns without giving the clipboard back.       *)
NextInsert_unclean ==
    /\ UNCHANGED completed
    /\ CASE result = "error" /\ stage # "evidence" -> Reply("error")
         [] result = "true" -> pc' = (IF stage = "evidence" THEN "clock" ELSE "drain")
                               /\ result' = "none" /\ UNCHANGED <<stage, script, terminal>>
         [] stage = "serve" /\ result = "false"
                            -> pc' = "drain" /\ result' = "none"
                               /\ UNCHANGED <<stage, script, terminal>>
         [] OTHER -> Finish("interrupted") /\ UNCHANGED script

(* text_insert and wait_for_transfer: once the window exists every way out *)
(* goes through the cleanup.                                               *)
NextInsert ==
    /\ UNCHANGED <<completed, script>>
    /\ CASE result = "true" -> /\ pc' = IF stage = "evidence" THEN "clock" ELSE "drain"
                               /\ result' = "none" /\ UNCHANGED <<stage, terminal>>
         [] stage = "serve" /\ result = "false"
                            -> pc' = "drain" /\ result' = "none"
                               /\ UNCHANGED <<stage, terminal>>
         [] result = "error" /\ stage # "evidence" -> Finish("error")
         [] OTHER           -> Finish("interrupted")

NextStep ==
    /\ pc = "next"
    /\ \/ op = "text" /\ NextText
       \/ op = "insert" /\ NextInsert
       \/ op \notin {"text", "insert"} /\ NextAction
    /\ served' = (served \/ (stage = "serve" /\ result = "true"))
    /\ settled' = (settled /\ ~ (stage = "serve" /\ result = "true"))
    /\ request' = NoRequest
    /\ UNCHANGED <<op, keyboard, desk, queue, events_seen, selection_requests,
                   late, capture, server, down, selection, owned>>

Provider ==
    \/ Acquire \/ Release \/ Check \/ Accepts \/ Resolve
    \/ Move \/ (\E c \in Pressable : Press(c)) \/ Unpress \/ SendFails \/ BestEffortRelease
    \/ create_transfer_owner \/ claim_transfer_selection
    \/ Drain \/ Owner \/ Answer \/ Clock \/ release_transfer_owner
    \/ NamePixmap \/ ReadPixmap \/ FreePixmap \/ Scan \/ Reconcile
    \/ NextStep \/ Loop

----------------------------------------------------------------------------
(* The rest of the world.  Other X clients act only outside our grabs.     *)
Ungrabbed == ~ grabbed /\ ~ lost /\ pc # "closed"

(* The current transfer has claimed the clipboard and is not over.         *)
Claimed == stage \in {"paste", "evidence", "serve"}

(* Another window gets the focus or covers the point: an operation looks   *)
(* at one of the two.                                                      *)
Cover(w) ==
    /\ Ungrabbed
    /\ aim' = w
    /\ UNCHANGED <<control, status, transfer, capture, server, down, selection, owned>>

(* A window leaves or enters the scope, closes, or is opened again under   *)
(* the identifier of one that has closed.                                  *)
Restate(w, s) ==
    /\ Ungrabbed
    /\ s = "unscoped" => status[w] # "gone"
    /\ status' = [status EXCEPT ![w] = s]
    /\ storage' = IF s = "gone" THEN storage \ {w} ELSE storage
    /\ UNCHANGED <<control, aim, transfer, scanned, redirected, pixmap, server,
                   down, selection, owned>>

(* Another client takes the clipboard: its old owner gets an event.        *)
Take ==
    /\ Ungrabbed
    /\ selection # "other"
    /\ selection' = "other"
    /\ queue' = IF selection = "ours" /\ Claimed THEN Append(queue, Clear) ELSE queue
    /\ UNCHANGED <<control, desk, request, events_seen, selection_requests, served,
                   settled, late, capture, server, down, owned>>

(* A client asks our window for the clipboard, or any other event arrives. *)
Arrive(e) ==
    /\ Ungrabbed
    /\ queue = <<>>
    /\ Claimed
    /\ e \in Requests => selection = "ours"
    /\ queue' = Append(queue, e)
    /\ UNCHANGED <<control, desk, request, events_seen, selection_requests, served,
                   settled, late, capture, server, down, selection, owned>>

(* The transfer's 250 ms and 2 s clocks run out.                           *)
Waiting == Claimed /\ (stage # "paste" \/ pc \in {"drain", "clock"})

Settle ==
    /\ Waiting /\ served /\ ~ settled
    /\ settled' = TRUE
    /\ UNCHANGED <<control, desk, queue, request, events_seen, selection_requests,
                   served, late, capture, server, down, selection, owned>>

Expire ==
    /\ Waiting /\ ~ late
    /\ late' = TRUE
    /\ UNCHANGED <<control, desk, queue, request, events_seen, selection_requests,
                   served, settled, capture, server, down, selection, owned>>

(* The person disables the seat, from a thread of its own.                 *)
Disable ==
    /\ enabled /\ pc # "closed"
    /\ enabled' = FALSE
    /\ UNCHANGED <<control, desk, transfer, capture, grabbed, lost, refused, down,
                   selection, owned>>

(* The connection breaks.  The server ends the grab and undoes what the    *)
(* connection held, but it leaves keys as they are.  The desktop is out of  *)
(* sight from then on.                                                     *)
Break ==
    /\ ~ lost /\ pc # "closed"
    /\ lost' = TRUE
    /\ grabbed' = FALSE
    /\ Disconnected
    /\ aim' = Target /\ status' = [w \in Windows |-> "scoped"] /\ queue' = <<>>
    /\ UNCHANGED <<control, request, events_seen, selection_requests, served, settled,
                   late, scanned, redirected, enabled, refused, down>>

World ==
    \/ \E w \in Windows : Cover(w)
    \/ \E w \in Fleeting, s \in {"scoped", "unscoped", "gone"} : Restate(w, s)
    \/ \E e \in Requests \cup {Noise} : Arrive(e)
    \/ Take \/ Settle \/ Expire \/ Disable \/ Break

Next == Provider \/ World \/ Drop \/ \E o \in Ops : Begin(o)

(* The thread of the session runs, and time passes.                        *)
Spec == Init /\ [][Next]_vars /\ WF_vars(Provider) /\ WF_vars(Expire)

----------------------------------------------------------------------------
TypeOK ==
    /\ op \in Ops
    /\ pc \in {"idle", "closed", "create", "grab", "check", "accepts", "resolve", "claim",
               "motion", "send", "recover", "ungrab", "next", "loop", "drain", "owner", "answer",
               "clock", "cleanup", "name", "read", "free", "scan", "reconcile"}
    /\ stage \in {"preflight", "act", "paste", "evidence", "serve"}
    /\ result \in {"none", "true", "false", "error"}
    /\ terminal \in {"none", "error", "queued", "interrupted", "delivered", "offered",
                     "captured", "observed"}
    /\ completed \in 0..Len(Text)
    /\ refused \subseteq Kinds
    /\ down \subseteq {Button} \cup UNION {DOMAIN k.keys : k \in Keyboards}
    /\ aim \in Windows
    /\ status \in [Windows -> {"scoped", "unscoped", "gone"}]
    /\ selection \in {"none", "ours", "other"}
    /\ {grabbed, lost, enabled, owned, served, settled, late, pixmap}
           \subseteq BOOLEAN
    /\ Len(queue) <= 2 /\ events_seen <= MaxTransferEvents + 1
    /\ {scanned, redirected, storage} \subseteq SUBSET Windows
    /\ grabbed => pc \notin {"idle", "closed", "grab", "next", "loop", "drain", "clock"}

(* The press of the stroke's own key, not of a modifier, comes next.       *)
Strikes == op \in KeyboardOps /\ held = {}

(* A key or a button goes down only while the target is in scope and has   *)
(* the keyboard focus, or visibly owns the point clicked, and the target   *)
(* receives a key as the symbol that was asked for, with the modifiers     *)
(* asked for and no other but a lock: each closure looks again, at the     *)
(* focus and at the keyboard, under the grab it acts in                    *)
(* (under_server_grab, keyboard_text, resolve_with_modifiers).             *)
InputReachesTarget ==
    [][\A c \in down' \ down :
         /\ Target \in Scoped /\ aim = Target
         /\ Strikes => /\ keyboard # {}
                       /\ \A k \in keyboard :
                              Means(k, down, c, Wanted.symbol, Wanted.modifiers)]_vars

(* When a request returns, nothing it pressed is still down, whichever     *)
(* input the server refused, unless the repeated release was refused too   *)
(* or the connection broke (type_key, click_button, release_keys).         *)
NothingStaysDown ==
    pc \in {"idle", "next"} /\ ~ lost /\ "best_effort" \notin refused => down = {}

(* Whatever ends a text insertion, the clipboard is no longer ours and the *)
(* transfer window is gone when it returns, unless the cleanup itself was  *)
(* refused (text_insert, release_transfer_owner).                          *)
ClipboardIsReturned ==
    pc = "idle" /\ "cleanup" \notin refused => selection # "ours" /\ ~ owned

(* Every window the server redirects for this session is one the session   *)
(* remembers and will give back, across failed reconciliations, closed     *)
(* windows and reused identifiers, and no request leaves a pixmap behind   *)
(* unless freeing it was refused.                                          *)
CaptureIsTracked ==
    /\ storage \subseteq redirected
    /\ pc = "idle" /\ "free" \notin refused => ~ pixmap

(* Every request returns, however many events other clients send: the      *)
(* transfer's event and request bounds and its deadline end it.            *)
RequestEnds == pc \notin {"idle", "closed"} ~> pc = "idle"
=============================================================================
