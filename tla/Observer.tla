------------------------------ MODULE Observer ------------------------------
(***************************************************************************)
(* The per-session observer of crates/agent-seat-x11/src/observer.rs: it   *)
(* samples a desktop that changes under it, gives clients opaque           *)
(* identities and generations, numbers the differences, queues them for    *)
(* the peer, and sends management requests (observer/manager.rs) only to   *)
(* targets the peer has described correctly.                               *)
(*                                                                         *)
(* The desktop is what the configured scope lets the provider see: a       *)
(* client that leaves the scope and one that is closed look the same.  All *)
(* public facts of a client are one value, its look.  A sample that is not *)
(* taken under a server grab reads the clients first and the active window *)
(* afterwards, and the desktop may change in between.                      *)
(***************************************************************************)
EXTENDS Naturals, SequencesExt, FiniteSets

CONSTANTS MaxXid,        \* windows are numbered 1 .. MaxXid
          Looks,         \* what a client may look like
          Workspaces,
          MAX_EVENTS,
          None,
          Filters,       \* bound: subscriptions the peer tries
          Limits,        \* bound: page limits the peer tries
          Wishes,        \* bound: management operations the peer tries
          MaxChanges     \* bound: changes of the desktop

ASSUME ObserverAssumption ==
    /\ MaxXid \in Nat /\ MAX_EVENTS \in Nat \ {0} /\ MaxChanges \in Nat
    /\ Limits \subseteq Nat \ {0}
    /\ Wishes \subseteq {"activate", "close", "switch"}

Xids == 1 .. MaxXid
InOrder == [x \in Xids |-> x]
Kinds == {"removed", "changed", "added", "workspace", "active"}

VARIABLES desktop,      \* what is really there
          changes,
          call,         \* the call the session is in, or None
          raw,          \* the part of a sample that has been read
          model, next_client, subscribed, subscribed_kinds,
          queue,        \* sequence, events, retained_after, resync_required
          peer,         \* a peer's own copy of the model, and whether it trusts it
          sent          \* the management request whose effect is awaited

observer == <<model, next_client, subscribed, subscribed_kinds, queue>>
vars == <<desktop, changes, call, raw, observer, peer, sent>>

Descriptors == [id : Nat \ {0}, generation : Nat, look : Looks]
Views == [clients : SUBSET Descriptors, workspace : Workspaces, active : Nat]

\* What a snapshot shows: the clients in no particular order, 0 for no active one.
View(m) == [clients |-> {m.clients[x] : x \in Xids} \ {None},
            workspace |-> m.workspace, active |-> m.active]

TypeOK == /\ desktop \in [look : [Xids -> Looks \cup {None}], active : Xids \cup {None},
                          workspace : Workspaces]
          /\ changes \in 0 .. MaxChanges
          /\ call = None \/ call.name \in {"snapshot", "subscribe", "poll", "manage"}
          /\ raw = None \/ raw.look \in [Xids -> Looks \cup {None}]
          /\ model = None \/ /\ \A x \in Xids : model.clients[x] \in Descriptors \cup {None}
                             /\ model.active \in 0 .. next_client - 1
                             /\ model.workspace \in Workspaces
          /\ next_client \in Nat \ {0}
          /\ subscribed \in BOOLEAN
          /\ subscribed_kinds \subseteq Kinds
          /\ queue.retained_after \in 0 .. queue.sequence
          /\ Len(queue.events) <= MAX_EVENTS
          /\ peer.cursor \in 0 .. queue.sequence

Init == /\ desktop \in [look : [Xids -> Looks \cup {None}], active : {None},
                        workspace : Workspaces]
        /\ changes = 0
        /\ call = None
        /\ raw = None
        /\ model = None
        /\ next_client = 1
        /\ subscribed = FALSE
        /\ subscribed_kinds = {}
        /\ queue = [sequence |-> 0, events |-> <<>>, retained_after |-> 0,
                    resync_required |-> FALSE]
        /\ peer = [view |-> None, cursor |-> 0, synced |-> FALSE]
        /\ sent = None

-----------------------------------------------------------------------------
\* The window manager and the applications.
Change == /\ changes < MaxChanges
          /\ changes' = changes + 1
          /\ \/ \E x \in Xids, l \in Looks \cup {None} :
                   desktop' = [desktop EXCEPT !.look[x] = l,
                                              !.active = IF l = None /\ @ = x THEN None ELSE @]
             \/ \E x \in Xids \cup {None} :
                   /\ x # None => desktop.look[x] # None
                   /\ desktop' = [desktop EXCEPT !.active = x]
             \/ \E w \in Workspaces : desktop' = [desktop EXCEPT !.workspace = w]
          /\ desktop' # desktop
          /\ UNCHANGED <<call, raw, observer, peer, sent>>

-----------------------------------------------------------------------------
\* push_event on the queue.  Every event is numbered; one that is not selected,
\* or that comes while the backlog is lost, is not kept.
Selected(e) == subscribed /\ (subscribed_kinds = {} \/ e.kind \in subscribed_kinds)

\* Mutant: the oldest event makes room, silently.
push_event_evict(q, e) ==
    LET n == q.sequence + 1
    IN IF ~Selected(e) \/ q.resync_required THEN [q EXCEPT !.sequence = n]
       ELSE IF Len(q.events) = MAX_EVENTS
       THEN [q EXCEPT !.sequence = n,
                      !.events = Append(Tail(@), [sequence |-> n, event |-> e])]
       ELSE [q EXCEPT !.sequence = n,
                      !.events = Append(@, [sequence |-> n, event |-> e])]

push_event(q, e) ==
    LET n == q.sequence + 1
    IN IF ~Selected(e) \/ q.resync_required THEN [q EXCEPT !.sequence = n]
       ELSE IF Len(q.events) = MAX_EVENTS
       THEN [q EXCEPT !.sequence = n, !.events = <<>>, !.resync_required = TRUE]
       ELSE [q EXCEPT !.sequence = n,
                      !.events = Append(@, [sequence |-> n, event |-> e])]

\* The clients of a sample, next to the previous ones: known ones keep their
\* identity and get a new generation when they look different.
Fresh(old, r) == {x \in Xids : r.look[x] # None /\ old[x] = None}

Allocated(old, r, x) == next_client + Cardinality({y \in Fresh(old, r) : y < x})

\* Mutant: a change keeps the generation.
Record_same_generation(old, r, x) ==
    IF r.look[x] = None THEN None
    ELSE IF old[x] = None
    THEN [id |-> Allocated(old, r, x), generation |-> 0, look |-> r.look[x]]
    ELSE [old[x] EXCEPT !.look = r.look[x]]

Record(old, r, x) ==
    IF r.look[x] = None THEN None
    ELSE IF old[x] = None
    THEN [id |-> Allocated(old, r, x), generation |-> 0, look |-> r.look[x]]
    ELSE IF old[x].look = r.look[x] THEN old[x]
    ELSE [old[x] EXCEPT !.look = r.look[x], !.generation = @ + 1]

Sampled(old, r) ==
    LET clients == [x \in Xids |-> Record(old, r, x)]
    IN [clients |-> clients, workspace |-> r.workspace,
        active |-> IF r.active = None THEN 0 ELSE clients[r.active].id]

\* The events of diff_model, in the order in which it pushes them.
Differences(old, new) ==
    LET Removed(x) == old.clients[x] # None /\ new.clients[x] = None
        Touched(x) == new.clients[x] # None /\ new.clients[x] # old.clients[x]
        Gone(x) == [kind |-> "removed", client |-> old.clients[x]]
        Come(x) == [kind |-> IF old.clients[x] = None THEN "added" ELSE "changed",
                    client |-> new.clients[x]]
        removed == SelectSeq(InOrder, Removed)
        touched == SelectSeq(InOrder, Touched)
    IN [i \in DOMAIN removed |-> Gone(removed[i])]
       \o [i \in DOMAIN touched |-> Come(touched[i])]
       \o (IF old.workspace = new.workspace THEN <<>>
           ELSE <<[kind |-> "workspace", workspace |-> new.workspace]>>)
       \o (IF old.active = new.active THEN <<>>
           ELSE <<[kind |-> "active", active |-> new.active]>>)

NoClients == [x \in Xids |-> None]

\* refresh with a complete sample r, by initial_model or diff_model: the new model
\* and what the queue becomes.
Old == IF model = None THEN NoClients ELSE model.clients

Refresh(r) == /\ model' = Sampled(Old, r)
              /\ next_client' = next_client + Cardinality(Fresh(Old, r))

Pushed(r) == IF model = None THEN queue
             ELSE FoldLeft(push_event, queue, Differences(model, Sampled(Old, r)))

\* The active window is kept only if it is among the clients that were read.
WithActive(r, active) ==
    [r EXCEPT !.active = IF active # None /\ r.look[active] # None THEN active ELSE None]

-----------------------------------------------------------------------------
\* What a careful peer does with events.
Apply(v, envelope) ==
    LET e == envelope.event
    IN CASE e.kind = "removed" -> [v EXCEPT !.clients = {c \in @ : c.id # e.client.id}]
         [] e.kind \in {"added", "changed"} ->
                [v EXCEPT !.clients = {c \in @ : c.id # e.client.id} \cup {e.client}]
         [] e.kind = "workspace" -> [v EXCEPT !.workspace = e.workspace]
         [] e.kind = "active" -> [v EXCEPT !.active = e.active]

After(events, cursor) == SelectSeq(events, LAMBDA e : e.sequence > cursor)

Discard == peer' = [peer EXCEPT !.synced = FALSE]

-----------------------------------------------------------------------------
\* A call arrives.  poll validates its cursor and drops what is acknowledged.
Call == /\ call = None
        /\ \/ call' = [name |-> "snapshot"] /\ UNCHANGED <<queue, peer>>
           \/ \E f \in Filters : call' = [name |-> "subscribe", kinds |-> f]
              /\ UNCHANGED <<queue, peer>>
        /\ UNCHANGED <<desktop, changes, raw, model, next_client, subscribed,
                       subscribed_kinds, sent>>

Acknowledge(after) ==
    LET known == SelectSeq(queue.events, LAMBDA e : e.sequence <= after)
    IN queue' = [queue EXCEPT !.events = After(@, after),
                              !.retained_after =
                                  IF known = <<>> THEN @ ELSE Last(known).sequence]

\* Can the history continue from this cursor?
Supplied(after) == queue.retained_after <= after /\ after <= queue.sequence

Poll == /\ call = None
        /\ subscribed
        /\ \E after \in 0 .. queue.sequence + 1, limit \in Limits :
              IF Supplied(after)
              THEN /\ Acknowledge(after)
                   /\ call' = [name |-> "poll", after |-> after, limit |-> limit]
                   /\ UNCHANGED peer
              ELSE Discard /\ UNCHANGED <<queue, call>>
        /\ UNCHANGED <<desktop, changes, raw, model, next_client, subscribed,
                       subscribed_kinds, sent>>

\* The first half of a sample outside a grab: root state and clients.
Scan == /\ call # None
        /\ raw = None
        /\ raw' = [desktop EXCEPT !.active = None]
        /\ UNCHANGED <<desktop, changes, call, observer, peer, sent>>

\* A sample fails and with it the call; for a management request that was sent,
\* the next sample is tried instead.
ScanFails == /\ raw # None
             /\ raw' = None
             /\ call' \in IF call.name = "manage" THEN {None, call} ELSE {None}
             /\ sent' = IF call' = None THEN None ELSE sent
             /\ UNCHANGED <<desktop, changes, observer, peer>>

\* Nothing before this moment is retained, nothing is missing.
Reset(q) == [q EXCEPT !.events = <<>>, !.retained_after = q.sequence,
                      !.resync_required = FALSE]

\* The second half: the active window, the difference, and the rest of the call.
Complete(name) == /\ raw # None
                  /\ call.name = name
                  /\ raw' = None

Sample == WithActive(raw, desktop.active)

Snapshot == /\ Complete("snapshot")
            /\ Refresh(Sample)
            /\ LET q == Pushed(Sample)
               IN /\ queue' = IF q.resync_required THEN Reset(q) ELSE q
                  /\ peer' = [view |-> View(model'), cursor |-> q.sequence, synced |-> TRUE]
            /\ call' = None
            /\ UNCHANGED <<desktop, changes, subscribed, subscribed_kinds, sent>>

\* A careful peer that changes its filter takes a new snapshot.
Subscribe == /\ Complete("subscribe")
             /\ Refresh(Sample)
             /\ queue' = Reset(Pushed(Sample))
             /\ subscribed' = TRUE
             /\ subscribed_kinds' = call.kinds
             /\ IF subscribed_kinds = call.kinds THEN UNCHANGED peer ELSE Discard
             /\ call' = None
             /\ UNCHANGED <<desktop, changes, sent>>

\* poll after a sample: fail, return a page, or sample again.  A peer that polled
\* from its own cursor applies the page.
Page == LET unread == After(queue'.events, call.after)
        IN SubSeq(unread, 1, IF call.limit < Len(unread) THEN call.limit ELSE Len(unread))

Cursor == IF Page = <<>> THEN queue'.sequence ELSE Last(Page).sequence

PollSamples == /\ Complete("poll")
               /\ Refresh(Sample)
               /\ queue' = Pushed(Sample)
               /\ \/ /\ queue'.resync_required
                     /\ Discard
                     /\ call' = None
                  \/ /\ ~queue'.resync_required
                     /\ peer' = IF peer.synced /\ peer.cursor = call.after
                                THEN [peer EXCEPT !.view = FoldLeft(Apply, @, Page),
                                                  !.cursor = Cursor]
                                ELSE peer
                     /\ call' = None
                  \/ /\ ~queue'.resync_required
                     /\ Page = <<>>
                     /\ UNCHANGED <<call, peer>>
               /\ UNCHANGED <<desktop, changes, subscribed, subscribed_kinds, sent>>

-----------------------------------------------------------------------------
\* manage: under a server grab the whole sample is of one moment, the request is
\* checked against it, and sent.
Whole == WithActive(desktop, desktop.active)

Targets(d) == {x \in Xids : model'.clients[x] # None
                             /\ model'.clients[x].id = d.id
                             /\ model'.clients[x].generation = d.generation}

Manage == /\ call = None
          /\ Refresh(Whole)
          /\ queue' = Pushed(Whole)
          /\ \/ \E wish \in Wishes \ {"switch"},
                   d \in IF peer.view = None THEN {} ELSE peer.view.clients :
                   IF Targets(d) = {} THEN UNCHANGED <<call, sent>>
                   ELSE \E x \in Targets(d) :
                           /\ sent' = [of |-> "client", to |-> d, xid |-> x]
                           /\ call' = [name |-> "manage", wish |-> wish, id |-> d.id]
             \/ \E w \in Workspaces, n \in 0 .. queue'.sequence :
                   /\ "switch" \in Wishes
                   /\ IF n # queue'.sequence THEN UNCHANGED <<call, sent>>
                      ELSE /\ sent' = [of |-> "sequence", sequence |-> n]
                           /\ call' = [name |-> "manage", wish |-> "switch", workspace |-> w]
          /\ UNCHANGED <<desktop, changes, raw, subscribed, subscribed_kinds, peer>>

\* observe_terminal: sample until the wish is observed or its target is gone, or
\* the deadline passes.
Ids == {c.id : c \in View(model').clients}

Observed == CASE call.wish = "activate" -> model'.active = call.id
              [] call.wish = "close" -> call.id \notin Ids
              [] call.wish = "switch" -> model'.workspace = call.workspace

TargetGone == call.wish # "switch" /\ call.id \notin Ids

ManageSamples == /\ Complete("manage")
                 /\ Refresh(Sample)
                 /\ queue' = Pushed(Sample)
                 /\ call' \in IF Observed \/ TargetGone THEN {None} ELSE {None, call}
                 /\ sent' = IF call' = None THEN None ELSE sent
                 /\ UNCHANGED <<desktop, changes, subscribed, subscribed_kinds, peer>>

Next == \/ Change \/ Call \/ Poll \/ Scan \/ ScanFails \/ Snapshot \/ Subscribe
        \/ PollSamples \/ Manage \/ ManageSamples

Spec == Init /\ [][Next]_vars

-----------------------------------------------------------------------------
Received == IF subscribed_kinds = {} THEN Kinds ELSE subscribed_kinds

\* Two views are the same as far as the subscription tells.
Agree(v, w) ==
    /\ {"removed", "changed", "added"} \subseteq Received => v.clients = w.clients
    /\ "workspace" \in Received => v.workspace = w.workspace
    /\ "active" \in Received => v.active = w.active

\* "If the provider can no longer supply a complete continuation, it MUST return a
\* typed resynchronization requirement": whenever a poll from the peer's cursor
\* would not be refused, the retained events lead from the peer's copy to the
\* observer's model, whatever was filtered, acknowledged, overflowed or reset
\* before, and however the desktop changed during a sample.
HistoryIsComplete ==
    subscribed /\ peer.synced /\ Supplied(peer.cursor) /\ ~queue.resync_required =>
        Agree(FoldLeft(Apply, peer.view, After(queue.events, peer.cursor)), View(model))

\* "A failed recheck sends nothing": a request goes only to a window that looks, at
\* the moment of sending, the way the descriptor in the peer's copy says, however
\* old that copy is and also when a window number has been used again.
RequestIsFresh ==
    [][sent = None /\ sent' # None /\ sent'.of = "client" => desktop.look[sent'.xid] = sent'.to.look]_vars
=============================================================================
