--------------------------- MODULE ActivityBroker ---------------------------
(***************************************************************************)
(* The experimental activity gate, crates/agent-seat-activity-broker: the  *)
(* eligibility guard (bin/agent-seat-eligibility-guard.rs), which watches  *)
(* the login session and the kernel's input devices; the broker (main.rs), *)
(* which watches the enrolled event devices and the guard's channel; and   *)
(* the provider side of the status protocol (lib.rs).  Everything that is  *)
(* watched may change between any two steps of the two processes.          *)
(***************************************************************************)
EXTENDS Naturals, Sequences, FiniteSets

CONSTANTS Facts,         \* the properties of the session that are read one by one
          N,             \* event devices
          MaxEvents,     \* bound: unread events of one device
          MaxChanges     \* bound: changes of the session or of the input class

ASSUME BrokerAssumption == /\ IsFiniteSet(Facts)
                           /\ N \in Nat \ {0}
                           /\ MaxEvents \in Nat /\ MaxChanges \in Nat

Devices == 1 .. N
Events == {"report", "key", "dropped"}

VARIABLES \* the world
          facts,       \* the facts that hold now
          enrolled,    \* is the kernel's input class the reviewed one
          bus,         \* unread logind signals: "none", "changed" or "lost"
          uevents,     \* is an input uevent unread
          queue, unplugged,     \* per device: unread events; has it gone
          changes,
          \* the guard
          guard, matches, seen, stop,
          \* the channel from the guard to the broker
          frames, closed,
          \* the broker
          broker, status, watching, arm, polled,
          \* the connection of the provider
          link, request, answer,
          \* history
          spoiled      \* there has been evidence for the broker against being ready

world == <<facts, enrolled, bus, uevents, queue, unplugged, changes>>
guardVars == <<guard, matches, seen, stop>>
channel == <<frames, closed>>
brokerVars == <<broker, status, watching, arm, polled>>
provider == <<link, request, answer>>
vars == <<world, guardVars, channel, brokerVars, provider, spoiled>>

Rank(s) == CASE s = "none" -> 0 [] s = "changed" -> 1 [] s = "lost" -> 2

\* logind signals are delivered from subscribe on.
Subscribed == guard \in {"read", "watch"}

Later(a, b) == IF Rank(a) >= Rank(b) THEN a ELSE b

Status(e, s, r) == [epoch |-> e, state |-> s, reason |-> r]

\* The combinations BrokerStatus::decode accepts.
Valid == {<<"arming", "none">>, <<"ready", "none">>, <<"stopped", "activity">>,
          <<"stopped", "eligibility_changed">>, <<"unavailable", "event_loss">>,
          <<"unavailable", "evidence_lost">>, <<"unavailable", "internal">>}
Terminal == {"stopped", "unavailable"}

Nothing == [eligibility |-> "no", in |-> {}, gone |-> {}, provider |-> "no"]

Whole == facts = Facts /\ enrolled

TypeOK ==
    /\ facts \subseteq Facts
    /\ bus \in {"none", "changed", "lost"} /\ stop \in {"none", "changed", "lost"}
    /\ queue \in [Devices -> UNION {[1 .. k -> Events] : k \in 0 .. MaxEvents}]
    /\ guard \in {"monitor", "scan", "subscribe", "read", "watch", "leaving", "gone"}
    /\ broker \in {"eligibility", "devices", "poll", "evidence", "serve", "exited"}
    /\ Len(frames) <= 2
    /\ <<status.state, status.reason>> \in Valid
    /\ link \in {"none", "backlog", "accepted", "hung"}
    /\ request \in {"none", "early", "late"}
    /\ Len(answer) + (IF request = "none" THEN 0 ELSE 1) <= 1
    /\ watching => status.state \notin Terminal
    /\ arm # "off" => status.state = "arming"

Init == /\ facts \in SUBSET Facts /\ enrolled \in BOOLEAN
        /\ bus = "none" /\ uevents = FALSE /\ changes = 0
        /\ queue = [d \in Devices |-> <<>>] /\ unplugged = {}
        /\ guard = "monitor" /\ matches = FALSE /\ seen = {} /\ stop = "none"
        /\ frames = <<>> /\ closed = FALSE
        /\ broker = "eligibility" /\ status = Status(1, "arming", "none")
        /\ watching = FALSE /\ arm = "off" /\ polled = Nothing
        /\ link = "none" /\ request = "none" /\ answer = <<>>
        /\ spoiled = FALSE

-----------------------------------------------------------------------------
\* What nobody watches any more is left as it is.
GuardLives == guard \notin {"leaving", "gone"}
DevicesOpen == broker \in {"eligibility", "devices"} \/ watching

\* logind announces every change of a property to those who have subscribed.
SessionChanges ==
    /\ changes < MaxChanges /\ GuardLives
    /\ changes' = changes + 1
    /\ \E f \in Facts : facts' = IF f \in facts THEN facts \ {f} ELSE facts \cup {f}
    /\ bus' = IF Subscribed THEN Later(bus, "changed") ELSE bus
    /\ UNCHANGED <<enrolled, uevents, queue, unplugged, guardVars, channel, brokerVars,
                   provider, spoiled>>

\* logind is replaced on the bus.
LogindLeaves ==
    /\ changes < MaxChanges
    /\ changes' = changes + 1
    /\ Subscribed
    /\ bus' = "lost"
    /\ UNCHANGED <<facts, enrolled, uevents, queue, unplugged, guardVars, channel,
                   brokerVars, provider, spoiled>>

\* The kernel announces an added or removed input device.
InputClassChanges ==
    /\ changes < MaxChanges /\ GuardLives
    /\ changes' = changes + 1
    /\ enrolled' = ~enrolled
    /\ uevents' = (guard # "monitor")
    /\ UNCHANGED <<facts, bus, queue, unplugged, guardVars, channel, brokerVars, provider,
                   spoiled>>

\* Something is typed or moved, or the kernel drops events, or only a report is left.
DeviceEvent(d) ==
    /\ Len(queue[d]) < MaxEvents /\ d \notin unplugged
    /\ DevicesOpen
    /\ \E e \in Events :
          /\ queue' = [queue EXCEPT ![d] = Append(@, e)]
          /\ spoiled' = (spoiled \/ e # "report")
    /\ UNCHANGED <<facts, enrolled, bus, uevents, unplugged, changes, guardVars, channel,
                   brokerVars, provider>>

Unplug(d) == /\ d \notin unplugged
             /\ DevicesOpen
             /\ unplugged' = unplugged \cup {d}
             /\ spoiled' = TRUE
             /\ UNCHANGED <<facts, enrolled, bus, uevents, queue, changes, guardVars, channel,
                            brokerVars, provider>>

-----------------------------------------------------------------------------
(* agent-seat-eligibility-guard: run *)

\* UeventMonitor::open: from here on uevents are kept.
Monitor ==
    /\ guard = "monitor"
    /\ guard' = "scan"
    /\ UNCHANGED <<world, matches, seen, stop, channel, brokerVars, provider, spoiled>>

\* inspect_input_class, compared with the reviewed set; then the broker connects.
Scan ==
    /\ guard = "scan"
    /\ guard' = "subscribe"
    /\ matches' = enrolled
    /\ UNCHANGED <<world, seen, stop, channel, brokerVars, provider, spoiled>>

\* Mutant: the facts are read before there is a subscription.
Subscribe_after_reading ==
    /\ guard = "subscribe"
    /\ IF seen = Facts THEN guard' = "read" /\ UNCHANGED <<matches, seen>>
       ELSE \E f \in Facts \ seen : /\ seen' = seen \cup {f}
                                    /\ matches' = (matches /\ f \in facts)
                                    /\ UNCHANGED guard
    /\ UNCHANGED <<world, stop, channel, brokerVars, provider, spoiled>>

\* subscribe
Subscribe ==
    /\ guard = "subscribe"
    /\ guard' = "read"
    /\ UNCHANGED <<world, matches, seen, stop, channel, brokerVars, provider, spoiled>>

\* current_eligibility: one call to logind for each fact.
ReadFact(f) ==
    /\ guard = "read" /\ f \notin seen
    /\ seen' = seen \cup {f}
    /\ matches' = (matches /\ f \in facts)
    /\ UNCHANGED <<world, guard, stop, channel, brokerVars, provider, spoiled>>

\* process and drain: everything unread goes into the latch.
Drain == /\ stop' = Later(stop, Later(bus, IF uevents THEN "changed" ELSE "none"))
         /\ bus' = "none" /\ uevents' = FALSE
         /\ UNCHANGED <<facts, enrolled, queue, unplugged, changes>>

\* The initial frame.
Decide ==
    /\ guard = "read" /\ seen = Facts
    /\ Drain
    /\ IF matches /\ stop' = "none"
       THEN frames' = <<"eligible">> /\ guard' = "watch" /\ UNCHANGED spoiled
       ELSE frames' = <<"ineligible">> /\ guard' = "leaving" /\ spoiled' = TRUE
    /\ matches' = FALSE /\ seen' = {}
    /\ UNCHANGED <<closed, brokerVars, provider>>

\* One turn of the loop: a change is announced once, a loss only by leaving.
Watch ==
    /\ guard = "watch"
    /\ bus # "none" \/ uevents
    /\ Drain
    /\ IF stop' = "changed"
       THEN frames' = Append(frames, "ineligible") /\ spoiled' = TRUE
       ELSE UNCHANGED <<frames, spoiled>>
    /\ guard' = "leaving"
    /\ UNCHANGED <<matches, seen, closed, brokerVars, provider>>

\* Any error of the guard: logind, the system bus, the uevent socket.
GuardFails ==
    /\ guard \in {"scan", "subscribe", "read", "watch"}
    /\ guard' = "leaving"
    /\ UNCHANGED <<world, matches, seen, stop, channel, brokerVars, provider, spoiled>>

\* The process ends and its channel with it.
Leave == /\ guard = "leaving"
         /\ guard' = "gone"
         /\ closed' = TRUE
         /\ spoiled' = TRUE
         /\ UNCHANGED <<world, matches, seen, stop, frames, brokerVars, provider>>

Guard == Monitor \/ Scan \/ Subscribe \/ (\E f \in Facts : ReadFact(f)) \/ Decide \/ Watch
         \/ Leave

-----------------------------------------------------------------------------
(* agent-seat-activity-broker: run *)

Exit == broker' = "exited" /\ watching' = FALSE /\ arm' = "off" /\ polled' = Nothing

\* read_initial_eligibility: one frame, the end of the channel, or the deadline.
ReadEligibility ==
    /\ broker = "eligibility"
    /\ \/ /\ frames # <<>>
          /\ frames' = Tail(frames)
          /\ broker' = "devices"
          /\ status' = IF Head(frames) = "eligible" THEN status
                       ELSE Status(1, "stopped", "eligibility_changed")
          /\ UNCHANGED <<watching, arm, polled>>
       \/ frames = <<>> /\ Exit /\ UNCHANGED <<frames, status>>
    /\ UNCHANGED <<world, guardVars, closed, provider, spoiled>>

Has(d, e) == \E k \in DOMAIN queue[d] : queue[d][k] = e
Drained(D) == queue' = [d \in Devices |-> IF d \in D THEN <<>> ELSE queue[d]]

\* initial_device_update: held keys first, then one look at every queue.  What makes
\* the evidence unusable counts more than activity.
InitialDevices(held) ==
    LET lost == {d \in Devices : d \in unplugged \/ Has(d, "dropped")}
        first == CHOOSE d \in lost : \A x \in lost : d <= x
        update == CASE held -> <<"stopped", "activity">>
                    [] ~held /\ lost # {} ->
                          <<"unavailable", IF first \in unplugged THEN "evidence_lost"
                                           ELSE "event_loss">>
                    [] OTHER -> IF \E d \in Devices : Has(d, "key")
                                THEN <<"stopped", "activity">> ELSE <<"arming", "none">>
    IN /\ broker = "devices"
       /\ status' = IF status.state = "stopped" THEN status ELSE Status(1, update[1], update[2])
       /\ watching' = (status'.state = "arming")
       /\ arm' = IF status'.state = "arming" THEN "waiting" ELSE "off"
       /\ broker' = "poll"
       /\ Drained(Devices)
       /\ spoiled' = (spoiled \/ held)
       /\ UNCHANGED <<facts, enrolled, bus, uevents, unplugged, changes, guardVars, channel,
                      polled, provider>>

\* An event device that is gone cannot be inspected.
InitialDevicesFail ==
    /\ broker = "devices"
    /\ unplugged # {}
    /\ Exit
    /\ UNCHANGED <<world, guardVars, channel, status, provider, spoiled>>

\* ARM_QUIET_INTERVAL has passed.
Deadline == /\ arm = "waiting"
            /\ arm' = "due"
            /\ UNCHANGED <<world, guardVars, channel, broker, status, watching, polled,
                           provider, spoiled>>

\* poll: what is readable at this moment, a hangup included.
Poll ==
    /\ broker = "poll"
    /\ polled' = [eligibility |-> CASE ~watching -> "no"
                                    [] watching /\ closed -> "hup"
                                    [] OTHER -> IF frames # <<>> THEN "in" ELSE "no",
                  in |-> {d \in Devices : watching /\ queue[d] # <<>>},
                  gone |-> IF watching THEN unplugged ELSE {},
                  provider |-> CASE link = "backlog" -> "listener"
                                 [] link = "hung" -> "hup"
                                 [] OTHER -> IF request # "none" THEN "in" ELSE "no"]
    /\ polled' # Nothing \/ arm = "due"
    /\ broker' = "evidence"
    /\ UNCHANGED <<world, guardVars, channel, status, watching, arm, provider, spoiled>>

\* classify_eligibility_transition: a second "eligible" proves nothing.
EligibilityUpdate ==
    CASE polled.eligibility = "hup" -> <<"unavailable", "evidence_lost">>
      [] polled.eligibility = "in" ->
            IF Head(frames) = "ineligible" THEN <<"stopped", "eligibility_changed">>
            ELSE <<"unavailable", "evidence_lost">>
      [] OTHER -> <<>>

\* Mutant: SYN_DROPPED is passed over like every other report.
DeviceUpdate_undropped(d) ==
    CASE d \in polled.gone -> <<"unavailable", "evidence_lost">>
      [] d \in polled.in \ polled.gone /\ Has(d, "key") -> <<"stopped", "activity">>
      [] OTHER -> <<>>

\* classify_input_event for the events of one device, the first one that means anything.
DeviceUpdate(d) ==
    LET telling == {k \in DOMAIN queue[d] : queue[d][k] # "report"}
        first == CHOOSE k \in telling : \A j \in telling : k <= j
    IN CASE d \in polled.gone -> <<"unavailable", "evidence_lost">>
         [] d \in polled.in \ polled.gone /\ telling # {} ->
               IF queue[d][first] = "dropped" THEN <<"unavailable", "event_loss">>
               ELSE <<"stopped", "activity">>
         [] OTHER -> <<>>

\* What this turn of the loop found: the guard's channel, 0, comes before the devices.
Update(i) == IF i = 0 THEN EligibilityUpdate ELSE DeviceUpdate(i)
Updates == {i \in 0 .. N : Update(i) # <<>>}

terminal(u) == Status(status.epoch + 1, u[1], u[2])

Stop == \E i \in Updates : /\ \A j \in Updates : i <= j
                           /\ status' = terminal(Update(i))
                           /\ watching' = FALSE /\ arm' = "off"

GoOn == /\ status' = IF arm = "due" THEN [status EXCEPT !.state = "ready"] ELSE status
        /\ arm' = IF arm = "due" THEN "off" ELSE arm
        /\ UNCHANGED watching

\* Mutant: a waiting provider is served first.
Evidence_later ==
    /\ broker = "evidence"
    /\ IF Updates # {} /\ polled.provider # "in" THEN Stop ELSE GoOn
    /\ broker' = "serve"
    /\ UNCHANGED <<world, guardVars, channel, polled, provider, spoiled>>

\* The evidence of this turn is taken up: it ends the instance, or the quiet interval.
Evidence ==
    /\ broker = "evidence"
    /\ IF Updates # {} THEN Stop ELSE GoOn
    /\ frames' = IF polled.eligibility = "in" THEN Tail(frames) ELSE frames
    /\ Drained(IF Updates # {} THEN Devices ELSE polled.in)
    /\ broker' = "serve"
    /\ UNCHANGED <<facts, enrolled, bus, uevents, unplugged, changes, guardVars, closed,
                   polled, provider, spoiled>>

\* The rest of the turn: accept one provider, notice that it left, or answer it.
Serve ==
    /\ broker = "serve"
    /\ broker' = "poll"
    /\ polled' = Nothing
    /\ CASE polled.provider = "listener" /\ link = "backlog" ->
               \/ link' = "accepted" /\ UNCHANGED <<request, answer>>
               \/ link' = "none" /\ request' = "none" /\ UNCHANGED answer
         [] polled.provider = "hup" -> link' = "none" /\ UNCHANGED <<request, answer>>
         [] polled.provider = "in" /\ link = "accepted" ->
               /\ answer' = <<[status |-> status, asked |-> request]>>
               /\ request' = "none"
               /\ UNCHANGED link
         [] OTHER -> UNCHANGED <<link, request, answer>>
    /\ UNCHANGED <<world, guardVars, channel, status, watching, arm, spoiled>>

\* poll is interrupted or the listener is lost: run returns the error.
BrokerFails == /\ broker = "poll"
               /\ Exit
               /\ UNCHANGED <<world, guardVars, channel, status, provider, spoiled>>

Broker == ReadEligibility \/ (\E held \in BOOLEAN : InitialDevices(held)) \/ Poll \/ Evidence
          \/ Serve

-----------------------------------------------------------------------------
(* BrokerConnection, in the provider *)

Connect == /\ link = "none" /\ broker # "exited"
           /\ link' = "backlog"
           /\ UNCHANGED <<world, guardVars, channel, brokerVars, request, answer, spoiled>>

\* status: the request is written.  "late" when there was already evidence.
Ask == /\ link \in {"backlog", "accepted"}
       /\ request = "none" /\ answer = <<>>
       /\ request' = IF spoiled THEN "late" ELSE "early"
       /\ UNCHANGED <<world, guardVars, channel, brokerVars, link, answer, spoiled>>

\* status: the response is read.
Observe == /\ answer # <<>> /\ link = "accepted"
           /\ answer' = <<>>
           /\ UNCHANGED <<world, guardVars, channel, brokerVars, link, request, spoiled>>

\* The timeout of the stream: the connection is dropped, as query does.
GiveUp == /\ link \in {"backlog", "accepted"}
          /\ link' = "hung" /\ request' = "none" /\ answer' = <<>>
          /\ UNCHANGED <<world, guardVars, channel, brokerVars, spoiled>>

-----------------------------------------------------------------------------
World == SessionChanges \/ LogindLeaves \/ InputClassChanges
         \/ (\E d \in Devices : DeviceEvent(d) \/ Unplug(d))

Next == \/ World \/ Guard \/ GuardFails \/ Broker \/ InitialDevicesFail \/ BrokerFails
        \/ Deadline \/ Connect \/ Ask \/ Observe \/ GiveUp

\* Both processes are scheduled, and time passes.  Nothing is assumed of the world or of
\* the provider.
Spec == Init /\ [][Next]_vars /\ WF_vars(Guard) /\ WF_vars(Broker) /\ WF_vars(Deadline)

-----------------------------------------------------------------------------
\* A ready answer is worth something: when its request was written, no key, no dropped
\* event, no lost device and no word of the guard was waiting to be read.  It is why two
\* such answers of one instance and epoch "prove an unchanged gate" (is_same_ready): the
\* loop polls everything together, takes up the evidence, and only then answers.
ReadyIsFresh ==
    \A k \in DOMAIN answer : answer[k].status.state = "ready" => answer[k].asked = "early"

\* While the guard stands behind its "eligible" frame, the session and the input class are
\* as they must be, or a notice of the change is waiting for it: the subscriptions are
\* made before anything is read, so that no change falls between reading and watching.
NoChangeIsMissed == guard = "watch" => Whole \/ bus # "none" \/ uevents

\* Evidence does not stay unread: once there is any, the broker ends up stopped,
\* unavailable or gone, also when it arrives while another descriptor is being served.
EvidenceStops == spoiled ~> status.state \in Terminal \/ broker = "exited"
=============================================================================
