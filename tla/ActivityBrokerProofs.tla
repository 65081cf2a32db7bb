------------------------ MODULE ActivityBrokerProofs ------------------------
(***************************************************************************)
(* The activity gate, for any facts, devices and numbers of events and     *)
(* changes: what the guard vouches for, and what a ready answer is worth.  *)
(***************************************************************************)
EXTENDS ActivityBroker, TLAPS

\* The prover of the leaves that name none, and how long it may take.
USE ZenonT(60)

Latches == {"none", "changed", "lost"}
States == {"arming", "ready", "stopped", "unavailable"}
Starting == {"monitor", "scan", "subscribe", "read"}
Statuses == [epoch : Nat, state : States,
             reason : {"none", "activity", "eligibility_changed", "event_loss", "evidence_lost",
                       "internal"}]

\* The guard has not missed a change of what it has read so far.
GuardInv ==
    /\ facts \subseteq Facts /\ seen \subseteq Facts
    /\ bus \in Latches /\ stop \in Latches /\ uevents \in BOOLEAN
    /\ enrolled \in BOOLEAN /\ matches \in BOOLEAN
    /\ guard \in Starting \cup {"watch", "leaving", "gone"}
    /\ guard \in Starting \cup {"watch"} => stop = "none"
    /\ guard \in {"monitor", "scan", "subscribe"} => seen = {}
    /\ guard \in {"subscribe", "read"} /\ matches => enrolled \/ uevents
    /\ guard = "read" /\ matches => seen \subseteq facts \/ bus # "none"
    /\ NoChangeIsMissed

\* Evidence against being ready that has not been read yet.
Telling(d) == \E k \in DOMAIN queue[d] : queue[d][k] # "report"
Visible == \/ \E k \in DOMAIN frames : frames[k] = "ineligible"
           \/ closed
           \/ unplugged # {}
           \/ \E d \in Devices : Telling(d)

\* The poll of this turn has reported some of it.
Caught == \/ polled.eligibility # "no"
          \/ polled.gone # {}
          \/ \E d \in polled.in : Telling(d)

BrokerType ==
    /\ queue \in [Devices -> Seq(Events)] /\ unplugged \subseteq Devices
    /\ frames \in Seq({"eligible", "ineligible"}) /\ closed \in BOOLEAN
    /\ broker \in {"eligibility", "devices", "poll", "evidence", "serve", "exited"}
    /\ status \in Statuses
    /\ watching \in BOOLEAN /\ spoiled \in BOOLEAN
    /\ arm \in {"off", "waiting", "due"}
    /\ polled \in [eligibility : {"no", "in", "hup"}, in : SUBSET Devices,
                   gone : SUBSET Devices, provider : {"no", "in", "hup", "listener"}]
    /\ link \in {"none", "backlog", "accepted", "hung"}
    /\ request \in {"none", "early", "late"}

\* The broker is ready only while it watches, and evidence it has not read is visible.
WatchInv ==
    /\ guard \in Starting => frames = <<>>
    /\ broker \in {"eligibility", "devices"} =>
          /\ ~watching /\ arm = "off" /\ status.state \in {"arming", "stopped"}
          /\ spoiled => Visible \/ status.state = "stopped"
    /\ watching /\ spoiled => Visible
    /\ status.state = "ready" => watching \/ broker = "exited"
    /\ arm # "off" => watching /\ status.state = "arming"

\* The request the broker answers in this turn is the one it has polled.
TurnInv ==
    /\ request = "late" => spoiled
    /\ link \in {"none", "hung"} => request = "none"
    /\ broker \in {"evidence", "serve"} /\ polled.provider = "in" =>
          /\ link \in {"accepted", "hung"}
          /\ link = "accepted" => request # "none"
    /\ broker \in {"evidence", "serve"} /\ polled.provider = "hup" => link = "hung"
    /\ broker = "evidence" /\ polled.provider = "in" /\ request = "late" /\ watching => Caught
    /\ broker = "serve" /\ polled.provider = "in" /\ request = "late" => status.state # "ready"

IInv == BrokerType /\ WatchInv /\ TurnInv /\ ReadyIsFresh

-----------------------------------------------------------------------------
\* The latch of the guard keeps the worst of what it was told.
LEMMA LaterFacts ==
    ASSUME NEW a \in Latches, NEW b \in Latches
    PROVE  /\ Later(a, b) \in Latches
           /\ Later(a, b) = "none" <=> a = "none" /\ b = "none"
  BY SMTT(60) DEF Later, Rank, Latches

\* Drain empties both subscriptions, and latches whatever there was.
LEMMA DrainFacts ==
    ASSUME GuardInv, Drain
    PROVE  /\ stop' \in Latches /\ bus' = "none" /\ uevents' = FALSE
           /\ UNCHANGED <<facts, enrolled>>
           /\ stop' = "none" <=> stop = "none" /\ bus = "none" /\ ~uevents
  <1> DEFINE b == IF uevents THEN "changed" ELSE "none"
  <1>1. b \in Latches /\ (b = "none" <=> ~uevents)  BY DEF Latches
  <1>2. stop \in Latches /\ bus \in Latches  BY DEF GuardInv
  <1> HIDE DEF b
  <1>3. Later(bus, b) \in Latches /\ (Later(bus, b) = "none" <=> bus = "none" /\ b = "none")
    BY <1>1, <1>2, LaterFacts
  <1>4. stop' = Later(stop, Later(bus, b))  BY DEF Drain, b
  <1>5. /\ stop' \in Latches
        /\ stop' = "none" <=> stop = "none" /\ Later(bus, b) = "none"
    BY <1>2, <1>3, <1>4, LaterFacts
  <1> QED  BY <1>1, <1>3, <1>5 DEF Drain

\* The guard starts with nothing read.
LEMMA GuardInit == Init => GuardInv
  BY DEF Init, GuardInv, NoChangeIsMissed, Latches, Starting

\* Every step of the world and of the guard keeps a change it has read over in sight.
LEMMA GuardStep ==
    ASSUME GuardInv, [Next]_vars
    PROVE  GuardInv'
  <1> USE DEF Starting, Latches
  <1>1. CASE UNCHANGED <<facts, enrolled, bus, uevents, guard, matches, seen, stop>>
    BY <1>1 DEF GuardInv, NoChangeIsMissed, Whole
  <1>2. CASE SessionChanges
    <2>1. /\ UNCHANGED <<enrolled, uevents, guard, matches, seen, stop>>
          /\ facts' \subseteq Facts
          /\ bus' \in Latches /\ (Subscribed => bus' # "none")
      BY <1>2, LaterFacts DEF SessionChanges, guardVars, GuardInv
    <2> QED  BY <2>1 DEF GuardInv, NoChangeIsMissed, Subscribed
  <1>3. CASE LogindLeaves
    <2>1. UNCHANGED <<facts, enrolled, uevents, guard, matches, seen, stop>> /\ bus' = "lost"
      BY <1>3 DEF LogindLeaves, guardVars
    <2> QED  BY <2>1 DEF GuardInv, NoChangeIsMissed
  <1>4. CASE InputClassChanges
    <2>1. /\ UNCHANGED <<facts, bus, guard, matches, seen, stop>>
          /\ enrolled' \in BOOLEAN /\ uevents' \in BOOLEAN /\ (guard # "monitor" => uevents')
      BY <1>4 DEF InputClassChanges, guardVars
    <2> QED  BY <2>1 DEF GuardInv, NoChangeIsMissed
  <1>5. CASE Monitor
    BY <1>5 DEF Monitor, world, GuardInv, NoChangeIsMissed
  <1>6. CASE Scan
    BY <1>6 DEF Scan, world, GuardInv, NoChangeIsMissed
  <1>7. CASE Subscribe
    BY <1>7 DEF Subscribe, world, GuardInv, NoChangeIsMissed
  <1>8. ASSUME NEW f \in Facts, ReadFact(f) PROVE GuardInv'
    BY <1>8 DEF ReadFact, world, GuardInv, NoChangeIsMissed
  <1>9. CASE Decide
    <2>1. /\ stop' \in Latches /\ bus' = "none" /\ uevents' = FALSE
          /\ UNCHANGED <<facts, enrolled>>
          /\ stop' = "none" <=> stop = "none" /\ bus = "none" /\ ~uevents
      BY <1>9, DrainFacts DEF Decide
    <2>2. matches' = FALSE /\ seen' = {} /\ guard = "read" /\ seen = Facts
      BY <1>9 DEF Decide
    <2>3. CASE matches /\ stop' = "none" /\ guard' = "watch"
      <3>1. Whole'  BY <2>1, <2>2, <2>3 DEF GuardInv, Whole
      <3> QED  BY <2>1, <2>2, <2>3, <3>1 DEF GuardInv, NoChangeIsMissed
    <2>4. CASE guard' = "leaving"
      BY <2>1, <2>2, <2>4 DEF GuardInv, NoChangeIsMissed
    <2> QED  BY <1>9, <2>3, <2>4 DEF Decide
  <1>10. CASE Watch
    <2>1. /\ stop' \in Latches /\ bus' = "none" /\ uevents' = FALSE
          /\ UNCHANGED <<facts, enrolled, matches, seen>> /\ guard' = "leaving"
      BY <1>10, DrainFacts DEF Watch
    <2> QED  BY <2>1 DEF GuardInv, NoChangeIsMissed
  <1>11. CASE Leave \/ GuardFails
    BY <1>11 DEF Leave, GuardFails, world, GuardInv, NoChangeIsMissed
  <1>12. CASE \E d \in Devices : DeviceEvent(d) \/ Unplug(d)
    BY <1>12, <1>1 DEF DeviceEvent, Unplug, guardVars
  <1>13. CASE Broker \/ InitialDevicesFail \/ BrokerFails \/ Deadline
    BY <1>13, <1>1
       DEF Broker, ReadEligibility, InitialDevices, Poll, Evidence, Serve,
           InitialDevicesFail, BrokerFails, Deadline, world, guardVars
  <1>14. CASE Connect \/ Ask \/ Observe \/ GiveUp
    BY <1>14, <1>1 DEF Connect, Ask, Observe, GiveUp, world, guardVars
  <1>15. CASE UNCHANGED vars
    BY <1>15, <1>1 DEF vars, world, guardVars
  <1> QED
    BY <1>2, <1>3, <1>4, <1>5, <1>6, <1>7, <1>8, <1>9, <1>10, <1>11, <1>12, <1>13, <1>14,
       <1>15
       DEF Next, World, Guard

\* While the guard stands behind its word, no change of the session or of the input
\* class has escaped it: it subscribes before it reads, and drains before it vouches.
THEOREM GuardMissesNothing == Spec => []NoChangeIsMissed
  <1>1. Spec => []GuardInv  BY GuardInit, GuardStep, PTL DEF Spec
  <1>2. GuardInv => NoChangeIsMissed  BY DEF GuardInv
  <1> QED  BY <1>1, <1>2, PTL

-----------------------------------------------------------------------------
\* The guard goes on, and nothing the broker can see has changed.
LEMMA GuardOnly ==
    ASSUME IInv, guard' \in Starting => guard \in Starting,
           UNCHANGED <<queue, unplugged, channel, brokerVars, provider, spoiled>>
    PROVE  IInv'
  <1>1. UNCHANGED <<queue, unplugged, frames, closed, broker, status, watching, arm, polled,
                    link, request, answer, spoiled>>
    BY DEF channel, brokerVars, provider
  <1>2. BrokerType'  BY SMTT(60), <1>1 DEF IInv, BrokerType
  <1>3. WatchInv'  BY SMTT(60), <1>1 DEF IInv, WatchInv, Visible, Telling
  <1>4. TurnInv'  BY SMTT(60), <1>1 DEF IInv, TurnInv, Caught, Telling
  <1> QED  BY <1>1, <1>2, <1>3, <1>4 DEF IInv, ReadyIsFresh

\* The guard writes, or leaves: a word of it, or its end, is visible at once.
LEMMA GuardSpeaks ==
    ASSUME IInv, guard' \notin Starting, closed' \in BOOLEAN, closed => closed',
           frames' \in Seq({"eligible", "ineligible"}),
           \A k \in DOMAIN frames : k \in DOMAIN frames' /\ frames'[k] = frames[k],
           spoiled' \in BOOLEAN, spoiled => spoiled',
           spoiled' = spoiled \/ closed' \/ (\E k \in DOMAIN frames' : frames'[k] = "ineligible"),
           UNCHANGED <<queue, unplugged, brokerVars, provider>>
    PROVE  IInv'
  <1>1. UNCHANGED <<queue, unplugged, broker, status, watching, arm, polled,
                    link, request, answer>>
    BY DEF brokerVars, provider
  <1>2. BrokerType'  BY SMTT(60), <1>1 DEF IInv, BrokerType
  <1>3. Visible => Visible'  BY <1>1 DEF Visible, Telling
  <1>4. spoiled' => spoiled \/ Visible'  BY DEF Visible
  <1>5. WatchInv'  BY <1>1, <1>3, <1>4 DEF IInv, WatchInv
  <1>6. TurnInv'  BY <1>1 DEF IInv, TurnInv, Caught, Telling
  <1> QED  BY <1>1, <1>2, <1>5, <1>6 DEF IInv, ReadyIsFresh

\* A device reports something, or goes: it is visible at once.
LEMMA DeviceSpeaks ==
    ASSUME IInv, queue' \in [Devices -> Seq(Events)], unplugged' \subseteq Devices,
           unplugged \subseteq unplugged',
           \A d \in Devices : \A k \in DOMAIN queue[d] :
               k \in DOMAIN queue'[d] /\ queue'[d][k] = queue[d][k],
           spoiled' \in BOOLEAN, spoiled => spoiled',
           spoiled' => spoiled \/ Visible',
           UNCHANGED <<guardVars, channel, brokerVars, provider>>
    PROVE  IInv'
  <1>1. UNCHANGED <<guard, frames, closed, broker, status, watching, arm, polled,
                    link, request, answer>>
    BY DEF guardVars, channel, brokerVars, provider
  <1>2. BrokerType'  BY SMTT(60), <1>1 DEF IInv, BrokerType
  <1>3. \A d \in Devices : Telling(d) => Telling(d)'  BY DEF Telling
  <1>4. Visible => Visible'  BY <1>1, <1>3 DEF Visible
  <1>5. WatchInv'  BY <1>1, <1>4 DEF IInv, WatchInv
  <1>6. Caught => Caught'  BY <1>1, <1>3 DEF Caught, IInv, BrokerType
  <1>7. TurnInv'  BY <1>1, <1>6 DEF IInv, TurnInv
  <1> QED  BY <1>1, <1>2, <1>5, <1>7 DEF IInv, ReadyIsFresh

\* Every step of the world and of the guard keeps the broker's invariant.
LEMMA OutsideIInv ==
    ASSUME IInv, World \/ Guard \/ GuardFails
    PROVE  IInv'
  <1>1. CASE SessionChanges \/ LogindLeaves \/ InputClassChanges
    BY <1>1, GuardOnly DEF SessionChanges, LogindLeaves, InputClassChanges, guardVars
  <1>2. CASE Monitor \/ Scan \/ Subscribe \/ GuardFails
    BY <1>2, GuardOnly DEF Monitor, Scan, Subscribe, GuardFails, world, Starting
  <1>3. ASSUME NEW f \in Facts, ReadFact(f) PROVE IInv'
    BY <1>3, GuardOnly DEF ReadFact, world
  <1>4. CASE Decide
    <2>1. frames = <<>>  BY <1>4 DEF IInv, WatchInv, Decide, Starting
    <2>2. /\ frames' \in Seq({"eligible", "ineligible"})
          /\ \A k \in DOMAIN frames : k \in DOMAIN frames' /\ frames'[k] = frames[k]
      <3>1. frames' = <<"eligible">> \/ frames' = <<"ineligible">>  BY <1>4 DEF Decide
      <3>2. \A x \in {"eligible", "ineligible"} : <<x>> \in Seq({"eligible", "ineligible"})
        BY SMTT(60)
      <3>3. DOMAIN frames = {}  BY SMTT(60), <2>1
      <3> QED  BY <3>1, <3>2, <3>3
    <2>3. \/ spoiled' = spoiled
          \/ spoiled' = TRUE /\ (\E k \in DOMAIN frames' : frames'[k] = "ineligible")
      <3>1. CASE UNCHANGED spoiled  BY <3>1
      <3>2. CASE frames' = <<"ineligible">> /\ spoiled' = TRUE
        <4>1. 1 \in DOMAIN frames' /\ frames'[1] = "ineligible"  BY SMTT(60), <3>2
        <4> QED  BY <3>2, <4>1
      <3> QED  BY <1>4, <3>1, <3>2 DEF Decide
    <2>4. guard' \notin Starting /\ UNCHANGED <<queue, unplugged, closed, brokerVars, provider>>
      BY <1>4 DEF Decide, Drain, Starting
    <2>5. closed \in BOOLEAN /\ spoiled \in BOOLEAN  BY DEF IInv, BrokerType
    <2> QED  BY <2>2, <2>3, <2>4, <2>5, GuardSpeaks
  <1>5. CASE Watch
    <2>1. frames \in Seq({"eligible", "ineligible"}) /\ closed \in BOOLEAN /\ spoiled \in BOOLEAN
      BY DEF IInv, BrokerType
    <2>2. guard' \notin Starting /\ UNCHANGED <<queue, unplugged, closed, brokerVars, provider>>
      BY <1>5 DEF Watch, Drain, Starting
    <2>3. CASE UNCHANGED <<frames, spoiled>>  BY <2>1, <2>2, <2>3, GuardSpeaks
    <2>4. CASE frames' = Append(frames, "ineligible") /\ spoiled' = TRUE
      <3>1. /\ frames' \in Seq({"eligible", "ineligible"})
            /\ \A k \in DOMAIN frames : k \in DOMAIN frames' /\ frames'[k] = frames[k]
            /\ Len(frames) + 1 \in DOMAIN frames' /\ frames'[Len(frames) + 1] = "ineligible"
        BY SMTT(60), <2>1, <2>4
      <3> QED  BY <2>1, <2>2, <2>4, <3>1, GuardSpeaks
    <2> QED  BY <1>5, <2>3, <2>4 DEF Watch
  <1>6. CASE Leave
    <2>1. frames \in Seq({"eligible", "ineligible"}) /\ closed \in BOOLEAN /\ spoiled \in BOOLEAN
      BY DEF IInv, BrokerType
    <2>2. /\ guard' \notin Starting /\ closed' = TRUE /\ spoiled' = TRUE
          /\ UNCHANGED <<queue, unplugged, frames, brokerVars, provider>>
      BY <1>6 DEF Leave, world, Starting
    <2> QED  BY <2>1, <2>2, GuardSpeaks
  <1>7. ASSUME NEW d \in Devices, DeviceEvent(d) PROVE IInv'
    <2>1. PICK e \in Events : /\ queue' = [queue EXCEPT ![d] = Append(@, e)]
                              /\ spoiled' = (spoiled \/ e # "report")
      BY <1>7 DEF DeviceEvent
    <2>2. queue \in [Devices -> Seq(Events)] /\ spoiled \in BOOLEAN /\ unplugged \subseteq Devices
      BY DEF IInv, BrokerType
    <2>3. /\ queue'[d] = Append(queue[d], e) /\ queue[d] \in Seq(Events)
          /\ \A x \in Devices : x # d => queue'[x] = queue[x]
          /\ queue' \in [Devices -> Seq(Events)]
      BY SMTT(60), <2>1, <2>2
    <2>4. \A x \in Devices : \A k \in DOMAIN queue[x] :
             k \in DOMAIN queue'[x] /\ queue'[x][k] = queue[x][k]
      <3>1. \A k \in DOMAIN queue[d] : k \in DOMAIN queue'[d] /\ queue'[d][k] = queue[d][k]
        BY SMTT(60), <2>3
      <3> QED  BY <2>3, <3>1
    <2>5. e # "report" => Visible'
      <3>1. Len(queue[d]) + 1 \in DOMAIN queue'[d] /\ queue'[d][Len(queue[d]) + 1] = e
        BY SMTT(60), <2>3
      <3> QED  BY <3>1 DEF Visible, Telling
    <2>6. UNCHANGED <<unplugged, guardVars, channel, brokerVars, provider>>
      BY <1>7 DEF DeviceEvent
    <2>7. spoiled' \in BOOLEAN /\ (spoiled => spoiled') /\ (spoiled' => spoiled \/ e # "report")
      <3>1. CASE e = "report"
        <4>1. spoiled' = spoiled  BY <2>1, <2>2, <3>1
        <4> QED  BY <2>2, <4>1
      <3>2. CASE e # "report"
        <4>1. spoiled' = TRUE  BY <2>1, <2>2, <3>2
        <4> QED  BY <3>2, <4>1
      <3> QED  BY <3>1, <3>2
    <2> QED  BY <2>2, <2>3, <2>4, <2>5, <2>6, <2>7, DeviceSpeaks
  <1>8. ASSUME NEW d \in Devices, Unplug(d) PROVE IInv'
    <2>1. queue \in [Devices -> Seq(Events)] /\ unplugged \subseteq Devices
      BY DEF IInv, BrokerType
    <2>2. /\ unplugged' = unplugged \cup {d} /\ spoiled' = TRUE
          /\ UNCHANGED <<queue, guardVars, channel, brokerVars, provider>>
      BY <1>8 DEF Unplug
    <2>3. Visible'  BY <2>2 DEF Visible
    <2> QED  BY <2>1, <2>2, <2>3, DeviceSpeaks
  <1> QED  BY <1>1, <1>2, <1>3, <1>4, <1>5, <1>6, <1>7, <1>8 DEF World, Guard

\* The broker ends: it answers nothing any more.
LEMMA ExitIInv ==
    ASSUME IInv, Exit, UNCHANGED <<world, guardVars, channel, status, provider, spoiled>>
    PROVE  IInv'
  <1>1. /\ UNCHANGED <<queue, unplugged, guard, frames, closed, status, link, request, answer,
                       spoiled>>
        /\ broker' = "exited" /\ watching' = FALSE /\ arm' = "off" /\ polled' = Nothing
    BY DEF Exit, world, guardVars, channel, provider
  <1>2. BrokerType'  BY <1>1 DEF IInv, BrokerType, Nothing
  <1>3. WatchInv'  BY <1>1 DEF IInv, WatchInv
  <1>4. TurnInv'  BY SMTT(60), <1>1 DEF IInv, TurnInv
  <1> QED  BY <1>1, <1>2, <1>3, <1>4 DEF IInv, ReadyIsFresh

\* read_initial_eligibility.
LEMMA ReadEligibilityIInv ==
    ASSUME IInv, ReadEligibility
    PROVE  IInv'
  <1>1. CASE frames = <<>> /\ Exit /\ UNCHANGED <<frames, status>>
    BY <1>1, ExitIInv DEF ReadEligibility, channel
  <1>2. CASE /\ frames # <<>> /\ frames' = Tail(frames) /\ broker' = "devices"
             /\ status' = IF Head(frames) = "eligible" THEN status
                          ELSE Status(1, "stopped", "eligibility_changed")
             /\ UNCHANGED <<watching, arm, polled>>
    <2>1. /\ UNCHANGED <<queue, unplugged, guard, closed, link, request, answer, spoiled,
                         watching, arm, polled>>
          /\ broker = "eligibility"
      BY <1>2 DEF ReadEligibility, world, guardVars, provider
    <2>t. BrokerType /\ frames \in Seq({"eligible", "ineligible"})  BY DEF IInv, BrokerType
    <2>2. /\ frames' \in Seq({"eligible", "ineligible"})
          /\ \A k \in DOMAIN frames : k # 1 => k - 1 \in DOMAIN frames' /\ frames'[k - 1] = frames[k]
          /\ Head(frames) = frames[1]
      BY SMTT(60), <1>2, <2>t
    <2>3. BrokerType'  BY <1>2, <2>t, <2>1, <2>2 DEF BrokerType, Statuses, Status, States
    <2>4. CASE Head(frames) = "eligible" /\ status' = status
      <3>1. Visible => Visible'  BY <2>1, <2>2, <2>4 DEF Visible, Telling
      <3>2. guard \notin Starting  BY <1>2 DEF IInv, WatchInv
      <3>3. WatchInv'  BY SMTT(60), <1>2, <2>1, <2>4, <3>1, <3>2 DEF IInv, WatchInv
      <3>4. TurnInv'  BY <1>2, <2>1 DEF IInv, TurnInv
      <3> QED  BY <2>1, <2>3, <3>3, <3>4 DEF IInv, ReadyIsFresh
    <2>5. CASE status' = Status(1, "stopped", "eligibility_changed")
      <3>1. status'.state = "stopped"  BY <2>5 DEF Status
      <3>2. guard \notin Starting  BY <1>2 DEF IInv, WatchInv
      <3>3. WatchInv'  BY SMTT(60), <1>2, <2>1, <3>1, <3>2 DEF IInv, WatchInv
      <3>4. TurnInv'  BY <1>2, <2>1 DEF IInv, TurnInv
      <3> QED  BY <2>1, <2>3, <3>3, <3>4 DEF IInv, ReadyIsFresh
    <2> QED  BY <1>2, <2>4, <2>5
  <1> QED  BY <1>1, <1>2 DEF ReadEligibility

\* initial_device_update: an instance that goes on arming has found nothing.
LEMMA InitialDevicesIInv ==
    ASSUME IInv, NEW held \in BOOLEAN, InitialDevices(held)
    PROVE  IInv'
  <1>t. BrokerType /\ queue \in [Devices -> Seq(Events)]  BY DEF IInv, BrokerType
  <1>1. /\ UNCHANGED <<unplugged, guard, frames, closed, polled, link, request, answer>>
        /\ broker = "devices" /\ broker' = "poll"
        /\ watching' = (status'.state = "arming")
        /\ arm' = IF status'.state = "arming" THEN "waiting" ELSE "off"
        /\ queue' = [d \in Devices |-> <<>>]
        /\ spoiled' = (spoiled \/ held)
    BY DEF InitialDevices, Drained, guardVars, channel, provider
  <1>2. /\ status' \in Statuses /\ status'.state # "ready"
        /\ status'.state = "arming" =>
              /\ status.state # "stopped" /\ ~held
              /\ \A d \in Devices : d \notin unplugged /\ ~Has(d, "dropped") /\ ~Has(d, "key")
    <2> DEFINE lost == {d \in Devices : d \in unplugged \/ Has(d, "dropped")}
               first == CHOOSE d \in lost : \A x \in lost : d <= x
               why == IF first \in unplugged THEN "evidence_lost" ELSE "event_loss"
    <2>1. CASE status.state = "stopped"
      <3>1. status' = status  BY <2>1 DEF InitialDevices
      <3> QED  BY <2>1, <3>1, <1>t DEF BrokerType
    <2>2. CASE status.state # "stopped" /\ held
      <3>1. status' = Status(1, "stopped", "activity")  BY <2>2 DEF InitialDevices
      <3> QED  BY <3>1 DEF Status, Statuses, States
    <2>3. CASE status.state # "stopped" /\ ~held /\ lost # {}
      <3>1. status' = Status(1, "unavailable", why)  BY <2>3 DEF InitialDevices
      <3>2. why \in {"evidence_lost", "event_loss"}  OBVIOUS
      <3> HIDE DEF why
      <3> QED  BY <3>1, <3>2 DEF Status, Statuses, States
    <2>4. CASE status.state # "stopped" /\ ~held /\ lost = {}
      <3>1. \A d \in Devices : d \notin unplugged /\ ~Has(d, "dropped")  BY <2>4
      <3>2. CASE \E d \in Devices : Has(d, "key")
        <4>1. status' = Status(1, "stopped", "activity")  BY <2>4, <3>2 DEF InitialDevices
        <4> QED  BY <4>1 DEF Status, Statuses, States
      <3>3. CASE ~\E d \in Devices : Has(d, "key")
        <4>1. status' = Status(1, "arming", "none")  BY <2>4, <3>3 DEF InitialDevices
        <4> QED  BY <4>1, <3>1, <3>3, <2>4 DEF Status, Statuses, States
      <3> QED  BY <3>2, <3>3
    <2> QED  BY <2>1, <2>2, <2>3, <2>4
  <1>3. BrokerType'
    <2>1. spoiled' \in BOOLEAN /\ watching' \in BOOLEAN  BY <1>1, <1>t DEF BrokerType
    <2>2. queue' \in [Devices -> Seq(Events)]  BY SMTT(60), <1>1
    <2> QED  BY <1>t, <1>1, <1>2, <2>1, <2>2 DEF BrokerType
  <1>4. watching' /\ spoiled' => Visible'
    <2> SUFFICES ASSUME status'.state = "arming", spoiled' PROVE Visible'  BY <1>1
    <2>1. spoiled /\ status.state # "stopped" /\ unplugged = {}
      BY <1>1, <1>2, <1>t DEF BrokerType
    <2>2. Visible  BY <1>1, <2>1 DEF IInv, WatchInv
    <2>3. \A d \in Devices : ~Telling(d)
      BY SMTT(60), <1>2, <1>t DEF Telling, Has, Events
    <2> QED  BY <1>1, <2>1, <2>2, <2>3 DEF Visible
  <1>5. WatchInv'  BY <1>1, <1>2, <1>4 DEF IInv, WatchInv
  <1>6. TurnInv'  BY <1>1, <1>t DEF IInv, TurnInv, BrokerType
  <1> QED  BY <1>1, <1>3, <1>5, <1>6 DEF IInv, ReadyIsFresh

\* ARM_QUIET_INTERVAL passes.
LEMMA DeadlineIInv ==
    ASSUME IInv, Deadline
    PROVE  IInv'
  <1>1. /\ UNCHANGED <<queue, unplugged, guard, frames, closed, broker, status, watching, polled,
                       link, request, answer, spoiled>>
        /\ arm = "waiting" /\ arm' = "due"
    BY DEF Deadline, world, guardVars, channel, provider
  <1>2. BrokerType'  BY SMTT(60), <1>1 DEF IInv, BrokerType
  <1>3. WatchInv'  BY <1>1 DEF IInv, WatchInv, Visible, Telling
  <1>4. TurnInv'  BY <1>1 DEF IInv, TurnInv, Caught, Telling
  <1> QED  BY <1>1, <1>2, <1>3, <1>4 DEF IInv, ReadyIsFresh

\* poll: what was evidence before the request that it reports, it reports as well.
LEMMA PollIInv ==
    ASSUME IInv, Poll
    PROVE  IInv'
  <1>t. BrokerType /\ queue \in [Devices -> Seq(Events)]  BY DEF IInv, BrokerType
  <1>1. /\ UNCHANGED <<queue, unplugged, guard, frames, closed, status, watching, arm,
                       link, request, answer, spoiled>>
        /\ broker = "poll" /\ broker' = "evidence"
    BY DEF Poll, world, guardVars, channel, provider
  <1>2. /\ polled'.eligibility \in {"no", "in", "hup"}
        /\ watching /\ (closed \/ frames # <<>>) => polled'.eligibility # "no"
        /\ polled'.in = {d \in Devices : watching /\ queue[d] # <<>>}
        /\ polled'.gone = IF watching THEN unplugged ELSE {}
        /\ polled'.provider \in {"no", "in", "hup", "listener"}
        /\ polled'.provider = "in" => link \notin {"backlog", "hung"} /\ request # "none"
        /\ polled'.provider = "hup" => link = "hung"
        /\ polled' = [eligibility |-> polled'.eligibility, in |-> polled'.in,
                      gone |-> polled'.gone, provider |-> polled'.provider]
    BY DEF Poll
  <1>3. BrokerType'
    <2>1. polled' \in [eligibility : {"no", "in", "hup"}, in : SUBSET Devices,
                       gone : SUBSET Devices, provider : {"no", "in", "hup", "listener"}]
      BY <1>2, <1>t DEF BrokerType
    <2> QED  BY <1>t, <1>1, <2>1 DEF BrokerType
  <1>4. WatchInv'  BY <1>1 DEF IInv, WatchInv, Visible, Telling
  <1>5. watching /\ spoiled => Caught'
    <2> SUFFICES ASSUME watching, spoiled PROVE Caught'  OBVIOUS
    <2>1. Visible  BY DEF IInv, WatchInv
    <2>2. CASE closed \/ \E k \in DOMAIN frames : frames[k] = "ineligible"
      BY SMTT(60), <1>2, <2>2 DEF Caught
    <2>3. CASE unplugged # {}  BY <1>2, <2>3 DEF Caught
    <2>4. ASSUME NEW d \in Devices, Telling(d) PROVE Caught'
      <3>1. queue[d] # <<>>  BY SMTT(60), <2>4 DEF Telling
      <3>2. d \in polled'.in  BY <1>2, <3>1
      <3> QED  BY <1>1, <2>4, <3>2 DEF Caught, Telling
    <2> QED  BY <2>1, <2>2, <2>3, <2>4 DEF Visible
  <1>6. TurnInv'  BY <1>1, <1>2, <1>5, <1>t DEF IInv, TurnInv, BrokerType
  <1> QED  BY <1>1, <1>3, <1>4, <1>6 DEF IInv, ReadyIsFresh

\* What the guard or a device says, if anything, ends the instance.
LEMMA UpdateFacts ==
    ASSUME NEW i \in Updates, BrokerType
    PROVE  /\ Update(i)[1] \in Terminal
           /\ terminal(Update(i)) \in Statuses /\ terminal(Update(i)).state \in Terminal
  <1>1. Update(i) \in {<<"unavailable", "evidence_lost">>, <<"stopped", "eligibility_changed">>,
                       <<"unavailable", "event_loss">>, <<"stopped", "activity">>}
    BY DEF Updates, Update, EligibilityUpdate, DeviceUpdate
  <1>2. status.epoch + 1 \in Nat  BY SMTT(60) DEF BrokerType, Statuses
  <1> QED  BY SMTT(60), <1>1, <1>2 DEF terminal, Status, Statuses, States, Terminal

\* What the poll has caught is found in this turn.
LEMMA CaughtIsFound ==
    ASSUME BrokerType, Caught
    PROVE  Updates # {}
  <1>n. 0 \in 0 .. N /\ Devices \subseteq 0 .. N /\ 0 \notin Devices
    BY SMTT(60), BrokerAssumption DEF Devices
  <1>1. CASE polled.eligibility # "no"
    <2>1. EligibilityUpdate # <<>>  BY <1>1 DEF EligibilityUpdate, BrokerType
    <2> QED  BY <1>n, <2>1 DEF Updates, Update
  <1>2. ASSUME NEW d \in Devices, d \in polled.gone PROVE Updates # {}
    <2>1. DeviceUpdate(d) # <<>>  BY <1>2 DEF DeviceUpdate
    <2> QED  BY <1>n, <2>1 DEF Updates, Update
  <1>3. ASSUME NEW d \in Devices, d \in polled.in, Telling(d) PROVE Updates # {}
    <2>1. DeviceUpdate(d) # <<>>  BY <1>3 DEF DeviceUpdate, Telling
    <2> QED  BY <1>n, <2>1 DEF Updates, Update
  <1> QED  BY <1>1, <1>2, <1>3 DEF Caught, BrokerType

\* What is left unread by a turn that found nothing is still visible.
LEMMA NothingFound ==
    ASSUME BrokerType, Updates = {}
    PROVE  polled.eligibility = "no" /\ polled.gone = {} /\ \A d \in polled.in : ~Telling(d)
  BY CaughtIsFound DEF Caught, BrokerType

\* The evidence of this turn is taken up before anything is answered.
LEMMA EvidenceIInv ==
    ASSUME IInv, Evidence
    PROVE  IInv'
  <1>t. /\ BrokerType /\ queue \in [Devices -> Seq(Events)]
        /\ frames \in Seq({"eligible", "ineligible"})
    BY DEF IInv, BrokerType
  <1>1. /\ UNCHANGED <<unplugged, guard, closed, polled, link, request, answer, spoiled>>
        /\ broker = "evidence" /\ broker' = "serve"
        /\ frames' = IF polled.eligibility = "in" THEN Tail(frames) ELSE frames
        /\ queue' = [d \in Devices |-> IF d \in (IF Updates # {} THEN Devices ELSE polled.in)
                                       THEN <<>> ELSE queue[d]]
    BY DEF Evidence, Drained, guardVars, provider
  <1>2. queue' \in [Devices -> Seq(Events)]  BY SMTT(60), <1>t, <1>1
  <1>f. CASE Updates # {}
    <2>1. Stop  BY <1>f DEF Evidence
    <2>2. status' \in Statuses /\ status'.state \in Terminal /\ watching' = FALSE /\ arm' = "off"
      BY <2>1, <1>t, UpdateFacts DEF Stop
    <2>3. frames' \in Seq({"eligible", "ineligible"}) /\ (frames = <<>> => frames' = <<>>)
      <3>1. CASE polled.eligibility # "in"  BY <1>1, <1>t, <3>1
      <3>2. CASE frames # <<>>  BY SMTT(60), <1>1, <1>t, <3>2
      <3>3. CASE frames = <<>>  BY SMTT(60), <1>1, <1>t, <3>3
      <3> QED  BY <3>1, <3>2, <3>3
    <2>4. BrokerType'  BY <1>t, <1>1, <1>2, <2>2, <2>3 DEF BrokerType
    <2>5. WatchInv'  BY <1>1, <2>2, <2>3 DEF IInv, WatchInv, Terminal
    <2>6. TurnInv'  BY <1>1, <2>2 DEF IInv, TurnInv, Terminal
    <2> QED  BY <1>1, <2>4, <2>5, <2>6 DEF IInv, ReadyIsFresh
  <1>g. CASE Updates = {}
    <2>1. GoOn  BY <1>g DEF Evidence
    <2>2. polled.eligibility = "no" /\ polled.gone = {} /\ \A d \in polled.in : ~Telling(d)
      BY <1>g, <1>t, NothingFound
    <2>3. frames' = frames /\ watching' = watching  BY <1>1, <2>1, <2>2 DEF GoOn
    <2>4. \/ status' = status /\ arm' = arm
          \/ /\ arm = "due" /\ arm' = "off"
             /\ status' \in Statuses /\ status'.state = "ready"
      BY <2>1, <1>t DEF GoOn, BrokerType, Statuses, States
    <2>5. BrokerType'
      <3>1. status' \in Statuses /\ arm' \in {"off", "waiting", "due"}
        BY <1>t, <2>4 DEF BrokerType
      <3> QED  BY <1>t, <1>1, <1>2, <2>3, <3>1 DEF BrokerType
    <2>6. Visible => Visible'
      <3>1. \A d \in Devices : Telling(d) => d \notin polled.in /\ queue'[d] = queue[d]
        BY <1>1, <1>g, <2>2
      <3>2. \A d \in Devices : Telling(d) => Telling(d)'  BY <3>1 DEF Telling
      <3> QED  BY <1>1, <2>3, <3>2 DEF Visible
    <2>7. WatchInv'  BY <1>1, <2>3, <2>4, <2>6 DEF IInv, WatchInv
    <2>8. ~Caught  BY <1>g, <1>t, CaughtIsFound
    <2>9. TurnInv'
      <3>1. polled.provider = "in" /\ request = "late" => ~watching
        BY <1>1, <2>8 DEF IInv, TurnInv
      <3>2. ~watching => status'.state # "ready"
        BY <1>1, <2>4 DEF IInv, WatchInv
      <3> QED  BY <1>1, <3>1, <3>2 DEF IInv, TurnInv
    <2> QED  BY <1>1, <2>5, <2>7, <2>9 DEF IInv, ReadyIsFresh
  <1> QED  BY <1>f, <1>g

\* The provider is accepted, dropped or answered.
LEMMA ServeIInv ==
    ASSUME IInv, Serve
    PROVE  IInv'
  <1>t. BrokerType  BY DEF IInv
  <1>1. /\ UNCHANGED <<queue, unplugged, guard, frames, closed, status, watching, arm, spoiled>>
        /\ broker = "serve" /\ broker' = "poll" /\ polled' = Nothing
    BY DEF Serve, world, guardVars, channel
  <1>2. WatchInv'  BY <1>1 DEF IInv, WatchInv, Visible, Telling
  <1>3. CASE UNCHANGED answer /\ request' \in {request, "none"} /\ link' \in {"accepted", "none", link}
             /\ (link' \in {"none", "hung"} => request' = "none")
    <2>1. BrokerType'  BY <1>1, <1>3, <1>t DEF BrokerType, Nothing
    <2>2. TurnInv'  BY <1>1, <1>3 DEF IInv, TurnInv
    <2> QED  BY <1>2, <1>3, <2>1, <2>2 DEF IInv, ReadyIsFresh
  <1>4. CASE /\ polled.provider = "in" /\ link = "accepted"
             /\ answer' = <<[status |-> status, asked |-> request]>>
             /\ request' = "none" /\ UNCHANGED link
    <2>1. BrokerType'  BY <1>1, <1>4, <1>t DEF BrokerType, Nothing
    <2>2. TurnInv'  BY <1>1, <1>4 DEF IInv, TurnInv
    <2>3. status.state = "ready" => request = "early"
      BY <1>1, <1>4, <1>t DEF IInv, TurnInv, BrokerType
    <2>4. ReadyIsFresh'
      <3>1. DOMAIN answer' = {1} /\ answer'[1] = [status |-> status, asked |-> request]
        BY SMTT(60), <1>4
      <3> QED  BY SMTT(60), <3>1, <2>3 DEF ReadyIsFresh
    <2> QED  BY <1>2, <2>1, <2>2, <2>4 DEF IInv
  <1>5. polled.provider = "hup" => request = "none"  BY <1>1 DEF IInv, TurnInv
  <1> QED  BY <1>3, <1>4, <1>5 DEF Serve, IInv, TurnInv

\* BrokerConnection, in the provider: connect, status and its timeout.
LEMMA ProviderIInv ==
    ASSUME IInv, Connect \/ Ask \/ Observe \/ GiveUp
    PROVE  IInv'
  <1>t. BrokerType  BY DEF IInv
  <1>1. UNCHANGED <<queue, unplugged, guard, frames, closed, broker, status, watching, arm,
                    polled, spoiled>>
    BY DEF Connect, Ask, Observe, GiveUp, world, guardVars, channel, brokerVars
  <1>2. WatchInv'  BY <1>1 DEF IInv, WatchInv, Visible, Telling
  <1>3. Caught' <=> Caught  BY <1>1 DEF Caught, Telling
  <1>4. BrokerType'  BY SMTT(60), <1>1, <1>t DEF BrokerType, Connect, Ask, Observe, GiveUp
  <1>5. ReadyIsFresh'
    <2>1. answer' = answer \/ answer' = <<>>  BY DEF Connect, Ask, Observe, GiveUp
    <2> QED  BY SMTT(60), <2>1 DEF IInv, ReadyIsFresh
  <1>6. TurnInv'
    <2>1. CASE Connect  BY <2>1, <1>1, <1>3 DEF Connect, IInv, TurnInv
    <2>2. CASE Ask
      <3>1. /\ request = "none" /\ UNCHANGED link /\ link \in {"backlog", "accepted"}
            /\ request' = "late" => spoiled
            /\ request' # "none"
        BY <2>2 DEF Ask
      <3>2. ~(broker \in {"evidence", "serve"} /\ polled.provider = "in")
        BY <3>1 DEF IInv, TurnInv
      <3> QED  BY <1>1, <3>1, <3>2 DEF IInv, TurnInv
    <2>3. CASE Observe  BY SMTT(60), <2>3, <1>1, <1>3 DEF Observe, IInv, TurnInv
    <2>4. CASE GiveUp  BY <2>4, <1>1, <1>3 DEF GiveUp, IInv, TurnInv
    <2> QED  BY <2>1, <2>2, <2>3, <2>4
  <1> QED  BY <1>2, <1>4, <1>5, <1>6 DEF IInv

\* The broker starts with nothing read and nobody connected.
LEMMA InitIInv == Init => IInv
  <1> SUFFICES ASSUME Init PROVE IInv  OBVIOUS
  <1>1. BrokerType
    <2>1. queue \in [Devices -> Seq(Events)] /\ frames \in Seq({"eligible", "ineligible"})
      BY SMTT(60) DEF Init
    <2>2. status \in Statuses  BY DEF Init, Status, Statuses, States
    <2> QED  BY <2>1, <2>2 DEF Init, BrokerType, Nothing
  <1>2. WatchInv  BY DEF Init, WatchInv, Status
  <1>3. TurnInv  BY DEF Init, TurnInv
  <1>4. ReadyIsFresh  BY SMTT(60) DEF Init, ReadyIsFresh
  <1> QED  BY <1>1, <1>2, <1>3, <1>4 DEF IInv

\* Every step keeps the broker's invariant.
LEMMA StepIInv ==
    ASSUME IInv, [Next]_vars
    PROVE  IInv'
  <1>1. CASE UNCHANGED vars
    BY <1>1, GuardOnly DEF vars, world, guardVars
  <1>2. CASE World \/ Guard \/ GuardFails  BY <1>2, OutsideIInv
  <1>3. CASE Broker
    BY <1>3, ReadEligibilityIInv, InitialDevicesIInv, PollIInv, EvidenceIInv, ServeIInv
       DEF Broker
  <1>4. CASE InitialDevicesFail \/ BrokerFails
    BY <1>4, ExitIInv DEF InitialDevicesFail, BrokerFails
  <1>5. CASE Deadline  BY <1>5, DeadlineIInv
  <1>6. CASE Connect \/ Ask \/ Observe \/ GiveUp  BY <1>6, ProviderIInv
  <1> QED  BY <1>1, <1>2, <1>3, <1>4, <1>5, <1>6 DEF Next

\* The broker's invariant holds throughout: while it watches, evidence it has not taken
\* up is there to be polled, and a request is answered only in a turn that polled it.
THEOREM Inductive == Spec => []IInv
  BY InitIInv, StepIInv, PTL DEF Spec

\* A ready answer is worth something: nothing spoke against it when it was asked for
\* (the order of poll, evidence and answer in the broker's loop).
THEOREM ReadyAnswerIsFresh == Spec => []ReadyIsFresh
  <1>1. IInv => ReadyIsFresh  BY DEF IInv
  <1> QED  BY <1>1, Inductive, PTL
=============================================================================
