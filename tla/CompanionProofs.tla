--------------------------- MODULE CompanionProofs ---------------------------
(***************************************************************************)
(* The MCP companion, for any limits, tools, contexts, sessions and calls. *)
(***************************************************************************)
EXTENDS Companion, TLAPS

\* The prover of the leaves that name none, and how long it may take.
USE ZenonT(60)

Frames == [id : Nat, call : Serials]
Outcomes == {"ok", "error", "reconnect"}
Answers == [id : Nat, outcome : Outcomes]
Sessions == [era : {"legacy", "modern"}, open : BOOLEAN, next_request : Nat,
             inbox : Seq(Frames), outbox : Seq(Answers),
             pointer_slots : SUBSET [name : SlotNames, of : Nat], status_ok : BOOLEAN]

\* The host can still reach session s.
Addressed(s) == \/ legacy_session = s
                \/ \E c \in DOMAIN modern_contexts : modern_contexts[c] = s

Quiet(r) == r.inbox = <<>> /\ r.outbox = <<>>

ServerInv ==
    /\ sessions \in Seq(Sessions)
    /\ serial \in 0 .. MaxCalls
    /\ executed \in [Serials -> {0, 1}]
    /\ next \in Nat \ {0}
    /\ legacy_recovery_required \in BOOLEAN
    /\ legacy_session \in DOMAIN sessions \cup {None}
    /\ DOMAIN modern_contexts \subseteq 1 .. next - 1
    /\ modern_contexts \in [DOMAIN modern_contexts -> DOMAIN sessions]
    /\ \A c, d \in DOMAIN modern_contexts : modern_contexts[c] = modern_contexts[d] => c = d
    /\ \A c \in DOMAIN modern_contexts : modern_contexts[c] # legacy_session
    /\ rpc \in Rpcs \cup {None}

\* What the connection of a call holds until the call ends.
Awaits(r) ==
    \/ Quiet(r)
    \/ r.inbox = <<[id |-> rpc.id, call |-> rpc.call]>> /\ r.outbox = <<>>
    \/ /\ r.inbox = <<>>
       /\ \E o \in Outcomes : /\ r.outbox = <<[id |-> rpc.id, outcome |-> o]>>
                              /\ o = "ok" => executed[rpc.call] = 1
                              /\ o = "reconnect" => ~r.open

\* The connection of the call in progress is the one the host addressed, or a new one.
RpcInv ==
    rpc # None =>
        /\ rpc.session \in DOMAIN sessions
        /\ Awaits(sessions[rpc.session])
        /\ rpc.era = "legacy" => legacy_session = rpc.session
        /\ rpc.era = "modern" /\ rpc.context = None => ~Addressed(rpc.session)
        /\ rpc.era = "modern" /\ rpc.context # None =>
              /\ rpc.context \in DOMAIN modern_contexts
              /\ modern_contexts[rpc.context] = rpc.session

\* Nothing of an earlier call is under way on a connection that can be addressed.
QuietInv ==
    \A s \in DOMAIN sessions :
        Addressed(s) /\ (rpc = None \/ rpc.session # s) => Quiet(sessions[s])

\* A request that no provider has read yet exists once, and was never executed.
FrameInv ==
    /\ \A s \in DOMAIN sessions : sessions[s].inbox # <<>> =>
          /\ Head(sessions[s].inbox).call <= serial
          /\ executed[Head(sessions[s].inbox).call] = 0
    /\ \A s, t \in DOMAIN sessions :
          /\ sessions[s].inbox # <<>> /\ sessions[t].inbox # <<>>
          /\ Head(sessions[s].inbox).call = Head(sessions[t].inbox).call
          => s = t
    /\ \A c \in Serials : c > serial => executed[c] = 0

ResultInv == result # None /\ result.outcome = "ok" =>
                 result.call \in Serials /\ executed[result.call] = 1

\* Unless a status is required first, the legacy connection is the first one, or has
\* answered a status.
LegacyInv ==
    ~legacy_recovery_required =>
        \A s \in DOMAIN sessions : sessions[s].era = "legacy" =>
            /\ legacy_session # None
            /\ s < legacy_session => sessions[legacy_session].status_ok

IInv == ServerInv /\ RpcInv /\ QuietInv /\ FrameInv /\ ResultInv /\ LegacyInv

-----------------------------------------------------------------------------
\* None is not the index of a connection.
LEMMA NoneIsNoSession ==
    ASSUME NEW T, NEW q \in Seq(T)
    PROVE  None \notin DOMAIN q
  BY SMTT(60), NoneAssumption

\* A sequence with one element replaced.
LEMMA SeqUpdate ==
    ASSUME NEW T, NEW q \in Seq(T), NEW i \in DOMAIN q, NEW r \in T
    PROVE  LET u == [q EXCEPT ![i] = r]
           IN /\ u \in Seq(T) /\ DOMAIN u = DOMAIN q /\ Len(u) = Len(q) /\ u[i] = r
              /\ \A j \in DOMAIN q : j # i => u[j] = q[j]
  BY SMTT(60)

\* A sequence with one element added.
LEMMA SeqAppend ==
    ASSUME NEW T, NEW q \in Seq(T), NEW r \in T
    PROVE  LET u == Append(q, r)
           IN /\ u \in Seq(T) /\ DOMAIN u = DOMAIN q \cup {Len(q) + 1} /\ u[Len(q) + 1] = r
              /\ Len(q) + 1 \notin DOMAIN q /\ Len(q) + 1 \in Nat
              /\ \A j \in DOMAIN q : u[j] = q[j]
  BY SMTT(60)

\* A new connection has nothing on it.
LEMMA NewSessionFacts ==
    ASSUME NEW era \in {"legacy", "modern"}
    PROVE  NewSession(era) \in Sessions /\ Quiet(NewSession(era)) /\ NewSession(era).era = era
  BY SMTT(60) DEF NewSession, Sessions, Quiet

\* Contexts::remove takes away one context and no other.
LEMMA DiscardFacts ==
    ASSUME ServerInv, NEW c, Discard(c)
    PROVE  /\ DOMAIN modern_contexts' = DOMAIN modern_contexts \ {c}
           /\ \A d \in DOMAIN modern_contexts' : modern_contexts'[d] = modern_contexts[d]
           /\ modern_contexts' \in [DOMAIN modern_contexts' -> DOMAIN sessions]
  BY DEF Discard, Restrict, ServerInv

\* The request a provider reads next names a call.
LEMMA HeadFacts ==
    ASSUME ServerInv, NEW s \in DOMAIN sessions
    PROVE  /\ sessions[s] \in Sessions
           /\ sessions[s].inbox # <<>> =>
                 Head(sessions[s].inbox) \in Frames /\ Head(sessions[s].inbox).call \in Serials
  <1>1. sessions[s] \in Sessions  BY SMTT(60) DEF ServerInv
  <1>2. sessions[s].inbox \in Seq(Frames)  BY <1>1 DEF Sessions
  <1>3. sessions[s].inbox # <<>> => Head(sessions[s].inbox) \in Frames  BY SMTT(60), <1>2
  <1> QED  BY <1>1, <1>3 DEF Frames

\* A call that ends in the companion: a refusal, a release or an answer of its own.
LEMMA LocalIInv ==
    ASSUME IInv, Begin, NEW o, o # "ok", Local(o),
           UNCHANGED <<sessions, executed, next, legacy_session, legacy_recovery_required>>,
           modern_contexts' = modern_contexts \/ \E c : Discard(c)
    PROVE  IInv'
  <1>t. ServerInv /\ rpc = None  BY DEF IInv, Begin
  <1>1. /\ rpc' = None
        /\ result'.outcome # "ok"
        /\ serial' = serial + 1 /\ serial' \in 0 .. MaxCalls
    BY SMTT(60), <1>t, CompanionAssumption DEF Begin, Local, ServerInv
  <1>2. /\ DOMAIN modern_contexts' \subseteq DOMAIN modern_contexts
        /\ \A d \in DOMAIN modern_contexts' : modern_contexts'[d] = modern_contexts[d]
        /\ modern_contexts' \in [DOMAIN modern_contexts' -> DOMAIN sessions]
    BY <1>t, DiscardFacts DEF ServerInv
  <1>3. ServerInv'  BY <1>t, <1>1, <1>2 DEF ServerInv
  <1>4. RpcInv'  BY <1>1 DEF RpcInv
  <1>5. QuietInv'  BY <1>t, <1>1, <1>2 DEF IInv, QuietInv, Addressed
  <1>6. FrameInv'
    <2>1. \A s \in DOMAIN sessions : sessions[s].inbox # <<>> =>
             Head(sessions[s].inbox).call \in Serials
      BY <1>t, HeadFacts
    <2> QED  BY SMTT(60), <1>t, <1>1, <2>1 DEF IInv, FrameInv, ServerInv, Serials
  <1>7. ResultInv'  BY <1>1 DEF ResultInv
  <1>8. LegacyInv'  BY DEF IInv, LegacyInv
  <1> QED  BY <1>3, <1>4, <1>5, <1>6, <1>7, <1>8 DEF IInv

\* A call that touches one connection, an old one on which nothing is under way or a new
\* one: it is sent there, or ends after a slot was saved.
LEMMA CallIInv ==
    ASSUME IInv, Begin, sessions' \in Seq(Sessions), NEW s \in DOMAIN sessions',
           DOMAIN sessions \subseteq DOMAIN sessions',
           \A t \in DOMAIN sessions' : t # s => t \in DOMAIN sessions /\ sessions'[t] = sessions[t],
           s \in DOMAIN sessions =>
              /\ sessions'[s].era = sessions[s].era
              /\ sessions'[s].status_ok = sessions[s].status_ok,
           sessions'[s].outbox = <<>>,
           \/ /\ rpc' = None /\ sessions'[s].inbox = <<>>
              /\ result'.outcome # "ok"
           \/ /\ rpc' \in Rpcs /\ rpc'.session = s /\ rpc'.call = serial' /\ result' = result
              /\ sessions'[s].inbox \in {<<>>, <<[id |-> rpc'.id, call |-> rpc'.call]>>}
              /\ rpc'.era = "legacy" => legacy_session' = s
              /\ rpc'.era = "modern" /\ rpc'.context = None =>
                    s \notin DOMAIN sessions /\ legacy_session' = legacy_session
              /\ rpc'.era = "modern" /\ rpc'.context # None =>
                    rpc'.context \in DOMAIN modern_contexts /\ modern_contexts[rpc'.context] = s,
           \/ legacy_session' = legacy_session
           \/ legacy_session = None /\ legacy_session' = s /\ s \notin DOMAIN sessions,
           s \notin DOMAIN sessions /\ sessions'[s].era = "legacy" => legacy_session' = s,
           UNCHANGED <<executed, next, modern_contexts, legacy_recovery_required>>
    PROVE  IInv'
  <1>t. ServerInv /\ rpc = None  BY DEF IInv, Begin
  <1>1. serial' = serial + 1 /\ serial' \in Serials /\ serial' \in 0 .. MaxCalls
    BY SMTT(60), <1>t, CompanionAssumption DEF Begin, ServerInv, Serials
  <1>n. None \notin DOMAIN sessions'  BY NoneIsNoSession
  <1>2. ServerInv'
    <2>1. legacy_session' \in DOMAIN sessions' \cup {None}  BY <1>t DEF ServerInv
    <2>2. modern_contexts' \in [DOMAIN modern_contexts' -> DOMAIN sessions']
      BY <1>t DEF ServerInv
    <2>3. \A c \in DOMAIN modern_contexts' : modern_contexts'[c] # legacy_session'
      BY SMTT(60), <1>t DEF ServerInv
    <2> QED  BY <1>t, <1>1, <2>1, <2>2, <2>3 DEF ServerInv
  <1>3. \A t \in DOMAIN sessions' : t # s => (Addressed(t)' => Addressed(t))
    BY DEF Addressed
  <1>4. RpcInv'
    <2> SUFFICES ASSUME rpc' # None
                 PROVE  RpcInv'
      BY DEF RpcInv
    <2>1. Awaits(sessions[rpc.session])'  BY DEF Awaits, Quiet
    <2>2. rpc'.era = "modern" /\ rpc'.context = None => ~Addressed(rpc.session)'
      <3> SUFFICES ASSUME rpc'.era = "modern", rpc'.context = None
                   PROVE  ~Addressed(rpc.session)'
        OBVIOUS
      <3>1. legacy_session' # s  BY SMTT(60), <1>t, <1>n DEF ServerInv
      <3>2. \A c \in DOMAIN modern_contexts : modern_contexts[c] # s
        BY SMTT(60), <1>t DEF ServerInv
      <3> QED  BY <3>1, <3>2 DEF Addressed
    <2> QED  BY <2>1, <2>2 DEF RpcInv
  <1>5. QuietInv'
    <2> SUFFICES ASSUME NEW t \in DOMAIN sessions', Addressed(t)',
                        rpc' = None \/ rpc'.session # t
                 PROVE  Quiet(sessions'[t])
      BY DEF QuietInv, Quiet
    <2>1. CASE t = s  BY <2>1, NoneAssumption DEF Quiet
    <2>2. CASE t # s  BY <2>2, <1>3, <1>t DEF IInv, QuietInv
    <2> QED  BY <2>1, <2>2
  <1>6. FrameInv'
    <2>1. ASSUME NEW t \in DOMAIN sessions', sessions'[t].inbox # <<>>
          PROVE  /\ Head(sessions'[t].inbox).call <= serial'
                 /\ executed'[Head(sessions'[t].inbox).call] = 0
                 /\ t # s => Head(sessions'[t].inbox).call <= serial
                 /\ t = s => Head(sessions'[t].inbox).call = serial'
      <3>1. CASE t = s
        <4>1. sessions'[s].inbox = <<[id |-> rpc'.id, call |-> serial']>>  BY <2>1, <3>1
        <4>2. Head(sessions'[s].inbox).call = serial'  BY SMTT(60), <4>1
        <4>3. executed[serial'] = 0  BY SMTT(60), <1>1, <1>t DEF IInv, FrameInv, ServerInv
        <4> QED  BY SMTT(60), <3>1, <4>2, <4>3, <1>1
      <3>2. CASE t # s
        <4>1. t \in DOMAIN sessions /\ sessions'[t] = sessions[t]  BY <3>2
        <4>2. Head(sessions[t].inbox).call \in Serials  BY <2>1, <4>1, <1>t, HeadFacts
        <4> QED
          BY SMTT(60), <2>1, <3>2, <4>1, <4>2, <1>1, <1>t
             DEF IInv, FrameInv, ServerInv, Serials
      <3> QED  BY <3>1, <3>2
    <2>2. \A t, u \in DOMAIN sessions' :
             /\ sessions'[t].inbox # <<>> /\ sessions'[u].inbox # <<>>
             /\ Head(sessions'[t].inbox).call = Head(sessions'[u].inbox).call
             => t = u
      <3> SUFFICES ASSUME NEW t \in DOMAIN sessions', NEW u \in DOMAIN sessions',
                          sessions'[t].inbox # <<>>, sessions'[u].inbox # <<>>,
                          Head(sessions'[t].inbox).call = Head(sessions'[u].inbox).call
                   PROVE  t = u
        OBVIOUS
      <3>1. CASE t # s /\ u # s  BY <3>1 DEF IInv, FrameInv
      <3>2. CASE t = s \/ u = s  BY SMTT(60), <3>2, <2>1, <1>1, <1>t DEF ServerInv
      <3> QED  BY <3>1, <3>2
    <2>3. \A c \in Serials : c > serial' => executed'[c] = 0
      BY SMTT(60), <1>1, <1>t DEF IInv, FrameInv, ServerInv, Serials
    <2> QED  BY <2>1, <2>2, <2>3 DEF FrameInv
  <1>7. ResultInv'  BY DEF IInv, ResultInv
  <1>8. LegacyInv'
    <2> SUFFICES ASSUME ~legacy_recovery_required, NEW t \in DOMAIN sessions',
                        sessions'[t].era = "legacy"
                 PROVE  /\ legacy_session' # None
                        /\ t < legacy_session' => sessions'[legacy_session'].status_ok
      BY DEF LegacyInv
    <2>1. CASE legacy_session' = legacy_session
      <3>1. t \in DOMAIN sessions /\ sessions[t].era = "legacy"
        <4>1. CASE t # s  BY <4>1
        <4>2. CASE t = s /\ s \in DOMAIN sessions  BY <4>2
        <4>3. CASE t = s /\ s \notin DOMAIN sessions
          BY <4>3, <2>1, <1>t, <1>n DEF ServerInv
        <4> QED  BY <4>1, <4>2, <4>3
      <3>2. /\ legacy_session # None
            /\ t < legacy_session => sessions[legacy_session].status_ok
        BY <3>1 DEF IInv, LegacyInv
      <3>3. legacy_session \in DOMAIN sessions  BY <3>2, <1>t DEF ServerInv
      <3>4. sessions'[legacy_session].status_ok = sessions[legacy_session].status_ok
        BY <3>3
      <3> QED  BY <2>1, <3>2, <3>4
    <2>2. CASE legacy_session = None /\ legacy_session' = s /\ s \notin DOMAIN sessions
      <3>1. \A u \in DOMAIN sessions : sessions[u].era # "legacy"
        BY <2>2 DEF IInv, LegacyInv
      <3>2. t = s  BY <3>1
      <3>3. s \in Nat  BY SMTT(60)
      <3> QED  BY SMTT(60), <2>2, <3>2, <3>3, <1>n
    <2> QED  BY <2>1, <2>2
  <1> QED  BY <1>2, <1>4, <1>5, <1>6, <1>7, <1>8 DEF IInv

\* The connection a call of the host addresses: one that nothing is under way on, and
\* that is new, or known by the call's era and context.
Target(ss, s, era, context) ==
    /\ ss \in Seq(Sessions) /\ s \in DOMAIN ss /\ s \in Nat
    /\ DOMAIN sessions \subseteq DOMAIN ss
    /\ \A t \in DOMAIN sessions : ss[t] = sessions[t]
    /\ \A t \in DOMAIN ss : t # s => t \in DOMAIN sessions
    /\ Quiet(ss[s])
    /\ era \in {"legacy", "modern"} /\ context \in Nat \cup {None}
    /\ s \notin DOMAIN sessions => ss[s].era = era
    /\ era = "legacy" => legacy_session' = s
    /\ era = "modern" =>
          /\ legacy_session' = legacy_session
          /\ context = None => s \notin DOMAIN sessions
          /\ context # None =>
                context \in DOMAIN modern_contexts /\ modern_contexts[context] = s
    /\ \/ legacy_session' = legacy_session
       \/ legacy_session = None /\ s \notin DOMAIN sessions

\* Seat::call writes its request.
LEMMA RequestIInv ==
    ASSUME IInv, Begin, NEW ss, NEW s, NEW era, NEW context, NEW tool \in Tools, NEW of \in Nat,
           Target(ss, s, era, context), Request(ss, s, era, context, tool, of),
           UNCHANGED <<executed, next, modern_contexts, legacy_recovery_required>>
    PROVE  IInv'
  <1>t. ServerInv /\ rpc = None  BY DEF IInv, Begin
  <1>1. serial' \in Serials
    BY SMTT(60), <1>t, CompanionAssumption DEF Begin, ServerInv, Serials
  <1>2. ss[s] \in Sessions  BY SMTT(60) DEF Target
  <1>3. rpc' \in Rpcs  BY <1>1, <1>2 DEF Request, Rpcs, Target, Sessions
  <1>4. rpc' # None /\ rpc'.session = s /\ rpc'.call = serial' /\ result' = result
        /\ rpc'.era = era /\ rpc'.context = context /\ rpc'.id = ss[s].next_request
    BY <1>3, NoneAssumption DEF Request
  <1> DEFINE frame == [id |-> ss[s].next_request, call |-> serial']
             box == IF ss[s].open THEN Append(ss[s].inbox, frame) ELSE ss[s].inbox
             q == [ss[s] EXCEPT !.next_request = @ + 1, !.inbox = box]
  <1>5. frame \in Frames  BY <1>1, <1>2 DEF Frames, Sessions
  <1>6. box \in {<<>>, <<frame>>} /\ box \in Seq(Frames)
    BY SMTT(60), <1>5 DEF Target, Quiet
  <1>7. /\ q \in Sessions
        /\ q.era = ss[s].era /\ q.status_ok = ss[s].status_ok
        /\ q.outbox = <<>> /\ q.inbox = box
    <2> HIDE DEF box
    <2> DEFINE q1 == [ss[s] EXCEPT !.next_request = @ + 1]
    <2>a. q1 \in Sessions
      <3> DEFINE n == ss[s].next_request + 1
      <3>1. n \in Nat  BY SMTT(60), <1>2 DEF Sessions
      <3> HIDE DEF n
      <3>2. [ss[s] EXCEPT !.next_request = n] \in Sessions  BY <1>2, <3>1 DEF Sessions
      <3> QED  BY <3>2 DEF n
    <2>b. q = [q1 EXCEPT !.inbox = box]  OBVIOUS
    <2>1. q \in Sessions
      <3> HIDE DEF q1, q
      <3> QED  BY <2>a, <2>b, <1>6 DEF Sessions
    <2>2. q.era = ss[s].era /\ q.status_ok = ss[s].status_ok
          /\ q.outbox = ss[s].outbox /\ q.inbox = box
      BY <1>2 DEF Sessions
    <2> QED  BY <2>1, <2>2 DEF Target, Quiet
  <1>8. sessions' = [ss EXCEPT ![s] = q]
    BY <1>2 DEF Request, Sessions, Target
  <1> HIDE DEF q
  <1>9. /\ sessions' \in Seq(Sessions) /\ DOMAIN sessions' = DOMAIN ss /\ sessions'[s] = q
        /\ \A t \in DOMAIN ss : t # s => sessions'[t] = ss[t]
    BY <1>7, <1>8, SeqUpdate DEF Target
  <1> HIDE DEF box, frame
  <1>10. sessions'[s].inbox \in {<<>>, <<[id |-> rpc'.id, call |-> rpc'.call]>>}
    BY <1>4, <1>6, <1>7, <1>9 DEF frame
  <1>11. /\ s \in DOMAIN sessions'
         /\ DOMAIN sessions \subseteq DOMAIN sessions'
         /\ \A t \in DOMAIN sessions' : t # s => t \in DOMAIN sessions /\ sessions'[t] = sessions[t]
         /\ s \in DOMAIN sessions =>
              /\ sessions'[s].era = sessions[s].era
              /\ sessions'[s].status_ok = sessions[s].status_ok
         /\ sessions'[s].outbox = <<>>
         /\ s \notin DOMAIN sessions => sessions'[s].era = era
    BY <1>7, <1>9 DEF Target
  <1>12. /\ \/ legacy_session' = legacy_session
            \/ legacy_session = None /\ legacy_session' = s /\ s \notin DOMAIN sessions
         /\ s \notin DOMAIN sessions /\ sessions'[s].era = "legacy" => legacy_session' = s
         /\ era = "legacy" => legacy_session' = s
         /\ era = "modern" /\ context = None =>
                    s \notin DOMAIN sessions /\ legacy_session' = legacy_session
         /\ era = "modern" /\ context # None =>
                    context \in DOMAIN modern_contexts /\ modern_contexts[context] = s
    BY <1>11 DEF Target
  <1> QED  BY <1>3, <1>4, <1>9, <1>10, <1>11, <1>12, CallIInv

\* pointer_slot_call ends without a request: a slot is saved, or none is found.
LEMMA SlotIInv ==
    ASSUME IInv, Begin, NEW ss, NEW s, NEW era, NEW context, Target(ss, s, era, context),
           NEW o, o # "ok", Local(o), NEW slots \in SUBSET [name : SlotNames, of : Nat],
           sessions' = [ss EXCEPT ![s].pointer_slots = slots],
           UNCHANGED <<executed, next, modern_contexts, legacy_recovery_required>>
    PROVE  IInv'
  <1>2. ss[s] \in Sessions  BY SMTT(60) DEF Target
  <1> DEFINE q == [ss[s] EXCEPT !.pointer_slots = slots]
  <1>7. /\ q \in Sessions
        /\ q.era = ss[s].era /\ q.status_ok = ss[s].status_ok
        /\ q.outbox = <<>> /\ q.inbox = <<>>
    BY <1>2 DEF Sessions, Target, Quiet
  <1>8. sessions' = [ss EXCEPT ![s] = q]
    BY <1>2 DEF Sessions, Target
  <1> HIDE DEF q
  <1>9. /\ sessions' \in Seq(Sessions) /\ DOMAIN sessions' = DOMAIN ss /\ sessions'[s] = q
        /\ \A t \in DOMAIN ss : t # s => sessions'[t] = ss[t]
    BY SMTT(60), <1>7, <1>8, SeqUpdate DEF Target
  <1>11. /\ s \in DOMAIN sessions'
         /\ DOMAIN sessions \subseteq DOMAIN sessions'
         /\ \A t \in DOMAIN sessions' : t # s => t \in DOMAIN sessions /\ sessions'[t] = sessions[t]
         /\ s \in DOMAIN sessions =>
              /\ sessions'[s].era = sessions[s].era
              /\ sessions'[s].status_ok = sessions[s].status_ok
         /\ sessions'[s].outbox = <<>> /\ sessions'[s].inbox = <<>>
         /\ s \notin DOMAIN sessions => sessions'[s].era = era
    BY <1>7, <1>9 DEF Target
  <1>12. /\ \/ legacy_session' = legacy_session
            \/ legacy_session = None /\ legacy_session' = s /\ s \notin DOMAIN sessions
         /\ s \notin DOMAIN sessions /\ sessions'[s].era = "legacy" => legacy_session' = s
    BY <1>11 DEF Target
  <1>13. rpc' = None /\ result'.outcome # "ok"  BY DEF Local
  <1> QED  BY <1>9, <1>11, <1>12, <1>13, CallIInv

\* One tool on the connection the host addressed.
LEMMA ToolIInv ==
    ASSUME IInv, Begin, NEW ss, NEW s, NEW era, NEW context, NEW tool \in Tools,
           Target(ss, s, era, context), Tool(ss, s, era, context, tool),
           UNCHANGED <<executed, next, modern_contexts, legacy_recovery_required>>
    PROVE  IInv'
  <1>0. ss[s] \in Sessions /\ s \in Nat  BY SMTT(60) DEF Target
  <1>1. /\ ss[s] \in Sessions /\ s \in Nat
        /\ ss[s].pointer_slots \in SUBSET [name : SlotNames, of : Nat]
    BY <1>0 DEF Sessions
  <1>2. ss = [ss EXCEPT ![s].pointer_slots = ss[s].pointer_slots]
    BY SMTT(60), <1>1 DEF Target, Sessions
  <1>3. CASE Save(ss, s)
    <2> PICK n \in SlotNames :
            LET slots == ss[s].pointer_slots
                others == {t \in slots : t.name # n}
            IN IF others = slots /\ Cardinality(slots) >= MAX_POINTER_SLOTS
               THEN sessions' = ss /\ Local("capacity")
               ELSE /\ sessions' = [ss EXCEPT ![s].pointer_slots = others \cup {Slot(n, s)}]
                    /\ Local("done")
      BY <1>3 DEF Save
    <2> DEFINE more == {t \in ss[s].pointer_slots : t.name # n} \cup {Slot(n, s)}
    <2>1. more \in SUBSET [name : SlotNames, of : Nat]  BY SMTT(60), <1>1 DEF Slot
    <2>2. CASE sessions' = ss /\ Local("capacity")
      BY <2>2, <1>1, <1>2, SlotIInv
    <2>3. CASE sessions' = [ss EXCEPT ![s].pointer_slots = more] /\ Local("done")
      <3> HIDE DEF more
      <3> QED  BY <2>1, <2>3, SlotIInv
    <2> QED  BY <2>2, <2>3
  <1>4. CASE \E slot \in ss[s].pointer_slots : Request(ss, s, era, context, tool, slot.of)
    BY <1>1, <1>4, RequestIInv
  <1>5. CASE sessions' = ss /\ Local("not_found")
    BY <1>5, <1>1, <1>2, SlotIInv
  <1>6. CASE Request(ss, s, era, context, tool, s)
    BY <1>1, <1>6, RequestIInv
  <1> QED  BY <1>3, <1>4, <1>5, <1>6 DEF Tool

\* connect_seat makes a connection that nobody has addressed before.
LEMMA OpenedFacts ==
    ASSUME ServerInv, NEW era \in {"legacy", "modern"}
    PROVE  LET ss == Opened(era)
               s == Len(sessions) + 1
           IN /\ ss \in Seq(Sessions) /\ s \in DOMAIN ss /\ s \in Nat
              /\ DOMAIN sessions \subseteq DOMAIN ss
              /\ \A t \in DOMAIN sessions : ss[t] = sessions[t]
              /\ \A t \in DOMAIN ss : t # s => t \in DOMAIN sessions
              /\ Quiet(ss[s]) /\ ss[s].era = era /\ s \notin DOMAIN sessions
  <1> DEFINE r == NewSession(era)
  <1>1. r \in Sessions /\ Quiet(r) /\ r.era = era  BY NewSessionFacts
  <1>2. sessions \in Seq(Sessions)  BY DEF ServerInv
  <1> HIDE DEF r
  <1>3. Opened(era) = Append(sessions, r)  BY DEF Opened, r
  <1> QED  BY SMTT(60), <1>1, <1>2, <1>3, SeqAppend

\* A connection in the companion's tables is one a call can be sent on.
LEMMA KnownFacts ==
    ASSUME IInv, rpc = None, NEW s \in DOMAIN sessions, Addressed(s)
    PROVE  /\ sessions \in Seq(Sessions) /\ s \in Nat
           /\ Quiet(sessions[s])
  BY SMTT(60) DEF IInv, ServerInv, QuietInv

\* provider_call_legacy keeps the invariant.
LEMMA LegacyCallIInv ==
    ASSUME IInv, NEW tool \in Tools, LegacyCall(tool)
    PROVE  IInv'
  <1>t. ServerInv /\ rpc = None /\ Begin  BY DEF IInv, Begin, LegacyCall
  <1>u. UNCHANGED <<executed, next, modern_contexts, legacy_recovery_required>>
    BY DEF LegacyCall
  <1>1. CASE \/ Local("status_required") /\ UNCHANGED <<legacy_session, sessions>>
             \/ Local("unavailable") /\ UNCHANGED <<legacy_session, sessions>>
    BY <1>t, <1>u, <1>1, LocalIInv
  <1>2. CASE /\ legacy_session # None /\ legacy_session' = legacy_session
             /\ Tool(sessions, legacy_session, "legacy", None, tool)
    <2>1. legacy_session \in DOMAIN sessions /\ Addressed(legacy_session)
      BY <1>t, <1>2 DEF ServerInv, Addressed
    <2>2. Target(sessions, legacy_session, "legacy", None)
      BY <1>2, <1>t, <2>1, KnownFacts DEF Target
    <2> QED  BY <1>t, <1>u, <1>2, <2>2, ToolIInv
  <1>3. CASE /\ legacy_session = None /\ legacy_session' = Len(sessions) + 1
             /\ Tool(Opened("legacy"), Len(sessions) + 1, "legacy", None, tool)
    <2>1. Target(Opened("legacy"), Len(sessions) + 1, "legacy", None)
      BY <1>3, <1>t, OpenedFacts DEF Target
    <2> QED  BY <1>t, <1>u, <1>3, <2>1, ToolIInv
  <1> QED  BY <1>1, <1>2, <1>3 DEF LegacyCall

\* create_modern_context keeps it, up to its request.
LEMMA ModernStatusIInv ==
    ASSUME IInv, ModernStatus
    PROVE  IInv'
  <1>t. ServerInv /\ rpc = None /\ Begin  BY DEF IInv, Begin, ModernStatus
  <1>u. UNCHANGED <<executed, next, modern_contexts, legacy_recovery_required, legacy_session>>
    BY DEF ModernStatus
  <1>1. CASE \/ Local("capacity") /\ UNCHANGED sessions
             \/ Local("unavailable") /\ UNCHANGED sessions
    BY <1>t, <1>u, <1>1, LocalIInv
  <1>2. CASE Request(Opened("modern"), Len(sessions) + 1, "modern", None, "status",
                     Len(sessions) + 1)
    <2>1. Target(Opened("modern"), Len(sessions) + 1, "modern", None) /\ Len(sessions) + 1 \in Nat
      BY <1>u, <1>t, OpenedFacts DEF Target
    <2> QED  BY <1>t, <1>u, <1>2, <2>1, RequestIInv DEF Tools
  <1> QED  BY <1>1, <1>2 DEF ModernStatus

\* provider_call_modern and seat_release keep it.
LEMMA ModernCallIInv ==
    ASSUME IInv, NEW c \in Nat, ModernCall(c)
    PROVE  IInv'
  <1>t. ServerInv /\ rpc = None /\ Begin  BY DEF IInv, Begin, ModernCall
  <1>u. UNCHANGED <<executed, next, legacy_recovery_required, legacy_session>>
    BY DEF ModernCall
  <1>1. CASE \/ Local("stale_context") /\ UNCHANGED <<modern_contexts, sessions>>
             \/ Discard(c) /\ Local("done") /\ UNCHANGED sessions
    BY <1>t, <1>u, <1>1, LocalIInv
  <1>2. ASSUME NEW tool \in Tools, c \in DOMAIN modern_contexts, UNCHANGED modern_contexts,
               Tool(sessions, modern_contexts[c], "modern", c, tool)
        PROVE  IInv'
    <2>1. modern_contexts[c] \in DOMAIN sessions /\ Addressed(modern_contexts[c])
      BY <1>t, <1>2 DEF ServerInv, Addressed
    <2>2. Target(sessions, modern_contexts[c], "modern", c)
      BY <1>2, <1>t, <1>u, <2>1, KnownFacts, NoneAssumption DEF Target
    <2> QED  BY <1>t, <1>u, <1>2, <2>2, ToolIInv
  <1> QED  BY <1>1, <1>2 DEF ModernCall

\* A provider takes what one connection holds for it, executes it or not, answers it or
\* not, and may close the connection.
LEMMA TakeIInv ==
    ASSUME IInv, NEW s \in DOMAIN sessions, NEW r \in Sessions,
           sessions' = [sessions EXCEPT ![s] = r],
           r.inbox = <<>>, r.era = sessions[s].era, r.status_ok = sessions[s].status_ok,
           r.open => sessions[s].open,
           \/ executed' = executed
           \/ /\ sessions[s].inbox # <<>>
              /\ executed' = [executed EXCEPT ![Head(sessions[s].inbox).call] = @ + 1],
           \/ r.outbox = sessions[s].outbox
           \/ /\ sessions[s].inbox # <<>>
              /\ \E o \in Outcomes :
                    /\ r.outbox = Append(sessions[s].outbox,
                                        [id |-> Head(sessions[s].inbox).id, outcome |-> o])
                    /\ o = "ok" => executed'[Head(sessions[s].inbox).call] = 1
                    /\ o = "reconnect" => ~r.open,
           UNCHANGED <<server, rpc, serial, result>>
    PROVE  IInv'
  <1>t. /\ ServerInv /\ sessions \in Seq(Sessions)
        /\ UNCHANGED <<legacy_session, legacy_recovery_required, modern_contexts, next>>
    BY DEF IInv, ServerInv, server
  <1>1. /\ sessions' \in Seq(Sessions) /\ DOMAIN sessions' = DOMAIN sessions
        /\ sessions'[s] = r
        /\ \A t \in DOMAIN sessions : t # s => sessions'[t] = sessions[t]
    BY <1>t, SeqUpdate
  <1>2. /\ executed' \in [Serials -> {0, 1}]
        /\ \A c \in Serials : executed[c] = 1 => executed'[c] = 1
        /\ \A c \in Serials : executed'[c] # executed[c] =>
              sessions[s].inbox # <<>> /\ c = Head(sessions[s].inbox).call
    <2>1. CASE executed' = executed  BY <1>t, <2>1 DEF ServerInv
    <2>2. CASE /\ sessions[s].inbox # <<>>
               /\ executed' = [executed EXCEPT ![Head(sessions[s].inbox).call] = @ + 1]
      <3>1. Head(sessions[s].inbox).call \in Serials /\ executed[Head(sessions[s].inbox).call] = 0
        BY <1>t, <2>2, HeadFacts DEF IInv, FrameInv
      <3> QED  BY SMTT(60), <1>t, <2>2, <3>1 DEF ServerInv
    <2> QED  BY <2>1, <2>2
  <1>3. ServerInv'  BY <1>t, <1>1, <1>2 DEF ServerInv
  <1>a. \A t : Addressed(t)' <=> Addressed(t)  BY <1>t DEF Addressed
  <1>4. RpcInv'
    <2> SUFFICES ASSUME rpc # None
                 PROVE  Awaits(sessions[rpc.session])'
      BY <1>t, <1>1, <1>a DEF IInv, RpcInv
    <2>1. /\ rpc.session \in DOMAIN sessions /\ rpc.call \in Serials
          /\ Awaits(sessions[rpc.session])
      BY <1>t DEF IInv, RpcInv, ServerInv, Rpcs
    <2>2. CASE rpc.session # s
      <3>1. sessions'[rpc.session] = sessions[rpc.session]  BY <1>1, <2>1, <2>2
      <3> QED  BY <1>2, <2>1, <3>1 DEF Awaits, Quiet
    <2>3. CASE rpc.session = s
      <3>1. CASE Quiet(sessions[s])
        BY <3>1, <1>1, <2>3 DEF Awaits, Quiet
      <3>2. CASE /\ sessions[s].inbox = <<[id |-> rpc.id, call |-> rpc.call]>>
                 /\ sessions[s].outbox = <<>>
        <4>1. Head(sessions[s].inbox) = [id |-> rpc.id, call |-> rpc.call]
          BY SMTT(60), <3>2
        <4>2. CASE r.outbox = sessions[s].outbox
          BY <4>2, <3>2, <1>1, <2>3 DEF Awaits, Quiet
        <4>3. ASSUME NEW o \in Outcomes,
                     r.outbox = Append(sessions[s].outbox,
                                       [id |-> Head(sessions[s].inbox).id, outcome |-> o]),
                     o = "ok" => executed'[Head(sessions[s].inbox).call] = 1,
                     o = "reconnect" => ~r.open
              PROVE  Awaits(sessions[rpc.session])'
          <5>1. r.outbox = <<[id |-> rpc.id, outcome |-> o]>>  BY SMTT(60), <4>1, <4>3, <3>2
          <5>2. o = "ok" => executed'[rpc.call] = 1  BY SMTT(60), <4>1, <4>3
          <5> QED  BY <5>1, <5>2, <4>3, <1>1, <2>3 DEF Awaits
        <4> QED  BY <4>2, <4>3
      <3>3. ASSUME sessions[s].inbox = <<>>, NEW o \in Outcomes,
                   sessions[s].outbox = <<[id |-> rpc.id, outcome |-> o]>>,
                   o = "ok" => executed[rpc.call] = 1,
                   o = "reconnect" => ~sessions[s].open
            PROVE  Awaits(sessions[rpc.session])'
        BY <3>3, <1>1, <1>2, <2>1, <2>3 DEF Awaits
      <3> QED  BY <2>1, <2>3, <3>1, <3>2, <3>3 DEF Awaits
    <2> QED  BY <2>2, <2>3
  <1>5. QuietInv'
    <2> SUFFICES ASSUME NEW t \in DOMAIN sessions, Addressed(t), rpc = None \/ rpc.session # t
                 PROVE  Quiet(sessions'[t])
      BY <1>1, <1>a DEF QuietInv, Quiet
    <2>1. Quiet(sessions[t])  BY DEF IInv, QuietInv
    <2> QED  BY <2>1, <1>1 DEF Quiet
  <1>6. FrameInv'
    <2>1. ASSUME NEW t \in DOMAIN sessions, sessions'[t].inbox # <<>>
          PROVE  /\ t # s /\ sessions'[t] = sessions[t]
                 /\ Head(sessions[t].inbox).call \in Serials
                 /\ Head(sessions[t].inbox).call <= serial
                 /\ executed'[Head(sessions[t].inbox).call] = 0
      <3>1. t # s /\ sessions'[t] = sessions[t]  BY <2>1, <1>1
      <3>2. Head(sessions[t].inbox).call \in Serials  BY <3>1, <2>1, <1>t, HeadFacts
      <3>3. /\ Head(sessions[t].inbox).call <= serial
            /\ executed[Head(sessions[t].inbox).call] = 0
        BY <2>1, <3>1 DEF IInv, FrameInv
      <3>4. sessions[s].inbox # <<>> =>
               Head(sessions[s].inbox).call # Head(sessions[t].inbox).call
        BY <2>1, <3>1 DEF IInv, FrameInv
      <3> QED  BY <3>1, <3>2, <3>3, <3>4, <1>2
    <2>2. \A c \in Serials : c > serial => executed'[c] = 0
      <3>1. sessions[s].inbox # <<>> => ~(Head(sessions[s].inbox).call > serial)
        BY SMTT(60), <1>t, HeadFacts DEF IInv, FrameInv, ServerInv, Serials
      <3> QED  BY <3>1, <1>2 DEF IInv, FrameInv
    <2>3. \A t, u \in DOMAIN sessions :
             /\ sessions'[t].inbox # <<>> /\ sessions'[u].inbox # <<>>
             /\ Head(sessions'[t].inbox).call = Head(sessions'[u].inbox).call
             => t = u
      BY <2>1 DEF IInv, FrameInv
    <2> QED  BY <1>1, <2>1, <2>2, <2>3 DEF FrameInv
  <1>7. ResultInv'  BY <1>2 DEF IInv, ResultInv
  <1>8. LegacyInv'
    <2>1. \A t \in DOMAIN sessions : /\ sessions'[t].era = sessions[t].era
                                     /\ sessions'[t].status_ok = sessions[t].status_ok
      BY <1>1
    <2> QED  BY <1>t, <1>1, <2>1 DEF IInv, LegacyInv, ServerInv
  <1> QED  BY <1>3, <1>4, <1>5, <1>6, <1>7, <1>8 DEF IInv

\* What a session becomes when a provider has taken its input, and may have answered.
LEMMA TakenFacts ==
    ASSUME NEW q \in Sessions, NEW a \in Seq(Answers)
    PROVE  LET u == [q EXCEPT !.inbox = <<>>, !.outbox = a]
           IN /\ u \in Sessions /\ u.inbox = <<>> /\ u.open = q.open /\ u.outbox = a
              /\ u.era = q.era /\ u.status_ok = q.status_ok
  <1> DEFINE v == [q EXCEPT !.inbox = <<>>]
  <1>1. v \in Sessions
    <2> DEFINE e == <<>>
    <2>1. e \in Seq(Frames)  BY SMTT(60)
    <2> HIDE DEF e
    <2>2. [q EXCEPT !.inbox = e] \in Sessions  BY <2>1 DEF Sessions
    <2> QED  BY <2>2 DEF e
  <1>2. v.era = q.era /\ v.status_ok = q.status_ok /\ v.inbox = <<>> /\ v.open = q.open
    BY DEF Sessions
  <1> HIDE DEF v
  <1>3. [v EXCEPT !.outbox = a] \in Sessions  BY <1>1 DEF Sessions
  <1> DEFINE z == [v EXCEPT !.outbox = a]
  <1>4. z.era = v.era /\ z.status_ok = v.status_ok /\ z.inbox = v.inbox /\ z.open = v.open
        /\ z.outbox = a
    BY <1>1 DEF Sessions
  <1>5. z = [q EXCEPT !.inbox = <<>>, !.outbox = a]  BY DEF v
  <1> HIDE DEF z
  <1> QED  BY <1>2, <1>3, <1>4, <1>5 DEF z

\* The same, when the provider has also closed the connection.
LEMMA ClosedFacts ==
    ASSUME NEW q \in Sessions, NEW a \in Seq(Answers)
    PROVE  LET u == [q EXCEPT !.inbox = <<>>, !.outbox = a, !.open = FALSE]
           IN /\ u \in Sessions /\ u.inbox = <<>> /\ ~u.open /\ u.outbox = a
              /\ u.era = q.era /\ u.status_ok = q.status_ok
  <1> DEFINE v == [q EXCEPT !.inbox = <<>>, !.outbox = a]
             z == [v EXCEPT !.open = FALSE]
  <1>1. /\ v \in Sessions /\ v.inbox = <<>> /\ v.outbox = a
        /\ v.era = q.era /\ v.status_ok = q.status_ok
    BY TakenFacts
  <1>5. z = [q EXCEPT !.inbox = <<>>, !.outbox = a, !.open = FALSE]  OBVIOUS
  <1> HIDE DEF v
  <1>2. v \in Sessions  BY <1>1
  <1>3. z \in Sessions  BY <1>2 DEF Sessions
  <1>4. z.era = v.era /\ z.status_ok = v.status_ok /\ z.inbox = v.inbox /\ ~z.open
        /\ z.outbox = v.outbox
    BY <1>1 DEF Sessions
  <1> HIDE DEF z
  <1> QED  BY <1>1, <1>3, <1>4, <1>5

\* The provider executes and answers, or goes down on the way.
LEMMA ServeIInv ==
    ASSUME IInv, NEW s \in DOMAIN sessions, Serve(s)
    PROVE  IInv'
  <1> DEFINE old == sessions[s]
             frame == Head(old.inbox)
             answer(o) == Append(old.outbox, [id |-> frame.id, outcome |-> o])
             done == [executed EXCEPT ![frame.call] = @ + 1]
  <1>t. /\ ServerInv /\ old \in Sessions /\ old.inbox # <<>>
        /\ frame \in Frames /\ frame.call \in Serials
        /\ UNCHANGED <<server, rpc, serial, result>>
    BY HeadFacts DEF IInv, Serve
  <1>d. executed[frame.call] = 0 /\ done[frame.call] = 1
    <2>1. executed[frame.call] = 0  BY <1>t DEF IInv, FrameInv
    <2> QED  BY SMTT(60), <1>t, <2>1 DEF ServerInv
  <1>a. \A o \in Outcomes : answer(o) \in Seq(Answers)
    <2> SUFFICES ASSUME NEW o \in Outcomes PROVE answer(o) \in Seq(Answers)  OBVIOUS
    <2>1. [id |-> frame.id, outcome |-> o] \in Answers  BY <1>t DEF Frames, Answers
    <2>2. old.outbox \in Seq(Answers)  BY <1>t DEF Sessions
    <2> QED  BY SMTT(60), <2>1, <2>2
  <1> HIDE DEF frame, answer, done
  <1>1. ASSUME NEW o \in {"ok", "error"},
               sessions' = [sessions EXCEPT ![s].inbox = <<>>, ![s].outbox = answer(o)],
               executed' = IF o = "ok" THEN done ELSE executed
        PROVE  IInv'
    <2> DEFINE r == [old EXCEPT !.inbox = <<>>, !.outbox = answer(o)]
    <2>1. answer(o) \in Seq(Answers) /\ o \in Outcomes
      BY <1>a DEF Outcomes
    <2>2. r \in Sessions /\ r.inbox = <<>> /\ r.outbox = answer(o)
          /\ r.era = old.era /\ r.status_ok = old.status_ok /\ r.open = old.open
      BY <1>t, <2>1, TakenFacts
    <2>3. sessions' = [sessions EXCEPT ![s] = r]  BY <1>t, <1>1 DEF Sessions, ServerInv
    <2>4. o = "ok" => executed'[frame.call] = 1  BY <1>1, <1>d
    <2>5. executed' = executed \/ executed' = done  BY <1>1
    <2> HIDE DEF r
    <2>6. \E o2 \in Outcomes :
             /\ r.outbox = Append(old.outbox, [id |-> frame.id, outcome |-> o2])
             /\ o2 = "ok" => executed'[frame.call] = 1
             /\ o2 = "reconnect" => ~r.open
      BY <2>1, <2>2, <2>4 DEF answer
    <2> QED  BY <1>t, <2>2, <2>3, <2>5, <2>6, TakeIInv DEF frame, done
  <1>2. ASSUME sessions' = [sessions EXCEPT ![s].inbox = <<>>, ![s].open = FALSE,
                                            ![s].outbox = answer("reconnect")],
               executed' = executed
        PROVE  IInv'
    <2> DEFINE r == [old EXCEPT !.inbox = <<>>, !.outbox = answer("reconnect"), !.open = FALSE]
    <2>1. answer("reconnect") \in Seq(Answers) /\ "reconnect" \in Outcomes
      BY <1>a DEF Outcomes
    <2>2. r \in Sessions /\ r.inbox = <<>> /\ r.outbox = answer("reconnect")
          /\ r.era = old.era /\ r.status_ok = old.status_ok /\ ~r.open
      BY <1>t, <2>1, ClosedFacts
    <2>3. sessions' = [sessions EXCEPT ![s] = r]  BY <1>t, <1>2 DEF Sessions, ServerInv
    <2> HIDE DEF r
    <2>6. \E o2 \in Outcomes :
             /\ r.outbox = Append(old.outbox, [id |-> frame.id, outcome |-> o2])
             /\ o2 = "ok" => executed'[frame.call] = 1
             /\ o2 = "reconnect" => ~r.open
      BY <2>1, <2>2 DEF answer
    <2> QED  BY <1>t, <1>2, <2>2, <2>3, <2>6, TakeIInv DEF frame
  <1>3. ASSUME sessions' = [sessions EXCEPT ![s].inbox = <<>>, ![s].open = FALSE],
               executed' = done
        PROVE  IInv'
    <2> DEFINE r == [old EXCEPT !.inbox = <<>>, !.outbox = old.outbox, !.open = FALSE]
    <2>1. old.outbox \in Seq(Answers)  BY <1>t DEF Sessions
    <2>2. r \in Sessions /\ r.inbox = <<>> /\ r.outbox = old.outbox
          /\ r.era = old.era /\ r.status_ok = old.status_ok /\ ~r.open
      BY <1>t, <2>1, ClosedFacts
    <2>3. sessions' = [sessions EXCEPT ![s] = r]  BY <1>t, <1>3 DEF Sessions, ServerInv
    <2> HIDE DEF r
    <2> QED  BY <1>t, <1>3, <2>2, <2>3, TakeIInv DEF frame, done
  <1> QED  BY <1>1, <1>2, <1>3 DEF Serve, frame, answer, done

\* The provider closes a connection.
LEMMA CloseIInv ==
    ASSUME IInv, NEW s \in DOMAIN sessions, Close(s)
    PROVE  IInv'
  <1> DEFINE old == sessions[s]
             r == [old EXCEPT !.inbox = <<>>, !.outbox = old.outbox, !.open = FALSE]
  <1>t. ServerInv /\ old \in Sessions  BY HeadFacts DEF IInv
  <1>1. old.outbox \in Seq(Answers)  BY <1>t DEF Sessions
  <1>2. r \in Sessions /\ r.inbox = <<>> /\ r.outbox = old.outbox
        /\ r.era = old.era /\ r.status_ok = old.status_ok /\ ~r.open
    BY <1>t, <1>1, ClosedFacts
  <1>3. sessions' = [sessions EXCEPT ![s] = r]  BY <1>t DEF Sessions, ServerInv, Close
  <1>4. UNCHANGED <<server, rpc, serial, result, executed>>  BY DEF Close
  <1> HIDE DEF r
  <1> QED  BY <1>t, <1>2, <1>3, <1>4, TakeIInv

\* A call ends: its connection is quiet, or can no longer be addressed.
LEMMA EndIInv ==
    ASSUME IInv, rpc # None, rpc' = None, UNCHANGED <<serial, executed>>,
           sessions' \in Seq(Sessions), DOMAIN sessions' = DOMAIN sessions,
           \A t \in DOMAIN sessions : sessions'[t].inbox = sessions[t].inbox,
           \A t \in DOMAIN sessions : t # rpc.session => sessions'[t] = sessions[t],
           result'.outcome = "ok" => result'.call \in Serials /\ executed[result'.call] = 1,
           next' \in Nat \ {0}, legacy_recovery_required' \in BOOLEAN,
           legacy_session' \in {legacy_session, None},
           DOMAIN modern_contexts' \subseteq 1 .. next' - 1,
           modern_contexts' \in [DOMAIN modern_contexts' -> DOMAIN sessions],
           \A c, d \in DOMAIN modern_contexts' :
               modern_contexts'[c] = modern_contexts'[d] => c = d,
           \A c \in DOMAIN modern_contexts' : modern_contexts'[c] # legacy_session',
           \A t \in DOMAIN sessions :
               Addressed(t)' => \/ t = rpc.session /\ Quiet(sessions'[t])
                                \/ t # rpc.session /\ Addressed(t),
           LegacyInv'
    PROVE  IInv'
  <1>t. ServerInv  BY DEF IInv
  <1>1. ServerInv'  BY <1>t DEF ServerInv
  <1>2. RpcInv'  BY DEF RpcInv
  <1>3. QuietInv'
    <2> SUFFICES ASSUME NEW t \in DOMAIN sessions, Addressed(t)'
                 PROVE  Quiet(sessions'[t])
      BY DEF QuietInv, Quiet
    <2> QED  BY DEF IInv, QuietInv
  <1>4. FrameInv'  BY DEF IInv, FrameInv
  <1>5. ResultInv'  BY DEF ResultInv
  <1> QED  BY <1>1, <1>2, <1>3, <1>4, <1>5 DEF IInv

\* The table of contexts after the connection of the call in progress was given up.
LEMMA EndedFacts ==
    ASSUME IInv, rpc # None, ended
    PROVE  /\ legacy_recovery_required' \in BOOLEAN
           /\ legacy_session' \in {legacy_session, None}
           /\ DOMAIN modern_contexts' \subseteq DOMAIN modern_contexts
           /\ modern_contexts' \in [DOMAIN modern_contexts' -> DOMAIN sessions]
           /\ \A d \in DOMAIN modern_contexts' : modern_contexts'[d] = modern_contexts[d]
           /\ \A c \in DOMAIN modern_contexts' : modern_contexts'[c] # legacy_session'
           /\ \A t \in DOMAIN sessions : Addressed(t)' => t # rpc.session /\ Addressed(t)
           /\ legacy_recovery_required' \/ UNCHANGED <<legacy_session, legacy_recovery_required>>
           /\ DOMAIN modern_contexts \subseteq DOMAIN modern_contexts' \cup {rpc.context}
  <1>t. /\ ServerInv /\ rpc.session \in DOMAIN sessions /\ rpc \in Rpcs
        /\ None \notin DOMAIN sessions
    BY NoneIsNoSession DEF IInv, RpcInv, ServerInv
  <1>1. CASE rpc.era = "legacy"
    <2>1. legacy_session' = None /\ legacy_recovery_required' = TRUE
          /\ UNCHANGED modern_contexts /\ legacy_session = rpc.session
      BY <1>1 DEF ended, IInv, RpcInv
    <2>2. \A c \in DOMAIN modern_contexts : modern_contexts[c] \in DOMAIN sessions
      BY <1>t DEF ServerInv
    <2>3. \A t \in DOMAIN sessions : Addressed(t)' => t # rpc.session /\ Addressed(t)
      BY <1>t, <2>1 DEF ServerInv, Addressed
    <2> QED  BY <1>t, <2>1, <2>2, <2>3 DEF ServerInv
  <1>2. CASE rpc.era = "modern"
    <2>1. Discard(rpc.context) /\ UNCHANGED <<legacy_session, legacy_recovery_required>>
      BY <1>2 DEF ended
    <2>2. /\ DOMAIN modern_contexts' = DOMAIN modern_contexts \ {rpc.context}
          /\ \A d \in DOMAIN modern_contexts' : modern_contexts'[d] = modern_contexts[d]
          /\ modern_contexts' \in [DOMAIN modern_contexts' -> DOMAIN sessions]
      BY <1>t, <2>1, DiscardFacts
    <2>3. /\ legacy_session # rpc.session
          /\ \A d \in DOMAIN modern_contexts' : modern_contexts[d] # rpc.session
      <3>1. CASE rpc.context = None
        BY <1>2, <2>2, <3>1 DEF IInv, RpcInv, Addressed
      <3>2. CASE rpc.context # None
        <4>1. /\ rpc.context \in DOMAIN modern_contexts
              /\ modern_contexts[rpc.context] = rpc.session
          BY <1>2, <3>2 DEF IInv, RpcInv
        <4> QED  BY <1>t, <2>2, <4>1 DEF ServerInv
      <3> QED  BY <3>1, <3>2
    <2>4. \A t \in DOMAIN sessions : Addressed(t)' => t # rpc.session /\ Addressed(t)
      BY <2>1, <2>2, <2>3 DEF Addressed
    <2> QED  BY <1>t, <2>1, <2>2, <2>4 DEF ServerInv
  <1> QED  BY <1>t, <1>1, <1>2 DEF Rpcs

\* The legacy connection stays the first one, or one that has answered a status.
LEMMA LegacyKept ==
    ASSUME IInv, DOMAIN sessions' = DOMAIN sessions,
           \A t \in DOMAIN sessions :
               /\ sessions'[t].era = sessions[t].era
               /\ sessions[t].status_ok => sessions'[t].status_ok,
           legacy_recovery_required' \/ UNCHANGED <<legacy_session, legacy_recovery_required>>
    PROVE  LegacyInv'
  <1>t. ServerInv  BY DEF IInv
  <1> SUFFICES ASSUME ~legacy_recovery_required',
                      UNCHANGED <<legacy_session, legacy_recovery_required>>,
                      NEW s \in DOMAIN sessions, sessions[s].era = "legacy"
               PROVE  /\ legacy_session # None
                      /\ s < legacy_session => sessions'[legacy_session].status_ok
    BY DEF LegacyInv
  <1>1. /\ legacy_session # None
        /\ s < legacy_session => sessions[legacy_session].status_ok
    BY DEF IInv, LegacyInv
  <1>2. legacy_session \in DOMAIN sessions  BY <1>1, <1>t DEF ServerInv
  <1> QED  BY <1>1, <1>2

\* A failed call gives up its connection.
LEMMA FailedIInv ==
    ASSUME IInv, rpc # None, NEW why, why # "ok", Failed(why),
           sessions[rpc.session].outbox = <<>>
    PROVE  IInv'
  <1>t. /\ ServerInv /\ sessions \in Seq(Sessions) /\ next \in Nat \ {0}
        /\ DOMAIN modern_contexts \subseteq 1 .. next - 1
    BY DEF IInv, ServerInv
  <1>1. /\ rpc' = None /\ UNCHANGED <<next, sessions, serial, executed>>
        /\ ended /\ result'.outcome # "ok"
    BY DEF Failed
  <1>2. /\ legacy_recovery_required' \in BOOLEAN
        /\ legacy_session' \in {legacy_session, None}
        /\ DOMAIN modern_contexts' \subseteq DOMAIN modern_contexts
        /\ modern_contexts' \in [DOMAIN modern_contexts' -> DOMAIN sessions]
        /\ \A d \in DOMAIN modern_contexts' : modern_contexts'[d] = modern_contexts[d]
        /\ \A c \in DOMAIN modern_contexts' : modern_contexts'[c] # legacy_session'
        /\ \A t \in DOMAIN sessions : Addressed(t)' => t # rpc.session /\ Addressed(t)
        /\ legacy_recovery_required' \/ UNCHANGED <<legacy_session, legacy_recovery_required>>
    BY <1>1, EndedFacts
  <1>3. LegacyInv'  BY <1>1, <1>2, LegacyKept
  <1>4. \A c, d \in DOMAIN modern_contexts' : modern_contexts'[c] = modern_contexts'[d] => c = d
    BY <1>t, <1>2 DEF ServerInv
  <1>5. DOMAIN modern_contexts' \subseteq 1 .. next' - 1  BY <1>t, <1>1, <1>2
  <1> QED  BY <1>t, <1>1, <1>2, <1>3, <1>4, <1>5, EndIInv

\* Seat::call reads the answer to its own request: none other can be on the connection.
LEMMA AnswerFacts ==
    ASSUME IInv, Answered
    PROVE  LET s == rpc.session
               answer == Head(sessions[s].outbox)
           IN /\ rpc \in Rpcs /\ s \in DOMAIN sessions
              /\ answer.id = rpc.id /\ answer.outcome \in Outcomes
              /\ answer.outcome = "ok" => executed[rpc.call] = 1
              /\ answer.outcome = "reconnect" => ~sessions[s].open
              /\ sessions' \in Seq(Sessions) /\ DOMAIN sessions' = DOMAIN sessions
              /\ \A t \in DOMAIN sessions : t # s => sessions'[t] = sessions[t]
              /\ sessions[s].inbox = <<>> /\ Quiet(sessions'[s])
              /\ sessions'[s].era = sessions[s].era
              /\ sessions[s].status_ok => sessions'[s].status_ok
              /\ rpc.tool = "status" /\ answer.outcome = "ok" => sessions'[s].status_ok
  <1> DEFINE s == rpc.session
             old == sessions[s]
             answer == Head(old.outbox)
  <1>t. /\ ServerInv /\ rpc \in Rpcs /\ s \in DOMAIN sessions /\ old.outbox # <<>>
        /\ sessions \in Seq(Sessions) /\ old \in Sessions
    BY HeadFacts DEF IInv, RpcInv, ServerInv, Answered
  <1>1. PICK o \in Outcomes : /\ old.inbox = <<>>
                              /\ old.outbox = <<[id |-> rpc.id, outcome |-> o]>>
                              /\ o = "ok" => executed[rpc.call] = 1
                              /\ o = "reconnect" => ~old.open
    BY <1>t DEF IInv, RpcInv, Awaits, Quiet, Answered
  <1>2. answer.id = rpc.id /\ answer.outcome = o /\ Tail(old.outbox) = <<>>
    BY SMTT(60), <1>1
  <1> DEFINE ok == old.status_ok \/ (rpc.tool = "status" /\ o = "ok")
             empty == <<>>
             r == [old EXCEPT !.outbox = empty, !.status_ok = ok]
  <1>3. sessions' = [sessions EXCEPT ![s] = r]  BY <1>t, <1>2 DEF Answered, Sessions
  <1>4. /\ r \in Sessions /\ r.outbox = <<>> /\ r.inbox = old.inbox /\ r.era = old.era
        /\ r.status_ok = ok
    <2> DEFINE v == [old EXCEPT !.outbox = empty]
    <2>1. empty \in Seq(Answers)  BY SMTT(60)
    <2>2. v \in Sessions /\ v.outbox = <<>> /\ v.inbox = old.inbox /\ v.era = old.era
      <3>1. v.outbox = <<>> /\ v.inbox = old.inbox /\ v.era = old.era  BY <1>t DEF Sessions
      <3> HIDE DEF empty
      <3>2. v \in Sessions  BY <1>t, <2>1 DEF Sessions
      <3> QED  BY <3>1, <3>2
    <2>3. r = [v EXCEPT !.status_ok = ok]  OBVIOUS
    <2>4. ok \in BOOLEAN  OBVIOUS
    <2> HIDE DEF v, r, ok
    <2>5. r \in Sessions  BY <2>2, <2>3, <2>4 DEF Sessions
    <2>6. r.outbox = v.outbox /\ r.inbox = v.inbox /\ r.era = v.era /\ r.status_ok = ok
      BY <2>2, <2>3, <2>4 DEF Sessions
    <2> QED  BY <2>2, <2>5, <2>6
  <1> HIDE DEF r
  <1>5. /\ sessions' \in Seq(Sessions) /\ DOMAIN sessions' = DOMAIN sessions
        /\ sessions'[s] = r
        /\ \A t \in DOMAIN sessions : t # s => sessions'[t] = sessions[t]
    BY <1>t, <1>3, <1>4, SeqUpdate
  <1> QED  BY <1>t, <1>1, <1>2, <1>4, <1>5 DEF Quiet

\* An answer keeps the invariant: the connection goes on, becomes a context, or is given up.
LEMMA AnsweredIInv ==
    ASSUME IInv, Answered
    PROVE  IInv'
  <1> DEFINE s == rpc.session
             o == Head(sessions[s].outbox).outcome
             creating == rpc.era = "modern" /\ rpc.context = None
  <1>t. /\ ServerInv /\ sessions \in Seq(Sessions) /\ next \in Nat \ {0}
        /\ DOMAIN modern_contexts \subseteq 1 .. next - 1 /\ rpc # None
        /\ rpc' = None /\ UNCHANGED <<serial, executed>>
    BY DEF IInv, ServerInv, Answered
  <1>n. None \notin DOMAIN sessions  BY <1>t, NoneIsNoSession
  <1>1. /\ rpc \in Rpcs /\ s \in DOMAIN sessions
        /\ Head(sessions[s].outbox).id = rpc.id /\ o \in Outcomes
        /\ o = "ok" => executed[rpc.call] = 1
        /\ sessions' \in Seq(Sessions) /\ DOMAIN sessions' = DOMAIN sessions
        /\ \A t \in DOMAIN sessions : t # s => sessions'[t] = sessions[t]
        /\ sessions[s].inbox = <<>> /\ Quiet(sessions'[s])
        /\ sessions'[s].era = sessions[s].era
        /\ sessions[s].status_ok => sessions'[s].status_ok
        /\ rpc.tool = "status" /\ o = "ok" => sessions'[s].status_ok
    BY AnswerFacts
  <1>2. result'.outcome = "ok" => result'.call \in Serials /\ executed[result'.call] = 1
    <2>1. result' = [call |-> rpc.call, outcome |-> o]  BY <1>1 DEF Answered
    <2>2. rpc.call \in Serials  BY <1>1 DEF Rpcs
    <2> QED  BY <1>1, <2>1, <2>2
  <1>3. /\ \A t \in DOMAIN sessions : sessions'[t].inbox = sessions[t].inbox
        /\ \A t \in DOMAIN sessions :
               /\ sessions'[t].era = sessions[t].era
               /\ sessions[t].status_ok => sessions'[t].status_ok
    BY <1>1 DEF Quiet
  <1>4. CASE creating /\ insert /\ UNCHANGED <<legacy_session, legacy_recovery_required>>
    <2>1. ~Addressed(s)  BY <1>4, <1>t DEF IInv, RpcInv
    <2>2. /\ next' = next + 1 /\ next \notin DOMAIN modern_contexts
          /\ DOMAIN modern_contexts' = DOMAIN modern_contexts \cup {next}
          /\ modern_contexts'[next] = s
          /\ \A c \in DOMAIN modern_contexts : modern_contexts'[c] = modern_contexts[c]
      BY SMTT(60), <1>4, <1>t DEF insert
    <2>3. modern_contexts' \in [DOMAIN modern_contexts' -> DOMAIN sessions]
      BY <1>4, <1>1, <1>t DEF insert, ServerInv
    <2>4. LegacyInv'  BY <1>1, <1>3, <1>4, LegacyKept
    <2>5. \A c, d \in DOMAIN modern_contexts' :
             modern_contexts'[c] = modern_contexts'[d] => c = d
      BY <1>t, <2>1, <2>2 DEF ServerInv, Addressed
    <2>6. \A c \in DOMAIN modern_contexts' : modern_contexts'[c] # legacy_session
      BY <1>t, <2>1, <2>2 DEF ServerInv, Addressed
    <2>7. \A t \in DOMAIN sessions : Addressed(t)' => t = s \/ Addressed(t)
      BY <1>4, <2>2 DEF Addressed
    <2>8. next' \in Nat \ {0} /\ DOMAIN modern_contexts' \subseteq 1 .. next' - 1
      BY SMTT(60), <1>t, <2>2
    <2>9. legacy_recovery_required' \in BOOLEAN  BY <1>4, <1>t DEF ServerInv
    <2> QED
      BY <1>t, <1>1, <1>2, <1>3, <1>4, <2>3, <2>4, <2>5, <2>6, <2>7, <2>8, <2>9, EndIInv
  <1>5. CASE ended /\ UNCHANGED next
    <2>2. /\ legacy_recovery_required' \in BOOLEAN
          /\ legacy_session' \in {legacy_session, None}
          /\ DOMAIN modern_contexts' \subseteq DOMAIN modern_contexts
          /\ modern_contexts' \in [DOMAIN modern_contexts' -> DOMAIN sessions]
          /\ \A d \in DOMAIN modern_contexts' : modern_contexts'[d] = modern_contexts[d]
          /\ \A c \in DOMAIN modern_contexts' : modern_contexts'[c] # legacy_session'
          /\ \A t \in DOMAIN sessions : Addressed(t)' => t # rpc.session /\ Addressed(t)
          /\ legacy_recovery_required' \/ UNCHANGED <<legacy_session, legacy_recovery_required>>
      BY <1>t, <1>5, EndedFacts
    <2>3. LegacyInv'  BY <1>1, <1>3, <2>2, LegacyKept
    <2>4. \A c, d \in DOMAIN modern_contexts' : modern_contexts'[c] = modern_contexts'[d] => c = d
      BY <1>t, <2>2 DEF ServerInv
    <2>5. DOMAIN modern_contexts' \subseteq 1 .. next' - 1 /\ next' \in Nat \ {0}
      BY <1>t, <1>5, <2>2
    <2> QED  BY <1>t, <1>1, <1>2, <1>3, <2>2, <2>3, <2>4, <2>5, EndIInv
  <1>6. CASE /\ legacy_recovery_required' =
                   (legacy_recovery_required /\ ~(rpc.era = "legacy" /\ rpc.tool = "status" /\ o = "ok"))
             /\ UNCHANGED <<legacy_session, modern_contexts, next>>
    <2>1. LegacyInv'
      <3>1. CASE UNCHANGED legacy_recovery_required  BY <1>1, <1>3, <1>6, <3>1, LegacyKept
      <3>2. CASE rpc.era = "legacy" /\ rpc.tool = "status" /\ o = "ok"
        <4>1. legacy_session = s  BY <3>2, <1>t DEF IInv, RpcInv
        <4> QED  BY <1>1, <1>t, <1>n, <1>6, <3>2, <4>1 DEF LegacyInv
      <3> QED  BY <1>6, <1>t, <3>1, <3>2 DEF ServerInv
    <2>2. \A t \in DOMAIN sessions : Addressed(t)' => Addressed(t)  BY <1>6 DEF Addressed
    <2>3. legacy_recovery_required' \in BOOLEAN  BY <1>6, <1>t DEF ServerInv
    <2>4. /\ modern_contexts' \in [DOMAIN modern_contexts' -> DOMAIN sessions]
          /\ \A c, d \in DOMAIN modern_contexts' :
                modern_contexts'[c] = modern_contexts'[d] => c = d
          /\ \A c \in DOMAIN modern_contexts' : modern_contexts'[c] # legacy_session'
      BY <1>6, <1>t DEF ServerInv
    <2> QED  BY <1>t, <1>1, <1>2, <1>3, <1>6, <2>1, <2>2, <2>3, <2>4, EndIInv
  <1> QED  BY <1>1, <1>4, <1>5, <1>6 DEF Answered, Outcomes

\* The companion starts with no connection and no call.
LEMMA InitIInv == Init => IInv
  <1> SUFFICES ASSUME Init PROVE IInv  OBVIOUS
  <1>1. /\ sessions \in Seq(Sessions) /\ DOMAIN sessions = {} /\ DOMAIN modern_contexts = {}
        /\ serial \in 0 .. MaxCalls /\ executed \in [Serials -> {0, 1}]
    BY SMTT(60), CompanionAssumption DEF Init
  <1>2. modern_contexts \in [DOMAIN modern_contexts -> DOMAIN sessions]
    BY SMTT(60), <1>1 DEF Init
  <1>a. next \in Nat \ {0} /\ legacy_session = None /\ rpc = None  BY SMTT(60) DEF Init
  <1>b. legacy_recovery_required \in BOOLEAN  BY DEF Init
  <1>3. ServerInv  BY <1>1, <1>2, <1>a, <1>b DEF ServerInv
  <1>4. RpcInv /\ QuietInv /\ ResultInv /\ LegacyInv
    BY <1>1 DEF Init, RpcInv, QuietInv, ResultInv, LegacyInv
  <1>5. FrameInv  BY <1>1 DEF Init, FrameInv
  <1> QED  BY <1>3, <1>4, <1>5 DEF IInv

\* Every step of the companion and of its providers keeps the invariant.
LEMMA StepIInv ==
    ASSUME IInv, [Next]_vars
    PROVE  IInv'
  <1>1. CASE Handshake \/ UNCHANGED vars
    <2>1. UNCHANGED <<legacy_session, legacy_recovery_required, modern_contexts, next, sessions,
                      rpc, serial, result, executed>>
      BY <1>1 DEF Handshake, vars, server
    <2> QED
      BY <2>1
         DEF IInv, ServerInv, RpcInv, QuietInv, FrameInv, ResultInv, LegacyInv, Addressed,
             Awaits, Quiet
  <1>2. ASSUME NEW tool \in Tools, LegacyCall(tool) PROVE IInv'  BY <1>2, LegacyCallIInv
  <1>3. CASE ModernStatus  BY <1>3, ModernStatusIInv
  <1>4. ASSUME NEW c \in 1 .. next - 1, ModernCall(c) PROVE IInv'
    <2>1. c \in Nat  BY SMTT(60) DEF IInv, ServerInv
    <2> QED  BY <1>4, <2>1, ModernCallIInv
  <1>5. ASSUME NEW s \in DOMAIN sessions, Serve(s) \/ Close(s) PROVE IInv'
    BY <1>5, ServeIInv, CloseIInv
  <1>6. CASE Answered  BY <1>6, AnsweredIInv
  <1>7. CASE Eof  BY <1>7, FailedIInv DEF Eof
  <1>8. CASE TimedOut  BY <1>8, FailedIInv DEF TimedOut
  <1> QED
    BY <1>1, <1>2, <1>3, <1>4, <1>5, <1>6, <1>7, <1>8 DEF Next, Host, ProviderStep, Finish

-----------------------------------------------------------------------------
\* The inductive invariant holds throughout: a connection the host can address carries
\* nothing but the call in progress, and no request exists twice.
THEOREM Inductive == Spec => []IInv
  BY InitIInv, StepIInv, PTL DEF Spec

\* A call is executed at most once, and was executed if the host is told so: a failed
\* call gives up its connection and is not repeated (provider_call_legacy,
\* provider_call_modern).
THEOREM AtMostOnce == Spec => []ExecutedAtMostOnce
  <1>1. IInv => ExecutedAtMostOnce
    BY SMTT(60) DEF IInv, ServerInv, ResultInv, ExecutedAtMostOnce
  <1> QED  BY <1>1, Inductive, PTL

\* A tool that reaches a provider without an end was written by Seat::call.
LEMMA ToolRequest ==
    ASSUME NEW ss, NEW s, NEW era, NEW context, NEW tool, Tool(ss, s, era, context, tool),
           rpc' # None
    PROVE  \E of : Request(ss, s, era, context, tool, of)
  BY DEF Tool, Save, Local

\* After a lost connection the next provider is first asked for its status, in every
\* step of provider_call_legacy.
LEMMA StatusStep ==
    ASSUME IInv, LegacyInv', RpcInv', ServerInv', [Next]_vars, NEW s \in DOMAIN sessions',
           rpc = None, rpc' # None, rpc'.era = "legacy", rpc'.session = s, rpc'.tool # "status",
           NEW t \in 1 .. s - 1, sessions[t].era = "legacy"
    PROVE  sessions'[s].status_ok
  <1>t. ServerInv /\ sessions \in Seq(Sessions) /\ sessions' \in Seq(Sessions)
    BY DEF IInv, ServerInv
  <1>1. legacy_session' = s  BY DEF RpcInv
  <1>2. \E tool \in Tools : LegacyCall(tool)
    <2>1. ~Handshake /\ ~UNCHANGED vars /\ ~Finish /\ ~ProviderStep
      BY DEF Handshake, vars, Finish, ProviderStep, Answered, Eof, TimedOut, Serve, Close
    <2>2. ~ModernStatus
      BY SMTT(60) DEF ModernStatus, Local, Request
    <2>3. ~\E c \in 1 .. next - 1 : ModernCall(c)
      <3> SUFFICES ASSUME NEW c, ModernCall(c) PROVE FALSE  OBVIOUS
      <3>1. PICK tool : Tool(sessions, modern_contexts[c], "modern", c, tool)
        BY DEF ModernCall, Local
      <3>2. PICK of : Request(sessions, modern_contexts[c], "modern", c, tool, of)
        BY <3>1, ToolRequest
      <3> QED  BY <3>2 DEF Request
    <2> QED  BY <2>1, <2>2, <2>3 DEF Next, Host
  <1>3. PICK tool \in Tools : LegacyCall(tool)  BY <1>2
  <1>4. PICK ss, of : /\ Request(ss, s, "legacy", None, tool, of)
                      /\ \/ ss = sessions /\ s \in DOMAIN sessions
                         \/ ss = Opened("legacy") /\ s = Len(sessions) + 1
    <2>1. CASE /\ legacy_session # None /\ legacy_session' = legacy_session
               /\ Tool(sessions, legacy_session, "legacy", None, tool)
      BY <2>1, <1>1, <1>t, ToolRequest DEF ServerInv
    <2>2. CASE /\ legacy_session' = Len(sessions) + 1
               /\ Tool(Opened("legacy"), Len(sessions) + 1, "legacy", None, tool)
      BY <2>2, <1>1, ToolRequest
    <2> QED  BY <1>3, <2>1, <2>2 DEF LegacyCall, Local
  <1>5. rpc'.tool = tool  BY SMTT(60), <1>4 DEF Request
  <1>6. ~legacy_recovery_required'  BY <1>3, <1>5 DEF LegacyCall, Local
  <1>7. t \in DOMAIN sessions /\ t \in DOMAIN sessions' /\ t # s /\ t < s /\ s \in Nat
    BY SMTT(60), <1>4, <1>t
  <1>8. ss[t] = sessions[t] /\ t \in DOMAIN ss
    BY <1>4, <1>7, <1>t, OpenedFacts
  <1>9. sessions'[t].era = "legacy"  BY <1>4, <1>7, <1>8 DEF Request
  <1> QED  BY <1>1, <1>6, <1>7, <1>9 DEF LegacyInv

\* After a lost connection the next provider is first asked for its status
\* (legacy_recovery_required in provider_call_legacy).
THEOREM StatusIsFirst == Spec => StatusComesFirst
  <1>1. IInv /\ IInv' /\ [Next]_vars =>
           [\A s \in DOMAIN sessions' :
              (/\ rpc = None /\ rpc' # None
               /\ rpc'.era = "legacy" /\ rpc'.session = s /\ rpc'.tool # "status")
              => \/ \A t \in 1 .. s - 1 : sessions[t].era # "legacy"
                 \/ sessions'[s].status_ok]_vars
    <2> SUFFICES ASSUME IInv, IInv', [Next]_vars, NEW s \in DOMAIN sessions',
                        rpc = None, rpc' # None, rpc'.era = "legacy", rpc'.session = s,
                        rpc'.tool # "status",
                        NEW t \in 1 .. s - 1, sessions[t].era = "legacy"
                 PROVE  sessions'[s].status_ok
      OBVIOUS
    <2>1. LegacyInv' /\ RpcInv' /\ ServerInv'  BY DEF IInv
    <2> QED  BY <2>1, StatusStep
  <1> QED  BY <1>1, Inductive, PTL DEF Spec, StatusComesFirst

\* A context ends only by its release or with a call of its own, on a connection that is
\* closed or too late (Contexts::remove in provider_call_modern).
THEOREM ContextsAreIndependent == Spec => ContextLasts
  <1>1. IInv /\ [Next]_vars =>
           [\A c \in DOMAIN modern_contexts \ DOMAIN modern_contexts' :
              rpc # None =>
                  /\ c = rpc.context
                  /\ ~sessions[rpc.session].open \/ result'.outcome = "timeout"]_vars
    <2> SUFFICES ASSUME IInv, Next, NEW c \in DOMAIN modern_contexts \ DOMAIN modern_contexts',
                        rpc # None
                 PROVE  /\ c = rpc.context
                        /\ ~sessions[rpc.session].open \/ result'.outcome = "timeout"
      OBVIOUS
    <2>1. ~Host
      BY DEF Host, Handshake, LegacyCall, ModernStatus, ModernCall, Begin
    <2>2. ~ProviderStep  BY DEF ProviderStep, Serve, Close, server
    <2>3. CASE Answered
      <3>1. ended /\ Head(sessions[rpc.session].outbox).outcome = "reconnect"
        <4>1. Head(sessions[rpc.session].outbox).id = rpc.id  BY <2>3, AnswerFacts
        <4>2. Head(sessions[rpc.session].outbox).outcome \in Outcomes  BY <2>3, AnswerFacts
        <4>3. ~insert  BY DEF insert
        <4> QED  BY <2>3, <4>1, <4>2, <4>3 DEF Answered, Outcomes
      <3>2. ~sessions[rpc.session].open  BY <2>3, <3>1, AnswerFacts
      <3> QED  BY <3>1, <3>2, EndedFacts
    <2>4. CASE Eof  BY <2>4, EndedFacts DEF Eof, Failed
    <2>5. CASE TimedOut
      <3>1. ended /\ result'.outcome = "timeout"  BY <2>5 DEF TimedOut, Failed
      <3> QED  BY <3>1, EndedFacts
    <2> QED  BY <2>1, <2>2, <2>3, <2>4, <2>5 DEF Next, Finish
  <1> QED  BY <1>1, Inductive, PTL DEF Spec, ContextLasts
=============================================================================
