--------------------------- MODULE EffectsProofs ---------------------------
(***************************************************************************)
(* Keyboards and effects.  Whatever the keyboard, the stroke that is found *)
(* for a symbol is received as that symbol.  Whatever the windows, texts,  *)
(* keyboards and refusals, input goes to the target and what a session did *)
(* to the X server is undone when its request returns.                     *)
(***************************************************************************)
EXTENDS Effects, FiniteSetTheorems, TLAPS

\* The prover of the leaves that name none, and how long it may take.
USE ZenonT(60)

Keycodes == {Button} \cup UNION {DOMAIN k.keys : k \in Keyboards}
Elements(s) == {s[i] : i \in DOMAIN s}

(* A stroke has been resolved and not begun.                               *)
Ready == op = "key" \/ (op = "insert" /\ stage = "paste")

(* Which request is where.                                                 *)
PlaceInv ==
    /\ pc \in {"create", "claim", "drain", "owner", "answer", "clock", "cleanup"} => op = "insert"
    /\ pc \in {"name", "read", "free"} => op = "capture"
    /\ pc \in {"scan", "reconcile"} => op = "observe"
    /\ pc = "loop" => op = "text"
    /\ pc = "motion" => op \in PointerOps
    /\ pc = "accepts" => op \in KeyboardOps \cup PointerOps /\ stage # "preflight"
    /\ pc = "resolve" => op = "text" \/ Ready
    /\ pc \in {"send", "recover"} => op \in {"text", "click"} \/ Ready
    /\ pc \in {"grab", "check", "ungrab", "next"} => op # "observe"
    /\ op \in Ops /\ stage \in {"preflight", "act", "paste", "evidence", "serve"}
    /\ stage \in {"paste", "evidence", "serve"} => op = "insert"
    /\ stage = "preflight" => op = "text"
    /\ pc \in {"grab", "check"} => stage # "paste"
    /\ pc \in {"claim", "create", "idle"} => stage = "act"

(* What is still to be pressed and released.                               *)
PressInv ==
    /\ pressed \in Seq(Keycodes) /\ held \subseteq Keycodes /\ strike \subseteq Keycodes
    /\ pc \notin {"send", "recover"} => pressed = <<>>
    /\ pc = "recover" => pressed # <<>>
    /\ pc = "send" => strike # {} \/ pressed # <<>>
    /\ pc = "accepts" /\ Ready => strike # {}
    /\ pc # "send" /\ ~ (pc = "accepts" /\ Ready) => strike = {}
    /\ strike = {} => held = {}

(* Whatever is down will be released, unless that is refused.              *)
DownInv == ~ lost /\ "best_effort" \notin refused => down \subseteq Elements(pressed)

ClipboardInv ==
    /\ lost => ~ owned /\ selection # "ours"
    /\ "cleanup" \notin refused /\ (owned \/ selection = "ours") =>
           op = "insert" /\ pc \notin {"idle", "closed", "create"}

CaptureInv ==
    /\ storage \subseteq redirected
    /\ lost => ~ pixmap
    /\ pixmap /\ "free" \notin refused => pc \in {"read", "free"}

(* The target is looked at once in every grab, which keeps it in place.    *)
AimInv ==
    ~ lost /\ pc \in {"check", "accepts", "resolve", "claim", "motion", "send"} =>
        grabbed /\ (pc # "check" => Target \in Scoped /\ aim = Target)

(* The stroke was resolved for the keyboard it is typed on.                *)
ResolvedInv ==
    op \in KeyboardOps /\ strike # {} =>
        /\ keyboard # {}
        /\ \A k \in keyboard :
              /\ IsKeyboard(k)
              /\ Bits(k, down) = Bits(k, Elements(pressed))
              /\ \E s \in resolve_with_modifiers(k, Wanted.symbol, Wanted.modifiers) :
                    strike = {s.key} /\ s.modifiers = held \cup Elements(pressed)

IInv == PlaceInv /\ PressInv /\ DownInv /\ ClipboardInv /\ CaptureInv /\ AimInv /\ ResolvedInv
-----------------------------------------------------------------------------
(* Keyboards *)

(* The group that resolution looks at is the group the server uses         *)
(* (normalized_group).                                                     *)
LEMMA SameGroup ==
    ASSUME NEW key, NEW group \in Nat, key.groups \in Nat, key.redirect \in Nat,
           NEW g \in normalized_group(key, group)
    PROVE  g = ServerGroup(key, group)
  BY SMTT(60) DEF normalized_group, ServerGroup

(* The modifiers of two sets of keys are those of the first and those of   *)
(* the second (modifier bits are or-ed together).                          *)
LEMMA BitsUnion ==
    ASSUME NEW k, NEW S, NEW T
    PROVE  Bits(k, S \cup T) = Bits(k, S) \cup Bits(k, T)
  BY DEF Bits

(* A modifier the type does not use never changes the level, so the search *)
(* for the shortest way to a level holds no key for one                    *)
(* (modifiers_for_level, level_for_modifiers).                             *)
LEMMA NoIdleModifier ==
    ASSUME NEW k, NEW t, NEW level, NEW current, IsFiniteSet(DOMAIN k.modmap),
           NEW S \in modifiers_for_level(k, t, level, current)
    PROVE  Bits(k, S) \subseteq t.mask
  <1> DEFINE T == {c \in S : k.modmap[c] \subseteq t.mask}
  <1>1. S \subseteq momentary_modifier_keys(k) /\ S \subseteq DOMAIN k.modmap
    BY DEF modifiers_for_level, Reaching, momentary_modifier_keys, Bearers
  <1>2. \A c \in S : \E b : k.modmap[c] = {b}
    BY <1>1 DEF momentary_modifier_keys, Bearers
  <1>3. (current \cup Bits(k, T)) \cap t.mask = (current \cup Bits(k, S)) \cap t.mask
    BY SMTT(60), <1>1, <1>2 DEF Bits
  <1>4. level_for_modifiers(t, current \cup Bits(k, T)) = level
    <2>1. level_for_modifiers(t, current \cup Bits(k, S)) = level
      BY DEF modifiers_for_level, Reaching
    <2> QED  BY <1>3, <2>1 DEF level_for_modifiers
  <1>5. T \in Reaching(k, t, level, current)
    BY <1>1, <1>4 DEF Reaching
  <1>6. Shorter(k, S, T, current)
    BY <1>5 DEF modifiers_for_level
  <1>7. IsFiniteSet(S)
    BY <1>1, FS_Subset
  <1>8. T \subseteq S
    OBVIOUS
  <1>9. T = S
    <2>1. Cardinality(S) \in Nat /\ Cardinality(T) \in Nat
      BY <1>7, <1>8, FS_Subset, FS_CardinalityType
    <2>2. Cardinality(S) <= Cardinality(T)
      BY SMTT(60), <1>6, <2>1 DEF Shorter
    <2> QED  BY SMTT(60), <1>7, <1>8, <2>1, <2>2, FS_Subset
  <1> QED  BY <1>1, <1>9 DEF Bits

(* A set of numbers has a least one: what First chooses is in the set.     *)
LEMMA FirstIsLeast ==
    ASSUME NEW S, S \subseteq Nat, S # {}
    PROVE  First(S) \in S
  <1> DEFINE Below == {p \in Nat \X Nat : p[1] < p[2]}
  <1>1. IsWellFoundedOn(Below, Nat)
    BY NatLessThanWellFounded DEF OpToRel
  <1> HIDE DEF Below
  <1>2. PICK n \in S : \A m \in S : ~ (<<m, n>> \in Below)
    BY <1>1, WFMin
  <1>3. \A m \in S : ~ (m < n)
    BY <1>2 DEF Below
  <1>4. \A m \in S : n <= m
    BY SMTT(60), <1>3
  <1> QED  BY <1>4 DEF First

(* For every keyboard, symbol and set of requested modifiers, the key that *)
(* resolution chooses, pressed while the modifier keys it chooses are held, *)
(* is received as the wanted symbol with the requested modifiers and none  *)
(* besides but a lock (resolve_with_modifiers).                            *)
THEOREM StrokeMeansWhatWasAsked ==
    ASSUME NEW k, IsKeyboard(k), NEW wanted, NEW requested,
           NEW s \in resolve_with_modifiers(k, wanted, requested)
    PROVE  Means(k, s.modifiers, s.key, wanted, requested)
  <1> DEFINE asked == requested_keys(k, requested)
             current == mods(k) \cup Bits(k, asked)
  <1>1. s \in AllStrokes(k, wanted, requested)
    BY DEF resolve_with_modifiers
  <1>2. PICK c \in DOMAIN k.keys :
            \E g \in normalized_group(k.keys[c], k.group) : s \in Strokes(k, wanted, requested, c, g)
    BY SMTT(60), <1>1 DEF AllStrokes
  <1>3. PICK g \in normalized_group(k.keys[c], k.group) : s \in Strokes(k, wanted, requested, c, g)
    BY <1>2
  <1> DEFINE key == k.keys[c]
             t == key.types[g]
  <1>4. current \ (t.mask \cup safe_locked_modifiers(k) \cup Bits(k, asked)) = {}
    BY <1>3 DEF Strokes
  <1>5a. PICK l \in 0..(key.width - 1) :
            /\ key.syms[g][l] = wanted
            /\ \E S \in modifiers_for_level(k, t, l, current) :
                   s = [key |-> c, modifiers |-> asked \cup S]
    BY <1>3, <1>4 DEF Strokes
  <1>5b. PICK S \in modifiers_for_level(k, t, l, current) :
            s = [key |-> c, modifiers |-> asked \cup S]
    BY <1>5a
  <1>5. s.key = c /\ s.modifiers = asked \cup S
    BY <1>5b
  <1>6. Held(k, s.modifiers) = current \cup Bits(k, S)
    BY SMTT(60), <1>5, BitsUnion DEF Held
  <1>7. level_for_modifiers(t, Held(k, s.modifiers)) = l
    BY <1>5, <1>6 DEF modifiers_for_level, Reaching
  <1>8. g = ServerGroup(key, k.group)
    BY SameGroup DEF IsKeyboard
  <1>9. Received(k, s.modifiers, s.key).symbol = wanted
    <2>1. l < key.width
      BY SMTT(60) DEF IsKeyboard
    <2> QED  BY <1>5, <1>5a, <1>7, <1>8, <2>1 DEF Received
  <1>10. Received(k, s.modifiers, s.key).modifiers \subseteq Bits(k, asked) \cup LockBits(k)
    <2>1. Received(k, s.modifiers, s.key).modifiers = Held(k, s.modifiers) \ t.mask
      BY <1>5, <1>8 DEF Received
    <2>2. Bits(k, S) \subseteq t.mask
      BY <1>5, NoIdleModifier DEF IsKeyboard
    <2> QED  BY <1>4, <1>6, <2>1, <2>2 DEF safe_locked_modifiers
  <1>11. Bits(k, asked) \subseteq Held(k, s.modifiers)
    BY <1>6
  <1> QED  BY <1>9, <1>10, <1>11 DEF Means

-----------------------------------------------------------------------------
(* Strokes *)

(* A stroke presses keys of the keyboard, each of them by its number       *)
(* (resolve_with_modifiers, modifier_key, momentary_modifier_keys).        *)
LEMMA StrokeKeys ==
    ASSUME NEW k, IsKeyboard(k), NEW wanted, NEW requested,
           NEW s \in resolve_with_modifiers(k, wanted, requested)
    PROVE  s.key \in DOMAIN k.keys /\ s.modifiers \subseteq DOMAIN k.keys
  <1>1. s \in AllStrokes(k, wanted, requested) /\ Requestable(k, requested)
    BY DEF resolve_with_modifiers
  <1>2. \A symbols : Bearers(k, symbols) \subseteq DOMAIN k.keys
    BY DEF Bearers, key_has_any_symbol
  <1>3. requested_keys(k, requested) \subseteq DOMAIN k.keys
    <2>1. SUFFICES ASSUME NEW m \in requested
                   PROVE  modifier_key(k, m) \in DOMAIN k.keys
      BY DEF requested_keys
    <2>2. Bearers(k, ModifierSymbols(m)) # {}
      BY <1>1 DEF Requestable
    <2>3. Bearers(k, ModifierSymbols(m)) \subseteq Nat
      BY <1>2 DEF IsKeyboard
    <2>4. First(Bearers(k, ModifierSymbols(m))) \in Bearers(k, ModifierSymbols(m))
      BY <2>2, <2>3, FirstIsLeast
    <2> QED  BY <1>2, <2>4 DEF modifier_key
  <1>4. momentary_modifier_keys(k) \subseteq DOMAIN k.keys
    BY <1>2 DEF momentary_modifier_keys
  <1>5. PICK c \in DOMAIN k.keys :
            \E g \in normalized_group(k.keys[c], k.group) : s \in Strokes(k, wanted, requested, c, g)
    BY SMTT(60), <1>1 DEF AllStrokes
  <1>6. PICK g : s \in Strokes(k, wanted, requested, c, g)
    BY <1>5
  <1>7. \E t, l, current : \E S \in modifiers_for_level(k, t, l, current) :
            s = [key |-> c, modifiers |-> requested_keys(k, requested) \cup S]
    BY SMTT(60), <1>6 DEF Strokes
  <1>8. PICK t, l, current, S \in SUBSET momentary_modifier_keys(k) :
            s = [key |-> c, modifiers |-> requested_keys(k, requested) \cup S]
    BY <1>7 DEF modifiers_for_level, Reaching
  <1> QED  BY <1>3, <1>4, <1>8

(* What is received depends on the modifiers of the keys that are down and *)
(* not on the keys (the server's state).                                   *)
LEMMA MeansByBits ==
    ASSUME NEW k, NEW d, NEW e, Bits(k, d) = Bits(k, e), NEW c, NEW wanted, NEW requested,
           Means(k, d, c, wanted, requested)
    PROVE  Means(k, e, c, wanted, requested)
  BY DEF Means, Received, Held

(* Keys that are down count as modifiers of the keyboard that is shown; a  *)
(* keyboard on which a stroke is found shows none (resolve_with_modifiers).*)
LEMMA LiveFacts ==
    ASSUME NEW k \in Keyboards, NEW wanted, NEW requested,
           NEW s \in resolve_with_modifiers(Live(k), wanted, requested)
    PROVE  IsKeyboard(Live(k)) /\ Live(k).keys = k.keys /\ Bits(Live(k), down) = {}
  <1>1. IsKeyboard(k)
    BY EffectsAssumption
  <1> DEFINE b == k.base \cup Bits(k, down)
  <1>2. Live(k) = [k EXCEPT !.base = b]
    BY DEF Live
  <1> HIDE DEF b
  <1>3. Live(k) = [keys |-> k.keys, modmap |-> k.modmap, base |-> b, latched |-> k.latched,
                   locked |-> k.locked, group |-> k.group, shifted |-> k.shifted]
    BY <1>1, <1>2 DEF IsKeyboard
  <1>4. IsKeyboard(Live(k)) /\ Live(k).keys = k.keys
    BY SMTT(60), <1>1, <1>3 DEF IsKeyboard
  <1>5. Live(k).base = {}
    BY DEF resolve_with_modifiers, Undisturbed
  <1>6. Bits(k, down) = {}
    BY SMTT(60), <1>3, <1>5 DEF b
  <1>7. Bits(Live(k), down) = Bits(k, down)
    BY SMTT(60), <1>3 DEF Bits
  <1> QED  BY <1>4, <1>6, <1>7

(* What a press puts on the stack.                                         *)
LEMMA PushFacts ==
    ASSUME NEW S, NEW p \in Seq(S), NEW c \in S
    PROVE  /\ <<c>> \o p \in Seq(S) /\ <<c>> \o p # <<>>
           /\ Elements(<<c>> \o p) = Elements(p) \cup {c}
  <1> DEFINE q == <<c>> \o p
  <1>1. q \in Seq(S) /\ Len(q) = Len(p) + 1 /\ q # <<>>  BY SMTT(60)
  <1>2. q[1] = c /\ \A i \in 1 .. Len(p) : q[i + 1] = p[i]  BY SMTT(60)
  <1>3. DOMAIN q = 1 .. Len(p) + 1 /\ DOMAIN p = 1 .. Len(p) /\ Len(p) \in Nat
    BY SMTT(60), <1>1
  <1> HIDE DEF q
  <1>4. Elements(q) \subseteq Elements(p) \cup {c}
    <2> SUFFICES ASSUME NEW i \in DOMAIN q  PROVE  q[i] \in Elements(p) \cup {c}
      BY DEF Elements
    <2>1. i = 1 \/ (i - 1 \in DOMAIN p /\ q[(i - 1) + 1] = p[i - 1])
      BY SMTT(60), <1>2, <1>3
    <2> QED  BY SMTT(60), <1>2, <1>3, <2>1 DEF Elements
  <1>5. Elements(p) \cup {c} \subseteq Elements(q)
    <2>1. c \in Elements(q)  BY SMTT(60), <1>2, <1>3 DEF Elements
    <2>2. \A i \in DOMAIN p : i + 1 \in DOMAIN q /\ p[i] = q[i + 1]  BY SMTT(60), <1>2, <1>3
    <2> QED  BY <2>1, <2>2 DEF Elements
  <1> QED  BY <1>1, <1>4, <1>5 DEF q

(* What a release takes from the stack.                                    *)
LEMMA PopFacts ==
    ASSUME NEW S, NEW p \in Seq(S), p # <<>>
    PROVE  /\ Head(p) \in S /\ Tail(p) \in Seq(S)
           /\ Len(p) = 1 <=> Tail(p) = <<>>
           /\ Elements(p) = Elements(Tail(p)) \cup {Head(p)}
  <1>1. Head(p) \in S /\ Tail(p) \in Seq(S)  BY SMTT(60)
  <1>2. Len(p) = 1 <=> Tail(p) = <<>>
    <2>1. Len(p) \in Nat /\ Len(p) # 0 /\ Len(Tail(p)) = Len(p) - 1  BY SMTT(60)
    <2>2. \A t \in Seq(S) : Len(t) = 0 <=> t = <<>>  BY SMTT(60)
    <2> DEFINE t == Tail(p)
    <2>3. t \in Seq(S) /\ Len(p) \in Nat /\ Len(t) = Len(p) - 1  BY <1>1, <2>1
    <2> HIDE DEF t
    <2>4. Len(p) = 1 <=> Len(t) = 0  BY SMTT(60), <2>3
    <2>5. Len(t) = 0 <=> t = <<>>  BY <2>2, <2>3, Zenon
    <2> QED  BY <2>4, <2>5, Zenon DEF t
  <1> DEFINE q == Tail(p)
  <1>3. /\ Len(p) \in Nat /\ Len(p) >= 1 /\ p[1] = Head(p)
        /\ DOMAIN p = 1 .. Len(p) /\ DOMAIN q = 1 .. Len(p) - 1
        /\ \A i \in 1 .. Len(p) - 1 : q[i] = p[i + 1]
    BY SMTT(60)
  <1> HIDE DEF q
  <1>4. Elements(p) \subseteq Elements(q) \cup {Head(p)}
    <2> SUFFICES ASSUME NEW i \in DOMAIN p  PROVE  p[i] \in Elements(q) \cup {Head(p)}
      BY DEF Elements
    <2>1. i = 1 \/ (i - 1 \in DOMAIN q /\ q[i - 1] = p[(i - 1) + 1])  BY SMTT(60), <1>3
    <2> QED  BY SMTT(60), <1>3, <2>1 DEF Elements
  <1>5. Elements(q) \cup {Head(p)} \subseteq Elements(p)
    <2>1. Head(p) \in Elements(p)  BY SMTT(60), <1>3 DEF Elements
    <2>2. \A i \in DOMAIN q : i + 1 \in DOMAIN p /\ q[i] = p[i + 1]  BY SMTT(60), <1>3
    <2> QED  BY <2>1, <2>2 DEF Elements
  <1> QED  BY <1>1, <1>2, <1>4, <1>5 DEF q

(* Nothing is on an empty stack.                                           *)
LEMMA NothingPressed == Elements(<<>>) = {}
  BY SMTT(60) DEF Elements

-----------------------------------------------------------------------------
(* Steps *)

(* A step of the session or of the world, by name.                         *)
Pressing == \E c \in Pressable : Press(c)
Beginning == \E o \in Ops : Begin(o)

(* Every request starts and goes on where its handler says.                *)
LEMMA PlaceStep ==
    ASSUME PlaceInv, [Next]_vars
    PROVE  PlaceInv'
  <1> USE DEF PlaceInv, Ready, Ops, KeyboardOps, PointerOps
  <1>1. CASE Acquire  BY <1>1 DEF Acquire
  <1>2. CASE Release  BY <1>2 DEF Release
  <1>3. CASE Check  BY <1>3 DEF Check, Return, Silent
  <1>4. CASE Accepts  BY <1>4 DEF Accepts, Return, Silent
  <1>5. CASE Resolve  BY <1>5 DEF Resolve, Return, Silent, type_key
  <1>6. CASE Move  BY <1>6 DEF Move, Return, Silent, click_button, type_key
  <1>7. CASE Pressing  BY <1>7 DEF Pressing, Press
  <1>8. CASE Unpress  BY <1>8 DEF Unpress, Return, Silent
  <1>9. CASE SendFails  BY <1>9 DEF SendFails
  <1>10. CASE BestEffortRelease  BY <1>10 DEF BestEffortRelease
  <1>11. CASE create_transfer_owner  BY <1>11 DEF create_transfer_owner, Reply, Silent
  <1>12. CASE claim_transfer_selection
    BY <1>12 DEF claim_transfer_selection, Return, Silent
  <1>13. CASE Drain  BY <1>13 DEF Drain, Finish
  <1>14. CASE Owner  BY <1>14 DEF Owner, Return, Silent
  <1>15. CASE Answer  BY <1>15 DEF Answer, Return, Silent
  <1>16. CASE Clock  BY <1>16 DEF Clock, Finish
  <1>17. CASE release_transfer_owner  BY <1>17 DEF release_transfer_owner, Reply, Silent
  <1>18. CASE NamePixmap  BY <1>18 DEF NamePixmap, Return, Silent
  <1>19. CASE ReadPixmap  BY <1>19 DEF ReadPixmap
  <1>20. CASE FreePixmap  BY <1>20 DEF FreePixmap, Return, Silent
  <1>21. CASE Scan  BY <1>21 DEF Scan, Reply, Silent
  <1>22. CASE Reconcile  BY <1>22 DEF Reconcile, Reply, Silent
  <1>23. CASE NextStep
    BY <1>23 DEF NextStep, NextText, NextInsert, NextAction, Finish, Reply, Silent
  <1>24. CASE Loop  BY <1>24 DEF Loop, Reply, Silent
  <1>25. CASE World
    BY <1>25
       DEF World, Cover, Restate, Arrive, Take, Settle, Expire, Disable, Break, control
  <1>26. CASE Drop  BY <1>26 DEF Drop
  <1>27. CASE Beginning  BY <1>27 DEF Beginning, Begin
  <1>28. CASE UNCHANGED vars  BY <1>28 DEF vars, control
  <1> QED
    BY <1>1, <1>2, <1>3, <1>4, <1>5, <1>6, <1>7, <1>8, <1>9, <1>10, <1>11, <1>12, <1>13,
       <1>14, <1>15, <1>16, <1>17, <1>18, <1>19, <1>20, <1>21, <1>22, <1>23, <1>24, <1>25,
       <1>26, <1>27, <1>28
       DEF Next, Provider, Pressing, Beginning

(* The clipboard is taken by an insertion alone, and every way out of one  *)
(* goes through release_transfer_owner.                                    *)
LEMMA ClipboardStep ==
    ASSUME PlaceInv, ClipboardInv, [Next]_vars
    PROVE  ClipboardInv'
  <1> USE DEF ClipboardInv, PlaceInv
  <1>1. CASE Acquire  BY <1>1 DEF Acquire, server
  <1>2. CASE Release  BY <1>2 DEF Release, server
  <1>3. CASE Check
    BY SMTT(60), <1>3 DEF Check, Return, Silent, Reconciled, ReconcileFails, Refuse, server
  <1>4. CASE Accepts  BY <1>4 DEF Accepts, Return, Silent, server
  <1>5. CASE Resolve  BY <1>5 DEF Resolve, Return, Silent, type_key, server
  <1>6. CASE Move
    BY SMTT(60), <1>6 DEF Move, Return, Silent, click_button, type_key, Refuse, server
  <1>7. CASE Pressing  BY <1>7 DEF Pressing, Press, Pressable, server, server
  <1>8. CASE Unpress  BY <1>8 DEF Unpress, Return, Silent, server
  <1>9. CASE SendFails  BY SMTT(60), <1>9 DEF SendFails, Refuse, server
  <1>10. CASE BestEffortRelease  BY SMTT(60), <1>10 DEF BestEffortRelease, Refuse, server
  <1>11. CASE create_transfer_owner
    BY SMTT(60), <1>11 DEF create_transfer_owner, Reply, Silent, Refuse, server
  <1>12. CASE claim_transfer_selection
    BY SMTT(60), <1>12 DEF claim_transfer_selection, Return, Silent, Refuse, server
  <1>13. CASE Drain  BY <1>13 DEF Drain, Finish, server
  <1>14. CASE Owner  BY <1>14 DEF Owner, Return, Silent, server
  <1>15. CASE Answer  BY SMTT(60), <1>15 DEF Answer, Return, Silent, Refuse, server
  <1>16. CASE Clock  BY <1>16 DEF Clock, Finish, server
  <1>17. CASE release_transfer_owner
    BY SMTT(60), <1>17 DEF release_transfer_owner, Reply, Silent, Refuse, server, Cleared
  <1>18. CASE NamePixmap  BY SMTT(60), <1>18 DEF NamePixmap, Return, Silent, Refuse, server
  <1>19. CASE ReadPixmap  BY <1>19 DEF ReadPixmap, server
  <1>20. CASE FreePixmap  BY SMTT(60), <1>20 DEF FreePixmap, Return, Silent, Refuse, server
  <1>21. CASE Scan  BY <1>21 DEF Scan, Reply, Silent, server
  <1>22. CASE Reconcile
    BY SMTT(60), <1>22
       DEF Reconcile, Reply, Silent, Reconciled, ReconcileFails, Refuse, server
  <1>23. CASE NextStep
    BY <1>23 DEF NextStep, NextText, NextInsert, NextAction, Finish, Reply, Silent, server
  <1>24. CASE Loop  BY <1>24 DEF Loop, Reply, Silent, server
  <1>25. CASE World
    BY SMTT(60), <1>25
       DEF World, Cover, Restate, Arrive, Take, Settle, Expire, Disable, Break,
           Disconnected, control, server
  <1>26. CASE Drop  BY <1>26 DEF Drop, Disconnected, server
  <1>27. CASE Beginning  BY SMTT(60), <1>27 DEF Beginning, Begin, server, server
  <1>28. CASE UNCHANGED vars  BY <1>28 DEF vars, control, capture, desk, server
  <1> QED
    BY <1>1, <1>2, <1>3, <1>4, <1>5, <1>6, <1>7, <1>8, <1>9, <1>10, <1>11, <1>12, <1>13,
       <1>14, <1>15, <1>16, <1>17, <1>18, <1>19, <1>20, <1>21, <1>22, <1>23, <1>24, <1>25,
       <1>26, <1>27, <1>28
       DEF Next, Provider, Pressing, Beginning

(* A window is redirected and remembered in one step, and a pixmap lives   *)
(* in read_redirected_pixmap alone.                                        *)
LEMMA CaptureStep ==
    ASSUME CaptureInv, [Next]_vars
    PROVE  CaptureInv'
  <1> USE DEF CaptureInv
  <1>1. CASE Acquire  BY <1>1 DEF Acquire, server, capture
  <1>2. CASE Release  BY <1>2 DEF Release, server, capture
  <1>3. CASE Check
    BY SMTT(60), <1>3
       DEF Check, Return, Silent, Reconciled, ReconcileFails, Refuse, server, capture,
           Redirect
  <1>4. CASE Accepts  BY <1>4 DEF Accepts, Return, Silent, server, capture
  <1>5. CASE Resolve  BY <1>5 DEF Resolve, Return, Silent, type_key, server, capture
  <1>6. CASE Move
    BY SMTT(60), <1>6
       DEF Move, Return, Silent, click_button, type_key, Refuse, server, capture
  <1>7. CASE Pressing  BY <1>7 DEF Pressing, Press, Pressable, server, server, capture
  <1>8. CASE Unpress  BY <1>8 DEF Unpress, Return, Silent, server, capture
  <1>9. CASE SendFails  BY SMTT(60), <1>9 DEF SendFails, Refuse, server, capture
  <1>10. CASE BestEffortRelease
    BY SMTT(60), <1>10 DEF BestEffortRelease, Refuse, server, capture
  <1>11. CASE create_transfer_owner
    BY SMTT(60), <1>11 DEF create_transfer_owner, Reply, Silent, Refuse, server, capture
  <1>12. CASE claim_transfer_selection
    BY SMTT(60), <1>12 DEF claim_transfer_selection, Return, Silent, Refuse, server, capture
  <1>13. CASE Drain  BY <1>13 DEF Drain, Finish, server, capture
  <1>14. CASE Owner  BY <1>14 DEF Owner, Return, Silent, server, capture
  <1>15. CASE Answer  BY SMTT(60), <1>15 DEF Answer, Return, Silent, Refuse, server, capture
  <1>16. CASE Clock  BY <1>16 DEF Clock, Finish, server, capture
  <1>17. CASE release_transfer_owner
    BY SMTT(60), <1>17 DEF release_transfer_owner, Reply, Silent, Refuse, server, capture
  <1>18. CASE NamePixmap
    BY SMTT(60), <1>18 DEF NamePixmap, Return, Silent, Refuse, server, capture
  <1>19. CASE ReadPixmap  BY <1>19 DEF ReadPixmap, server, capture
  <1>20. CASE FreePixmap
    BY SMTT(60), <1>20 DEF FreePixmap, Return, Silent, Refuse, server, capture
  <1>21. CASE Scan  BY <1>21 DEF Scan, Reply, Silent, server, capture
  <1>22. CASE Reconcile
    BY SMTT(60), <1>22
       DEF Reconcile, Reply, Silent, Reconciled, ReconcileFails, Refuse, server, capture,
           Redirect
  <1>23. CASE NextStep
    BY <1>23
       DEF NextStep, NextText, NextInsert, NextAction, Finish, Reply, Silent, server,
           capture
  <1>24. CASE Loop  BY <1>24 DEF Loop, Reply, Silent, server, capture
  <1>25. CASE World
    BY SMTT(60), <1>25
       DEF World, Cover, Restate, Arrive, Take, Settle, Expire, Disable, Break,
           Disconnected, control, server, capture
  <1>26. CASE Drop  BY <1>26 DEF Drop, Disconnected, server
  <1>27. CASE Beginning  BY SMTT(60), <1>27 DEF Beginning, Begin, server, server, capture
  <1>28. CASE UNCHANGED vars  BY <1>28 DEF vars, control, capture, desk, server
  <1> QED
    BY <1>1, <1>2, <1>3, <1>4, <1>5, <1>6, <1>7, <1>8, <1>9, <1>10, <1>11, <1>12, <1>13,
       <1>14, <1>15, <1>16, <1>17, <1>18, <1>19, <1>20, <1>21, <1>22, <1>23, <1>24, <1>25,
       <1>26, <1>27, <1>28
       DEF Next, Provider, Pressing, Beginning

(* Nothing moves while the server is grabbed (under_server_grab).          *)
LEMMA AimStep ==
    ASSUME PlaceInv, AimInv, [Next]_vars
    PROVE  AimInv'
  <1> USE DEF PlaceInv, AimInv, Scoped, KeyboardOps, PointerOps
  <1>1. CASE Acquire  BY <1>1 DEF Acquire, server, desk
  <1>2. CASE Release  BY <1>2 DEF Release, server, desk
  <1>3. CASE Check
    <2>1. CASE pc' = "ungrab"  BY <2>1
    <2>2. CASE pc' # "ungrab"
      <3>1. \/ Aimed /\ op # "capture" /\ UNCHANGED <<server, desk, op>>
            \/ pc' = "name"
        BY <1>3, <2>2 DEF Check, Return, Reconciled
      <3> QED  BY <1>3, <3>1 DEF Check, Aimed, Ops, server, desk
    <2> QED  BY <2>1, <2>2
  <1>4. CASE Accepts  BY <1>4 DEF Accepts, Return, Silent, server, desk
  <1>5. CASE Resolve  BY <1>5 DEF Resolve, Return, Silent, type_key, server, desk
  <1>6. CASE Move
    BY <1>6 DEF Move, Return, Silent, click_button, type_key, Refuse, server, desk
  <1>7. CASE Pressing  BY <1>7 DEF Pressing, Press, Pressable, server, server, desk
  <1>8. CASE Unpress  BY <1>8 DEF Unpress, Return, Silent, server, desk
  <1>9. CASE SendFails  BY <1>9 DEF SendFails, Refuse, server, desk
  <1>10. CASE BestEffortRelease  BY <1>10 DEF BestEffortRelease, Refuse, server, desk
  <1>11. CASE create_transfer_owner
    BY <1>11 DEF create_transfer_owner, Reply, Silent, Refuse, server, desk
  <1>12. CASE claim_transfer_selection
    BY <1>12 DEF claim_transfer_selection, Return, Silent, Refuse, server, desk
  <1>13. CASE Drain  BY <1>13 DEF Drain, Finish, server, desk
  <1>14. CASE Owner  BY <1>14 DEF Owner, Return, Silent, server, desk
  <1>15. CASE Answer  BY <1>15 DEF Answer, Return, Silent, Refuse, server, desk
  <1>16. CASE Clock  BY <1>16 DEF Clock, Finish, server, desk
  <1>17. CASE release_transfer_owner
    BY <1>17 DEF release_transfer_owner, Reply, Silent, Refuse, server, desk
  <1>18. CASE NamePixmap  BY <1>18 DEF NamePixmap, Return, Silent, Refuse, server, desk
  <1>19. CASE ReadPixmap  BY <1>19 DEF ReadPixmap, server, desk
  <1>20. CASE FreePixmap  BY <1>20 DEF FreePixmap, Return, Silent, Refuse, server, desk
  <1>21. CASE Scan  BY <1>21 DEF Scan, Reply, Silent, server, desk
  <1>22. CASE Reconcile
    BY <1>22 DEF Reconcile, Reply, Silent, Reconciled, ReconcileFails, Refuse, server, desk
  <1>23. CASE NextStep
    BY <1>23
       DEF NextStep, NextText, NextInsert, NextAction, Finish, Reply, Silent, server, desk
  <1>24. CASE Loop  BY <1>24 DEF Loop, Reply, Silent, server, desk
  <1>25. CASE World
    BY <1>25
       DEF World, Cover, Restate, Arrive, Take, Settle, Expire, Disable, Break,
           Disconnected, control, server, desk, Ungrabbed, Scoped
  <1>26. CASE Drop  BY <1>26 DEF Drop, server, desk
  <1>27. CASE Beginning  BY <1>27 DEF Beginning, Begin, server, server, desk
  <1>28. CASE UNCHANGED vars  BY <1>28 DEF vars, control, capture, desk, server
  <1> QED
    BY <1>1, <1>2, <1>3, <1>4, <1>5, <1>6, <1>7, <1>8, <1>9, <1>10, <1>11, <1>12, <1>13,
       <1>14, <1>15, <1>16, <1>17, <1>18, <1>19, <1>20, <1>21, <1>22, <1>23, <1>24, <1>25,
       <1>26, <1>27, <1>28
       DEF Next, Provider, Pressing, Beginning

(* A stroke is resolved before it is sent, and sent with what it releases  *)
(* (type_key).                                                             *)
LEMMA PressStep ==
    ASSUME PlaceInv, PlaceInv', PressInv, [Next]_vars
    PROVE  PressInv'
  <1> USE DEF PlaceInv, PressInv, Ready, NoKey, Ops, KeyboardOps, PointerOps
  <1>e. <<>> \in Seq(Keycodes)  BY SMTT(60)
  <1>1. CASE Acquire  BY <1>1 DEF Acquire, script
  <1>2. CASE Release  BY <1>2 DEF Release, script
  <1>3. CASE Check  BY <1>3, <1>e DEF Check, Return, Silent, script
  <1>4. CASE Accepts  BY <1>4, <1>e DEF Accepts, Return, Silent, script
  <1>5. CASE Resolve
    <2>1. CASE pc' = "ungrab"
      BY <1>5, <2>1, <1>e DEF Resolve, Return, Silent, type_key, script
    <2>2. CASE pc' # "ungrab"
      <3>1. PICK k \in Keyboards :
               \E s \in resolve_with_modifiers(Live(k), Wanted.symbol, Wanted.modifiers) :
                   type_key(s)
        BY <1>5, <2>2 DEF Resolve, Return
      <3>2. PICK s \in resolve_with_modifiers(Live(k), Wanted.symbol, Wanted.modifiers) :
                   type_key(s)
        BY <3>1
      <3>3. s.key \in DOMAIN k.keys /\ s.modifiers \subseteq DOMAIN k.keys
        BY LiveFacts, StrokeKeys
      <3>4. s.key \in Keycodes /\ s.modifiers \subseteq Keycodes  BY <3>3 DEF Keycodes
      <3> QED  BY <1>5, <1>e, <2>2, <3>2, <3>4 DEF Resolve, Return, type_key
    <2> QED  BY <2>1, <2>2
  <1>6. CASE Move
    <2>1. Button \in Keycodes  BY DEF Keycodes
    <2> QED
      BY <1>6, <1>e, <2>1
         DEF Move, Return, Silent, click_button, type_key, script, PointerOps
  <1>7. CASE Pressing
    <2>1. PICK c \in Pressable : Press(c)  BY <1>7 DEF Pressing
    <2>2. c \in Keycodes  BY DEF Pressable
    <2>3. <<c>> \o pressed \in Seq(Keycodes) /\ <<c>> \o pressed # <<>>  BY <2>2, PushFacts
    <2> QED  BY <2>1, <2>3 DEF Press, Pressable
  <1>8. CASE Unpress
    <2>1. strike = {} /\ pressed # <<>>  BY <1>8 DEF Unpress, Pressable
    <2>2. Tail(pressed) \in Seq(Keycodes) /\ (Len(pressed) = 1 <=> Tail(pressed) = <<>>)
      BY <2>1, PopFacts
    <2> QED  BY <1>8, <1>e, <2>1, <2>2 DEF Unpress, Return, Silent
  <1>9. CASE SendFails  BY <1>9 DEF SendFails, script
  <1>10. CASE BestEffortRelease
    <2>1. Tail(pressed) \in Seq(Keycodes) /\ (Len(pressed) = 1 <=> Tail(pressed) = <<>>)
      BY <1>10, PopFacts DEF BestEffortRelease
    <2> QED  BY <1>10, <2>1 DEF BestEffortRelease
  <1>11. CASE create_transfer_owner
    BY <1>11, <1>e DEF create_transfer_owner, Reply, Silent, script
  <1>12. CASE claim_transfer_selection
    BY <1>12, <1>e DEF claim_transfer_selection, Return, Silent, script
  <1>13. CASE Drain  BY <1>13 DEF Drain, Finish, script
  <1>14. CASE Owner  BY <1>14, <1>e DEF Owner, Return, Silent, script
  <1>15. CASE Answer  BY <1>15, <1>e DEF Answer, Return, Silent, script
  <1>16. CASE Clock  BY <1>16 DEF Clock, Finish, script
  <1>17. CASE release_transfer_owner
    BY <1>17, <1>e DEF release_transfer_owner, Reply, Silent, script
  <1>18. CASE NamePixmap  BY <1>18, <1>e DEF NamePixmap, Return, Silent, script
  <1>19. CASE ReadPixmap  BY <1>19 DEF ReadPixmap, script
  <1>20. CASE FreePixmap  BY <1>20, <1>e DEF FreePixmap, Return, Silent, script
  <1>21. CASE Scan  BY <1>21, <1>e DEF Scan, Reply, Silent, script
  <1>22. CASE Reconcile  BY <1>22, <1>e DEF Reconcile, Reply, Silent, script
  <1>23. CASE NextStep
    BY <1>23, <1>e
       DEF NextStep, NextText, NextInsert, NextAction, Finish, Reply, Silent, script
  <1>24. CASE Loop  BY <1>24, <1>e DEF Loop, Reply, Silent, script
  <1>25. CASE World
    BY <1>25
       DEF World, Cover, Restate, Arrive, Take, Settle, Expire, Disable, Break, control,
           script, script
  <1>26. CASE Drop  BY <1>26 DEF Drop, script
  <1>27. CASE Beginning  BY <1>27 DEF Beginning, Begin, script
  <1>28. CASE UNCHANGED vars  BY <1>28 DEF vars, control, script, server
  <1> QED
    BY <1>1, <1>2, <1>3, <1>4, <1>5, <1>6, <1>7, <1>8, <1>9, <1>10, <1>11, <1>12, <1>13,
       <1>14, <1>15, <1>16, <1>17, <1>18, <1>19, <1>20, <1>21, <1>22, <1>23, <1>24, <1>25,
       <1>26, <1>27, <1>28
       DEF Next, Provider, Pressing, Beginning

(* Only a stroke presses, and it notes what it presses (pressed_modifiers  *)
(* in type_key).                                                           *)
LEMMA DownStep ==
    ASSUME PlaceInv, PressInv, PressInv', DownInv, [Next]_vars
    PROVE  DownInv'
  <1> USE DEF PressInv, DownInv
  <1>1. CASE Acquire  BY <1>1 DEF Acquire, script, server
  <1>2. CASE Release  BY <1>2 DEF Release, script, server
  <1>3. CASE Check
    BY <1>3 DEF Check, Return, Silent, Reconciled, ReconcileFails, Refuse, server, script
  <1>4. CASE Accepts  BY <1>4 DEF Accepts, Return, Silent, script, server
  <1>5. CASE Resolve
    <2>1. pressed = <<>> /\ pressed' = <<>> /\ UNCHANGED <<down, server>>
      BY <1>5 DEF Resolve, Return, Silent, type_key
    <2> QED  BY <2>1 DEF server
  <1>6. CASE Move
    BY <1>6 DEF Move, Return, Silent, click_button, type_key, Refuse, server, script
  <1>7. CASE Pressing
    <2>1. PICK c \in Pressable : Press(c)  BY <1>7 DEF Pressing
    <2>2. c \in Keycodes  BY DEF Pressable
    <2>3. Elements(<<c>> \o pressed) = Elements(pressed) \cup {c}
      BY SMTT(60), <2>2, PushFacts
    <2> QED  BY <2>1, <2>3 DEF Press, server
  <1>8. CASE Unpress
    <2>1. strike = {} /\ pressed # <<>>  BY <1>8 DEF Unpress, Pressable
    <2>2. /\ Elements(pressed) = Elements(Tail(pressed)) \cup {Head(pressed)}
          /\ Len(pressed) = 1 <=> Tail(pressed) = <<>>
      BY <2>1, PopFacts
    <2>3. pressed' = Tail(pressed)  BY <1>8, <2>2 DEF Unpress, Return, Silent
    <2> QED  BY <1>8, <2>2, <2>3 DEF Unpress, server
  <1>9. CASE SendFails  BY <1>9 DEF SendFails, Refuse, server, script
  <1>10. CASE BestEffortRelease
    <2>1. Elements(pressed) = Elements(Tail(pressed)) \cup {Head(pressed)}
      BY <1>10, PopFacts DEF BestEffortRelease
    <2> QED  BY SMTT(60), <1>10, <2>1 DEF BestEffortRelease, Refuse, server
  <1>11. CASE create_transfer_owner
    BY <1>11 DEF create_transfer_owner, Reply, Silent, Refuse, server, script
  <1>12. CASE claim_transfer_selection
    BY <1>12 DEF claim_transfer_selection, Return, Silent, Refuse, server, script
  <1>13. CASE Drain  BY <1>13 DEF Drain, Finish, script, server
  <1>14. CASE Owner  BY <1>14 DEF Owner, Return, Silent, script, server
  <1>15. CASE Answer  BY <1>15 DEF Answer, Return, Silent, Refuse, server, script
  <1>16. CASE Clock  BY <1>16 DEF Clock, Finish, script, server
  <1>17. CASE release_transfer_owner
    BY <1>17 DEF release_transfer_owner, Reply, Silent, Refuse, server, script
  <1>18. CASE NamePixmap  BY <1>18 DEF NamePixmap, Return, Silent, Refuse, server, script
  <1>19. CASE ReadPixmap  BY <1>19 DEF ReadPixmap, script, server
  <1>20. CASE FreePixmap  BY <1>20 DEF FreePixmap, Return, Silent, Refuse, server, script
  <1>21. CASE Scan  BY <1>21 DEF Scan, Reply, Silent, script, server
  <1>22. CASE Reconcile
    BY <1>22
       DEF Reconcile, Reply, Silent, Reconciled, ReconcileFails, Refuse, server, script
  <1>23. CASE NextStep
    BY <1>23
       DEF NextStep, NextText, NextInsert, NextAction, Finish, Reply, Silent, script, server
  <1>24. CASE Loop  BY <1>24 DEF Loop, Reply, Silent, script, server
  <1>25. CASE World
    BY <1>25
       DEF World, Cover, Restate, Arrive, Take, Settle, Expire, Disable, Break, control,
           script, script, server
  <1>26. CASE Drop  BY <1>26 DEF Drop, script, server
  <1>27. CASE Beginning  BY SMTT(60), <1>27 DEF Beginning, Begin, script, server
  <1>28. CASE UNCHANGED vars  BY <1>28 DEF vars, control, script, server
  <1> QED
    BY <1>1, <1>2, <1>3, <1>4, <1>5, <1>6, <1>7, <1>8, <1>9, <1>10, <1>11, <1>12, <1>13,
       <1>14, <1>15, <1>16, <1>17, <1>18, <1>19, <1>20, <1>21, <1>22, <1>23, <1>24, <1>25,
       <1>26, <1>27, <1>28
       DEF Next, Provider, Pressing, Beginning

(* A stroke stays the one that was resolved while it is sent: nothing      *)
(* changes the keyboard that was read, and what is down besides the stroke *)
(* has no modifiers (resolve_with_modifiers, type_key).                    *)
LEMMA ResolvedStep ==
    ASSUME PlaceInv, PressInv, PressInv', ResolvedInv, [Next]_vars
    PROVE  ResolvedInv'
  <1> DEFINE Same == UNCHANGED <<op, completed, strike, held, pressed, keyboard, down>>
  <1>a. Same \/ strike' = {} \/ op' \notin KeyboardOps => ResolvedInv'
    BY DEF ResolvedInv, Wanted
  <1>1. CASE Acquire  BY <1>1, <1>a DEF Acquire, PressInv
  <1>2. CASE Release  BY <1>2, <1>a DEF Release, PressInv
  <1>3. CASE Check
    BY <1>3, <1>a
       DEF Check, Return, Silent, NoKey, PressInv, Reconciled, ReconcileFails, script
  <1>4. CASE Accepts  BY <1>4, <1>a DEF Accepts, Return, Silent, NoKey, script
  <1>5. CASE Resolve
    <2>1. CASE pc' = "ungrab"  BY <1>5, <2>1, <1>a DEF PressInv
    <2>2. CASE pc' # "ungrab"
      <3>1. PICK k \in Keyboards :
               \E s \in resolve_with_modifiers(Live(k), Wanted.symbol, Wanted.modifiers) :
                   keyboard' = {Live(k)} /\ type_key(s)
        BY <1>5, <2>2 DEF Resolve, Return
      <3>2. PICK s \in resolve_with_modifiers(Live(k), Wanted.symbol, Wanted.modifiers) :
                   keyboard' = {Live(k)} /\ type_key(s)
        BY <3>1
      <3>3. IsKeyboard(Live(k)) /\ Bits(Live(k), down) = {}  BY LiveFacts
      <3>4. UNCHANGED <<down, op, completed>>  BY <1>5 DEF Resolve
      <3>5. Wanted' = Wanted  BY <3>4 DEF Wanted
      <3>6. pressed' = <<>> /\ held' = s.modifiers /\ strike' = {s.key}
        BY <3>2 DEF type_key
      <3> DEFINE kk == Live(k)
      <3>7. /\ IsKeyboard(kk) /\ Bits(kk, down') = {} /\ keyboard' = {kk}
            /\ s \in resolve_with_modifiers(kk, Wanted'.symbol, Wanted'.modifiers)
        BY <3>2, <3>3, <3>4, <3>5
      <3> HIDE DEF kk
      <3>8. Elements(pressed') = {} /\ Bits(kk, {}) = {}  BY <3>6, NothingPressed DEF Bits
      <3>9. s.modifiers = held' \cup Elements(pressed')  BY <3>6, <3>8
      <3>10. Bits(kk, down') = Bits(kk, Elements(pressed'))  BY <3>7, <3>8
      <3> QED  BY <3>6, <3>7, <3>9, <3>10 DEF ResolvedInv
    <2> QED  BY <2>1, <2>2
  <1>6. CASE Move
    BY <1>6, <1>a DEF Move, Return, Silent, NoKey, PlaceInv, PointerOps, KeyboardOps
  <1>7. CASE Pressing
    <2>1. PICK c \in Pressable : Press(c)  BY <1>7 DEF Pressing
    <2>2. CASE held = {}  BY <1>a, <2>1, <2>2 DEF Press, NoKey
    <2>3. CASE held # {} /\ strike # {} /\ op \in KeyboardOps
      <3>1. c \in held /\ c \in Keycodes  BY <2>3 DEF Pressable, PressInv
      <3>2. Elements(<<c>> \o pressed) = Elements(pressed) \cup {c}
        BY SMTT(60), <3>1, PushFacts DEF PressInv
      <3>3. /\ pressed' = <<c>> \o pressed /\ held' = held \ {c} /\ strike' = strike
            /\ down' = down \cup {c} /\ keyboard' = keyboard /\ UNCHANGED <<op, completed>>
        BY <2>1, <2>3 DEF Press
      <3>4. Wanted' = Wanted  BY <3>3 DEF Wanted
      <3>5. held' \cup Elements(pressed') = held \cup Elements(pressed)
        BY <3>1, <3>2, <3>3
      <3>6. ASSUME NEW k \in keyboard, Bits(k, down) = Bits(k, Elements(pressed))
            PROVE  Bits(k, down') = Bits(k, Elements(pressed'))
        <4>1. Bits(k, down \cup {c}) = Bits(k, down) \cup Bits(k, {c})
          BY SMTT(60), BitsUnion
        <4>2. Bits(k, Elements(pressed) \cup {c}) = Bits(k, Elements(pressed)) \cup Bits(k, {c})
          BY SMTT(60), BitsUnion
        <4>3. Elements(pressed') = Elements(pressed) \cup {c}  BY <3>2, <3>3
        <4> QED  BY <3>3, <3>6, <4>1, <4>2, <4>3
      <3> QED  BY <2>3, <3>3, <3>4, <3>5, <3>6 DEF ResolvedInv
    <2> QED  BY <1>a, <2>1, <2>2, <2>3 DEF Press
  <1>8. CASE Unpress  BY <1>8, <1>a DEF Unpress, Pressable, Return, Silent, NoKey
  <1>9. CASE SendFails  BY <1>9, <1>a DEF SendFails, PressInv
  <1>10. CASE BestEffortRelease  BY <1>10, <1>a DEF BestEffortRelease, PressInv
  <1>11. CASE create_transfer_owner
    BY <1>11, <1>a DEF create_transfer_owner, Reply, Silent, PressInv, NoKey
  <1>12. CASE claim_transfer_selection
    BY <1>12, <1>a DEF claim_transfer_selection, Return, Silent, PressInv, NoKey
  <1>13. CASE Drain  BY <1>13, <1>a DEF Drain, Finish, PressInv
  <1>14. CASE Owner  BY <1>14, <1>a DEF Owner, Return, Silent, PressInv, NoKey
  <1>15. CASE Answer  BY <1>15, <1>a DEF Answer, Return, Silent, PressInv, NoKey
  <1>16. CASE Clock  BY <1>16, <1>a DEF Clock, Finish, PressInv
  <1>17. CASE release_transfer_owner
    BY <1>17, <1>a DEF release_transfer_owner, Reply, Silent, PressInv, NoKey
  <1>18. CASE NamePixmap  BY <1>18, <1>a DEF NamePixmap, Return, Silent, PressInv, NoKey
  <1>19. CASE ReadPixmap  BY <1>19, <1>a DEF ReadPixmap, PressInv
  <1>20. CASE FreePixmap  BY <1>20, <1>a DEF FreePixmap, Return, Silent, PressInv, NoKey
  <1>21. CASE Scan  BY <1>21, <1>a DEF Scan, Reply, Silent, PressInv, NoKey
  <1>22. CASE Reconcile  BY <1>22, <1>a DEF Reconcile, Reply, Silent, PressInv, NoKey
  <1>23. CASE NextStep
    BY <1>23, <1>a
       DEF NextStep, NextText, NextInsert, NextAction, Finish, Reply, Silent, NoKey,
           PressInv
  <1>24. CASE Loop  BY <1>24, <1>a DEF Loop, Reply, Silent, PressInv, NoKey
  <1>25. CASE World
    BY <1>25, <1>a
       DEF World, Cover, Restate, Arrive, Take, Settle, Expire, Disable, Break, control,
           script
  <1>26. CASE Drop  BY <1>26, <1>a DEF Drop, PressInv
  <1>27. CASE Beginning  BY <1>27, <1>a DEF Beginning, Begin, PressInv
  <1>28. CASE UNCHANGED vars  BY <1>28, <1>a DEF vars, control, script
  <1> QED
    BY <1>1, <1>2, <1>3, <1>4, <1>5, <1>6, <1>7, <1>8, <1>9, <1>10, <1>11, <1>12, <1>13,
       <1>14, <1>15, <1>16, <1>17, <1>18, <1>19, <1>20, <1>21, <1>22, <1>23, <1>24, <1>25,
       <1>26, <1>27, <1>28
       DEF Next, Provider, Pressing, Beginning

-----------------------------------------------------------------------------
(* A session starts in the invariant.                                      *)
LEMMA InitIInv == Init => IInv
  <1> SUFFICES ASSUME Init  PROVE  IInv
    OBVIOUS
  <1> USE DEF Init, NoKey
  <1>1. PlaceInv  BY DEF PlaceInv, Ops, Ready
  <1>2. PressInv  BY SMTT(60) DEF PressInv
  <1>3. DownInv  BY DEF DownInv
  <1>4. ClipboardInv /\ CaptureInv  BY DEF ClipboardInv, CaptureInv
  <1>5. AimInv /\ ResolvedInv  BY DEF AimInv, ResolvedInv
  <1> QED  BY <1>1, <1>2, <1>3, <1>4, <1>5 DEF IInv

(* Every step of the session, of other clients and of the person keeps it. *)
LEMMA StepIInv == IInv /\ [Next]_vars => IInv'
  <1> SUFFICES ASSUME IInv, [Next]_vars  PROVE  IInv'
    OBVIOUS
  <1>1. PlaceInv'  BY PlaceStep DEF IInv
  <1>2. PressInv'  BY <1>1, PressStep DEF IInv
  <1>3. DownInv'  BY <1>2, DownStep DEF IInv
  <1>4. ClipboardInv' /\ CaptureInv'  BY ClipboardStep, CaptureStep DEF IInv
  <1>5. AimInv'  BY AimStep DEF IInv
  <1>6. ResolvedInv'  BY <1>2, ResolvedStep DEF IInv
  <1> QED  BY <1>1, <1>2, <1>3, <1>4, <1>5, <1>6 DEF IInv

(* The inductive invariant of a session's effects.                         *)
THEOREM Inductive == Spec => []IInv
  BY InitIInv, StepIInv, PTL DEF Spec

(* Whichever input the server refuses, every key and button of a request is *)
(* up when it returns, unless the repeated release is refused as well or   *)
(* the connection breaks (type_key, click_button, release_keys).           *)
THEOREM EveryKeyComesUp == Spec => []NothingStaysDown
  <1>1. IInv => NothingStaysDown
    BY NothingPressed DEF IInv, PressInv, DownInv, NothingStaysDown
  <1> QED  BY <1>1, Inductive, PTL

(* An insertion returns the clipboard and destroys its window, unless the  *)
(* cleanup itself is refused (text_insert, release_transfer_owner).        *)
THEOREM ClipboardComesBack == Spec => []ClipboardIsReturned
  <1>1. IInv => ClipboardIsReturned
    BY DEF IInv, ClipboardInv, ClipboardIsReturned
  <1> QED  BY <1>1, Inductive, PTL

(* Nothing is redirected that the session has forgotten, and no pixmap     *)
(* outlives its request (reconcile_capture_targets, read_redirected_pixmap). *)
THEOREM NothingStaysCaptured == Spec => []CaptureIsTracked
  <1>1. IInv => CaptureIsTracked
    BY DEF IInv, CaptureInv, CaptureIsTracked
  <1> QED  BY <1>1, Inductive, PTL

(* A key or a button goes down only over the target, and the target        *)
(* receives the symbol that was asked for (under_server_grab,              *)
(* keyboard_text, resolve_with_modifiers).                                 *)
THEOREM InputIsReceivedAsAsked == Spec => InputReachesTarget
  <1>1. IInv /\ [Next]_vars =>
           [\A c \in down' \ down :
              /\ Target \in Scoped /\ aim = Target
              /\ Strikes => /\ keyboard # {}
                            /\ \A k \in keyboard :
                                   Means(k, down, c, Wanted.symbol, Wanted.modifiers)]_vars
    <2> SUFFICES ASSUME IInv, Next, NEW c \in down' \ down
                 PROVE  /\ Target \in Scoped /\ aim = Target
                        /\ Strikes => /\ keyboard # {}
                                      /\ \A k \in keyboard :
                                             Means(k, down, c, Wanted.symbol, Wanted.modifiers)
      OBVIOUS
    <2>1. PICK d \in Pressable : Press(d)
      BY DEF Next, Provider, World, Acquire, Release, Check, Accepts, Resolve, Move,
             Unpress, SendFails, BestEffortRelease, create_transfer_owner,
             claim_transfer_selection, Drain, Owner, Answer, Clock, release_transfer_owner,
             NamePixmap, ReadPixmap, FreePixmap, Scan, Reconcile, NextStep, Loop, Cover,
             Restate, Arrive, Take, Settle, Expire, Disable, Break, Drop, Begin
    <2>2. c = d /\ pc = "send" /\ ~ lost  BY <2>1 DEF Press
    <2>3. Target \in Scoped /\ aim = Target  BY <2>2 DEF IInv, AimInv
    <2>4. Strikes => keyboard # {}
      BY <2>1, <2>2 DEF Strikes, Pressable, IInv, ResolvedInv
    <2>5. ASSUME Strikes, NEW k \in keyboard
          PROVE  Means(k, down, c, Wanted.symbol, Wanted.modifiers)
      <3>1. held = {} /\ op \in KeyboardOps  BY <2>5 DEF Strikes
      <3>2. c \in strike  BY <2>1, <2>2, <3>1 DEF Pressable
      <3>3. /\ IsKeyboard(k) /\ Bits(k, down) = Bits(k, Elements(pressed))
            /\ \E s \in resolve_with_modifiers(k, Wanted.symbol, Wanted.modifiers) :
                  strike = {s.key} /\ s.modifiers = held \cup Elements(pressed)
        BY <2>5, <3>1, <3>2 DEF IInv, ResolvedInv
      <3>4. PICK s \in resolve_with_modifiers(k, Wanted.symbol, Wanted.modifiers) :
                  strike = {s.key} /\ s.modifiers = held \cup Elements(pressed)
        BY <3>3
      <3>5. s.key = c /\ s.modifiers = Elements(pressed)  BY <3>1, <3>2, <3>4
      <3>6. Means(k, s.modifiers, s.key, Wanted.symbol, Wanted.modifiers)
        BY <3>3, StrokeMeansWhatWasAsked
      <3> QED  BY <3>3, <3>5, <3>6, MeansByBits
    <2> QED  BY <2>3, <2>4, <2>5
  <1> QED  BY <1>1, Inductive, PTL DEF Spec, InputReachesTarget
=============================================================================
