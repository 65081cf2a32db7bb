---------------------------- MODULE KeyboardMap ----------------------------
(***************************************************************************)
(* How a symbol is turned into a key and the modifier keys held with it    *)
(* (observer/keyboard.rs).  A keyboard k is what KeyboardMap::read fetches: *)
(*   k.keys[c]    the key c: its number of groups, what it does with a      *)
(*                group out of range (out, redirect), a type and `width`    *)
(*                symbols for each group;                                   *)
(*   k.modmap[c]  the modifiers of the modifier key c;                      *)
(*   k.base, k.latched, k.locked, k.group, k.shifted  the state: shifted is *)
(*                a base or a latched group other than the first.           *)
(* A type t has a mask, num_levels and a map from modifiers to levels.     *)
(* A modifier mask is a set of modifiers; groups and levels start at 0.    *)
(***************************************************************************)
EXTENDS Naturals, FiniteSets, Sequences

(* A keyboard as the server describes it: keys with a number, a width and  *)
(* groups numbered from 0, finitely many modifier keys, a redirection to a *)
(* group.                                                                  *)
IsKeyboard(k) ==
    /\ k = [keys |-> k.keys, modmap |-> k.modmap, base |-> k.base, latched |-> k.latched,
            locked |-> k.locked, group |-> k.group, shifted |-> k.shifted]
    /\ k.group \in Nat
    /\ DOMAIN k.keys \subseteq Nat
    /\ IsFiniteSet(DOMAIN k.modmap)
    /\ \A c \in DOMAIN k.keys :
           /\ k.keys[c].groups \in Nat /\ k.keys[c].redirect \in Nat
           /\ k.keys[c].width \in Nat

First(S) == CHOOSE n \in S : \A m \in S : n <= m

Bits(k, keys) == UNION {k.modmap[c] : c \in keys \cap DOMAIN k.modmap}

(* state.mods: the effective modifiers, as the server reports them.        *)
mods(k) == k.base \cup k.latched \cup k.locked

key_has_any_symbol(k, c, symbols) ==
    /\ c \in DOMAIN k.keys
    /\ \E g \in 0..(k.keys[c].groups - 1), l \in 0..(k.keys[c].width - 1) :
           k.keys[c].syms[g][l] \in symbols

LockSymbols == {"Caps_Lock", "Shift_Lock", "Num_Lock"}
MomentarySymbols == {"Shift_L", "Shift_R", "ISO_Level3_Shift", "ISO_Level5_Shift"}
ModifierSymbols(modifier) ==
    CASE modifier = "Control" -> {"Control_L", "Control_R"}
      [] modifier = "Alt"     -> {"Alt_L", "Alt_R"}
      [] modifier = "Shift"   -> {"Shift_L", "Shift_R"}
      [] modifier = "Super"   -> {"Super_L", "Super_R"}

(* The modifier keys of exactly one modifier that bear one of the symbols. *)
Bearers(k, symbols) ==
    {c \in DOMAIN k.modmap :
        (\E b \in k.modmap[c] : k.modmap[c] = {b}) /\ key_has_any_symbol(k, c, symbols)}

modifier_key(k, modifier) == First(Bearers(k, ModifierSymbols(modifier)))

requested_keys(k, requested) == {modifier_key(k, m) : m \in requested}

(* Every requested modifier has a key, and no two share a modifier bit.    *)
Requestable(k, requested) ==
    /\ \A m \in requested : Bearers(k, ModifierSymbols(m)) # {}
    /\ \A m, n \in requested :
           m # n => k.modmap[modifier_key(k, m)] # k.modmap[modifier_key(k, n)]

(* The first bearer for each modifier.  A mask has eight bits, so this is  *)
(* at most MAX_MOMENTARY_MODIFIERS keys.                                   *)
momentary_modifier_keys(k) ==
    {c \in Bearers(k, MomentarySymbols) :
        \A d \in Bearers(k, MomentarySymbols) : k.modmap[d] = k.modmap[c] => c <= d}

LockBits(k) ==
    UNION {k.modmap[c] : c \in {d \in DOMAIN k.modmap : key_has_any_symbol(k, d, LockSymbols)}}

(* Mutant: every locked modifier is taken for Caps Lock or Num Lock.       *)
safe_locked_modifiers_any(k) == k.locked

safe_locked_modifiers(k) == k.locked \cap LockBits(k)

(* The first active entry for exactly these modifiers, or else level 0.    *)
level_for_modifiers(t, modifiers) ==
    LET hits == {i \in DOMAIN t.map :
                    t.map[i].active /\ t.map[i].mods = modifiers \cap t.mask}
    IN  IF hits = {} THEN 0 ELSE t.map[First(hits)].level

(* The group of this key, as a set: empty where there is none.             *)
normalized_group(key, group) ==
    {g \in 0..(key.groups - 1) :
        \/ group < key.groups /\ g = group
        \/ /\ group >= key.groups
           /\ \/ key.out = "wrap" /\ g = group % key.groups
              \/ key.out = "clamp" /\ g = key.groups - 1
              \/ key.out = "redirect" /\ g = key.redirect}

(* The ways to reach a level: the fewest keys, then the fewest modifiers.  *)
(* Which of several equal ones is taken depends only on the table's order,  *)
(* so all of them are kept.                                                *)
Reaching(k, t, level, current) ==
    {S \in SUBSET momentary_modifier_keys(k) :
        level_for_modifiers(t, current \cup Bits(k, S)) = level}

Shorter(k, S, T, current) ==
    \/ Cardinality(S) < Cardinality(T)
    \/ /\ Cardinality(S) = Cardinality(T)
       /\ Cardinality(current \cup Bits(k, S)) <= Cardinality(current \cup Bits(k, T))

modifiers_for_level(k, t, level, current) ==
    {S \in Reaching(k, t, level, current) :
        \A T \in Reaching(k, t, level, current) : Shorter(k, S, T, current)}

(* The strokes of key c in group g that give the wanted symbol.  A key is   *)
(* passed over while a modifier is active that its type does not use, that *)
(* was not requested and that is not a lock.                               *)
Strokes(k, wanted, requested, c, g) ==
    LET key     == k.keys[c]
        t       == key.types[g]
        asked   == requested_keys(k, requested)
        current == mods(k) \cup Bits(k, asked)
        levels  == {l \in 0..(key.width - 1) : l < t.num_levels /\ key.syms[g][l] = wanted}
    IN  IF current \ (t.mask \cup safe_locked_modifiers(k) \cup Bits(k, asked)) # {} THEN {}
        ELSE {[key |-> c, modifiers |-> asked \cup S] :
                 S \in UNION {modifiers_for_level(k, t, l, current) : l \in levels}}

AllStrokes(k, wanted, requested) ==
    UNION {UNION {Strokes(k, wanted, requested, c, g) :
                     g \in normalized_group(k.keys[c], k.group)} : c \in DOMAIN k.keys}

(* No modifier is depressed or latched, and no group either.               *)
Undisturbed(k) == k.base = {} /\ k.latched = {} /\ ~ k.shifted

(* resolve_with_modifiers: the strokes that hold the fewest keys; none is  *)
(* an error.                                                               *)
resolve_with_modifiers(k, wanted, requested) ==
    IF ~ Undisturbed(k) \/ ~ Requestable(k, requested) THEN {}
    ELSE {s \in AllStrokes(k, wanted, requested) :
             \A r \in AllStrokes(k, wanted, requested) :
                 Cardinality(s.modifiers) <= Cardinality(r.modifiers)}

----------------------------------------------------------------------------
(* The X server.  A key pressed while the keys `down` are held is received *)
(* as the symbol at its group and level, with the modifiers that its type  *)
(* does not consume.  A key of the modifier map sets its modifiers while    *)
(* it is held.                                                             *)
Held(k, down) == mods(k) \cup Bits(k, down)

ServerGroup(key, group) ==
    IF group < key.groups THEN group
    ELSE IF key.out = "clamp" THEN key.groups - 1
    ELSE IF key.out = "redirect" THEN (IF key.redirect < key.groups THEN key.redirect ELSE 0)
    ELSE group % key.groups

Received(k, down, c) ==
    LET key   == k.keys[c]
        g     == ServerGroup(key, k.group)
        t     == key.types[g]
        level == level_for_modifiers(t, Held(k, down))
    IN  [symbol    |-> IF level < key.width THEN key.syms[g][level] ELSE "NoSymbol",
         modifiers |-> Held(k, down) \ t.mask]

(* What a stroke is for: the wanted symbol, with the requested modifiers   *)
(* held and with no other one but a lock.                                  *)
Means(k, down, c, wanted, requested) ==
    LET asked == Bits(k, requested_keys(k, requested))
        r     == Received(k, down, c)
    IN  /\ r.symbol = wanted
        /\ asked \subseteq Held(k, down)
        /\ r.modifiers \subseteq asked \cup LockBits(k)
=============================================================================
