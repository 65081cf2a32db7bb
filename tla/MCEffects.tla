----------------------------- MODULE MCEffects -----------------------------
(***************************************************************************)
(* Two windows, the target and another; only the target comes and goes.    *)
(* Two layouts.  On the first one a letter follows Shift and Caps Lock, "@" *)
(* needs the third level, and the letter key has a second, foreign group;  *)
(* on the other, which a client may install between two characters, "@"    *)
(* has moved to the letter's key.                                          *)
(***************************************************************************)
EXTENDS Effects

Entry(m, l) == [active |-> TRUE, mods |-> m, level |-> l]
One == [mask |-> {}, num_levels |-> 1, map |-> <<>>]
Alphabetic == [mask |-> {"shift", "lock"}, num_levels |-> 2,
               map |-> << Entry({"shift"}, 1), Entry({"lock"}, 1) >>]
ThreeLevel == [mask |-> {"shift", "level3"}, num_levels |-> 3,
               map |-> << Entry({"shift"}, 1), Entry({"level3"}, 2),
                          Entry({"shift", "level3"}, 2) >>]

(* A key of one type whose groups have these symbols.                      *)
Key(type, groups) ==
    [groups |-> Len(groups), out |-> "wrap", redirect |-> 0, width |-> Len(groups[1]),
     types |-> [g \in 0..(Len(groups) - 1) |-> type],
     syms |-> [g \in 0..(Len(groups) - 1) |->
                  [l \in 0..(Len(groups[1]) - 1) |-> groups[g + 1][l + 1]]]]

Modifiers == [c \in {37, 50, 62, 66, 92} |->
    Key(One, << << CASE c = 37 -> "Control_L" [] c = 50 -> "Shift_L" [] c = 62 -> "Shift_R"
                     [] c = 66 -> "Caps_Lock" [] c = 92 -> "ISO_Level3_Shift" >> >>)]
modmap == [c \in {37, 50, 62, 66, 92} |->
    CASE c = 37 -> {"control"} [] c = 66 -> {"lock"} [] c = 92 -> {"level3"} [] OTHER -> {"shift"}]

Plain == Key(Alphabetic, << << "v", "V" >>, << "em", "EM" >> >>)
Layout(eleven, letter) ==
    [c \in {11, 55} \cup DOMAIN Modifiers |->
        CASE c = 11 -> eleven [] c = 55 -> letter [] OTHER -> Modifiers[c]]
First_layout == Layout(Key(ThreeLevel, << << "2", "quote", "@" >> >>), Plain)
Moved == Layout(Key(One, << << "v" >> >>), Key(ThreeLevel, << << "@", "V", "2" >> >>))

Shown(keys, base, locked, group) ==
    [keys |-> keys, modmap |-> modmap, base |-> base, latched |-> {}, locked |-> locked,
     group |-> group, shifted |-> FALSE]

MCKeyboards ==
    { Shown(First_layout, {}, {}, 0), Shown(First_layout, {}, {"lock"}, 0),
      Shown(First_layout, {}, {"control"}, 0), Shown(First_layout, {"shift"}, {}, 0),
      Shown(First_layout, {}, {}, 1), Shown(Moved, {}, {}, 0) }

MCText == << "V", "@" >>
(* One kind of request is refused, or an input and the release after it.   *)
MCRefusals == {{kind} : kind \in Kinds} \cup {{"effect", "best_effort"}}

MCChord == [symbol |-> "V", modifiers |-> {"Control"}]
=============================================================================
