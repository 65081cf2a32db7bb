------------------------------ MODULE MCLaunch ------------------------------
(* Two sessions, three applications and two data roots.  At the start two  *)
(* applications are installed for everybody, and the user has an unusable  *)
(* entry or none for the first of them.  The user's entry may change, and  *)
(* the third application be installed, which is one more than the bound of *)
(* the catalog.                                                            *)
EXTENDS Launch, TLC

CONSTANTS s1, s2
Perms == Permutations({s1, s2})

Listed == [mode |-> "allow_listed", allow |-> {1}, deny |-> {}, allow_user_entries |-> FALSE]
Installed == [mode |-> "allow_installed", allow |-> {}, deny |-> {}, allow_user_entries |-> TRUE]
MCPolicies == {Listed, Installed}
MCApps == {1, 2, 3}
MCXids == {1, 2}
MCVolatile == {<<1, 1>>, <<2, 3>>}
MCDisks == {[e \in (1..2) \X {1, 2, 3} |->
                CASE e = <<1, 1>> -> st
                  [] e \in {<<2, 1>>, <<2, 2>>} -> "runnable"
                  [] OTHER -> "absent"] : st \in {"absent", "unusable"}}
=============================================================================
