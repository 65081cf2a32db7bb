----------------------------- MODULE MCObserver -----------------------------
(***************************************************************************)
(* Two windows, and queues so short that they overflow.                    *)
(***************************************************************************)
EXTENDS Observer

MCFilters == {{}, {"active"}, {"removed", "changed", "added"}}
Symmetry == Permutations(Looks) \cup Permutations(Workspaces)
=============================================================================
