------------------------ MODULE MCPolicyTransaction ------------------------
(***************************************************************************)
(* Two settings processes and an editor.  Inode numbers are               *)
(* interchangeable, and so are the settings processes.                     *)
(***************************************************************************)
EXTENDS PolicyTransaction, TLC

Interchangeable == Permutations(Inodes) \cup Permutations(Writers)
=============================================================================
