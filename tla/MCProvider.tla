----------------------------- MODULE MCProvider -----------------------------
(***************************************************************************)
(* A small provider for TLC, in three worlds: every fault and command with *)
(* one enable; an operator who enables again until the words run out; and  *)
(* one peer more than there are session places.                            *)
(***************************************************************************)
EXTENDS Provider

AllCommands == {"status", "enable", "disable", "unusable"}

TheWorlds ==
    { [conns |-> 2, units |-> 2, commands |-> AllCommands, last |-> 1,
       faults |-> {"signal", "clear", "leave", "error"}],
      [conns |-> 2, units |-> 2, commands |-> {"enable", "disable"},
       last |-> DISABLED_TERMINAL, faults |-> {"signal"}],
      [conns |-> 3, units |-> 1, commands |-> {"enable", "disable"}, last |-> 1,
       faults |-> {}] }
=============================================================================
