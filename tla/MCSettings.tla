----------------------------- MODULE MCSettings -----------------------------
(* A window with two capability buttons and two applications, one of them  *)
(* a user entry; an editor that writes a policy with most keys left out,   *)
(* or one whose lists overlap; providers that come and go.                 *)
EXTENDS Settings, TLC

CONSTANTS p1, p2, p3

AppA == [id |-> "a.desktop", user_entry |-> FALSE]
AppB == [id |-> "b.desktop", user_entry |-> TRUE]
TheApps == {AppA, AppB}

TheOffered == {"observe_structure", "observe_titles"}

TheLimits == {[max_sessions |-> 8, max_requests |-> 1024, io_timeout_ms |-> 2000],
              [max_sessions |-> 4, max_requests |-> 1024, io_timeout_ms |-> 10001]}

Terse == [enabled |-> TRUE, mode |-> "allow_listed", allow |-> <<"a.desktop", "c.desktop">>]
Overlapping == [enabled |-> TRUE, mode |-> "allow_listed",
                allow |-> <<"a.desktop">>, deny |-> <<"a.desktop">>]
TheEditorDocs == {Terse, Overlapping}

ThePolicies == {Terse}

TheBudgets == {[edits |-> 3, writes |-> 2, starts |-> 0, crashed |-> 0],
               [edits |-> 1, writes |-> 2, starts |-> 1, crashed |-> 0],
               [edits |-> 0, writes |-> 1, starts |-> 2, crashed |-> 0],
               [edits |-> 0, writes |-> 2, starts |-> 1, crashed |-> 2]}

Perms == Permutations({p1, p2, p3})
=============================================================================
