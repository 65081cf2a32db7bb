---------------------------- MODULE ActivePolicy ----------------------------
(***************************************************************************)
(* Evidence of the policy a running provider loaded.  A provider publishes *)
(* active-<pid>.policy in the runtime directory and keeps the file locked  *)
(* while it runs; a reader lists the directory and believes a marker only  *)
(* when it cannot take its lock.  Both sides go one system call at a time, *)
(* a provider may crash between any two, and the kernel reuses its pid.    *)
(*                                                                         *)
(* Every start of a provider is an element of Starts, and so is the marker *)
(* (the inode) that start creates.                                         *)
(***************************************************************************)
EXTENDS Integers, FiniteSets

CONSTANTS MAX_STARTS,   \* bound: starts of a provider, each one process
          Pids,         \* the pids the kernel hands out
          NoPid,
          Policies,     \* policy sources a provider may load
          Elsewhere,    \* stands for any source of another policy path
          NoMarker,
          SCREENS,      \* screens, each with at most one provider
          MAX_MARKERS   \* markers a reader is willing to look at

VARIABLES at,      \* [Starts -> step of the process]
          pid,     \* [Starts -> pid it was given]
          loaded,  \* [Starts -> policy source it read at startup]
          dir,     \* [Pids -> marker at active-<pid>.policy, or NoMarker]
          body,    \* [Starts -> BOOLEAN]: the marker's body is written
          held,    \* [Starts -> who holds the marker's flock]
          scan     \* the reader in active_policy_status

Starts == 1 .. MAX_STARTS

ASSUME ActiveAssumption == /\ MAX_STARTS \in Nat
                           /\ NoPid \notin Pids
                           /\ NoMarker \notin Starts

activeVars == <<at, pid, loaded, dir, body, held, scan>>

Alive == { n \in Starts : at[n] \notin {"unborn", "gone"} }

Idle == [at |-> "idle", todo |-> {}, scanned |-> 0, marker |-> NoMarker,
         records |-> {}, dead |-> {}, up |-> {}]

\* The first starts may be over: providers that crashed before, each leaving
\* its marker.
ActiveInit ==
    \E crashed \in {0} \cup Starts :
        /\ at = [n \in Starts |-> IF n <= crashed THEN "gone" ELSE "unborn"]
        /\ pid \in [Starts -> Pids \cup {NoPid}]
        /\ \A n \in Starts : pid[n] # NoPid <=> n <= crashed
        /\ \A m, n \in 1 .. crashed : pid[m] = pid[n] => m = n
        /\ loaded \in [Starts -> Policies \cup {Elsewhere}]
        /\ \A n \in Starts : n > crashed => loaded[n] = Elsewhere
        /\ dir = [p \in Pids |-> IF \E n \in Starts : pid[n] = p
                                  THEN CHOOSE n \in Starts : pid[n] = p ELSE NoMarker]
        /\ body = [n \in Starts |-> n <= crashed]
        /\ held = [n \in Starts |-> "free"]
        /\ scan = Idle

-----------------------------------------------------------------------------
\* A provider: ActivePolicyGuard::publish, then its Drop or a crash.

Goto(n, step) == at' = [at EXCEPT ![n] = step]

\* The next provider has read source and owns its screen; its pid is one no
\* living provider has.
Load(n, p, source) ==
    /\ at[n] = "unborn"
    /\ \A m \in Starts : at[m] = "unborn" => n <= m
    /\ Cardinality(Alive) < SCREENS
    /\ \A m \in Alive : pid[m] # p
    /\ Goto(n, "find")
    /\ pid' = [pid EXCEPT ![n] = p]
    /\ loaded' = [loaded EXCEPT ![n] = source]
    /\ UNCHANGED <<dir, body, held, scan>>

\* path.exists(), and the open of remove_stale_marker when it does.
Find(n) ==
    /\ at[n] = "find"
    /\ Goto(n, IF dir[pid[n]] = NoMarker THEN "create" ELSE "recover")
    /\ UNCHANGED <<pid, loaded, dir, body, held, scan>>

\* The flock of remove_stale_marker.  Publishing is best effort: a provider
\* that cannot publish goes on unreported.
LockStale(n) ==
    LET stale == dir[pid[n]]
    IN  /\ at[n] = "recover"
        /\ IF held[stale] = "free"
           THEN held' = [held EXCEPT ![stale] = "recovery"] /\ Goto(n, "remove")
           ELSE Goto(n, "bare") /\ UNCHANGED held
        /\ UNCHANGED <<pid, loaded, dir, body, scan>>

RemoveStale(n) ==
    /\ at[n] = "remove"
    /\ held' = [held EXCEPT ![dir[pid[n]]] = "free"]
    /\ dir' = [dir EXCEPT ![pid[n]] = NoMarker]
    /\ Goto(n, "create")
    /\ UNCHANGED <<pid, loaded, body, scan>>

\* create_new, which may fail.
Create(n) ==
    /\ at[n] = "create"
    /\ \/ dir' = [dir EXCEPT ![pid[n]] = n] /\ Goto(n, "lock")
       \/ Goto(n, "bare") /\ UNCHANGED dir
    /\ UNCHANGED <<pid, loaded, body, held, scan>>

\* The flock of publish, lost to a reader that is testing the new file.
Lock(n) ==
    /\ at[n] = "lock"
    /\ IF held[n] = "free"
       THEN held' = [held EXCEPT ![n] = "own"] /\ Goto(n, "write")
       ELSE Goto(n, "undo") /\ UNCHANGED held
    /\ UNCHANGED <<pid, loaded, dir, body, scan>>

\* Mutant: the file is closed once it is written.
Write_closed(n) ==
    /\ at[n] = "write"
    /\ body' = [body EXCEPT ![n] = TRUE]
    /\ held' = [held EXCEPT ![n] = "free"]
    /\ Goto(n, "report")
    /\ UNCHANGED <<pid, loaded, dir, scan>>

\* write_all and sync_all, which may fail.
Write(n) ==
    /\ at[n] = "write"
    /\ \/ body' = [body EXCEPT ![n] = TRUE] /\ Goto(n, "report")
       \/ Goto(n, "undo") /\ UNCHANGED body
    /\ UNCHANGED <<pid, loaded, dir, held, scan>>

\* A failed publish closes its file and removes the path.
Undo(n) ==
    /\ at[n] = "undo"
    /\ held' = [held EXCEPT ![n] = IF @ = "own" THEN "free" ELSE @]
    /\ dir' = [dir EXCEPT ![pid[n]] = NoMarker]
    /\ Goto(n, "bare")
    /\ UNCHANGED <<pid, loaded, body, scan>>

\* Drop for ActivePolicyGuard: the path goes while the lock is still held.
Leave(n) ==
    /\ at[n] = "report"
    /\ dir' = [dir EXCEPT ![pid[n]] = IF @ = n THEN NoMarker ELSE @]
    /\ Goto(n, "leave")
    /\ UNCHANGED <<pid, loaded, body, held, scan>>

\* The process ends, and the kernel closes what it still has open.
Released(n) ==
    [m \in Starts |-> IF \/ m = n /\ held[m] = "own"
                         \/ held[m] = "recovery" /\ dir[pid[n]] = m
                      THEN "free" ELSE held[m]]

Exit(n) ==
    /\ at[n] \in {"leave", "bare"}
    /\ held' = Released(n)
    /\ Goto(n, "gone")
    /\ UNCHANGED <<pid, loaded, dir, body, scan>>

Crash(n) ==
    /\ n \in Alive
    /\ held' = Released(n)
    /\ Goto(n, "gone")
    /\ UNCHANGED <<pid, loaded, dir, body, scan>>

-----------------------------------------------------------------------------
\* The reader: active_policy_status and read_locked_marker.  dead and up
\* remember which processes were gone, and which had published, as it began.

Scanned == \/ scan.at = "failed"
           \/ scan.at = "next" /\ scan.todo = {}

BeginScan ==
    /\ scan.at = "idle" \/ Scanned
    /\ scan' = [Idle EXCEPT !.at = "next",
                            !.todo = { p \in Pids : dir[p] # NoMarker },
                            !.dead = { n \in Starts : at[n] = "gone" },
                            !.up = { n \in Starts : at[n] = "report" }]

OpenMarker(p) ==
    /\ scan.at = "next"
    /\ p \in scan.todo
    /\ scan' = [scan EXCEPT !.at = IF scan.scanned = MAX_MARKERS THEN "failed"
                                   ELSE IF dir[p] = NoMarker THEN "next" ELSE "test",
                            !.todo = @ \ {p},
                            !.scanned = @ + 1,
                            !.marker = dir[p]]
    /\ UNCHANGED <<at, pid, loaded, dir, body, held>>

\* Mutant: the lock is not looked at.
TestLock_blind ==
    /\ scan.at = "test"
    /\ scan' = [scan EXCEPT !.at = "read"]
    /\ UNCHANGED <<at, pid, loaded, dir, body, held>>

\* A lock that can be taken belongs to no provider.
TestLock ==
    /\ scan.at = "test"
    /\ IF held[scan.marker] = "free"
       THEN /\ held' = [held EXCEPT ![scan.marker] = "scan"]
            /\ scan' = [scan EXCEPT !.at = "close"]
       ELSE /\ scan' = [scan EXCEPT !.at = "read"]
            /\ UNCHANGED held
    /\ UNCHANGED <<at, pid, loaded, dir, body>>

CloseMarker ==
    /\ scan.at = "close"
    /\ held' = [held EXCEPT ![scan.marker] = "free"]
    /\ scan' = [scan EXCEPT !.at = "next", !.marker = NoMarker]
    /\ UNCHANGED <<at, pid, loaded, dir, body>>

\* A body that is not complete yet is malformed, and fails the whole status.
ReadMarker ==
    /\ scan.at = "read"
    /\ scan' = [scan EXCEPT !.at = IF body[scan.marker] THEN "next" ELSE "failed",
                            !.marker = NoMarker,
                            !.records = IF body[scan.marker] /\ loaded[scan.marker] # Elsewhere
                                        THEN @ \cup {scan.marker} ELSE @]
    /\ UNCHANGED <<at, pid, loaded, dir, body, held>>

EndScan == Scanned /\ scan' = Idle

\* The ActivePolicyStatus of a scan for a snapshot with this source; who are
\* the reports it rests on.
Status(source) ==
    LET matching == { n \in scan.records : loaded[n] = source }
        kind == CASE scan.at = "failed" -> "unavailable"
                  [] scan.at # "failed" /\ scan.records = {} -> "not_reported"
                  [] OTHER -> IF matching = scan.records THEN "matching" ELSE "different"
    IN  [kind |-> kind, who |-> IF scan.at = "failed" THEN {} ELSE scan.records]

-----------------------------------------------------------------------------
ProviderStep(n) == \/ Find(n) \/ LockStale(n) \/ RemoveStale(n) \/ Create(n)
                   \/ Lock(n) \/ Write(n) \/ Undo(n)
                   \/ Leave(n) \/ Exit(n) \/ Crash(n)

ReadStep == \/ \E p \in Pids : OpenMarker(p)
            \/ TestLock \/ CloseMarker \/ ReadMarker

-----------------------------------------------------------------------------
\* A status names only processes that were running while it was taken: the
\* marker of a provider that crashed is not believed, not even when its pid
\* has been given to a later one.  (The policy it names is the process's own
\* unless that process was just then removing its predecessor's marker.)
NamedProviderIsLive ==
    \A m \in scan.records :
        \E n \in Starts : /\ pid[n] = pid[m]
                          /\ n \notin scan.dead
                          /\ at[n] # "unborn"

\* A provider that had published before a status began and runs on after it
\* is in that status, whatever the other providers and their stale markers
\* do: best effort is about publishing, never about reading.
PublishedIsReported ==
    scan.at = "next" /\ scan.todo = {} =>
        \A n \in scan.up : at[n] = "report" /\ loaded[n] # Elsewhere => n \in scan.records

=============================================================================
