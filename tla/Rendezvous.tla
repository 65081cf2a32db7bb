----------------------------- MODULE Rendezvous -----------------------------
(***************************************************************************)
(* How provider processes take over a screen and how a companion finds the *)
(* one in charge: the pathname sockets of crates/agent-seat-x11/src/       *)
(* runtime.rs, the X11 selection and advertisements of ownership.rs, and   *)
(* the discovery of crates/agent-seat-mcp/src/discovery.rs.                *)
(*                                                                         *)
(* Every file-system call and every X11 request outside a server grab is a *)
(* step of its own; what happens under a grab is one step.  A provider     *)
(* process is used once: a restart is another provider.                    *)
(***************************************************************************)
EXTENDS Naturals, FiniteSets

CONSTANTS Providers,     \* provider processes of this run, for one screen
          Sockets,       \* socket paths in use
          Sock,          \* the socket path each provider is started with
          None,
          Overlap,       \* may two providers be starting at the same time
          Crashes        \* bound: processes that are killed

ASSUME RendezvousAssumption ==
    /\ Sock \in [Providers -> Sockets]
    /\ Overlap \in BOOLEAN
    /\ Crashes \in Nat
    /\ None \notin Providers \cup Sockets \cup {"stale", "file"}
    /\ "file" \notin Providers

Stages == {"seat", "control"}

VARIABLES at,         \* per provider: where run() is
          stage,      \* per provider: the listener it is binding
          guards,     \* per provider: the ListenerGuards it holds
          recorded,   \* per provider and listener: the inode it recorded
          fate,       \* per provider: how it ends
          excused,    \* history: another process was alive, or X11 failed
          node,       \* per path: what the name refers to
          listening,  \* listeners that accept connections
          selection,  \* the owner of _AGENT_SEAT_S<screen>
          owner_prop, \* providers whose window carries the advertisement
          root_prop,  \* whose advertisement the root window carries
          crashes,
          find        \* the companion's discovery

files == <<guards, recorded, node, listening>>
x11 == <<selection, owner_prop, root_prop>>
vars == <<at, stage, fate, excused, crashes, files, x11, find>>

Starting == {"bind", "probe", "inspect", "remove", "rebind", "listen", "protect", "record",
             "claim", "advertise_owner", "advertise_root"}
Stopping == {"release", "drop", "unlink"}
Ats == Starting \cup Stopping \cup {"off", "serving", "ended"}

Alive(p) == at[p] \notin {"off", "ended"}
Paths == Stages \X Sockets
Name(p, s) == <<s, Sock[p]>>
Here(p) == Name(p, stage[p])

\* An inode: a provider's socket, a socket left by an earlier run, or a file.
Inodes == Providers \cup {"stale", "file"}

NotLooking == [at |-> "idle", owner |-> None, value |-> None, found |-> None]

TypeOK == /\ at \in [Providers -> Ats]
          /\ stage \in [Providers -> Stages]
          /\ guards \in [Providers -> SUBSET Stages]
          /\ recorded \in [Providers -> [Stages -> Inodes \cup {None}]]
          /\ fate \in [Providers -> {"none", "clean", "failed", "crashed"}]
          /\ excused \in [Providers -> BOOLEAN]
          /\ node \in [Paths -> Inodes \cup {None}]
          /\ listening \subseteq Providers \X Stages
          /\ selection \in Providers \cup {None}
          /\ owner_prop \subseteq Providers
          /\ root_prop \in Providers \cup {None}
          /\ crashes \in 0 .. Crashes
          /\ find \in [at : {"idle", "owner", "value", "recheck"},
                       owner : Providers \cup {None},
                       value : Sockets \cup {None},
                       found : Sockets \cup {None}]

Init == /\ at = [p \in Providers |-> "off"]
        /\ stage = [p \in Providers |-> "seat"]
        /\ guards = [p \in Providers |-> {}]
        /\ recorded = [p \in Providers |-> [s \in Stages |-> None]]
        /\ fate = [p \in Providers |-> "none"]
        /\ excused = [p \in Providers |-> FALSE]
        /\ \E left \in {None, "stale", "file"} :
              node = [n \in Paths |-> IF n[1] = "seat" THEN left ELSE None]
        /\ listening = {}
        /\ selection = None
        /\ owner_prop = {}
        /\ root_prop = None
        /\ crashes = 0
        /\ find = NotLooking

-----------------------------------------------------------------------------
Goto(p, where) == at' = [at EXCEPT ![p] = where]

\* bind returns an error: its listener is closed, and the guards and the claim
\* that run() already holds are dropped.
Fail(p) == /\ Goto(p, IF stage[p] = "control" THEN "release" ELSE "drop")
           /\ fate' = [fate EXCEPT ![p] = "failed"]
           /\ listening' = listening \ {<<p, stage[p]>>}

Start(p) == /\ at[p] = "off"
            /\ Overlap \/ \A q \in Providers : at[q] \notin Starting
            /\ Goto(p, "bind")
            /\ excused' = [q \in Providers |->
                             excused[q] \/ (q = p /\ \E r \in Providers : Alive(r))
                                        \/ (q # p /\ at[q] \in Starting)]
            /\ UNCHANGED <<stage, fate, crashes, files, x11, find>>

\* Mutant: a name that exists is never recovered.
Bind_no_recovery(p) ==
           /\ at[p] \in {"bind", "rebind"}
           /\ IF node[Here(p)] = None
              THEN /\ node' = [node EXCEPT ![Here(p)] = p]
                   /\ Goto(p, "listen")
                   /\ UNCHANGED <<fate, listening>>
              ELSE Fail(p) /\ UNCHANGED node
           /\ UNCHANGED <<stage, excused, crashes, guards, recorded, x11, find>>

\* UnixListener::bind, the first time or after recovery.
Bind(p) == /\ at[p] \in {"bind", "rebind"}
           /\ IF node[Here(p)] = None
              THEN /\ node' = [node EXCEPT ![Here(p)] = p]
                   /\ Goto(p, "listen")
                   /\ UNCHANGED <<fate, listening>>
              ELSE /\ IF at[p] = "bind" THEN Goto(p, "probe") /\ UNCHANGED <<fate, listening>>
                                        ELSE Fail(p)
                   /\ UNCHANGED node
           /\ UNCHANGED <<stage, excused, crashes, guards, recorded, x11, find>>

Answers(n, s) == n \in Providers /\ <<n, s>> \in listening

\* Mutant: a connection that succeeds is not taken for a live provider.
Probe_any(p) == /\ at[p] = "probe"
                /\ Goto(p, "inspect")
                /\ UNCHANGED <<stage, fate, excused, crashes, files, x11, find>>

\* recover_stale_socket: connect.  Refused and not found mean stale.
Probe(p) == /\ at[p] = "probe"
            /\ IF Answers(node[Here(p)], stage[p]) THEN Fail(p)
               ELSE Goto(p, "inspect") /\ UNCHANGED <<fate, listening>>
            /\ UNCHANGED <<stage, excused, crashes, guards, recorded, node, x11, find>>

is_owned_socket(n) == n \in Providers \cup {"stale"}

\* recover_stale_socket: symlink_metadata.
Inspect(p) == /\ at[p] = "inspect"
              /\ IF is_owned_socket(node[Here(p)])
                 THEN Goto(p, "remove") /\ UNCHANGED <<fate, listening>>
                 ELSE Fail(p)
              /\ UNCHANGED <<stage, excused, crashes, guards, recorded, node, x11, find>>

\* recover_stale_socket: remove_file, whatever the name refers to by now.
Remove(p) == /\ at[p] = "remove"
             /\ IF node[Here(p)] = None THEN Fail(p)
                ELSE Goto(p, "rebind") /\ UNCHANGED <<fate, listening>>
             /\ node' = [node EXCEPT ![Here(p)] = None]
             /\ UNCHANGED <<stage, excused, crashes, guards, recorded, x11, find>>

\* The second half of UnixListener::bind: until here a connect is refused.
Listen(p) == /\ at[p] = "listen"
             /\ listening' = listening \cup {<<p, stage[p]>>}
             /\ Goto(p, "protect")
             /\ UNCHANGED <<stage, fate, excused, crashes, guards, recorded, node, x11, find>>

\* set_permissions by name.
Protect(p) == /\ at[p] = "protect"
              /\ IF node[Here(p)] = None THEN Fail(p)
                 ELSE Goto(p, "record") /\ UNCHANGED <<fate, listening>>
              /\ UNCHANGED <<stage, excused, crashes, guards, recorded, node, x11, find>>

\* symlink_metadata by name, and the guard is complete.
Record(p) == /\ at[p] = "record"
             /\ IF node[Here(p)] = None
                THEN Fail(p) /\ UNCHANGED <<guards, recorded>>
                ELSE /\ recorded' = [recorded EXCEPT ![p][stage[p]] = node[Here(p)]]
                     /\ guards' = [guards EXCEPT ![p] = @ \cup {stage[p]}]
                     /\ Goto(p, IF stage[p] = "seat" THEN "claim" ELSE "serving")
                     /\ UNCHANGED <<fate, listening>>
             /\ UNCHANGED <<stage, excused, crashes, node, x11, find>>

-----------------------------------------------------------------------------
\* Ownership::claim.  Any X11 request may fail.
XError(p, where) == /\ Goto(p, where)
                    /\ fate' = [fate EXCEPT ![p] = "failed"]
                    /\ excused' = [excused EXCEPT ![p] = TRUE]
                    /\ UNCHANGED x11

\* claim_selection, under a server grab.
Claim(p) == /\ at[p] = "claim"
            /\ \/ /\ selection = None
                  /\ selection' = p
                  /\ Goto(p, "advertise_owner")
                  /\ UNCHANGED <<fate, excused, owner_prop, root_prop>>
               \/ /\ selection # None
                  /\ Goto(p, "drop")
                  /\ fate' = [fate EXCEPT ![p] = "failed"]
                  /\ UNCHANGED <<excused, x11>>
               \/ XError(p, "drop")
            /\ UNCHANGED <<stage, crashes, files, find>>

AdvertiseOwner(p) == /\ at[p] = "advertise_owner"
                     /\ \/ /\ owner_prop' = owner_prop \cup {p}
                           /\ Goto(p, "advertise_root")
                           /\ UNCHANGED <<fate, excused, selection, root_prop>>
                        \/ XError(p, "release")
                     /\ UNCHANGED <<stage, crashes, files, find>>

\* The second property; then run() goes on to bind the control socket.
AdvertiseRoot(p) == /\ at[p] = "advertise_root"
                    /\ \/ /\ root_prop' = p
                          /\ stage' = [stage EXCEPT ![p] = "control"]
                          /\ Goto(p, "bind")
                          /\ UNCHANGED <<fate, excused, selection, owner_prop>>
                       \/ XError(p, "release") /\ UNCHANGED stage
                    /\ UNCHANGED <<crashes, files, find>>

\* serve ends by a signal.
Stop(p) == /\ at[p] = "serving"
           /\ Goto(p, "release")
           /\ fate' = [fate EXCEPT ![p] = "clean"]
           /\ UNCHANGED <<stage, excused, crashes, files, x11, find>>

withdrawn_root_prop(p) == IF selection = p THEN None ELSE root_prop

\* release, under a server grab: withdraw, or the Drop of Ownership.
Release(p) == /\ at[p] = "release"
              /\ root_prop' = withdrawn_root_prop(p)
              /\ owner_prop' = owner_prop \ {p}
              /\ selection' = IF selection = p THEN None ELSE selection
              /\ Goto(p, "drop")
              /\ UNCHANGED <<stage, fate, excused, crashes, files, find>>

\* The guard that is dropped next: control before seat.
Dropped(p) == IF "control" \in guards[p] THEN "control" ELSE "seat"

Close(p, s) == /\ guards' = [guards EXCEPT ![p] = @ \ {s}]
               /\ listening' = listening \ {<<p, s>>}

\* ListenerGuard::drop: look at the name.
DropLook(p) == /\ at[p] = "drop"
               /\ guards[p] # {}
               /\ LET s == Dropped(p)
                  IN IF node[Name(p, s)] = recorded[p][s]
                     THEN Goto(p, "unlink") /\ UNCHANGED <<guards, listening>>
                     ELSE Close(p, s) /\ UNCHANGED at
               /\ UNCHANGED <<stage, fate, excused, crashes, recorded, node, x11, find>>

\* ListenerGuard::drop: remove_file, then the listener is closed.
Unlink(p) == /\ at[p] = "unlink"
             /\ node' = [node EXCEPT ![Name(p, Dropped(p))] = None]
             /\ Close(p, Dropped(p))
             /\ Goto(p, "drop")
             /\ UNCHANGED <<stage, fate, excused, crashes, recorded, x11, find>>

End(p) == /\ at[p] = "drop"
          /\ guards[p] = {}
          /\ Goto(p, "ended")
          /\ UNCHANGED <<stage, fate, excused, crashes, files, x11, find>>

\* The process is killed: its descriptors and its X11 window go, the socket names
\* and the root property stay.
Crash(p) == /\ Alive(p)
            /\ crashes < Crashes
            /\ crashes' = crashes + 1
            /\ Goto(p, "ended")
            /\ fate' = [fate EXCEPT ![p] = "crashed"]
            /\ guards' = [guards EXCEPT ![p] = {}]
            /\ listening' = listening \ ({p} \X Stages)
            /\ selection' = IF selection = p THEN None ELSE selection
            /\ owner_prop' = owner_prop \ {p}
            /\ UNCHANGED <<stage, excused, recorded, node, root_prop, find>>

Provide(p) == \/ Bind(p) \/ Probe(p) \/ Inspect(p) \/ Remove(p) \/ Listen(p) \/ Protect(p)
              \/ Record(p) \/ Claim(p) \/ AdvertiseOwner(p) \/ AdvertiseRoot(p)
              \/ Release(p) \/ DropLook(p) \/ Unlink(p) \/ End(p)

-----------------------------------------------------------------------------
\* discover_x11 of a companion, and advertised_socket of the seat command: four
\* reads, none of them under a grab.
Undisturbed == UNCHANGED <<at, stage, fate, excused, crashes, files, x11>>

ReadSelection == /\ find.at = "idle"
                 /\ selection # None
                 /\ find' = [NotLooking EXCEPT !.at = "owner", !.owner = selection]
                 /\ Undisturbed

\* The owner's property; the window may be gone or not yet carry it.
ReadOwner == /\ find.at = "owner"
             /\ find' = IF find.owner \in owner_prop
                        THEN [find EXCEPT !.at = "value", !.value = Sock[find.owner]]
                        ELSE NotLooking
             /\ Undisturbed

\* Mutant: the root window alone is believed.
ReadRoot_unmatched ==
            /\ find.at = "value"
            /\ find' = IF root_prop # None
                       THEN [find EXCEPT !.at = "recheck", !.value = Sock[root_prop]]
                       ELSE NotLooking
            /\ Undisturbed

\* The root's property must be there and must be the same bytes.
ReadRoot == /\ find.at = "value"
            /\ find' = IF root_prop # None /\ Sock[root_prop] = find.value
                       THEN [find EXCEPT !.at = "recheck"]
                       ELSE NotLooking
            /\ Undisturbed

\* The selection must still be owned by the same window.
Recheck == /\ find.at = "recheck"
           /\ find' = IF selection = find.owner
                      THEN [NotLooking EXCEPT !.owner = find.owner, !.found = find.value]
                      ELSE NotLooking
           /\ Undisturbed

Discover == ReadSelection \/ ReadOwner \/ ReadRoot \/ Recheck

-----------------------------------------------------------------------------
\* Every process has ended.
AllEnded == (\A p \in Providers : at[p] = "ended") /\ UNCHANGED vars

Next == \/ \E p \in Providers : Start(p) \/ Provide(p) \/ Stop(p) \/ Crash(p)
        \/ Discover \/ AllEnded

Spec == Init /\ [][Next]_vars

-----------------------------------------------------------------------------
\* "A dead, same-owner socket inode is recoverable; a live socket, symlink,
\* regular file, or foreign inode is never replaced" (docs/provider.md): a name
\* that leads to the listener of a running provider goes on leading there until
\* that provider itself shuts down, and a file is left alone.
LiveSocketIsNeverReplaced ==
    [][\A n \in Paths :
          \/ node'[n] = node[n]
          \/ /\ node[n] # "file"
             /\ ~\E p \in Providers : /\ node[n] = p
                                      /\ at[p] \notin Stopping
                                      /\ <<p, n[1]>> \in listening]_vars

\* A provider that serves can be reached: its selection, both advertisements and
\* both socket names lead to it, whatever other providers tried meanwhile.
ServingIsReachable ==
    \A p \in Providers : at[p] = "serving" =>
        /\ selection = p /\ root_prop = p /\ p \in owner_prop
        /\ \A s \in Stages : Answers(node[Name(p, s)], s) /\ node[Name(p, s)] = p

\* A start fails only because another provider was alive during it, X11 failed or
\* the path is not a socket: what a crash leaves behind never blocks a restart.
CrashNeverBlocksRestart ==
    \A p \in Providers : fate[p] = "failed" =>
        excused[p] \/ \E s \in Stages : node[Name(p, s)] = "file"

\* What discovery returns is the socket that the owner advertises at the moment
\* discovery ends: "stale root bytes alone are not live authority".
DiscoveryIsCurrent ==
    [][find.at = "recheck" /\ find'.found # None =>
          /\ selection \in owner_prop
          /\ find'.found = Sock[selection]]_vars
=============================================================================
