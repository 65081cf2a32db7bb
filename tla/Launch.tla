------------------------------- MODULE Launch -------------------------------
(***************************************************************************)
(* Starting applications (launch.rs, and launch_application in session.rs). *)
(* Sessions discover the desktop entries of several data roots while       *)
(* packages come and go, page through a catalog, and start programs as     *)
(* children of the provider.  Children are kept in one vector behind a     *)
(* mutex, which the serve loop reaps at every turn.  The window that a      *)
(* child opens is found by the startup identifier it was given.            *)
(***************************************************************************)
EXTENDS Naturals, Sequences, FiniteSets, FiniteSetsExt, SequencesExt

CONSTANTS
    Sessions,
    Apps,           \* desktop identifiers, 1..n in their sorted order
    Roots,          \* the number of data roots; the first is the user's
    Policies,       \* the launch policies a provider may be started with
    Disks,          \* what may be installed at the start
    Volatile,       \* the entries that are installed and removed
    PageLimit,      \* the limit of a page request
    MaxInstalled,   \* MAX_INSTALLED_APPLICATIONS
    MaxChildren,    \* MAX_ACTIVE_CHILDREN
    Xids,           \* window identifiers
    LastToken,      \* the last launch token (2^64 - 2 in the code)
    MaxChanges,     \* bound: changes of the installed entries
    MaxRequests,    \* bound: launches and listings begun
    None

States == {"absent", "runnable", "unusable"}
Entries == (1..Roots) \X Apps

ASSUME LaunchAssumption ==
    /\ Apps \subseteq Nat
    /\ {Roots, PageLimit, MaxChildren} \subseteq Nat \ {0}
    /\ {MaxInstalled, LastToken, MaxChanges, MaxRequests} \subseteq Nat
    /\ Disks \subseteq [Entries -> States] /\ Volatile \subseteq Entries
    /\ \A p \in Policies : /\ p.mode \in {"deny", "allow_listed", "allow_installed"}
                           /\ p.allow \cup p.deny \subseteq Apps
                           /\ p.allow_user_entries \in BOOLEAN

VARIABLES
    policy, disk, changes, requests,
    pc,             \* where each session is
    want,           \* the application to launch, None for a listing
    root, pending, seen, catalog,   \* the locals of discover_all
    was,            \* history: the states of every entry since discovery began
    cached,         \* SessionCatalog
    origin, collected, cursor,      \* history: a client following the pages
    next_token, token,
    spent,          \* history: the tokens whose child was started
    lock, children, exited,
    windows,        \* the open windows and the token whose child opened them
    shown,          \* the windows that carry a startup identifier
    baseline, reply

discovery == <<root, pending, seen, catalog, was>>
paging == <<cached, origin, collected, cursor>>
launching == <<next_token, token, spent, lock, children, exited>>
screen == <<windows, shown, baseline>>
vars == <<policy, disk, changes, requests, pc, want, discovery, paging, launching, screen, reply>>

NoReply == [token |-> None, client |-> None]
Tokens == 1..LastToken

(* The provider may have launched before: those children are gone and       *)
(* their tokens with them.                                                 *)
Init ==
    /\ policy \in Policies /\ disk \in Disks /\ changes = 0 /\ requests = 0
    /\ pc = [s \in Sessions |-> "idle"]
    /\ want = [s \in Sessions |-> None]
    /\ root = [s \in Sessions |-> 1]
    /\ pending = [s \in Sessions |-> {}]
    /\ seen = [s \in Sessions |-> {}]
    /\ catalog = [s \in Sessions |-> {}]
    /\ was = [s \in Sessions |-> [e \in Entries |-> {}]]
    /\ cached = [s \in Sessions |-> None]
    /\ origin = [s \in Sessions |-> <<>>]
    /\ collected = [s \in Sessions |-> <<>>]
    /\ cursor = [s \in Sessions |-> 0]
    /\ next_token \in 1..LastToken
    /\ token = [s \in Sessions |-> None]
    /\ spent = {}
    /\ lock = None /\ children = <<>> /\ exited = {}
    /\ windows = [x \in Xids |-> None] /\ shown = {}
    /\ baseline = [s \in Sessions |-> None]
    /\ reply = [s \in Sessions |-> NoReply]

----------------------------------------------------------------------------
allows_any ==
    CASE policy.mode = "deny"            -> FALSE
      [] policy.mode = "allow_listed"    -> policy.allow # {}
      [] policy.mode = "allow_installed" -> TRUE

permits(e) ==
    /\ e[1] = 1 => policy.allow_user_entries
    /\ e[2] \notin policy.deny
    /\ CASE policy.mode = "deny"            -> FALSE
         [] policy.mode = "allow_listed"    -> e[2] \in policy.allow
         [] policy.mode = "allow_installed" -> TRUE

Discovering(s) == pc[s] \in {"roots", "entries"}

(* A discovery only reads, and only the disk: what else happens meanwhile  *)
(* could as well happen before or after it, and waits in this model.       *)
Undisturbed == \A s \in Sessions : ~ Discovering(s)

(* A discovery begins, for a launch or for a first page.                   *)
Discover(s, a) ==
    /\ requests < MaxRequests
    /\ requests' = requests + 1
    /\ want' = [want EXCEPT ![s] = a]
    /\ root' = [root EXCEPT ![s] = IF allows_any THEN 1 ELSE Roots + 1]
    /\ was' = [was EXCEPT ![s] = [e \in Entries |-> {disk[e]}]]
    /\ pc' = [pc EXCEPT ![s] = "roots"]
    /\ UNCHANGED <<pending, seen, catalog>>

(* The request returns and its locals are gone.                            *)
Answer(s, r) ==
    /\ pc' = [pc EXCEPT ![s] = "idle"]
    /\ reply' = [reply EXCEPT ![s] = r]
    /\ want' = [want EXCEPT ![s] = None]
    /\ token' = [token EXCEPT ![s] = None]
    /\ baseline' = [baseline EXCEPT ![s] = None]

Forget(s) ==
    /\ root' = [root EXCEPT ![s] = 1]
    /\ pending' = [pending EXCEPT ![s] = {}]
    /\ seen' = [seen EXCEPT ![s] = {}]
    /\ catalog' = [catalog EXCEPT ![s] = {}]
    /\ was' = [was EXCEPT ![s] = [e \in Entries |-> {}]]

(* desktop_paths of the next root: the entries that are there now.         *)
ListRoot(s) ==
    /\ pc[s] = "roots"
    /\ IF root[s] > Roots
       THEN pc' = [pc EXCEPT ![s] = "found"] /\ UNCHANGED pending
       ELSE /\ pending' = [pending EXCEPT ![s] =
                   {a \in Apps : disk[<<root[s], a>>] # "absent"}]
            /\ pc' = [pc EXCEPT ![s] = "entries"]
    /\ UNCHANGED <<policy, disk, changes, requests, want, root, seen, catalog, was, paging,
                   launching, screen, reply>>

(* Mutant: only an entry that can be run hides those of later roots.       *)
Shadow_runnable(s, e) ==
    IF disk[e] = "runnable" THEN seen[s] \cup {e[2]} ELSE seen[s]

(* An identifier is taken by the first root that has it, usable or not.    *)
Shadow(s, e) == seen[s] \cup {e[2]}

(* read_entry of the next path.  The file may have changed since the       *)
(* directory was read.                                                     *)
ReadEntry(s) ==
    /\ pc[s] = "entries"
    /\ pending[s] # {}
    /\ LET a == Min(pending[s])
           e == <<root[s], a>>
           new == a \notin seen[s]
       IN  /\ pending' = [pending EXCEPT ![s] = @ \ {a}]
           /\ new => Cardinality(catalog[s]) < MaxInstalled
           /\ seen' = [seen EXCEPT ![s] = IF new THEN Shadow(s, e) ELSE @]
           /\ catalog' = [catalog EXCEPT ![s] =
                              IF new /\ disk[e] = "runnable" THEN @ \cup {e} ELSE @]
    /\ UNCHANGED <<policy, disk, changes, requests, pc, want, root, was, paging, launching,
                   screen, reply>>

(* The catalog is full when a new identifier comes up.                     *)
TooLarge(s) ==
    /\ pc[s] = "entries"
    /\ pending[s] # {} /\ Min(pending[s]) \notin seen[s]
    /\ Cardinality(catalog[s]) = MaxInstalled
    /\ Answer(s, NoReply)
    /\ Forget(s)
    /\ UNCHANGED <<policy, disk, changes, requests, paging, next_token, spent, lock, children,
                   exited, windows, shown>>

NextRoot(s) ==
    /\ pc[s] = "entries"
    /\ pending[s] = {}
    /\ root' = [root EXCEPT ![s] = @ + 1]
    /\ pc' = [pc EXCEPT ![s] = "roots"]
    /\ UNCHANGED <<policy, disk, changes, requests, want, pending, seen, catalog, was, paging,
                   launching, screen, reply>>

(* discover: what the policy permits of the catalog.                       *)
Permitted(s) == {e \in catalog[s] : permits(e)}
Sorted(S) == SetToSortSeq(S, LAMBDA d, e : d[2] < e[2])

----------------------------------------------------------------------------
(* SessionCatalog::list.                                                   *)
BeginList(s) ==
    /\ pc[s] = "idle"
    /\ Discover(s, None)
    /\ collected' = [collected EXCEPT ![s] = <<>>]
    /\ origin' = [origin EXCEPT ![s] = <<>>]
    /\ cursor' = [cursor EXCEPT ![s] = 0]
    /\ UNCHANGED <<policy, disk, changes, cached, launching, screen, reply>>

(* The page of a catalog at a cursor, and the client that takes it.        *)
Page(s, all, start) ==
    LET end == IF start + PageLimit > Len(all) THEN Len(all) ELSE start + PageLimit
    IN  /\ collected' = [collected EXCEPT ![s] = @ \o SubSeq(all, start + 1, end)]
        /\ cursor' = [cursor EXCEPT ![s] = IF end < Len(all) THEN end ELSE 0]

FirstPage(s) ==
    /\ pc[s] = "found" /\ want[s] = None
    /\ LET all == Sorted(Permitted(s)) IN
       /\ cached' = [cached EXCEPT ![s] = all]
       /\ origin' = [origin EXCEPT ![s] = all]
       /\ Page(s, all, 0)
    /\ Answer(s, NoReply)
    /\ Forget(s)
    /\ UNCHANGED <<policy, disk, changes, requests, next_token, spent, lock, children, exited,
                   windows, shown>>

(* Mutant: a later page is taken from what is installed by then.           *)
Later_fresh(s) == Sorted({e \in Entries : permits(e) /\ disk[e] = "runnable"})

(* A later page is taken from the catalog the session remembers.           *)
Later(s) == cached[s]

NextPage(s) ==
    /\ pc[s] = "idle" /\ cursor[s] > 0
    /\ Page(s, Later(s), cursor[s])
    /\ UNCHANGED <<policy, disk, changes, requests, pc, want, discovery, cached, origin,
                   launching, screen, reply>>

----------------------------------------------------------------------------
(* launch_application: a baseline of the windows is taken first, if the    *)
(* session may observe them and the observation succeeds.                  *)
BeginLaunch(s, a) ==
    /\ pc[s] = "idle"
    /\ Discover(s, a)
    /\ baseline' \in {[baseline EXCEPT ![s] = b] :
                         b \in {None, {x \in Xids : windows[x] # None}}}
    /\ reply' = [reply EXCEPT ![s] = NoReply]
    /\ UNCHANGED <<policy, disk, changes, paging, launching, windows, shown>>

Choose(s) ==
    /\ pc[s] = "found" /\ want[s] # None
    /\ IF \E e \in Permitted(s) : e[2] = want[s]
       THEN pc' = [pc EXCEPT ![s] = "token"] /\ UNCHANGED <<want, token, baseline, reply>>
       ELSE Answer(s, NoReply)
    /\ Forget(s)
    /\ UNCHANGED <<policy, disk, changes, requests, paging, next_token, spent, lock, children,
                   exited, windows, shown>>

(* The token is taken with one atomic update, before the lock, and is not  *)
(* given back when the launch fails.                                       *)
TakeToken(s) ==
    /\ pc[s] = "token"
    /\ next_token <= LastToken
    /\ token' = [token EXCEPT ![s] = next_token]
    /\ next_token' = next_token + 1
    /\ pc' = [pc EXCEPT ![s] = "lock"]
    /\ UNCHANGED <<policy, disk, changes, requests, want, discovery, paging, spent, lock,
                   children, exited, screen, reply>>

Exhausted(s) ==
    /\ pc[s] = "token"
    /\ next_token > LastToken
    /\ Answer(s, NoReply)
    /\ UNCHANGED <<policy, disk, changes, requests, discovery, paging, next_token, spent, lock,
                   children, exited, windows, shown>>

(* reap_children: every child that has exited is waited for.  The last     *)
(* child takes the place of a removed one; the order is of no account.     *)
Reaped == SelectSeq(children, LAMBDA t : t \notin exited)

Reap == children' = Reaped /\ exited' = exited \cap ToSet(Reaped)

Room == Len(children') < MaxChildren

(* The children are locked, reaped and counted.                            *)
Lock(s) ==
    /\ pc[s] = "lock" /\ lock = None
    /\ Reap
    /\ \/ /\ Room
          /\ lock' = s
          /\ pc' = [pc EXCEPT ![s] = "spawn"]
          /\ UNCHANGED <<want, token, baseline, reply>>
       \/ ~ Room /\ Answer(s, NoReply) /\ UNCHANGED lock
    /\ UNCHANGED <<policy, disk, changes, requests, discovery, paging, next_token, spent,
                   windows, shown>>

(* The command is built and spawned, which may fail, and the lock is free. *)
Spawn(s) ==
    /\ pc[s] = "spawn"
    /\ lock' = None
    /\ \/ /\ children' = Append(children, token[s])
          /\ spent' = spent \cup {token[s]}
          /\ IF baseline[s] = None
             THEN Answer(s, [token |-> token[s], client |-> None])
             ELSE /\ pc' = [pc EXCEPT ![s] = "correlate"]
                  /\ UNCHANGED <<want, token, baseline, reply>>
       \/ Answer(s, NoReply) /\ UNCHANGED <<children, spent>>
    /\ UNCHANGED <<policy, disk, changes, requests, discovery, paging, next_token, exited,
                   windows, shown>>

(* Mutant: any window that was not there before is taken for the child's.  *)
Matches_new(s, x) == windows[x] # None /\ x \notin baseline[s]

(* A new window whose startup identifier is the one of this launch.        *)
Matches(s, x) ==
    /\ x \notin baseline[s]
    /\ x \in shown /\ windows[x] = token[s]

(* correlate_launch: scans until a window matches or a second is over.     *)
Correlate(s) ==
    /\ pc[s] = "correlate"
    /\ \/ \E x \in Xids : Matches(s, x) /\ Answer(s, [token |-> token[s], client |-> x])
       \/ Answer(s, [token |-> token[s], client |-> None])
    /\ UNCHANGED <<policy, disk, changes, requests, discovery, paging, next_token, spent, lock,
                   children, exited, windows, shown>>

Session(s) ==
    \/ ListRoot(s) \/ ReadEntry(s) \/ TooLarge(s) \/ NextRoot(s)
    \/ /\ Undisturbed
       /\ \/ FirstPage(s) \/ Choose(s) \/ TakeToken(s) \/ Exhausted(s)
          \/ Lock(s) \/ Spawn(s) \/ Correlate(s)

(* The serve loop reaps at every turn.                                     *)
Turn ==
    /\ Undisturbed
    /\ lock = None
    /\ exited # {}
    /\ Reap
    /\ UNCHANGED <<policy, disk, changes, requests, pc, want, discovery, paging, next_token, token,
                   spent, lock, screen, reply>>

----------------------------------------------------------------------------
(* The rest of the world changes what is still looked at.                  *)
Install(e, st) ==
    /\ \E s \in Sessions : Discovering(s) \/ cursor[s] > 0
    /\ changes < MaxChanges
    /\ changes' = changes + 1
    /\ disk[e] # st
    /\ disk' = [disk EXCEPT ![e] = st]
    /\ was' = [s \in Sessions |-> IF Discovering(s) THEN [was[s] EXCEPT ![e] = @ \cup {st}]
                                                   ELSE was[s]]
    /\ UNCHANGED <<policy, requests, pc, want, root, pending, seen, catalog, paging, launching,
                   screen, reply>>

Exit(t) ==
    /\ t \in ToSet(children) \ exited
    /\ exited' = exited \cup {t}
    /\ UNCHANGED <<policy, disk, changes, requests, pc, want, discovery, paging, next_token, token,
                   spent, lock, children, screen, reply>>

(* A child, or a program that was not launched here (0), opens a window,   *)
(* with or without a startup identifier.                                   *)
Open(x, t, identified) ==
    /\ \E s \in Sessions : baseline[s] # None
    /\ windows[x] = None
    /\ t = 0 \/ t \in ToSet(children) \ exited
    /\ identified => t # 0
    /\ windows' = [windows EXCEPT ![x] = t]
    /\ shown' = IF identified THEN shown \cup {x} ELSE shown
    /\ UNCHANGED <<policy, disk, changes, requests, pc, want, discovery, paging, launching,
                   baseline, reply>>

Close(x) ==
    /\ windows[x] # None
    /\ windows' = [windows EXCEPT ![x] = None]
    /\ shown' = shown \ {x}
    /\ UNCHANGED <<policy, disk, changes, requests, pc, want, discovery, paging, launching,
                   baseline, reply>>

World ==
    \/ \E t \in Tokens : Exit(t)
    \/ \E x \in Xids, t \in Tokens \cup {0}, b \in BOOLEAN : Open(x, t, b)
    \/ \E x \in Xids : Close(x)

Next ==
    \/ \E s \in Sessions : Session(s)
    \/ \E e \in Volatile, st \in States : Install(e, st)
    \/ /\ Undisturbed
       /\ \/ \E s \in Sessions : NextPage(s) \/ BeginList(s)
          \/ \E s \in Sessions, a \in Apps : BeginLaunch(s, a)
          \/ World
    \/ Turn

Spec == Init /\ [][Next]_vars

----------------------------------------------------------------------------
TypeOK ==
    /\ policy \in Policies /\ disk \in [Entries -> States] /\ changes \in 0..MaxChanges
    /\ requests \in 0..MaxRequests
    /\ pc \in [Sessions -> {"idle", "roots", "entries", "found", "token", "lock",
                            "spawn", "correlate"}]
    /\ \A s \in Sessions :
          /\ want[s] \in Apps \cup {None} /\ root[s] \in 1..(Roots + 1)
          /\ pending[s] \cup seen[s] \subseteq Apps /\ catalog[s] \subseteq Entries
          /\ token[s] \in Tokens \cup {None}
          /\ pc[s] = "spawn" <=> lock = s
    /\ next_token \in 1..(LastToken + 1)
    /\ spent \subseteq Tokens
    /\ ToSet(children) \subseteq Tokens /\ exited \subseteq ToSet(children)
    /\ windows \in [Xids -> Tokens \cup {0, None}] /\ shown \subseteq Xids

(* What a discovery finds agrees with what was installed while it ran,     *)
(* though it reads root by root and file by file: an entry found was       *)
(* runnable at some moment, no earlier root had its identifier all along,  *)
(* and an entry that was runnable all along with no rival is found         *)
(* (discover_all's `seen`, user entries shadowing system ones).            *)
DiscoveryFollowsDisk ==
    \A s \in Sessions : pc[s] = "found" /\ allows_any =>
        /\ \A e \in catalog[s] :
              /\ "runnable" \in was[s][e]
              /\ \A r \in 1..(e[1] - 1) : "absent" \in was[s][<<r, e[2]>>]
        /\ \A e \in Entries :
              was[s][e] = {"runnable"} /\ (\A r \in 1..(e[1] - 1) : was[s][<<r, e[2]>>] = {"absent"})
                  => e \in catalog[s]

(* The pages a client collects by following the cursor are one catalog, in *)
(* order, without a gap or a repetition, whatever is installed or removed  *)
(* meanwhile (SessionCatalog's cache).                                     *)
PagesFormOneCatalog ==
    \A s \in Sessions :
        collected[s] = IF cursor[s] = 0 THEN origin[s] ELSE SubSeq(origin[s], 1, cursor[s])

(* The client in a reply is a window that the child of this very launch    *)
(* opened, also when two sessions launch the same application at once      *)
(* (correlate_launch's baseline and startup identifier).                   *)
ClientIsOwn ==
    [][\A s \in Sessions : reply'[s] # reply[s] /\ reply'[s].client # None =>
          windows[reply'[s].client] = reply'[s].token]_vars
=============================================================================
