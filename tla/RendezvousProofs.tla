-------------------------- MODULE RendezvousProofs --------------------------
(***************************************************************************)
(* Taking over a screen and finding its provider, for any number of        *)
(* provider processes, socket paths and crashes.  Discovery is correct     *)
(* however providers start; the sockets are when starts do not overlap.    *)
(***************************************************************************)
EXTENDS Rendezvous, TLAPS

\* The prover of the leaves that name none, and how long it may take.
USE ZenonT(60)

Binding == {"bind", "probe", "inspect", "remove", "rebind", "listen", "protect", "record"}
Claiming == {"claim", "advertise_owner", "advertise_root"}

\* run() holds the selection.
Claimed(p) == \/ at[p] \in {"advertise_owner", "advertise_root", "serving", "release"}
              \/ at[p] \in Binding /\ stage[p] = "control"

\* Which guards run() holds where it is, and what a guard stands for.
GuardInv(p) ==
    /\ at[p] \in Claiming \cup {"off"} => stage[p] = "seat"
    /\ at[p] \in Binding => guards[p] = IF stage[p] = "seat" THEN {} ELSE {"seat"}
    /\ at[p] \in Claiming => guards[p] = {"seat"}
    /\ at[p] = "serving" => guards[p] = Stages
    /\ at[p] \in {"off", "ended"} => guards[p] = {}
    /\ at[p] = "unlink" => guards[p] # {}
    /\ \A s \in guards[p] : node[Name(p, s)] = p /\ <<p, s>> \in listening /\ recorded[p][s] = p

\* The listener that is being bound.
BindInv(p) ==
    /\ \A s \in Stages : <<p, s>> \in listening =>
          s \in guards[p] \/ (s = stage[p] /\ at[p] \in {"protect", "record"})
    /\ at[p] \in {"protect", "record"} => <<p, stage[p]>> \in listening
    /\ at[p] \in {"listen", "protect", "record"} => node[Here(p)] = p
    /\ at[p] = "rebind" => node[Here(p)] = None
    /\ at[p] \in {"inspect", "remove"} => ~Answers(node[Here(p)], stage[p])
    /\ at[p] = "remove" => node[Here(p)] # "file"

\* The selection and the advertisements.
ClaimInv(p) ==
    /\ selection = p <=> Claimed(p)
    /\ Claimed(p) /\ at[p] \notin {"advertise_owner", "advertise_root", "release"} => root_prop = p
    /\ Claimed(p) /\ at[p] \notin {"advertise_owner", "release"} => p \in owner_prop

\* A start that has no excuse is alone.
AloneInv(p) ==
    /\ at[p] \in Starting /\ ~excused[p] => \A q \in Providers : q # p => ~Alive(q)
    /\ at[p] \in {"probe", "inspect", "remove"} /\ ~excused[p] => node[Here(p)] # None
    /\ fate[p] = "failed" => excused[p] \/ \E s \in Stages : node[Name(p, s)] = "file"

OneStarts == \A p, q \in Providers : at[p] \in Starting /\ at[q] \in Starting => p = q

ProcInv(p) == GuardInv(p) /\ BindInv(p) /\ ClaimInv(p) /\ AloneInv(p)

IInv == TypeOK /\ OneStarts /\ \A p \in Providers : ProcInv(p)

\* What a discovery has read: its owner claimed the selection once, and while it holds
\* the selection it advertises.
Before(p) == \/ at[p] \in {"off", "claim"}
             \/ at[p] \in Binding /\ stage[p] = "seat"

FindInv ==
    /\ find.at # "idle" =>
          find.owner \in Providers /\ ~Before(find.owner) /\ find.found = None
    /\ find.at \in {"value", "recheck"} =>
          /\ find.value = Sock[find.owner]
          /\ selection = find.owner => find.owner \in owner_prop

-----------------------------------------------------------------------------
(* Types, and discovery *)

\* Every socket name of a provider is a path.
LEMMA NameIsPath ==
    ASSUME NEW p \in Providers, NEW s \in Stages
    PROVE  Name(p, s) \in Paths /\ Name(p, s)[1] = s
  BY RendezvousAssumption DEF Name, Paths

\* The start of every process and of the X11 server is well typed.
LEMMA InitType == Init => TypeOK
  BY SMTT(60), RendezvousAssumption
     DEF Init, TypeOK, Ats, Starting, Stopping, Stages, Inodes, Paths, NotLooking

\* Every step of a provider, of its crash and of a discovery keeps the types.
LEMMA StepType == TypeOK /\ [Next]_vars => TypeOK'
  <1> SUFFICES ASSUME TypeOK, [Next]_vars
               PROVE  TypeOK'
    OBVIOUS
  <1> USE DEF TypeOK
  <1>1. CASE UNCHANGED vars  BY <1>1 DEF vars, files, x11
  <1>2. ASSUME NEW p \in Providers, Start(p) \/ Provide(p) \/ Stop(p) \/ Crash(p)
        PROVE  TypeOK'
    <2>a. \A w \in Ats : Goto(p, w) => at' \in [Providers -> Ats]  BY DEF Goto
    <2>b. {"probe", "drop", "release", "inspect", "remove", "rebind", "listen", "protect",
           "record", "claim", "serving", "advertise_owner", "advertise_root", "unlink",
           "ended", "bind"} \subseteq Ats
      BY DEF Ats, Starting, Stopping
    <2>c. Here(p) \in Paths  BY NameIsPath DEF Here
    <2>1. CASE Start(p)  BY <2>1, <2>a, <2>b DEF Start, files, x11
    <2>2. CASE Bind(p)  BY <2>2, <2>a, <2>b DEF Bind, Fail, x11, Inodes
    <2>3. CASE Probe(p)  BY <2>3, <2>a, <2>b DEF Probe, Fail, x11
    <2>4. CASE Inspect(p)  BY <2>4, <2>a, <2>b DEF Inspect, Fail, x11
    <2>5. CASE Remove(p)  BY <2>5, <2>a, <2>b DEF Remove, Fail, x11
    <2>6. CASE Listen(p)  BY SMTT(60), <2>6, <2>a, <2>b DEF Listen, x11
    <2>7. CASE Protect(p)  BY <2>7, <2>a, <2>b DEF Protect, Fail, x11
    <2>8. CASE Record(p)
      <3>1. at' \in [Providers -> Ats] /\ fate' \in [Providers -> {"none", "clean", "failed", "crashed"}]
        BY <2>8, <2>a, <2>b DEF Record, Fail
      <3>2. node[Here(p)] \in Inodes \cup {None} /\ stage[p] \in Stages  BY <2>c
      <3>3. [recorded[p] EXCEPT ![stage[p]] = node[Here(p)]] \in [Stages -> Inodes \cup {None}]
        BY <3>2
      <3>4. \/ recorded' = recorded
            \/ recorded' = [recorded EXCEPT ![p] = [recorded[p] EXCEPT ![stage[p]] = node[Here(p)]]]
        BY <2>8 DEF Record
      <3>5. recorded' \in [Providers -> [Stages -> Inodes \cup {None}]]  BY <3>3, <3>4
      <3>6. guards' \in [Providers -> SUBSET Stages] /\ listening' \subseteq Providers \X Stages
        BY SMTT(60), <2>8, <3>2 DEF Record, Fail
      <3> QED  BY <2>8, <3>1, <3>5, <3>6 DEF Record, x11
    <2>9. CASE Claim(p)  BY <2>9, <2>a, <2>b DEF Claim, XError, files, x11
    <2>10. CASE AdvertiseOwner(p)
      BY <2>10, <2>a, <2>b DEF AdvertiseOwner, XError, files, x11
    <2>11. CASE AdvertiseRoot(p)
      BY <2>11, <2>a, <2>b DEF AdvertiseRoot, XError, files, x11, Stages
    <2>12. CASE Release(p)
      BY <2>12, <2>a, <2>b DEF Release, withdrawn_root_prop, files
    <2>13. CASE DropLook(p)
      <3>1. at' \in [Providers -> Ats]  BY <2>13, <2>a, <2>b DEF DropLook
      <3>2. \/ guards' = guards /\ listening' = listening
            \/ \E s : Close(p, s)
        BY <2>13 DEF DropLook
      <3>3. guards' \in [Providers -> SUBSET Stages] /\ listening' \subseteq Providers \X Stages
        BY <3>2 DEF Close
      <3> QED  BY <2>13, <3>1, <3>3 DEF DropLook, x11
    <2>14. CASE Unlink(p)  BY <2>14, <2>a, <2>b DEF Unlink, Close, x11
    <2>15. CASE End(p)  BY <2>15, <2>a, <2>b DEF End, files, x11
    <2>16. CASE Stop(p)  BY <2>16, <2>a, <2>b DEF Stop, files, x11
    <2>17. CASE Crash(p)  BY SMTT(60), <2>17, <2>a, <2>b, RendezvousAssumption DEF Crash
    <2> QED
      BY <1>2, <2>1, <2>2, <2>3, <2>4, <2>5, <2>6, <2>7, <2>8, <2>9, <2>10, <2>11, <2>12,
         <2>13, <2>14, <2>15, <2>16, <2>17
         DEF Provide
  <1>3. CASE Discover
    <2> DEFINE Finds == [at : {"idle", "owner", "value", "recheck"},
                         owner : Providers \cup {None},
                         value : Sockets \cup {None}, found : Sockets \cup {None}]
    <2>1. CASE ReadSelection  BY <2>1 DEF ReadSelection, NotLooking, Undisturbed, files, x11
    <2>2. CASE ReadOwner
      <3>1. find.owner \in owner_prop => Sock[find.owner] \in Sockets
        BY RendezvousAssumption
      <3>2. find' \in Finds  BY <2>2, <3>1 DEF ReadOwner, NotLooking
      <3> QED  BY <2>2, <3>2 DEF ReadOwner, Undisturbed, files, x11
    <2>3. CASE ReadRoot  BY <2>3 DEF ReadRoot, NotLooking, Undisturbed, files, x11
    <2>4. CASE Recheck  BY <2>4 DEF Recheck, NotLooking, Undisturbed, files, x11
    <2> QED  BY <1>3, <2>1, <2>2, <2>3, <2>4 DEF Discover
  <1>4. CASE AllEnded  BY <1>4 DEF AllEnded, vars, files, x11
  <1> QED  BY <1>1, <1>2, <1>3, <1>4 DEF Next

\* An owner of the selection has been through claim_selection, and a process never goes
\* back before it.
OwnerInv == \A p \in Providers : selection = p => ~Before(p)

\* No step brings a process back before claim_selection, or takes the advertisement from
\* an owner that keeps the selection.
LEMMA NeverBefore ==
    ASSUME TypeOK, OwnerInv, NEW p \in Providers, Start(p) \/ Provide(p) \/ Stop(p) \/ Crash(p)
    PROVE  /\ OwnerInv'
           /\ \A q \in Providers : ~Before(q) => ~Before(q)'
           /\ \A q \in Providers : ~Before(q) /\ selection' = q /\ (selection = q => q \in owner_prop)
                                   => q \in owner_prop'
           /\ find' = find
  <1> USE DEF TypeOK, OwnerInv, Before, Goto
  <1>1. CASE Start(p) \/ Bind(p) \/ Probe(p)
    BY SMTT(60), <1>1 DEF Start, Bind, Probe, Fail, Binding, x11, files
  <1>2. CASE Inspect(p) \/ Remove(p) \/ Listen(p)
    BY SMTT(60), <1>2 DEF Inspect, Remove, Listen, Fail, Binding, x11, files
  <1>3. CASE Protect(p) \/ Record(p)
    BY SMTT(60), <1>3 DEF Protect, Record, Fail, Binding, x11, files
  <1>4. CASE Claim(p) \/ AdvertiseOwner(p) \/ AdvertiseRoot(p)
    BY SMTT(60), <1>4, RendezvousAssumption
       DEF Claim, AdvertiseOwner, AdvertiseRoot, XError, Binding, x11, files, Stages
  <1>5. CASE Release(p) \/ Crash(p)
    BY SMTT(60), <1>5, RendezvousAssumption DEF Release, Crash, Alive, Binding, x11, files
  <1>6. CASE DropLook(p) \/ Unlink(p) \/ End(p) \/ Stop(p)
    BY SMTT(60), <1>6 DEF DropLook, Unlink, Close, End, Stop, Binding, x11, files
  <1> QED  BY <1>1, <1>2, <1>3, <1>4, <1>5, <1>6 DEF Provide

\* The discovery's four reads, with every step of every provider between them.
LEMMA StepFind == TypeOK /\ OwnerInv /\ FindInv /\ [Next]_vars => OwnerInv' /\ FindInv'
  <1> SUFFICES ASSUME TypeOK, OwnerInv, FindInv, [Next]_vars
               PROVE  OwnerInv' /\ FindInv'
    OBVIOUS
  <1>1. ASSUME NEW p \in Providers, Start(p) \/ Provide(p) \/ Stop(p) \/ Crash(p)
        PROVE  OwnerInv' /\ FindInv'
    BY <1>1, NeverBefore DEF FindInv
  <1>2. CASE Discover
    <2>1. OwnerInv' /\ \A p \in Providers : Before(p)' <=> Before(p)
      BY <1>2
         DEF Discover, ReadSelection, ReadOwner, ReadRoot, Recheck, Undisturbed, OwnerInv,
             Before, files, x11
    <2>2. selection' = selection /\ owner_prop' = owner_prop
      BY <1>2 DEF Discover, ReadSelection, ReadOwner, ReadRoot, Recheck, Undisturbed, x11
    <2>3. CASE ReadSelection
      BY <2>1, <2>2, <2>3 DEF ReadSelection, NotLooking, FindInv, TypeOK, OwnerInv
    <2>4. CASE ReadOwner
      BY <2>1, <2>2, <2>4 DEF ReadOwner, NotLooking, FindInv, TypeOK
    <2>5. CASE ReadRoot
      BY <2>1, <2>2, <2>5 DEF ReadRoot, NotLooking, FindInv, TypeOK
    <2>6. CASE Recheck
      BY <2>1, <2>2, <2>6 DEF Recheck, NotLooking, FindInv, TypeOK
    <2> QED  BY <1>2, <2>1, <2>3, <2>4, <2>5, <2>6 DEF Discover
  <1>3. CASE AllEnded \/ UNCHANGED vars
    BY <1>3 DEF AllEnded, vars, files, x11, OwnerInv, FindInv, Before
  <1> QED  BY <1>1, <1>2, <1>3 DEF Next

\* The types of Rendezvous, for every value of its constants.
THEOREM TypeCorrect == Spec => []TypeOK
  BY InitType, StepType, PTL DEF Spec

\* discover_x11 answers with the socket of a provider that owns the selection and
\* advertises it at the moment of the last read, however many providers start, stop and
\* crash between its four reads, overlapping starts included.
THEOREM DiscoveryIsSound == Spec => DiscoveryIsCurrent
  <1>1. Init => OwnerInv /\ FindInv
    BY SMTT(60), RendezvousAssumption DEF Init, OwnerInv, FindInv, NotLooking
  <1>2. TypeOK /\ OwnerInv /\ FindInv /\ [Next]_vars
        => [find.at = "recheck" /\ find'.found # None =>
               /\ selection \in owner_prop
               /\ find'.found = Sock[selection]]_vars
    <2> SUFFICES ASSUME TypeOK, OwnerInv, FindInv, Next, find.at = "recheck", find'.found # None
                 PROVE  selection \in owner_prop /\ find'.found = Sock[selection]
      BY DEF vars
    <2>1. CASE Recheck  BY <2>1 DEF Recheck, FindInv, TypeOK, NotLooking
    <2> QED
      BY <2>1, NeverBefore
         DEF FindInv, Next, Discover, ReadSelection, ReadOwner, ReadRoot, AllEnded, vars
  <1> QED  BY <1>1, <1>2, InitType, StepType, StepFind, PTL DEF Spec, DiscoveryIsCurrent

-----------------------------------------------------------------------------
(* The sockets, when starts do not overlap *)

\* What a step of process p may do to the rest, as seen by another process: its own
\* records stay, a name that leads to a live listener of another is left alone, and
\* while another is starting p does not start.
Acts(p) ==
    /\ \A q \in Providers : q # p =>
          /\ at'[q] = at[q] /\ stage'[q] = stage[q] /\ guards'[q] = guards[q]
          /\ recorded'[q] = recorded[q] /\ fate'[q] = fate[q] /\ excused'[q] = excused[q]
          /\ selection' = q <=> selection = q
          /\ q \in owner_prop' <=> q \in owner_prop
          /\ \A s \in Stages : <<q, s>> \in listening' <=> <<q, s>> \in listening
          /\ selection = q => root_prop' = root_prop
          /\ at[q] \in Starting => Alive(p) /\ at[p] \notin Starting /\ at'[p] \notin Starting
    /\ \A s \in Stages : <<p, s>> \in listening' => <<p, s>> \in listening \/ at[p] \in Starting
    /\ \A n \in Paths :
          \/ node'[n] = node[n]
          \/ /\ node[n] # "file"
             /\ node'[n] = None \/ at[p] \in Starting
             /\ \A q \in Providers :
                   node[n] = q => q = p \/ (at[p] \in Starting /\ <<q, n[1]>> \notin listening)

\* Such a step leaves the other processes in order.
LEMMA OtherInv ==
    ASSUME IInv, NEW p \in Providers, NEW q \in Providers, p # q, Acts(p)
    PROVE  ProcInv(q)'
  <1>t. TypeOK /\ ProcInv(q)  BY DEF IInv
  <1>n. \A s \in Stages : Name(q, s) \in Paths /\ Name(q, s)[1] = s /\ Name(q, s)' = Name(q, s)
    BY NameIsPath DEF Name
  <1>l. /\ at'[q] = at[q] /\ stage'[q] = stage[q] /\ guards'[q] = guards[q]
        /\ recorded'[q] = recorded[q] /\ fate'[q] = fate[q] /\ excused'[q] = excused[q]
        /\ \A s \in Stages : <<q, s>> \in listening' <=> <<q, s>> \in listening
        /\ at[q] \in Starting => Alive(p) /\ at[p] \notin Starting /\ at'[p] \notin Starting
    BY DEF Acts
  <1>h. Here(q) \in Paths /\ Here(q)[1] = stage[q] /\ Here(q)' = Here(q)
    BY <1>t, <1>n, <1>l DEF Here, TypeOK
  <1>g. guards[q] \subseteq Stages /\ stage[q] \in Stages  BY <1>t DEF TypeOK
  <1>a. ASSUME NEW s \in guards[q]
        PROVE  node'[Name(q, s)] = q
    <2> DEFINE n == Name(q, s)
    <2>1. n \in Paths /\ n[1] = s  BY <1>n, <1>g
    <2>2. node[n] = q /\ <<q, n[1]>> \in listening  BY <1>t, <2>1 DEF ProcInv, GuardInv
    <2> HIDE DEF n
    <2>3. node'[n] = q  BY <2>1, <2>2 DEF Acts
    <2> QED  BY <2>3 DEF n
  <1>1. GuardInv(q)'
    <2>1. \A s \in guards[q] : <<q, s>> \in listening' /\ recorded'[q][s] = q
      BY <1>t, <1>l, <1>g DEF ProcInv, GuardInv
    <2> QED  BY <1>t, <1>l, <1>a, <2>1 DEF ProcInv, GuardInv, Name
  <1>2. BindInv(q)'
    <2>1. CASE at[q] \notin Starting
      BY <2>1, <1>t, <1>l DEF ProcInv, BindInv, Starting
    <2>2. CASE at[q] \in Starting
      <3>1. /\ node'[Here(q)] = node[Here(q)] \/ node'[Here(q)] = None
            /\ node[Here(q)] = q => node'[Here(q)] = q
        BY <2>2, <1>l, <1>h DEF Acts
      <3>2. \A s \in Stages : <<p, s>> \in listening' => <<p, s>> \in listening
        BY <2>2, <1>l DEF Acts
      <3>3. \A r \in Providers, s \in Stages : <<r, s>> \in listening' => <<r, s>> \in listening
        BY <3>2 DEF Acts
      <3>4. at[q] \in {"inspect", "remove"} =>
               ~(node'[Here(q)] \in Providers /\ <<node'[Here(q)], stage[q]>> \in listening')
        BY <3>1, <3>3, <1>t, <1>g, RendezvousAssumption DEF ProcInv, BindInv, Answers
      <3>5. at[q] \in {"inspect", "remove"} => ~Answers(node[Here(q)], stage[q])'
        BY <3>4, <1>h, <1>l DEF Answers
      <3> QED
        BY <3>1, <3>5, <1>t, <1>l, <1>h, <1>g, RendezvousAssumption DEF ProcInv, BindInv
    <2> QED  BY <2>1, <2>2
  <1>3. ClaimInv(q)'
    <2>1. Claimed(q)' <=> Claimed(q)  BY <1>l DEF Claimed
    <2>2. /\ selection' = q <=> selection = q
          /\ q \in owner_prop' <=> q \in owner_prop
          /\ selection = q => root_prop' = root_prop
      BY DEF Acts
    <2> QED  BY <2>1, <2>2, <1>t, <1>l DEF ProcInv, ClaimInv
  <1>4. AloneInv(q)'
    <2>1. CASE at[q] \in Starting /\ ~excused[q]
      BY <2>1, <1>t, <1>l DEF ProcInv, AloneInv
    <2>2. CASE ~(at[q] \in Starting /\ ~excused[q])
      <3>1. \A s \in Stages : node[Name(q, s)] = "file" => node'[Name(q, s)] = "file"
        BY <1>n DEF Acts
      <3>2. at[q] \in {"probe", "inspect", "remove"} => at[q] \in Starting  BY DEF Starting
      <3> QED  BY <2>2, <3>1, <3>2, <1>t, <1>l, <1>n DEF ProcInv, AloneInv
    <2> QED  BY <2>1, <2>2
  <1> QED  BY <1>1, <1>2, <1>3, <1>4 DEF ProcInv

\* The step of one process, by what it does to itself and to the others.
LEMMA ActIInv ==
    ASSUME IInv, TypeOK', NEW p \in Providers, Acts(p), ProcInv(p)',
           at'[p] \in Starting => at[p] \in Starting \/ \A q \in Providers : at[q] \notin Starting
    PROVE  IInv'
  <1>1. \A q \in Providers : ProcInv(q)'  BY OtherInv
  <1>2. OneStarts'  BY DEF IInv, OneStarts, Acts
  <1> QED  BY <1>1, <1>2 DEF IInv

\* While p is in bind, it changes at most the name it binds, and that only when nobody
\* answers there.
LEMMA BindActs ==
    ASSUME IInv, NEW p \in Providers, at[p] \in Binding, UNCHANGED <<stage, excused, x11>>,
           \A q \in Providers : q # p =>
              /\ at'[q] = at[q] /\ guards'[q] = guards[q] /\ recorded'[q] = recorded[q]
              /\ fate'[q] = fate[q]
              /\ \A s \in Stages : <<q, s>> \in listening' <=> <<q, s>> \in listening,
           \A n \in Paths : n # Here(p) => node'[n] = node[n],
           \/ node'[Here(p)] = node[Here(p)]
           \/ node[Here(p)] # "file" /\ ~Answers(node[Here(p)], stage[p])
    PROVE  Acts(p)
  <1>1. at[p] \in Starting  BY DEF Binding, Starting
  <1>2. \A q \in Providers : q # p => at[q] \notin Starting  BY <1>1 DEF IInv, OneStarts
  <1>3. stage[p] \in Stages  BY DEF IInv, TypeOK
  <1>4. Here(p)[1] = stage[p]  BY <1>3, NameIsPath DEF Here
  <1>5. ASSUME NEW n \in Paths
        PROVE  \/ node'[n] = node[n]
               \/ /\ node[n] # "file"
                  /\ \A q \in Providers : node[n] = q => <<q, n[1]>> \notin listening
    BY <1>4 DEF Answers
  <1> QED  BY <1>1, <1>2, <1>5 DEF Acts, x11

\* bind gives up: its listener is closed, and the guards and the claim remain for run().
LEMMA FailIInv ==
    ASSUME IInv, TypeOK', NEW p \in Providers, at[p] \in Binding, Fail(p),
           UNCHANGED <<stage, excused, x11, guards, recorded, node>>,
           excused[p] \/ node[Here(p)] = "file"
    PROVE  IInv'
  <1>t. TypeOK /\ ProcInv(p) /\ stage[p] \in Stages  BY DEF IInv, TypeOK
  <1>1. Acts(p)  BY <1>t, BindActs DEF Fail, Goto, TypeOK
  <1>2. at'[p] = IF stage[p] = "control" THEN "release" ELSE "drop"
    BY <1>t DEF Fail, Goto, TypeOK
  <1>3. GuardInv(p)'
    BY <1>2, <1>t DEF Fail, ProcInv, GuardInv, Binding, Claiming, Name, Stages
  <1>4. BindInv(p)'  BY <1>2, <1>t DEF Fail, ProcInv, BindInv
  <1>5. ClaimInv(p)'  BY <1>2, <1>t DEF ProcInv, ClaimInv, Claimed, Binding, x11, Stages
  <1>6. AloneInv(p)'
    BY <1>2, <1>t DEF AloneInv, Starting, Name, Here
  <1> QED  BY <1>1, <1>2, <1>3, <1>4, <1>5, <1>6, ActIInv DEF ProcInv, Starting

\* bind goes on: what holds of the name and the listener of the next step.
LEMMA BindMoves ==
    ASSUME IInv, TypeOK', NEW p \in Providers, at[p] \in Binding, at'[p] \in Binding,
           UNCHANGED <<stage, excused, x11, guards, recorded, fate>>,
           \A q \in Providers : q # p =>
              /\ at'[q] = at[q]
              /\ \A s \in Stages : <<q, s>> \in listening' <=> <<q, s>> \in listening,
           \A s \in Stages : s # stage[p] => (<<p, s>> \in listening' <=> <<p, s>> \in listening),
           \A n \in Paths : n # Here(p) => node'[n] = node[n],
           \/ node'[Here(p)] = node[Here(p)]
           \/ node[Here(p)] # "file" /\ ~Answers(node[Here(p)], stage[p]),
           BindInv(p)',
           at'[p] \in {"probe", "inspect", "remove"} /\ ~excused[p] => node'[Here(p)] # None
    PROVE  IInv'
  <1>t. TypeOK /\ ProcInv(p) /\ stage[p] \in Stages  BY DEF IInv, TypeOK
  <1>1. Acts(p)  BY BindActs
  <1>2. GuardInv(p)'
    <2>1. guards[p] = IF stage[p] = "seat" THEN {} ELSE {"seat"}
      BY <1>t DEF ProcInv, GuardInv
    <2>2. \A s \in guards[p] : s # stage[p] /\ s \in Stages  BY <2>1, <1>t DEF Stages
    <2>3. \A s \in guards[p] : Name(p, s) # Here(p) /\ Name(p, s) \in Paths
      BY SMTT(60), <2>2, <1>t, NameIsPath DEF Here
    <2>4. \A s \in guards[p] : node'[Name(p, s)] = p /\ <<p, s>> \in listening' /\ recorded'[p][s] = p
      BY <2>2, <2>3, <1>t DEF ProcInv, GuardInv
    <2> QED  BY <2>1, <2>4 DEF GuardInv, Binding, Claiming, Name
  <1>3. ClaimInv(p)'  BY <1>t DEF ProcInv, ClaimInv, Claimed, Binding, x11
  <1>4. AloneInv(p)'
    <2>1. at[p] \in Starting  BY DEF Binding, Starting
    <2>2. ~excused[p] => \A q \in Providers : q # p => ~Alive(q)'
      BY <2>1, <1>t DEF ProcInv, AloneInv, Alive
    <2>3. at'[p] \in {"probe", "inspect", "remove"} /\ ~excused'[p] => (node[Here(p)] # None)'
      BY DEF Here, Name
    <2>4. fate'[p] = "failed" => excused'[p] \/ \E s \in Stages : (node[Name(p, s)] = "file")'
      <3>1. fate[p] = "failed" => excused[p] \/ \E s \in Stages : node[Name(p, s)] = "file"
        BY <1>t DEF ProcInv, AloneInv
      <3>2. \A s \in Stages : node[Name(p, s)] = "file" => node'[Name(p, s)] = "file"
        BY <1>t, NameIsPath
      <3> QED  BY <3>1, <3>2 DEF Name
    <2> QED  BY <2>2, <2>3, <2>4 DEF AloneInv
  <1> QED  BY <1>1, <1>2, <1>3, <1>4, ActIInv DEF ProcInv, Binding, Starting

\* bind and recover_stale_socket, up to the record.
LEMMA BindIInv ==
    ASSUME IInv, TypeOK', NEW p \in Providers,
           Bind(p) \/ Probe(p) \/ Inspect(p) \/ Remove(p) \/ Listen(p) \/ Protect(p)
    PROVE  IInv'
  <1>t. TypeOK /\ ProcInv(p) /\ stage[p] \in Stages  BY DEF IInv, TypeOK
  <1>h. Here(p) \in Paths  BY <1>t, NameIsPath DEF Here
  <1>u. /\ UNCHANGED <<stage, excused, x11, guards, recorded>>
        /\ at[p] \in Binding /\ at[p] \in Starting
    BY DEF Bind, Probe, Inspect, Remove, Listen, Protect, Binding, Starting
  <1>b. BindInv(p) /\ AloneInv(p)  BY <1>t DEF ProcInv
  <1>f. guards[p] = IF stage[p] = "seat" THEN {} ELSE {"seat"}
    BY <1>t, <1>u DEF ProcInv, GuardInv
  <1>q. /\ \A q \in Providers : q # p =>
              /\ at'[q] = at[q]
              /\ \A s \in Stages : <<q, s>> \in listening' <=> <<q, s>> \in listening
        /\ \A s \in Stages : s # stage[p] => (<<p, s>> \in listening' <=> <<p, s>> \in listening)
        /\ \A n \in Paths : n # Here(p) => node'[n] = node[n]
    BY <1>t, <1>h DEF Bind, Probe, Inspect, Remove, Listen, Protect, Fail, Goto, TypeOK
  <1>1. CASE Bind(p)
    <2>1. CASE node[Here(p)] = None
      <3>1. /\ at'[p] = "listen" /\ node'[Here(p)] = p /\ listening' = listening /\ fate' = fate
        BY <1>1, <2>1, <1>t, <1>h DEF Bind, Goto, TypeOK
      <3>2. BindInv(p)'  BY <3>1, <1>b, <1>u, <1>1 DEF Bind, BindInv, Here, Name
      <3>3. node[Here(p)] # "file" /\ ~Answers(node[Here(p)], stage[p])
        BY <2>1, RendezvousAssumption DEF Answers
      <3> QED  BY <1>q, <1>u, <3>1, <3>2, <3>3, BindMoves DEF Binding
    <2>2. CASE node[Here(p)] # None
      <3>1. at[p] = "bind"  BY <1>1, <2>2, <1>b DEF Bind, BindInv
      <3>2. at'[p] = "probe" /\ node' = node /\ listening' = listening /\ fate' = fate
        BY <1>1, <2>2, <3>1, <1>t DEF Bind, Goto, TypeOK
      <3>3. BindInv(p)'  BY <3>1, <3>2, <1>b, <1>u DEF BindInv
      <3> QED  BY <1>q, <1>u, <2>2, <3>2, <3>3, BindMoves DEF Binding
    <2> QED  BY <2>1, <2>2
  <1>2. CASE Probe(p)
    <2>1. CASE Answers(node[Here(p)], stage[p])
      <3>1. PICK q \in Providers : q = node[Here(p)] /\ <<q, stage[p]>> \in listening
        BY <2>1 DEF Answers
      <3>2. q # p  BY <3>1, <1>2, <1>b, <1>f, <1>t DEF Probe, BindInv, Stages
      <3>3. Alive(q)
        BY <3>1, <1>t DEF IInv, ProcInv, BindInv, GuardInv, Alive
      <3>4. excused[p]  BY <3>2, <3>3, <1>b, <1>u DEF AloneInv
      <3> QED  BY <1>2, <2>1, <3>4, <1>u, FailIInv DEF Probe
    <2>2. CASE ~Answers(node[Here(p)], stage[p])
      <3>1. at'[p] = "inspect" /\ node' = node /\ listening' = listening /\ fate' = fate
        BY <1>2, <2>2, <1>t DEF Probe, Goto, TypeOK
      <3>2. BindInv(p)'
        BY <1>2, <2>2, <3>1, <1>b, <1>u DEF Probe, BindInv, Answers, Here, Name
      <3>3. ~excused[p] => node'[Here(p)] # None  BY <1>2, <3>1, <1>b DEF Probe, AloneInv
      <3> QED  BY <1>q, <1>u, <3>1, <3>2, <3>3, BindMoves DEF Binding
    <2> QED  BY <2>1, <2>2
  <1>3. CASE Inspect(p)
    <2>1. CASE is_owned_socket(node[Here(p)])
      <3>1. at'[p] = "remove" /\ node' = node /\ listening' = listening /\ fate' = fate
        BY <1>3, <2>1, <1>t DEF Inspect, Goto, TypeOK
      <3>2. node[Here(p)] # "file"  BY <2>1, RendezvousAssumption DEF is_owned_socket
      <3>3. BindInv(p)'
        BY <1>3, <3>1, <3>2, <1>b, <1>u DEF Inspect, BindInv, Answers, Here, Name
      <3>4. ~excused[p] => node'[Here(p)] # None  BY <1>3, <3>1, <1>b DEF Inspect, AloneInv
      <3> QED  BY <1>q, <1>u, <3>1, <3>3, <3>4, BindMoves DEF Binding
    <2>2. CASE ~is_owned_socket(node[Here(p)])
      <3>1. node[Here(p)] \in {"file", None}
        BY <2>2, <1>t, <1>h DEF is_owned_socket, TypeOK, Inodes
      <3>2. excused[p] \/ node[Here(p)] = "file"  BY <1>3, <3>1, <1>b DEF Inspect, AloneInv
      <3> QED  BY <1>3, <2>2, <3>2, <1>u, FailIInv DEF Inspect
    <2> QED  BY <2>1, <2>2
  <1>4. CASE Remove(p)
    <2>1. CASE node[Here(p)] = None
      <3>1. excused[p]  BY <1>4, <2>1, <1>b DEF Remove, AloneInv
      <3>2. node' = node  BY <1>4, <2>1, <1>t DEF Remove, TypeOK
      <3> QED  BY <1>4, <2>1, <3>1, <3>2, <1>u, FailIInv DEF Remove
    <2>2. CASE node[Here(p)] # None
      <3>1. at'[p] = "rebind" /\ node'[Here(p)] = None /\ listening' = listening /\ fate' = fate
        BY <1>4, <2>2, <1>t, <1>h DEF Remove, Goto, TypeOK
      <3>2. BindInv(p)'  BY <1>4, <3>1, <1>b, <1>u DEF Remove, BindInv, Here, Name
      <3>3. node[Here(p)] # "file" /\ ~Answers(node[Here(p)], stage[p])
        BY <1>4, <1>b DEF Remove, BindInv
      <3> QED  BY <1>q, <1>u, <3>1, <3>2, <3>3, BindMoves DEF Binding
    <2> QED  BY <2>1, <2>2
  <1>5. CASE Listen(p)
    <2>1. at'[p] = "protect" /\ node' = node /\ fate' = fate /\ <<p, stage[p]>> \in listening'
      BY <1>5, <1>t DEF Listen, Goto, TypeOK
    <2>2. BindInv(p)'  BY <1>5, <2>1, <1>b, <1>u DEF Listen, BindInv, Here, Name
    <2> QED  BY <1>q, <1>u, <2>1, <2>2, BindMoves DEF Binding
  <1>6. CASE Protect(p)
    <2>1. node[Here(p)] = p  BY <1>6, <1>b DEF Protect, BindInv
    <2>2. at'[p] = "record" /\ node' = node /\ fate' = fate /\ listening' = listening
      BY <1>6, <2>1, <1>t, RendezvousAssumption DEF Protect, Goto, TypeOK
    <2>3. BindInv(p)'  BY <1>6, <2>1, <2>2, <1>b, <1>u DEF Protect, BindInv, Here, Name
    <2> QED  BY <1>q, <1>u, <2>2, <2>3, BindMoves DEF Binding
  <1> QED  BY <1>1, <1>2, <1>3, <1>4, <1>5, <1>6

\* The guard is complete: the name still leads to the listener that was bound.
LEMMA RecordIInv ==
    ASSUME IInv, TypeOK', NEW p \in Providers, Record(p)
    PROVE  IInv'
  <1>t. TypeOK /\ ProcInv(p) /\ stage[p] \in Stages  BY DEF IInv, TypeOK
  <1>h. Here(p) \in Paths  BY <1>t, NameIsPath DEF Here
  <1>b. /\ at[p] = "record" /\ at[p] \in Binding /\ at[p] \in Starting
        /\ node[Here(p)] = p /\ <<p, stage[p]>> \in listening
        /\ guards[p] = IF stage[p] = "seat" THEN {} ELSE {"seat"}
    BY <1>t DEF Record, ProcInv, BindInv, GuardInv, Binding, Starting
  <1>1. /\ recorded' = [recorded EXCEPT ![p] = [recorded[p] EXCEPT ![stage[p]] = p]]
        /\ guards' = [guards EXCEPT ![p] = guards[p] \cup {stage[p]}]
        /\ at' = [at EXCEPT ![p] = IF stage[p] = "seat" THEN "claim" ELSE "serving"]
        /\ UNCHANGED <<fate, listening, stage, excused, crashes, node, x11, find>>
    BY <1>b, RendezvousAssumption DEF Record, Goto
  <1>2. /\ at'[p] = IF stage[p] = "seat" THEN "claim" ELSE "serving"
        /\ guards'[p] = guards[p] \cup {stage[p]}
        /\ recorded'[p][stage[p]] = p
        /\ \A s \in Stages : s # stage[p] => recorded'[p][s] = recorded[p][s]
    BY SMTT(60), <1>1, <1>t DEF TypeOK
  <1>3. \A q \in Providers : q # p =>
           at'[q] = at[q] /\ guards'[q] = guards[q] /\ recorded'[q] = recorded[q]
    BY <1>1, <1>t DEF TypeOK
  <1>4. Acts(p)  BY <1>1, <1>3, <1>b, BindActs
  <1>5. GuardInv(p)'
    <2>1. \A s \in guards'[p] : node[Name(p, s)] = p /\ <<p, s>> \in listening /\ recorded'[p][s] = p
      BY <1>2, <1>b, <1>t DEF ProcInv, GuardInv, Here, TypeOK
    <2>2. /\ at'[p] = "claim" => stage[p] = "seat" /\ guards'[p] = {"seat"}
          /\ at'[p] = "serving" => guards'[p] = Stages
      BY <1>2, <1>b, <1>t DEF Stages
    <2> QED  BY SMTT(60), <1>1, <1>2, <2>1, <2>2 DEF GuardInv, Binding, Claiming, Name
  <1>6. BindInv(p)'
    <2>1. \A s \in Stages : <<p, s>> \in listening => s \in guards'[p]
      BY <1>2, <1>b, <1>t DEF ProcInv, BindInv
    <2> QED  BY SMTT(60), <1>1, <1>2, <2>1 DEF BindInv
  <1>7. ClaimInv(p)'
    BY SMTT(60), <1>1, <1>2, <1>b, <1>t DEF ProcInv, ClaimInv, Claimed, Binding, x11, Stages
  <1>8. AloneInv(p)'
    <2>1. \A q \in Providers : q # p => (Alive(q)' <=> Alive(q))  BY <1>3 DEF Alive
    <2> QED  BY SMTT(60), <1>1, <1>2, <2>1, <1>b, <1>t DEF ProcInv, AloneInv, Starting, Name
  <1> QED  BY <1>2, <1>4, <1>5, <1>6, <1>7, <1>8, <1>b, ActIInv DEF ProcInv, Starting

\* A provider starts, and no other is starting.
LEMMA StartIInv ==
    ASSUME IInv, TypeOK', NEW p \in Providers, Start(p), Overlap = FALSE
    PROVE  IInv'
  <1>t. TypeOK /\ ProcInv(p)  BY DEF IInv
  <1>1. /\ \A q \in Providers : at[q] \notin Starting
        /\ at[p] = "off"
        /\ UNCHANGED <<stage, fate, crashes, files, x11, find>>
    BY DEF Start
  <1>2. /\ at'[p] = "bind"
        /\ \A q \in Providers : q # p => at'[q] = at[q] /\ excused'[q] = excused[q]
        /\ excused'[p] = (excused[p] \/ \E r \in Providers : Alive(r))
    BY <1>1, <1>t DEF Start, Goto, TypeOK
  <1>3. Acts(p)  BY <1>1, <1>2 DEF Acts, files, x11
  <1>4. GuardInv(p)'
    BY <1>1, <1>2, <1>t DEF ProcInv, GuardInv, Binding, Claiming, Name, files
  <1>5. BindInv(p)'  BY <1>1, <1>2, <1>t DEF ProcInv, BindInv, files
  <1>6. ClaimInv(p)'
    BY <1>1, <1>2, <1>t DEF ProcInv, ClaimInv, GuardInv, Claimed, Binding, Claiming, x11
  <1>7. AloneInv(p)'
    <2>1. ~excused'[p] => \A q \in Providers : q # p => ~Alive(q)'  BY <1>2 DEF Alive
    <2>2. fate'[p] = "failed" => excused'[p] \/ \E s \in Stages : (node[Name(p, s)] = "file")'
      BY <1>1, <1>2, <1>t DEF ProcInv, AloneInv, files, Name
    <2> QED  BY <1>2, <2>1, <2>2 DEF AloneInv
  <1> QED  BY <1>1, <1>3, <1>4, <1>5, <1>6, <1>7, ActIInv DEF ProcInv

\* Ownership::claim: the files are as they were.
LEMMA ClaimIInv ==
    ASSUME IInv, TypeOK', NEW p \in Providers,
           Claim(p) \/ AdvertiseOwner(p) \/ AdvertiseRoot(p)
    PROVE  IInv'
  <1>t. TypeOK /\ ProcInv(p)  BY DEF IInv
  <1>g. /\ at[p] \in Claiming /\ at[p] \in Starting /\ stage[p] = "seat"
        /\ guards[p] = {"seat"}
        /\ UNCHANGED <<crashes, files, find>>
        /\ \A q \in Providers : q # p => at[q] \notin Starting
    BY <1>t
       DEF Claim, AdvertiseOwner, AdvertiseRoot, Claiming, Starting, ProcInv, GuardInv,
           IInv, OneStarts
  <1>s. /\ stage'[p] \in Stages
        /\ at'[p] \in {"advertise_owner", "advertise_root", "bind", "drop", "release"}
        /\ stage'[p] = IF at'[p] = "bind" THEN "control" ELSE "seat"
        /\ \A q \in Providers : q # p =>
              /\ at'[q] = at[q] /\ stage'[q] = stage[q]
              /\ fate'[q] = fate[q] /\ excused'[q] = excused[q]
              /\ selection' = q <=> selection = q
              /\ q \in owner_prop' <=> q \in owner_prop
              /\ selection = q => root_prop' = root_prop
    <2>1. CASE Claim(p)
      BY SMTT(60), <2>1, <1>t, <1>g, RendezvousAssumption
         DEF Claim, XError, Goto, TypeOK, x11
    <2>2. CASE AdvertiseOwner(p)
      BY <2>2, <1>t, <1>g DEF AdvertiseOwner, XError, Goto, TypeOK, x11
    <2>3. CASE AdvertiseRoot(p)
      <3>1. selection = p  BY <2>3, <1>t DEF AdvertiseRoot, ProcInv, ClaimInv, Claimed
      <3> QED
        BY SMTT(60), <2>3, <3>1, <1>t, <1>g
           DEF AdvertiseRoot, XError, Goto, TypeOK, x11, Stages
    <2> QED  BY <2>1, <2>2, <2>3
  <1>1. Acts(p)  BY <1>g, <1>s DEF Acts, files
  <1>2. GuardInv(p)'
    BY <1>g, <1>s, <1>t DEF ProcInv, GuardInv, Binding, Claiming, Name, files
  <1>3. BindInv(p)'
    BY <1>g, <1>s, <1>t DEF ProcInv, BindInv, Claiming, files
  <1>4. ClaimInv(p)'
    <2>1. CASE Claim(p)
      BY <2>1, <1>t, <1>g
         DEF Claim, XError, Goto, TypeOK, x11, ProcInv, ClaimInv, Claimed, Binding
    <2>2. CASE AdvertiseOwner(p)
      BY <2>2, <1>t, <1>g
         DEF AdvertiseOwner, XError, Goto, TypeOK, x11, ProcInv, ClaimInv, Claimed, Binding
    <2>3. CASE AdvertiseRoot(p)
      BY <2>3, <1>t, <1>g
         DEF AdvertiseRoot, XError, Goto, TypeOK, x11, ProcInv, ClaimInv, Claimed, Binding,
             Stages
    <2> QED  BY <2>1, <2>2, <2>3
  <1>5. AloneInv(p)'
    <2>1. \A q \in Providers : q # p => (Alive(q)' <=> Alive(q))  BY <1>s DEF Alive
    <2>2. excused[p] => excused'[p]
      BY <1>t DEF Claim, AdvertiseOwner, AdvertiseRoot, XError, TypeOK
    <2>3. fate'[p] = "failed" => fate[p] = "failed" \/ excused'[p]
      <3>1. CASE Claim(p) /\ selection # None
        <4>1. PICK q \in Providers : q = selection  BY <3>1, <1>t DEF TypeOK
        <4>2. Claimed(q)  BY <4>1 DEF IInv, ProcInv, ClaimInv
        <4>3. Alive(q)  BY <4>2 DEF Claimed, Alive, Binding
        <4>4. q # p  BY <3>1, <4>2 DEF Claim, Claimed, Binding
        <4> QED  BY <2>2, <4>3, <4>4, <1>g, <1>t DEF ProcInv, AloneInv
      <3>2. CASE ~(Claim(p) /\ selection # None)
        BY <3>2, <1>t DEF Claim, AdvertiseOwner, AdvertiseRoot, XError, TypeOK
      <3> QED  BY <3>1, <3>2
    <2> QED
      BY <1>g, <1>s, <2>1, <2>2, <2>3, <1>t DEF ProcInv, AloneInv, Starting, Name, files
  <1> QED  BY <1>1, <1>2, <1>3, <1>4, <1>5, <1>g, ActIInv DEF ProcInv

\* The orderly end, up to the sockets: serve ends, and the selection is released.
LEMMA ReleaseIInv ==
    ASSUME IInv, TypeOK', NEW p \in Providers, Stop(p) \/ Release(p)
    PROVE  IInv'
  <1>t. TypeOK /\ ProcInv(p)  BY DEF IInv
  <1>1. /\ at[p] \in {"serving", "release"} /\ at'[p] \in {"release", "drop"}
        /\ at[p] = "release" <=> at'[p] = "drop"
        /\ \A q \in Providers : q # p => at'[q] = at[q] /\ fate'[q] = fate[q]
        /\ fate'[p] = "failed" => fate[p] = "failed"
        /\ UNCHANGED <<stage, excused, files>>
    BY <1>t DEF Stop, Release, Goto, TypeOK
  <1>2. selection = p
    BY <1>1, <1>t DEF ProcInv, ClaimInv, Claimed
  <1>3. /\ \A q \in Providers : q # p =>
              /\ selection' # q /\ selection # q
              /\ q \in owner_prop' <=> q \in owner_prop
        /\ selection' = p <=> at'[p] = "release"
    BY <1>1, <1>2, <1>t, RendezvousAssumption DEF Stop, Release, x11
  <1>4. Acts(p)
    BY <1>1, <1>3 DEF Acts, files, Alive, Starting
  <1>5. GuardInv(p)'
    BY <1>1, <1>t DEF ProcInv, GuardInv, Binding, Claiming, Name, files
  <1>6. BindInv(p)'  BY <1>1, <1>t DEF ProcInv, BindInv, files
  <1>7. ClaimInv(p)'  BY <1>1, <1>3 DEF ClaimInv, Claimed, Binding
  <1>8. AloneInv(p)'  BY <1>1, <1>t DEF ProcInv, AloneInv, Starting, Name, files
  <1> QED  BY <1>1, <1>4, <1>5, <1>6, <1>7, <1>8, ActIInv DEF ProcInv, Starting

\* A process that has given up the selection drops its guards, one listener at a time,
\* and takes away only names that lead to itself.
LEMMA CloseIInv ==
    ASSUME IInv, TypeOK', NEW p \in Providers, NEW gone \in SUBSET Stages,
           at[p] \in {"drop", "unlink"}, at'[p] \in {"drop", "unlink", "ended"},
           at'[p] = "unlink" => guards'[p] # {},
           at'[p] = "ended" => guards'[p] = {},
           \A q \in Providers : q # p => at'[q] = at[q],
           gone \subseteq guards[p],
           guards' = [guards EXCEPT ![p] = guards[p] \ gone],
           listening' = listening \ ({p} \X gone),
           UNCHANGED <<stage, fate, excused, recorded, x11>>,
           \A n \in Paths : \/ node'[n] = node[n]
                            \/ n[1] \in gone /\ node[n] = p /\ node'[n] = None
    PROVE  IInv'
  <1>t. TypeOK /\ ProcInv(p)  BY DEF IInv
  <1>1. /\ \A q \in Providers : q # p => guards'[q] = guards[q]
        /\ guards'[p] = guards[p] \ gone
        /\ guards[p] \subseteq Stages
    BY <1>t DEF TypeOK
  <1>2. Acts(p)
    BY <1>1, RendezvousAssumption DEF Acts, x11, Alive, Starting
  <1>3. GuardInv(p)'
    <2>1. ASSUME NEW s \in guards'[p]
          PROVE  node'[Name(p, s)] = p /\ <<p, s>> \in listening' /\ recorded'[p][s] = p
      BY SMTT(60), <1>1, <1>t, NameIsPath DEF ProcInv, GuardInv
    <2> QED  BY <2>1 DEF GuardInv, Binding, Claiming, Name
  <1>4. BindInv(p)'  BY <1>1, <1>t DEF ProcInv, BindInv
  <1>5. ClaimInv(p)'  BY <1>t DEF ProcInv, ClaimInv, Claimed, Binding, x11
  <1>6. AloneInv(p)'
    <2>1. \A s \in Stages : node[Name(p, s)] = "file" => node'[Name(p, s)] = "file"
      BY NameIsPath, RendezvousAssumption
    <2> QED  BY <2>1, <1>t DEF ProcInv, AloneInv, Starting, Name
  <1> QED  BY <1>2, <1>3, <1>4, <1>5, <1>6, ActIInv DEF ProcInv, Starting

\* ListenerGuard::drop: a guard that is dropped finds its own name and removes it.
LEMMA DropIInv ==
    ASSUME IInv, TypeOK', NEW p \in Providers, DropLook(p) \/ Unlink(p) \/ End(p)
    PROVE  IInv'
  <1>t. TypeOK /\ ProcInv(p) /\ guards[p] \subseteq Stages  BY DEF IInv, TypeOK
  <1>e. ASSUME at[p] \in {"drop", "unlink"}, at'[p] \in {"drop", "unlink", "ended"},
               at'[p] = "unlink" => guards[p] # {}, at'[p] = "ended" => guards[p] = {},
               \A q \in Providers : q # p => at'[q] = at[q],
               UNCHANGED <<guards, listening, stage, fate, excused, recorded, node, x11>>
        PROVE  IInv'
    <2>1. {} \in SUBSET Stages /\ {} \subseteq guards[p] /\ {p} \X {} = {}  OBVIOUS
    <2>2. /\ guards' = [guards EXCEPT ![p] = guards[p] \ {}]
          /\ listening' = listening \ ({p} \X {})
      BY SMTT(60), <1>e, <2>1, <1>t DEF TypeOK
    <2> QED  BY <1>e, <2>1, <2>2, CloseIInv
  <1>1. CASE DropLook(p)
    <2> DEFINE s == Dropped(p)
    <2>1. s \in guards[p]  BY <1>1, <1>t DEF DropLook, Dropped, Stages
    <2> HIDE DEF s
    <2>2. node[Name(p, s)] = p /\ recorded[p][s] = p  BY <2>1, <1>t DEF ProcInv, GuardInv
    <2>3. /\ at' = [at EXCEPT ![p] = "unlink"]
          /\ UNCHANGED <<guards, listening, stage, fate, excused, recorded, node, x11>>
      BY <1>1, <2>2 DEF DropLook, Goto, s
    <2>4. at[p] = "drop" /\ at'[p] = "unlink" /\ \A q \in Providers : q # p => at'[q] = at[q]
      BY <1>1, <2>3, <1>t DEF DropLook, TypeOK
    <2> QED  BY <1>e, <2>1, <2>3, <2>4
  <1>2. CASE Unlink(p)
    <2> DEFINE s == Dropped(p)
    <2>1. s \in guards[p]  BY <1>2, <1>t DEF Unlink, Dropped, Stages, ProcInv, GuardInv
    <2>2. node[Name(p, s)] = p /\ Name(p, s) \in Paths /\ Name(p, s)[1] = s
      BY <2>1, <1>t, NameIsPath DEF ProcInv, GuardInv
    <2>3. /\ at[p] = "unlink" /\ at' = [at EXCEPT ![p] = "drop"]
          /\ node' = [node EXCEPT ![Name(p, s)] = None]
          /\ guards' = [guards EXCEPT ![p] = guards[p] \ {s}]
          /\ listening' = listening \ {<<p, s>>}
          /\ UNCHANGED <<stage, fate, excused, recorded, x11>>
      BY <1>2 DEF Unlink, Close, Goto
    <2> HIDE DEF s
    <2>4. {p} \X {s} = {<<p, s>>}  BY SMTT(60)
    <2>5. {s} \in SUBSET Stages /\ {s} \subseteq guards[p]  BY <2>1, <1>t
    <2>6. \A n \in Paths : \/ node'[n] = node[n]
                           \/ n[1] \in {s} /\ node[n] = p /\ node'[n] = None
      BY <2>2, <2>3, <1>t DEF TypeOK
    <2>7. at'[p] = "drop" /\ \A q \in Providers : q # p => at'[q] = at[q]
      BY <2>3, <1>t DEF TypeOK
    <2> QED  BY <2>3, <2>4, <2>5, <2>6, <2>7, CloseIInv
  <1>3. CASE End(p)
    <2>1. /\ at[p] = "drop" /\ at' = [at EXCEPT ![p] = "ended"] /\ guards[p] = {}
          /\ UNCHANGED <<guards, listening, stage, fate, excused, recorded, node, x11>>
      BY <1>3 DEF End, Goto, files
    <2>2. at'[p] = "ended" /\ \A q \in Providers : q # p => at'[q] = at[q]
      BY <2>1, <1>t DEF TypeOK
    <2> QED  BY <1>e, <2>1, <2>2
  <1> QED  BY <1>1, <1>2, <1>3

\* A process that is killed leaves its socket names behind, and nobody answers there.
LEMMA CrashIInv ==
    ASSUME IInv, TypeOK', NEW p \in Providers, Crash(p)
    PROVE  IInv'
  <1>t. TypeOK /\ ProcInv(p)  BY DEF IInv
  <1>1. /\ at'[p] = "ended" /\ fate'[p] = "crashed" /\ guards'[p] = {}
        /\ \A q \in Providers : q # p =>
              at'[q] = at[q] /\ fate'[q] = fate[q] /\ guards'[q] = guards[q]
    BY <1>t DEF Crash, Goto, TypeOK
  <1>2. /\ \A s \in Stages : <<p, s>> \notin listening'
        /\ selection' # p /\ p \notin owner_prop'
        /\ \A q \in Providers : q # p =>
              /\ selection' = q <=> selection = q
              /\ q \in owner_prop' <=> q \in owner_prop
              /\ \A s \in Stages : <<q, s>> \in listening' <=> <<q, s>> \in listening
    BY <1>t, RendezvousAssumption DEF Crash, TypeOK
  <1>3. \A q \in Providers : q # p /\ at[q] \in Starting => at[p] \notin Starting
    BY DEF IInv, OneStarts
  <1>4. Acts(p)  BY <1>1, <1>2, <1>3 DEF Crash, Acts, Starting
  <1>5. GuardInv(p)'  BY <1>1 DEF GuardInv, Binding, Claiming
  <1>6. BindInv(p)'  BY <1>1, <1>2 DEF BindInv
  <1>7. ClaimInv(p)'  BY <1>1, <1>2 DEF ClaimInv, Claimed, Binding
  <1>8. AloneInv(p)'  BY <1>1 DEF AloneInv, Starting
  <1> QED  BY <1>1, <1>4, <1>5, <1>6, <1>7, <1>8, ActIInv DEF ProcInv, Starting

\* No process has started.
LEMMA InitIInv == Init => IInv
  <1> SUFFICES ASSUME Init
               PROVE  IInv
    OBVIOUS
  <1>1. TypeOK  BY InitType
  <1>2. ASSUME NEW p \in Providers
        PROVE  ProcInv(p) /\ at[p] \notin Starting
    BY RendezvousAssumption
       DEF Init, ProcInv, GuardInv, BindInv, ClaimInv, AloneInv, Claimed, Binding, Claiming,
           Starting
  <1> QED  BY <1>1, <1>2 DEF IInv, OneStarts

\* Every step keeps the inductive invariant, as long as starts do not overlap.
LEMMA StepIInv == Overlap = FALSE /\ IInv /\ [Next]_vars => IInv'
  <1> SUFFICES ASSUME Overlap = FALSE, IInv, [Next]_vars
               PROVE  IInv'
    OBVIOUS
  <1>t. TypeOK'  BY StepType DEF IInv
  <1>1. ASSUME NEW p \in Providers, Start(p) \/ Provide(p) \/ Stop(p) \/ Crash(p)
        PROVE  IInv'
    BY <1>1, <1>t, StartIInv, BindIInv, RecordIInv, ClaimIInv, ReleaseIInv, DropIInv,
       CrashIInv
       DEF Provide
  <1>2. CASE Discover \/ AllEnded \/ UNCHANGED vars
    <2>1. UNCHANGED <<at, stage, fate, excused, crashes, files, x11>>
      BY <1>2
         DEF Discover, ReadSelection, ReadOwner, ReadRoot, Recheck, Undisturbed, AllEnded,
             vars, files, x11
    <2>2. OneStarts'  BY <2>1 DEF IInv, OneStarts, Starting
    <2>3. ASSUME NEW p \in Providers
          PROVE  GuardInv(p)' /\ BindInv(p)' /\ ClaimInv(p)' /\ AloneInv(p)'
      <3>1. GuardInv(p) /\ BindInv(p) /\ ClaimInv(p) /\ AloneInv(p)  BY DEF IInv, ProcInv
      <3>2. GuardInv(p)'  BY <2>1, <3>1 DEF GuardInv, Name, files
      <3>3. BindInv(p)'  BY <2>1, <3>1 DEF BindInv, Answers, Here, Name, files
      <3>4. ClaimInv(p)'  BY <2>1, <3>1 DEF ClaimInv, Claimed, x11
      <3>5. AloneInv(p)'
        BY <2>1, <3>1 DEF AloneInv, Alive, Answers, Here, Name, files
      <3> QED  BY <3>2, <3>3, <3>4, <3>5
    <2> QED  BY <1>t, <2>2, <2>3 DEF IInv, ProcInv
  <1> QED  BY <1>1, <1>2 DEF Next

\* The inductive invariant of taking over a screen.
THEOREM Inductive == Overlap = FALSE => (Spec => []IInv)
  <1> SUFFICES ASSUME Overlap = FALSE
               PROVE  Spec => []IInv
    OBVIOUS
  <1>1. IInv /\ [Next]_vars => IInv'  BY StepIInv
  <1> QED  BY <1>1, InitIInv, PTL DEF Spec

\* A provider that serves is reached through the selection, both advertisements and both
\* socket names, whatever providers were started after it, stopped or crashed, as long
\* as no two are starting at once.
THEOREM ServingStaysReachable == Overlap = FALSE => (Spec => []ServingIsReachable)
  <1>1. IInv => ServingIsReachable
    <2> SUFFICES ASSUME IInv, NEW p \in Providers, at[p] = "serving"
                 PROVE  /\ selection = p /\ root_prop = p /\ p \in owner_prop
                        /\ \A s \in Stages : Answers(node[Name(p, s)], s) /\ node[Name(p, s)] = p
      BY DEF ServingIsReachable
    <2>1. selection = p /\ root_prop = p /\ p \in owner_prop
      BY DEF IInv, ProcInv, ClaimInv, Claimed
    <2>2. \A s \in Stages : node[Name(p, s)] = p /\ <<p, s>> \in listening
      BY SMTT(60) DEF IInv, ProcInv, GuardInv
    <2> QED  BY <2>1, <2>2 DEF Answers
  <1> QED  BY <1>1, Inductive, PTL

\* What a crash leaves behind, socket names and a root advertisement, does not make a
\* later start fail: recover_stale_socket removes what nobody answers.
THEOREM RestartAfterCrash == Overlap = FALSE => (Spec => []CrashNeverBlocksRestart)
  <1>1. IInv => CrashNeverBlocksRestart
    BY DEF IInv, ProcInv, AloneInv, CrashNeverBlocksRestart
  <1> QED  BY <1>1, Inductive, PTL

\* "A live socket ... is never replaced" (docs/provider.md) is true when starts do not
\* overlap: bind, recover_stale_socket and ListenerGuard::drop never take the name of a
\* provider that is not itself shutting down, nor a file.
THEOREM LiveSocketIsKept == Overlap = FALSE => (Spec => LiveSocketIsNeverReplaced)
  <1> DEFINE Kept == \A n \in Paths :
                 \/ node'[n] = node[n]
                 \/ /\ node[n] # "file"
                    /\ ~\E p \in Providers : /\ node[n] = p
                                             /\ at[p] \notin Stopping
                                             /\ <<p, n[1]>> \in listening
  <1>1. IInv /\ [Next]_vars => [Kept]_vars
    <2> SUFFICES ASSUME IInv, Next
                 PROVE  Kept
      OBVIOUS
    <2>1. ASSUME NEW p \in Providers, Bind(p) \/ Remove(p)
          PROVE  Kept
      <3>t. TypeOK /\ ProcInv(p) /\ stage[p] \in Stages  BY DEF IInv, TypeOK
      <3>1. Here(p) \in Paths /\ Here(p)[1] = stage[p]  BY <3>t, NameIsPath DEF Here
      <3>2. \/ node'[Here(p)] = node[Here(p)]
            \/ node[Here(p)] # "file" /\ ~Answers(node[Here(p)], stage[p])
        <4>1. CASE Bind(p)  BY <4>1, RendezvousAssumption DEF Bind, Answers
        <4>2. CASE Remove(p)  BY <4>2, <3>t DEF Remove, ProcInv, BindInv
        <4> QED  BY <2>1, <4>1, <4>2
      <3>3. \A n \in Paths : n # Here(p) => node'[n] = node[n]
        BY <2>1, <3>t DEF Bind, Remove, TypeOK
      <3>4. ASSUME NEW n \in Paths, node'[n] # node[n]
            PROVE  node[n] # "file" /\ \A q \in Providers : node[n] = q => <<q, n[1]>> \notin listening
        BY <3>1, <3>2, <3>3, <3>4 DEF Answers
      <3> QED  BY <3>4
    <2>2. ASSUME NEW p \in Providers, Unlink(p)
          PROVE  Kept
      <3>t. TypeOK /\ ProcInv(p) /\ guards[p] \subseteq Stages  BY DEF IInv, TypeOK
      <3>1. Dropped(p) \in guards[p]
        BY <2>2, <3>t DEF Unlink, Dropped, Stages, ProcInv, GuardInv
      <3>2. node[Name(p, Dropped(p))] = p  BY <3>1, <3>t DEF ProcInv, GuardInv
      <3>3. \A n \in Paths : node'[n] = node[n] \/ node[n] = p
        BY <2>2, <3>2, <3>t DEF Unlink, TypeOK
      <3>4. at[p] \in Stopping  BY <2>2 DEF Unlink, Stopping
      <3> QED  BY <3>3, <3>4, RendezvousAssumption
    <2>3. node' = node \/ \E p \in Providers : Bind(p) \/ Remove(p) \/ Unlink(p)
      BY DEF Next, Provide, Start, Probe, Inspect, Listen, Protect, Record, Claim,
             AdvertiseOwner, AdvertiseRoot, Release, DropLook, End, Stop, Crash, Discover,
             ReadSelection, ReadOwner, ReadRoot, Recheck, Undisturbed, AllEnded, vars, files
    <2> QED  BY <2>1, <2>2, <2>3
  <1> QED  BY <1>1, Inductive, PTL DEF Spec, LiveSocketIsNeverReplaced
=============================================================================
