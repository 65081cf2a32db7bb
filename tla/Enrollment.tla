----------------------------- MODULE Enrollment -----------------------------
(***************************************************************************)
(* agent-seat-activity-enroll: the administrator's command that inspects   *)
(* the input devices, renders a bundle for review, installs it, arms the   *)
(* broker's units, stops and purges them.  Several invocations may be      *)
(* under way, each may be killed at any step, and devices come and go.     *)
(***************************************************************************)
EXTENDS Naturals, FiniteSets

CONSTANTS Admins,        \* invocations that may be under way
          N,             \* event device names
          Units,         \* unit files, numbered; they are published first
          Records,       \* enrollment files, numbered after the unit files
          MaxPlugs,      \* bound: devices plugged in after the start
          MaxCommands    \* bound: commands

ASSUME EnrollmentAssumption == /\ N \in Nat /\ Units \subseteq Nat
                               /\ Records \subseteq Nat
                               /\ \A u \in Units, r \in Records : u < r
                               /\ MaxPlugs \in Nat /\ MaxCommands \in Nat

Slots == 1 .. N
Files == Units \cup Records
Absent == 0
Candidates == [Slots -> 0 .. MaxPlugs + 1]      \* what a bundle is rendered from
Nothing == [s \in Slots |-> Absent]
NoFile == <<>>                                  \* the empty function
Partial == Nothing                              \* some of the files of a bundle
NoCycle == [cycle |-> 0, content |-> {}]

VARIABLES devices,     \* which device, by its sysfs path, is behind each name
          plugs,
          review,      \* the review directory: NoFile, Partial or a candidate
          directory,   \* which enrollment directory is there, 0 for none
          installed,   \* per file: the candidate it was rendered from, or NoFile
          litter,      \* has a killed install left a staged file among the records
          loaded,      \* the unit files systemd has loaded
          running,     \* the units' cycle
          cycles, commands,
          proc,        \* the invocations
          reviewed,    \* history: candidates an install has found reviewed
          crossed      \* history: has a purge met an install

world == <<devices, plugs>>
disk == <<review, directory, installed, litter>>
systemd == <<loaded, running, cycles>>
past == <<reviewed, crossed>>
vars == <<world, disk, systemd, commands, proc, past>>

Idle == [cmd |-> "none", pc |-> "idle", seen |-> Nothing, todo |-> {}, staged |-> {},
         published |-> {}, err |-> FALSE, alone |-> FALSE, before |-> {}, cycle |-> 0,
         since |-> {}, dir |-> 0]

Present(m) == {s \in Slots : m[s] # Absent}
Installed == {k \in Files : installed[k] # NoFile}
First(S) == CHOOSE k \in S : \A x \in S : k <= x
Last(S) == CHOOSE k \in S : \A x \in S : x <= k

TypeOK ==
    /\ devices \in Candidates
    /\ review \in Candidates \cup {NoFile}
    /\ installed \in [Files -> Candidates \cup {NoFile}]
    /\ \A a \in Admins : /\ proc[a].staged \cap proc[a].published = {}
                         /\ proc[a].pc = "idle" => proc[a] = Idle
    /\ Installed \cap Records # {} => directory # 0
    /\ \A a \in Admins : proc[a].pc = "done" /\ ~proc[a].err => proc[a].staged = {}
    /\ running.cycle <= cycles

\* A first bundle has been rendered for review.
Init == /\ devices = [s \in Slots |-> 1]
        /\ plugs = 1
        /\ review = devices /\ directory = 0
        /\ installed = [k \in Files |-> NoFile] /\ litter = FALSE
        /\ loaded = [k \in Units |-> NoFile] /\ running = NoCycle
        /\ cycles = 0 /\ commands = 0
        /\ proc = [a \in Admins |-> Idle]
        /\ reviewed = {} /\ crossed = FALSE

-----------------------------------------------------------------------------
(* The world *)

\* A device that is plugged in gets a new sysfs path, also under an old name.
Plug(s) == /\ plugs <= MaxPlugs /\ devices[s] = Absent
           /\ devices' = [devices EXCEPT ![s] = plugs + 1]
           /\ plugs' = plugs + 1

Unplug(s) == /\ devices[s] # Absent
             /\ devices' = [devices EXCEPT ![s] = Absent]
             /\ UNCHANGED plugs

\* The moments that agree with what has been seen so far.
Matching(moments, seen) == {m \in moments : \A s \in Present(seen) : m[s] = seen[s]}

\* Devices are only looked at by inspections, so they change only during one.  Every
\* inspection under way notes, as history, what was true meanwhile.
Inspecting == {"list", "read", "recheck"}
World == /\ \E a \in Admins : proc[a].pc \in Inspecting
         /\ \E s \in Slots : Plug(s) \/ Unplug(s)
         /\ proc' = [a \in Admins |->
                        IF proc[a].pc \in {"read", "recheck"}
                        THEN [proc[a] EXCEPT !.since = Matching(@ \cup {devices'}, proc[a].seen)]
                        ELSE proc[a]]
         /\ UNCHANGED <<disk, systemd, commands, past>>

\* The broker stops by itself when it has lost its evidence.
UnitsEnd == /\ running # NoCycle
            /\ running' = NoCycle
            /\ UNCHANGED <<world, disk, loaded, cycles, commands, proc, past>>

\* The user throws the review directory away.
Discard == /\ review # NoFile
           /\ \A a \in Admins : proc[a].pc \notin {"render", "read", "recheck"}
           /\ review' = NoFile
           /\ UNCHANGED <<world, directory, installed, litter, systemd, commands, proc,
                          past>>

-----------------------------------------------------------------------------
(* Invocations *)

At(a, cmd, pc) == proc[a].pc = pc /\ proc[a].cmd \in cmd
To(a, pc) == proc' = [proc EXCEPT ![a].pc = pc]
Fail(a) == proc' = [proc EXCEPT ![a] = [Idle EXCEPT !.cmd = proc[a].cmd, !.pc = "done",
                                        !.err = TRUE, !.alone = proc[a].alone,
                                        !.before = proc[a].before, !.cycle = proc[a].cycle]]

\* run: stop and purge go to systemctl at once, the others inspect the devices first.
Begin(a, cmd) ==
    /\ proc[a].pc = "idle" /\ commands < MaxCommands
    /\ commands' = commands + 1
    /\ LET alone == \A b \in Admins \ {a} : proc[b].pc = "idle"
           pc == CASE cmd = "stop" -> "halt" [] cmd = "purge" -> "reload" [] OTHER -> "list"
       IN proc' = [b \in Admins |->
                     IF b = a THEN [Idle EXCEPT !.cmd = cmd, !.pc = pc, !.alone = alone,
                                                !.before = IF cmd = "install" THEN {installed} ELSE {},
                                                !.cycle = IF cmd = "arm" THEN cycles ELSE 0]
                     ELSE [proc[b] EXCEPT !.alone = FALSE]]
    /\ crossed' = (crossed \/ \E b \in Admins : {cmd, proc[b].cmd} = {"install", "purge"})
    /\ UNCHANGED <<world, disk, systemd, reviewed>>

Finish(a) == /\ proc[a].pc = "done"
             /\ proc' = [proc EXCEPT ![a] = Idle]
             /\ UNCHANGED <<world, disk, systemd, commands, past>>

\* The invocation is killed.  What it has staged keeps its name.  Before it has changed
\* anything this is like any failure.
Killed(a) == /\ proc[a].pc \notin {"idle", "done", "inspected"} \cup Inspecting
             /\ litter' = (litter \/ proc[a].staged \cap Records # {})
             /\ proc' = [proc EXCEPT ![a] = Idle]
             /\ UNCHANGED <<world, review, directory, installed, systemd, commands, past>>

\* inspect_devices: the names, then each device behind them, then all of it once more.
List(a) ==
    /\ proc[a].pc = "list"
    /\ IF Present(devices) = {} THEN Fail(a)
       ELSE proc' = [proc EXCEPT ![a].pc = "read", ![a].todo = Present(devices),
                                 ![a].since = {devices}]
    /\ UNCHANGED <<world, disk, systemd, commands, past>>

ReadDevice(a) ==
    /\ proc[a].pc = "read"
    /\ LET s == First(proc[a].todo)
           seen == [proc[a].seen EXCEPT ![s] = devices[s]]
           left == proc[a].todo \ {s}
       IN IF devices[s] = Absent THEN Fail(a)
          ELSE proc' = [proc EXCEPT ![a].seen = seen,
                                    ![a].since = Matching(@, seen),
                                    ![a].todo = IF left = {} THEN Present(seen) ELSE left,
                                    ![a].pc = IF left = {} THEN "recheck" ELSE "read"]
    /\ UNCHANGED <<world, disk, systemd, commands, past>>

\* Mutant: there is no second look.
Recheck_skipped(a) ==
    /\ proc[a].pc = "recheck"
    /\ proc' = [proc EXCEPT ![a].todo = {}, ![a].pc = "inspected"]
    /\ UNCHANGED <<world, disk, systemd, commands, past>>

Recheck(a) ==
    /\ proc[a].pc = "recheck"
    /\ LET s == First(proc[a].todo)
           left == proc[a].todo \ {s}
       IN IF devices[s] # proc[a].seen[s] THEN Fail(a)
          ELSE proc' = [proc EXCEPT ![a].todo = left,
                                    ![a].pc = IF left = {} THEN "inspected" ELSE "recheck"]
    /\ UNCHANGED <<world, disk, systemd, commands, past>>

\* render_bundle: a new directory, its files, and its removal when one cannot be written.
Render(a) ==
    /\ At(a, {"render"}, "inspected")
    /\ IF review # NoFile THEN Fail(a) /\ UNCHANGED review
       ELSE review' = Partial /\ proc' = [proc EXCEPT ![a].pc = "render", ![a].since = {}]
    /\ UNCHANGED <<world, directory, installed, litter, systemd, commands, past>>

Rendered(a) ==
    /\ At(a, {"render"}, "render")
    /\ \/ review' = proc[a].seen /\ To(a, "done")
       \/ review' = NoFile /\ Fail(a)
    /\ UNCHANGED <<world, directory, installed, litter, systemd, commands, past>>

\* verify_bundle_for_owner, and the directories an install creates.
Verify(a) ==
    /\ At(a, {"verify", "install"}, "inspected")
    /\ IF review # proc[a].seen THEN Fail(a) /\ UNCHANGED <<directory, reviewed>>
       ELSE IF proc[a].cmd = "verify" THEN To(a, "done") /\ UNCHANGED <<directory, reviewed>>
       ELSE /\ reviewed' = reviewed \cup {proc[a].seen}
            /\ directory' = IF directory = 0 THEN commands ELSE directory
            /\ proc' = [proc EXCEPT ![a].pc = "stage", ![a].todo = Files, ![a].since = {},
                                    ![a].dir = directory']
    /\ UNCHANGED <<world, review, installed, litter, systemd, commands, crossed>>

-----------------------------------------------------------------------------
(* InstallTransaction *)

\* The directories are held open; a removed one takes no files.
Reaches(a, k) == k \in Records => directory = proc[a].dir

\* install_rendered_bundle and stage: the target must be new, then a file of its own name.
Stage(a) ==
    /\ At(a, {"install"}, "stage")
    /\ LET k == First(proc[a].todo)
           left == proc[a].todo \ {k}
       IN \/ /\ installed[k] = NoFile /\ Reaches(a, k)
             /\ proc' = [proc EXCEPT ![a].staged = @ \cup {k},
                                     ![a].todo = IF left = {} THEN Files ELSE left,
                                     ![a].pc = IF left = {} THEN "publish" ELSE "stage"]
          \/ proc' = [proc EXCEPT ![a].pc = "rollback"]
    /\ UNCHANGED <<world, disk, systemd, commands, past>>

\* Mutant: an ordinary rename.
Publish_replacing(a) ==
    /\ At(a, {"install"}, "publish")
    /\ LET k == First(proc[a].todo)
           left == proc[a].todo \ {k}
       IN /\ installed' = [installed EXCEPT ![k] = proc[a].seen]
          /\ proc' = [proc EXCEPT ![a].staged = @ \ {k}, ![a].published = @ \cup {k},
                                  ![a].todo = left,
                                  ![a].pc = IF left = {} THEN "sync" ELSE "publish"]
    /\ UNCHANGED <<world, review, directory, litter, systemd, commands, past>>

\* publish: one rename after the other, none of which replaces anything.
Publish(a) ==
    /\ At(a, {"install"}, "publish")
    /\ LET k == First(proc[a].todo)
           left == proc[a].todo \ {k}
       IN \/ /\ installed[k] = NoFile /\ Reaches(a, k)
             /\ installed' = [installed EXCEPT ![k] = proc[a].seen]
             /\ proc' = [proc EXCEPT ![a].staged = @ \ {k}, ![a].published = @ \cup {k},
                                     ![a].todo = left,
                                     ![a].pc = IF left = {} THEN "sync" ELSE "publish"]
          \/ To(a, "rollback") /\ UNCHANGED installed
    /\ UNCHANGED <<world, review, directory, litter, systemd, commands, past>>

Sync(a) ==
    /\ At(a, {"install"}, "sync")
    /\ To(a, "done") \/ To(a, "rollback")
    /\ UNCHANGED <<world, disk, systemd, commands, past>>

\* Mutant: only staged names are removed.
Rollback_staged(a) ==
    /\ At(a, {"install"}, "rollback")
    /\ proc' = [proc EXCEPT ![a].staged = {}, ![a].pc = "done", ![a].err = TRUE]
    /\ UNCHANGED <<world, disk, systemd, commands, past>>

\* InstallTransaction::drop: the last entry first, by the name it has now.
Rollback(a) ==
    /\ At(a, {"install"}, "rollback")
    /\ LET entries == proc[a].staged \cup proc[a].published
       IN IF entries = {} THEN Fail(a) /\ UNCHANGED installed
          ELSE LET k == Last(entries) IN
               /\ proc' = [proc EXCEPT ![a].staged = @ \ {k}, ![a].published = @ \ {k}]
               /\ installed' = IF k \in proc[a].published
                               THEN [installed EXCEPT ![k] = NoFile] ELSE installed
    /\ UNCHANGED <<world, review, directory, litter, systemd, commands, past>>

-----------------------------------------------------------------------------
(* systemctl.  A call that fails, or is given up after five seconds, may still have had
   its effect. *)

Reload == loaded' = [u \in Units |-> installed[u]] /\ UNCHANGED <<running, cycles>>
Halt == running' = NoCycle /\ UNCHANGED <<loaded, cycles>>
Start == /\ \A u \in Units : loaded[u] # NoFile
         /\ IF running = NoCycle
            THEN /\ cycles' = cycles + 1
                 /\ running' = [cycle |-> cycles + 1, content |-> {loaded[u] : u \in Units}]
            ELSE UNCHANGED <<running, cycles>>
         /\ UNCHANGED loaded

\* The records as the directory shows them: staged files of others are names as well.
ExactRecords == /\ directory # 0
                /\ Records \subseteq Installed
                /\ ~litter /\ \A b \in Admins : proc[b].staged \cap Records = {}

\* arm: the current candidate against the installed files.
VerifyInstalled(a) ==
    /\ At(a, {"arm"}, "inspected")
    /\ IF ExactRecords /\ \A k \in Files : installed[k] = proc[a].seen
       THEN proc' = [proc EXCEPT ![a].pc = "reload", ![a].since = {}]
       ELSE Fail(a)
    /\ UNCHANGED <<world, disk, systemd, commands, past>>

DaemonReload(a) ==
    /\ At(a, {"arm", "purge"}, "reload")
    /\ \/ Reload /\ To(a, "halt")
       \/ (Reload \/ UNCHANGED systemd) /\ Fail(a)
    /\ UNCHANGED <<world, disk, commands, past>>

\* stop_unit_names
StopUnits(a) ==
    /\ At(a, {"arm", "stop", "purge"}, "halt")
    /\ \/ /\ Halt
          /\ To(a, CASE proc[a].cmd = "arm" -> "start" [] proc[a].cmd = "purge" -> "vacate"
                     [] OTHER -> "done")
       \/ (Halt \/ UNCHANGED systemd) /\ Fail(a)
    /\ UNCHANGED <<world, disk, commands, past>>

StartUnits(a) ==
    /\ At(a, {"arm"}, "start")
    /\ \/ Start /\ To(a, "active")
       \/ (Start \/ UNCHANGED systemd) /\ To(a, "unwind")
    /\ UNCHANGED <<world, disk, commands, past>>

\* require_units_active, at once and again after ARM_STABILITY_INTERVAL.
RequireActive(a) ==
    /\ At(a, {"arm"}, "active") \/ At(a, {"arm"}, "stable")
    /\ \/ running # NoCycle /\ To(a, IF proc[a].pc = "active" THEN "stable" ELSE "done")
       \/ To(a, "unwind")
    /\ UNCHANGED <<world, disk, systemd, commands, past>>

\* Mutant: an arm that fails leaves the units as they are.
Unwind_none(a) == /\ At(a, {"arm"}, "unwind")
                  /\ Fail(a)
                  /\ UNCHANGED <<world, disk, systemd, commands, past>>

\* The stop after a failed start.  Its own failure is ignored, and noted as history.
Unwind(a) ==
    /\ At(a, {"arm"}, "unwind")
    /\ \/ Halt /\ Fail(a)
       \/ UNCHANGED systemd
          /\ proc' = [proc EXCEPT ![a].pc = "done", ![a].err = TRUE, ![a].alone = FALSE]
    /\ UNCHANGED <<world, disk, commands, past>>

-----------------------------------------------------------------------------
(* purge_installed_files *)

Vacate(a) ==
    /\ At(a, {"purge"}, "vacate")
    /\ IF ExactRecords /\ Units \subseteq Installed
       THEN proc' = [proc EXCEPT ![a].pc = "unlink", ![a].todo = Files]
       ELSE Fail(a)
    /\ UNCHANGED <<world, disk, systemd, commands, past>>

\* The records first, then the units, then the directory.
Unlink(a) ==
    /\ At(a, {"purge"}, "unlink")
    /\ LET records == proc[a].todo \cap Records
           k == First(IF records # {} THEN records ELSE proc[a].todo)
           left == proc[a].todo \ {k}
       IN IF installed[k] = NoFile THEN Fail(a) /\ UNCHANGED installed
          ELSE \/ /\ installed' = [installed EXCEPT ![k] = NoFile]
                  /\ proc' = [proc EXCEPT ![a].todo = left,
                                          ![a].pc = IF left = {} THEN "rmdir" ELSE "unlink"]
               \/ Fail(a) /\ UNCHANGED installed
    /\ UNCHANGED <<world, review, directory, litter, systemd, commands, past>>

Empty == ~litter /\ \A b \in Admins : proc[b].staged \cap Records = {} /\ Installed \cap Records = {}

RemoveDirectory(a) ==
    /\ At(a, {"purge"}, "rmdir")
    /\ \/ Empty /\ directory # 0 /\ directory' = 0 /\ To(a, "unload")
       \/ Fail(a) /\ UNCHANGED directory
    /\ UNCHANGED <<world, review, installed, litter, systemd, commands, past>>

Unload(a) ==
    /\ At(a, {"purge"}, "unload")
    /\ \/ Reload /\ To(a, "done")
       \/ (Reload \/ UNCHANGED systemd) /\ Fail(a)
    /\ UNCHANGED <<world, disk, commands, past>>

-----------------------------------------------------------------------------
Step(a) == \/ List(a) \/ ReadDevice(a) \/ Recheck(a) \/ Render(a) \/ Rendered(a) \/ Verify(a)
           \/ Stage(a) \/ Publish(a) \/ Sync(a) \/ Rollback(a)
           \/ VerifyInstalled(a) \/ DaemonReload(a) \/ StopUnits(a) \/ StartUnits(a)
           \/ RequireActive(a) \/ Unwind(a)
           \/ Vacate(a) \/ Unlink(a) \/ RemoveDirectory(a) \/ Unload(a)
           \/ Finish(a)

\* Reading the devices commutes with all that the others do: they wait meanwhile.
Turn(a) == \A b \in Admins \ {a} : proc[b].pc \notin {"read", "recheck"}

Commands == {"render", "verify", "install", "arm", "stop", "purge"}

Next == \/ World \/ UnitsEnd \/ Discard
        \/ \E a \in Admins : /\ Turn(a)
                             /\ (\E cmd \in Commands : Begin(a, cmd)) \/ Step(a) \/ Killed(a)

Spec == Init /\ [][Next]_vars

-----------------------------------------------------------------------------
\* An inspection that succeeds describes one moment: every device it names was behind its
\* name at the same time, although inspect_devices reads them one by one.  The second
\* look at all of them, after the last was read, is what makes it so.
InspectionIsSnapshot ==
    \A a \in Admins : proc[a].pc = "inspected" => Matching(proc[a].since, proc[a].seen) # {}

\* An install that fails, wherever it fails, leaves the installed files as it found them,
\* as long as no other command is under way (InstallTransaction::drop).
FailedInstallLeavesNothing ==
    \A a \in Admins : proc[a].pc = "done" /\ proc[a].cmd = "install" /\ proc[a].err
                         /\ proc[a].alone => proc[a].before = {installed}

\* The installed files never mix two bundles, whatever installs were killed or overlapped,
\* unless a purge and an install have met: publishing goes in one order and never
\* replaces, rolling back goes in the opposite one.
InstalledIsOneBundle ==
    ~crossed => \A j, k \in Installed : installed[j] = installed[k]

\* A successful arm is one fresh cycle of the candidate it has verified; one that fails
\* leaves none running, when its stop was accepted.
ArmIsFresh ==
    \A a \in Admins : proc[a].pc = "done" /\ proc[a].cmd = "arm" /\ proc[a].alone =>
        IF proc[a].err THEN running = NoCycle \/ running.cycle <= proc[a].cycle
        ELSE running = NoCycle \/ (running.cycle > proc[a].cycle
                                   /\ running.content = {proc[a].seen})
=============================================================================
