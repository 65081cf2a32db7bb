------------------------- MODULE PolicyTransaction -------------------------
(***************************************************************************)
(* Saving the provider policy: replace_policy and create_first_run_config  *)
(* of crates/agent-seat-x11/src/config.rs, driven by the SettingsModel of  *)
(* crates/agent-seat-settings/src/lib.rs.  Several settings processes and  *)
(* an ordinary text editor, which knows nothing of the settings lock, work *)
(* on one directory.  Each file-system call is a step; a process may be    *)
(* killed between any two.                                                 *)
(***************************************************************************)
EXTENDS Naturals, FiniteSets

CONSTANTS Writers,         \* settings processes
          Drafts,          \* policies they may want to save
          Edits,           \* policies the editor writes, each once
          Inodes,          \* bound: inode numbers, reused when free
          None,
          Existing,        \* does the policy file exist at the start
          Crashes          \* bound: settings processes that are killed

Original == "original"     \* the policy that is there before anybody acts
Empty == "empty"           \* a file that is created and not yet written
Sources == Drafts \cup Edits \cup {Original}
Names == {"target", "previous"} \cup Writers     \* a writer names its staging file
Files == [inode : Inodes, source : Sources \cup {Empty}]
Snapshots == [inode : Inodes, source : Sources]

ASSUME PolicyAssumption ==
    /\ Existing \in BOOLEAN
    /\ Crashes \in Nat
    /\ {"target", "previous"} \cap Writers = {}    \* staging names are names of their own
    /\ Empty \notin Drafts \cup Edits
    /\ None \notin Writers \cup Inodes \cup Files

VARIABLES dir,        \* name -> the file of that name: its inode and its contents
          lock,       \* who holds the settings lock
          at,         \* per writer: where replace_policy is
          expected,   \* per writer: the snapshot its model was loaded from
          candidate,  \* per writer: the source to be saved
          had_backup, \* per writer: backup_exists
          staged,     \* per writer: the inode of its open staging file
          preserved,  \* per writer: remove_on_drop has been cleared
          edits,      \* history: edits that nobody has replaced knowingly
          unwritten,  \* edits the editor has still to make
          crashes

vars == <<dir, lock, at, expected, candidate, had_backup, staged, preserved, edits,
          unwritten, crashes>>

TypeOK == /\ dir \in [Names -> Files \cup {None}]
          /\ lock \in Writers \cup {None}
          /\ at \in [Writers -> {"closed", "open", "lock", "compare", "recovery", "stage",
                                 "exchange", "displaced", "backup", "cleanup", "reread",
                                 "look", "rollback", "drop", "killed"}]
          /\ expected \in [Writers -> Snapshots \cup {None}]
          /\ candidate \in [Writers -> Sources \cup {None}]
          /\ had_backup \in [Writers -> BOOLEAN]
          /\ staged \in [Writers -> Inodes \cup {None}]
          /\ preserved \in [Writers -> BOOLEAN]
          /\ edits \subseteq Edits
          /\ unwritten \subseteq Edits
          /\ crashes \in 0 .. Crashes

Init == /\ \E i \in Inodes :
              dir = [n \in Names |-> IF n = "target" /\ Existing
                                     THEN [inode |-> i, source |-> Original] ELSE None]
        /\ lock = None
        /\ at = [w \in Writers |-> "closed"]
        /\ expected = [w \in Writers |-> None]
        /\ candidate = [w \in Writers |-> None]
        /\ had_backup = [w \in Writers |-> FALSE]
        /\ staged = [w \in Writers |-> None]
        /\ preserved = [w \in Writers |-> FALSE]
        /\ edits = {}
        /\ unwritten = Edits
        /\ crashes = 0

-----------------------------------------------------------------------------
Goto(w, where) == at' = [at EXCEPT ![w] = where]

Holds(name, s) == dir[name] # None /\ dir[name].source = s
IsInode(name, i) == dir[name] # None /\ dir[name].inode = i

\* read_policy succeeds on a complete, valid policy.
Readable(name) == dir[name] # None /\ dir[name].source # Empty

\* An inode number nothing refers to: no name, no open staging file.
Free(i) == /\ \A n \in Names : ~IsInode(n, i)
           /\ \A w \in Writers : staged[w] # i

exchange(left, right) == dir' = [dir EXCEPT ![left] = dir[right], ![right] = dir[left]]

\* replace_policy returns: the lock and the staging file are dropped.
Return(w) == /\ Goto(w, "open")
             /\ lock' = None
             /\ staged' = [staged EXCEPT ![w] = None]
             /\ candidate' = [candidate EXCEPT ![w] = None]
             /\ had_backup' = [had_backup EXCEPT ![w] = FALSE]

-----------------------------------------------------------------------------
\* SettingsModel::open_default: create_first_run_config creates the file first...
FirstRun(w) == /\ at[w] = "closed"
               /\ dir["target"] = None
               /\ \E i \in Inodes : /\ Free(i)
                                    /\ dir' = [dir EXCEPT !["target"] =
                                                  [inode |-> i, source |-> Empty]]
                                    /\ staged' = [staged EXCEPT ![w] = i]
               /\ UNCHANGED <<lock, at, expected, candidate, had_backup, preserved,
                              edits, unwritten, crashes>>

\* ... and writes the template into it afterwards, or removes it if that fails.
FirstRunWrite(w) == /\ at[w] = "closed"
                    /\ staged[w] # None
                    /\ \/ dir' = [n \in Names |-> IF IsInode(n, staged[w])
                                                  THEN [dir[n] EXCEPT !.source = Original]
                                                  ELSE dir[n]]
                       \/ dir' = [dir EXCEPT !["target"] = None]
                    /\ staged' = [staged EXCEPT ![w] = None]
                    /\ UNCHANGED <<lock, at, expected, candidate, had_backup, preserved,
                                   edits, unwritten, crashes>>

\* SettingsModel::open and reload.
Open(w) == /\ at[w] \in {"closed", "open"}
           /\ staged[w] = None
           /\ Readable("target")
           /\ expected' = [expected EXCEPT ![w] = dir["target"]]
           /\ Goto(w, "open")
           /\ UNCHANGED <<dir, lock, candidate, had_backup, staged, preserved, edits,
                          unwritten, crashes>>

\* SettingsModel::open of a file that exists and is not a complete policy.
OpenFails(w) == /\ at[w] = "closed"
                /\ staged[w] = None
                /\ dir["target"] # None /\ ~Readable("target")
                /\ UNCHANGED vars

\* SettingsModel::save with a changed draft, or restore_previous.
Save(w) == /\ at[w] = "open"
           /\ \E s \in Sources :
                 /\ (s \in Drafts /\ s # expected[w].source) \/ Holds("previous", s)
                 /\ candidate' = [candidate EXCEPT ![w] = s]
           /\ Goto(w, "lock")
           /\ UNCHANGED <<dir, lock, expected, had_backup, staged, preserved, edits,
                          unwritten, crashes>>

\* lock_policy_directory, which does not wait.
Lock(w) == /\ at[w] = "lock"
           /\ IF lock = None
              THEN lock' = w /\ Goto(w, "compare") /\ UNCHANGED candidate
              ELSE /\ Goto(w, "open")
                   /\ candidate' = [candidate EXCEPT ![w] = None]
                   /\ UNCHANGED lock
           /\ UNCHANGED <<dir, expected, had_backup, staged, preserved, edits, unwritten,
                          crashes>>

same_snapshot(w, name) == Readable(name) /\ dir[name] = expected[w]

\* The policy must still be the expected one, and the candidate a change.
Compare(w) == /\ at[w] = "compare"
              /\ IF same_snapshot(w, "target") /\ candidate[w] # expected[w].source
                 THEN Goto(w, "recovery") /\ UNCHANGED <<lock, staged, candidate, had_backup>>
                 ELSE Return(w)
              /\ UNCHANGED <<dir, expected, preserved, edits, unwritten, crashes>>

\* check_recovery_target; an unsafe recovery policy ends the transaction.
CheckRecovery(w) == /\ at[w] = "recovery"
                    /\ \/ /\ had_backup' = [had_backup EXCEPT ![w] = dir["previous"] # None]
                          /\ Goto(w, "stage")
                          /\ UNCHANGED <<lock, candidate, staged>>
                       \/ dir["previous"] # None /\ Return(w)
                    /\ UNCHANGED <<dir, expected, preserved, edits, unwritten, crashes>>

\* TemporaryPolicy::create writes and syncs the candidate, or fails and returns.
Stage(w) == /\ at[w] = "stage"
            /\ \/ /\ dir[w] = None
                  /\ \E i \in Inodes : /\ Free(i)
                                       /\ dir' = [dir EXCEPT ![w] =
                                                     [inode |-> i, source |-> candidate[w]]]
                                       /\ staged' = [staged EXCEPT ![w] = i]
                  /\ preserved' = [preserved EXCEPT ![w] = FALSE]
                  /\ Goto(w, "exchange")
                  /\ UNCHANGED <<lock, candidate, had_backup>>
               \/ Return(w) /\ UNCHANGED <<dir, preserved>>
            /\ UNCHANGED <<expected, edits, unwritten, crashes>>

\* Mutant: the candidate is renamed over the target.
Exchange_rename(w) ==
               /\ at[w] = "exchange"
               /\ dir' = [dir EXCEPT !["target"] = dir[w], ![w] = None]
               /\ Goto(w, "displaced")
               /\ UNCHANGED <<lock, expected, candidate, had_backup, staged, preserved,
                              edits, unwritten, crashes>>

\* The atomic exchange of the staging file and the target, which may fail.
Exchange(w) == /\ at[w] = "exchange"
               /\ \/ exchange(w, "target") /\ Goto(w, "displaced")
                  \/ Goto(w, "drop") /\ UNCHANGED dir
               /\ UNCHANGED <<lock, expected, candidate, had_backup, staged, preserved,
                              edits, unwritten, crashes>>

\* Mutant: whatever was displaced is accepted.
Displaced_unchecked(w) ==
                /\ at[w] = "displaced"
                /\ Goto(w, "backup")
                /\ UNCHANGED <<dir, lock, expected, candidate, had_backup, staged, preserved,
                               edits, unwritten, crashes>>

\* What the exchange displaced must be the expected policy.
Displaced(w) == /\ at[w] = "displaced"
                /\ Goto(w, IF same_snapshot(w, w) THEN "backup" ELSE "look")
                /\ UNCHANGED <<dir, lock, expected, candidate, had_backup, staged, preserved,
                               edits, unwritten, crashes>>

\* Mutant: the target is renamed to the recovery policy.
Backup_target(w) ==
             /\ at[w] = "backup"
             /\ dir' = [dir EXCEPT !["previous"] = dir["target"], !["target"] = None]
             /\ Goto(w, "cleanup")
             /\ UNCHANGED <<lock, expected, candidate, had_backup, staged, preserved,
                            edits, unwritten, crashes>>

\* The displaced policy becomes the recovery policy; failure is rolled back.
Backup(w) == /\ at[w] = "backup"
             /\ \/ /\ IF had_backup[w]
                      THEN dir["previous"] # None /\ exchange(w, "previous")
                      ELSE /\ dir["previous"] = None
                           /\ dir' = [dir EXCEPT !["previous"] = dir[w], ![w] = None]
                   /\ Goto(w, "cleanup")
                \/ Goto(w, "look") /\ UNCHANGED dir
             /\ UNCHANGED <<lock, expected, candidate, had_backup, staged, preserved,
                            edits, unwritten, crashes>>

\* The older recovery policy is removed with the staging name.
Cleanup(w) == /\ at[w] = "cleanup"
              /\ dir' = [dir EXCEPT ![w] = None]
              /\ edits' = {e \in edits : ~Holds(w, e)}
              /\ Goto(w, "reread")
              /\ UNCHANGED <<lock, expected, candidate, had_backup, staged, preserved,
                             unwritten, crashes>>

\* The target is read again and becomes the model's snapshot, unless the
\* synchronisation or the read fails.
Reread(w) == /\ at[w] = "reread"
             /\ \/ /\ Readable("target")
                   /\ expected' = [expected EXCEPT ![w] = dir["target"]]
                \/ UNCHANGED expected
             /\ Return(w)
             /\ UNCHANGED <<dir, preserved, edits, unwritten, crashes>>

\* rollback_exchange: the target must still be the candidate's inode, or else the
\* staging file is preserved.
RollbackLook(w) == /\ at[w] = "look"
                   /\ IF IsInode("target", staged[w])
                      THEN Goto(w, "rollback") /\ UNCHANGED preserved
                      ELSE Goto(w, "drop") /\ preserved' = [preserved EXCEPT ![w] = TRUE]
                   /\ UNCHANGED <<dir, lock, expected, candidate, had_backup, staged,
                                  edits, unwritten, crashes>>

\* rollback_exchange: exchange back.  A failure preserves the staging file.
Rollback(w) == /\ at[w] = "rollback"
               /\ \/ exchange(w, "target") /\ UNCHANGED preserved
                  \/ preserved' = [preserved EXCEPT ![w] = TRUE] /\ UNCHANGED dir
               /\ Goto(w, "drop")
               /\ UNCHANGED <<lock, expected, candidate, had_backup, staged,
                              edits, unwritten, crashes>>

\* TemporaryPolicy::drop on the error paths.
Drop(w) == /\ at[w] = "drop"
           /\ dir' = [dir EXCEPT ![w] = IF preserved[w] THEN @ ELSE None]
           /\ Return(w)
           /\ UNCHANGED <<expected, preserved, edits, unwritten, crashes>>

\* The process is killed; the kernel releases its lock and its descriptors.
Crash(w) == /\ at[w] # "killed"
            /\ crashes < Crashes
            /\ crashes' = crashes + 1
            /\ Goto(w, "killed")
            /\ lock' = IF lock = w THEN None ELSE lock
            /\ staged' = [staged EXCEPT ![w] = None]
            /\ expected' = [expected EXCEPT ![w] = None]
            /\ candidate' = [candidate EXCEPT ![w] = None]
            /\ had_backup' = [had_backup EXCEPT ![w] = FALSE]
            /\ preserved' = [preserved EXCEPT ![w] = FALSE]
            /\ UNCHANGED <<dir, edits, unwritten>>

Write(w) == \/ FirstRun(w) \/ FirstRunWrite(w) \/ Open(w) \/ OpenFails(w) \/ Save(w)
            \/ Lock(w) \/ Compare(w) \/ CheckRecovery(w) \/ Stage(w) \/ Exchange(w) \/ Displaced(w) \/ Backup(w)
            \/ Cleanup(w) \/ Reread(w) \/ RollbackLook(w) \/ Rollback(w) \/ Drop(w)

-----------------------------------------------------------------------------
\* The text editor saves by renaming a new file over the target, or in place.
EditRename(e) == /\ e \in unwritten
                 /\ Readable("target")
                 /\ \E i \in Inodes : /\ Free(i)
                                      /\ dir' = [dir EXCEPT !["target"] =
                                                    [inode |-> i, source |-> e]]
                 /\ edits' = {x \in edits : ~Holds("target", x)} \cup {e}
                 /\ unwritten' = unwritten \ {e}
                 /\ UNCHANGED <<lock, at, expected, candidate, had_backup, staged, preserved,
                                crashes>>

EditInPlace(e) == /\ e \in unwritten
                   /\ Readable("target")
                  /\ dir' = [dir EXCEPT !["target"].source = e]
                  /\ edits' = {x \in edits : ~Holds("target", x)} \cup {e}
                  /\ unwritten' = unwritten \ {e}
                  /\ UNCHANGED <<lock, at, expected, candidate, had_backup, staged,
                                 preserved, crashes>>

Next == \/ \E w \in Writers : Write(w) \/ Crash(w)
        \/ \E e \in Edits : EditRename(e) \/ EditInPlace(e)

Spec == Init /\ [][Next]_vars

-----------------------------------------------------------------------------
\* Once there is a complete policy, every later moment has one under the target
\* name: no step of a save, no crash and no rollback exposes a missing or a
\* half-written policy to a provider that starts.
PolicyStaysWhole == [][Readable("target") => Readable("target")']_vars

\* "A successful replacement retains the previous policy beside the target": when
\* replace_policy gets to its end, the recovery policy is the one the caller
\* expected to replace, not one that another writer or the editor put there.
PreviousIsRetained ==
    \A w \in Writers : at[w] \in {"cleanup", "reread"} => Holds("previous", expected[w].source)

\* The one way an edit that nobody has seen disappears is a rollback that exchanges it
\* into the staging name and drops that: neither the exchange itself, nor the retained
\* policy, nor another writer, nor a killed one removes the last copy.
OnlyRollbackLosesAnEdit ==
    [][\A e \in edits \cap edits' :
          (\E n \in Names : Holds(n, e)) /\ ~(\E n \in Names : Holds(n, e)')
          => \E w \in Writers : at[w] = "drop" /\ at'[w] = "open" /\ Holds(w, e)]_vars
=============================================================================
