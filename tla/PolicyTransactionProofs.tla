---------------------- MODULE PolicyTransactionProofs ----------------------
(***************************************************************************)
(* Saving the policy, for any number of settings processes, policies,      *)
(* edits, inodes and crashes.                                              *)
(***************************************************************************)
EXTENDS PolicyTransaction, TLAPS

\* The prover of the leaves that name none, and how long it may take.
USE ZenonT(60)

\* Between lock_policy_directory and the return of replace_policy.
Locked == {"compare", "recovery", "stage", "exchange", "displaced", "backup", "cleanup",
           "reread", "look", "rollback", "drop"}

\* create_first_run_config is between the creation and the write.
Creating(w) == at[w] = "closed" /\ staged[w] # None

\* A process that has a model has read a complete policy, and there has been one since.
TargetInv ==
    /\ \A w \in Writers : at[w] \notin {"closed", "killed"} => Readable("target")
    /\ \A w \in Writers : Creating(w) =>
          /\ dir["target"] # None /\ dir["target"].source = Empty
          /\ \A n \in Names : IsInode(n, staged[w]) => n = "target"
          /\ \A v \in Writers : Creating(v) => v = w

\* What the staging name of a transaction refers to, step by step.
StagingInv(w) ==
    /\ lock = w <=> at[w] \in Locked
    /\ at[w] \in {"lock", "compare", "recovery", "stage"} => candidate[w] \in Sources
    /\ at[w] \in {"exchange", "displaced", "backup", "look", "rollback"} => Readable(w)
    /\ at[w] = "backup" => dir[w] = expected[w]
    /\ at[w] \in {"cleanup", "reread"} => dir["previous"] = expected[w] /\ expected[w] # None

IInv == TypeOK /\ TargetInv /\ \A w \in Writers : StagingInv(w)

-----------------------------------------------------------------------------
\* The two policy names and the staging names differ, and None is no file.
LEMMA Distinct ==
    /\ "target" \in Names /\ "previous" \in Names /\ Writers \subseteq Names
    /\ "target" \notin Writers /\ "previous" \notin Writers
    /\ Empty \notin Sources /\ Original \in Sources /\ Drafts \cup Edits \subseteq Sources
    /\ None \notin Writers /\ None \notin Inodes /\ None \notin Files
    /\ Snapshots \subseteq Files
  BY PolicyAssumption DEF Names, Sources, Empty, Original, Snapshots, Files

\* What read_policy accepts is a snapshot.
LEMMA ReadableIsSnapshot ==
    ASSUME TypeOK, NEW n \in Names, Readable(n)
    PROVE  dir[n] \in Snapshots
  BY DEF TypeOK, Readable, Files, Snapshots

\* exchange permutes two names.
LEMMA ExchangeFacts ==
    ASSUME TypeOK, NEW a \in Names, NEW b \in Names, a # b, exchange(a, b)
    PROVE  /\ dir' \in [Names -> Files \cup {None}]
           /\ dir'[a] = dir[b] /\ dir'[b] = dir[a]
           /\ \A n \in Names : n # a /\ n # b => dir'[n] = dir[n]
  BY DEF TypeOK, exchange

\* create_first_run_config writes into the new file and into no other.
LEMMA FirstRunWriteFacts ==
    ASSUME IInv, NEW w \in Writers, FirstRunWrite(w)
    PROVE  /\ Creating(w)
           /\ dir' \in [Names -> Files \cup {None}]
           /\ \A n \in Names : n # "target" => dir'[n] = dir[n]
           /\ ~Readable("target")
           /\ \A v \in Writers : Creating(v) => v = w
  <1>1. Creating(w)  BY DEF FirstRunWrite, Creating
  <1>2. \A n \in Names : IsInode(n, staged[w]) => n = "target"
    BY <1>1 DEF IInv, TargetInv
  <1>3. CASE dir' = [n \in Names |-> IF IsInode(n, staged[w])
                                     THEN [dir[n] EXCEPT !.source = Original] ELSE dir[n]]
    <2>1. dir' \in [Names -> Files \cup {None}]
      BY SMTT(60), <1>3, Distinct DEF IInv, TypeOK, IsInode, Files
    <2> QED  BY <1>1, <1>2, <1>3, <2>1 DEF IInv, TargetInv, Readable
  <1>4. CASE dir' = [dir EXCEPT !["target"] = None]
    BY <1>1, <1>4, Distinct DEF IInv, TypeOK, TargetInv, Readable
  <1> QED  BY <1>3, <1>4 DEF FirstRunWrite

\* No step of a save, of the first run or of an edit takes a complete policy away
\* from the target name.
LEMMA Whole ==
    ASSUME IInv, Next, Readable("target")
    PROVE  Readable("target")'
  <1> USE Distinct
  <1>t. dir \in [Names -> Files \cup {None}]  BY DEF IInv, TypeOK
  <1>1. ASSUME NEW w \in Writers, Write(w)
        PROVE  Readable("target")'
    <2>1. CASE FirstRun(w)  BY <2>1 DEF FirstRun, Readable
    <2>2. CASE FirstRunWrite(w)  BY <2>2, FirstRunWriteFacts
    <2>3. CASE Stage(w)  BY <2>3, <1>t DEF Stage, Readable
    <2>4. CASE Exchange(w)
      <3>1. Readable(w)  BY <2>4 DEF Exchange, IInv, StagingInv
      <3>2. CASE exchange(w, "target")  BY <3>1, <3>2, ExchangeFacts DEF IInv, Readable
      <3> QED  BY <2>4, <3>2 DEF Exchange, Readable
    <2>5. CASE Backup(w)
      <3>1. CASE exchange(w, "previous")
        BY SMTT(60), <3>1, ExchangeFacts DEF IInv, Readable
      <3>2. CASE dir' = [dir EXCEPT !["previous"] = dir[w], ![w] = None]
        BY <3>2, <1>t DEF Readable
      <3> QED  BY <2>5, <3>1, <3>2 DEF Backup, Readable
    <2>6. CASE Cleanup(w)  BY <2>6, <1>t DEF Cleanup, Readable
    <2>7. CASE Rollback(w)
      <3>1. Readable(w)  BY <2>7 DEF Rollback, IInv, StagingInv
      <3>2. CASE exchange(w, "target")  BY <3>1, <3>2, ExchangeFacts DEF IInv, Readable
      <3> QED  BY <2>7, <3>2 DEF Rollback, Readable
    <2>8. CASE Drop(w)  BY <2>8, <1>t DEF Drop, Readable
    <2>9. CASE Open(w) \/ OpenFails(w) \/ Save(w) \/ Lock(w) \/ Compare(w) \/ CheckRecovery(w)
               \/ Displaced(w) \/ Reread(w) \/ RollbackLook(w)
      BY <2>9
         DEF Open, OpenFails, Save, Lock, Compare, CheckRecovery, Displaced, Reread,
             RollbackLook, Readable, vars
    <2> QED  BY <1>1, <2>1, <2>2, <2>3, <2>4, <2>5, <2>6, <2>7, <2>8, <2>9 DEF Write
  <1>2. ASSUME NEW w \in Writers, Crash(w)
        PROVE  Readable("target")'
    BY <1>2 DEF Crash, Readable
  <1>3. ASSUME NEW e \in Edits, EditRename(e)
        PROVE  Readable("target")'
    BY SMTT(60), <1>3, <1>t DEF EditRename, Readable, Files
  <1>4. ASSUME NEW e \in Edits, EditInPlace(e)
        PROVE  Readable("target")'
    <2>1. dir["target"] \in Snapshots  BY ReadableIsSnapshot DEF IInv
    <2>2. dir'["target"] = [dir["target"] EXCEPT !.source = e]
      BY <1>4, <1>t DEF EditInPlace
    <2>3. dir'["target"] \in Files /\ dir'["target"].source = e
      BY <2>1, <2>2 DEF Snapshots, Files
    <2> QED  BY <2>3 DEF Readable
  <1> QED  BY <1>1, <1>2, <1>3, <1>4 DEF Next

\* A step of a process that has its model open: it leaves the other processes and their
\* staging names alone, and the recovery policy too unless it holds the lock.
LEMMA WorkIInv ==
    ASSUME IInv, Next, TypeOK', NEW w \in Writers,
           at[w] \notin {"closed", "killed"}, at'[w] \notin {"closed", "killed"},
           \A v \in Writers : v # w =>
              /\ at'[v] = at[v] /\ expected'[v] = expected[v] /\ candidate'[v] = candidate[v]
              /\ staged'[v] = staged[v] /\ dir'[v] = dir[v] /\ (lock' = v <=> lock = v),
           dir'["previous"] = dir["previous"] \/ lock = w,
           StagingInv(w)'
    PROVE  IInv'
  <1>1. Readable("target") /\ Readable("target")'  BY Whole DEF IInv, TargetInv
  <1>2. \A v \in Writers : ~Creating(v)'
    BY <1>1 DEF IInv, TargetInv, Creating, Readable
  <1>3. TargetInv'  BY <1>1, <1>2 DEF TargetInv
  <1>4. ASSUME NEW v \in Writers, v # w
        PROVE  StagingInv(v)'
    BY <1>4 DEF IInv, StagingInv, Locked, Readable
  <1> QED  BY <1>3, <1>4 DEF IInv

\* The settings start with no transaction open.
LEMMA InitIInv == Init => IInv
  <1> SUFFICES ASSUME Init
               PROVE  IInv
    OBVIOUS
  <1> USE Distinct DEF Init
  <1>1. dir \in [Names -> Files \cup {None}]  BY SMTT(60) DEF Files
  <1>2. TypeOK  BY SMTT(60), <1>1, PolicyAssumption DEF TypeOK
  <1>3. TargetInv  BY DEF TargetInv, Creating
  <1>4. \A w \in Writers : StagingInv(w)  BY DEF StagingInv, Locked
  <1> QED  BY <1>2, <1>3, <1>4 DEF IInv

\* SettingsModel::open of a first run and of an existing policy.
LEMMA OpenIInv ==
    ASSUME IInv, Next, NEW w \in Writers, FirstRun(w) \/ FirstRunWrite(w) \/ Open(w) \/ OpenFails(w)
    PROVE  IInv'
  <1> USE Distinct
  <1>t. TypeOK /\ TargetInv /\ \A v \in Writers : StagingInv(v)  BY DEF IInv
  <1>1. CASE FirstRun(w)
    <2>1. PICK i \in Inodes : /\ Free(i)
                              /\ dir' = [dir EXCEPT !["target"] = [inode |-> i, source |-> Empty]]
                              /\ staged' = [staged EXCEPT ![w] = i]
      BY <1>1 DEF FirstRun
    <2>2. [inode |-> i, source |-> Empty] \in Files  BY DEF Files
    <2>3. TypeOK'  BY <1>1, <2>1, <2>2, <1>t DEF FirstRun, TypeOK
    <2>4. \A v \in Writers : at[v] \in {"closed", "killed"}
      BY <1>1, <1>t DEF FirstRun, TargetInv, Readable
    <2>5. \A v \in Writers : ~Creating(v)  BY <1>1, <1>t DEF FirstRun, TargetInv
    <2>6. \A v \in Writers : Creating(v)' => v = w
      BY <1>1, <2>1, <2>5, <1>t DEF FirstRun, Creating, TypeOK
    <2>7. staged'[w] = i  BY <2>1, <1>t DEF TypeOK
    <2>8. \A n \in Names : IsInode(n, staged[w])' => n = "target"
      BY <2>1, <2>7, <1>t DEF IsInode, Free, TypeOK
    <2>9. dir'["target"] # None /\ dir'["target"].source = Empty
      BY <2>1, <2>2, <1>t DEF TypeOK
    <2>10. TargetInv'  BY <1>1, <2>4, <2>6, <2>8, <2>9 DEF FirstRun, TargetInv
    <2>11. \A v \in Writers : StagingInv(v)'
      BY <1>1, <2>4, <1>t DEF FirstRun, StagingInv, Locked
    <2> QED  BY <2>3, <2>10, <2>11 DEF IInv
  <1>2. CASE FirstRunWrite(w)
    <2>1. TypeOK'  BY <1>2, <1>t, FirstRunWriteFacts DEF FirstRunWrite, TypeOK
    <2>2. \A v \in Writers : at[v] \in {"closed", "killed"}
      BY <1>2, <1>t, FirstRunWriteFacts DEF TargetInv
    <2>3. ASSUME NEW v \in Writers, Creating(v)'
          PROVE  FALSE
      <3>1. at' = at /\ staged' = [staged EXCEPT ![w] = None]  BY <1>2 DEF FirstRunWrite
      <3>2. v # w  BY <2>3, <3>1, <1>t DEF Creating, TypeOK
      <3>3. Creating(v)  BY <2>3, <3>1, <3>2, <1>t DEF Creating, TypeOK
      <3> QED  BY <1>2, <3>2, <3>3, FirstRunWriteFacts
    <2>4. TargetInv'  BY <1>2, <2>2, <2>3 DEF FirstRunWrite, TargetInv
    <2>5. \A v \in Writers : StagingInv(v)'
      BY <1>2, <2>2, <1>t DEF FirstRunWrite, StagingInv, Locked
    <2> QED  BY <2>1, <2>4, <2>5 DEF IInv
  <1>3. CASE Open(w)
    <2>1. TypeOK'  BY <1>3, <1>t, ReadableIsSnapshot DEF Open, Goto, TypeOK
    <2>2. Readable("target") /\ Readable("target")'  BY <1>3 DEF Open, Readable
    <2>3. \A v \in Writers : ~Creating(v)'
      BY <1>3, <2>2, <1>t DEF Open, Goto, Creating, TargetInv, Readable, TypeOK
    <2>4. TargetInv'  BY <2>2, <2>3 DEF TargetInv
    <2>5. at'[w] = "open" /\ lock # w
      BY <1>3, <1>t DEF Open, Goto, StagingInv, Locked, TypeOK
    <2>6. StagingInv(w)'  BY <1>3, <2>5 DEF Open, StagingInv, Locked
    <2>7. ASSUME NEW v \in Writers, v # w
          PROVE  StagingInv(v)'
      <3>1. at'[v] = at[v] /\ expected'[v] = expected[v]
        BY <1>3, <2>7, <1>t DEF Open, Goto, TypeOK
      <3> QED  BY <1>3, <3>1, <1>t DEF Open, StagingInv, Readable
    <2> QED  BY <2>1, <2>4, <2>6, <2>7 DEF IInv
  <1>4. CASE OpenFails(w)
    BY <1>4
       DEF OpenFails, vars, IInv, TypeOK, TargetInv, StagingInv, Creating, Readable, IsInode
  <1> QED  BY <1>1, <1>2, <1>3, <1>4

\* Each way replace_policy ends releases the lock.
LEMMA ReturnIInv ==
    ASSUME IInv, Next, NEW w \in Writers, lock = w, at[w] \in Locked, Return(w),
           dir' \in [Names -> Files \cup {None}], \A n \in Names : n # w => dir'[n] = dir[n],
           expected' \in [Writers -> Snapshots \cup {None}],
           \A v \in Writers : v # w => expected'[v] = expected[v],
           preserved' = preserved, edits' = edits, unwritten' = unwritten, crashes' = crashes
    PROVE  IInv'
  <1> USE Distinct
  <1>t. TypeOK  BY DEF IInv
  <1>1. TypeOK'  BY <1>t DEF TypeOK, Return, Goto
  <1>2. at'[w] = "open"  BY <1>t DEF TypeOK, Return, Goto
  <1>3. StagingInv(w)'  BY <1>2 DEF StagingInv, Locked, Return
  <1>4. \A v \in Writers : v # w =>
              /\ at'[v] = at[v] /\ expected'[v] = expected[v] /\ candidate'[v] = candidate[v]
              /\ staged'[v] = staged[v] /\ dir'[v] = dir[v] /\ (lock' = v <=> lock = v)
    BY <1>t DEF TypeOK, Return, Goto
  <1> QED  BY <1>1, <1>2, <1>3, <1>4, WorkIInv DEF Locked

\* The steps before the staging file exists.
LEMMA PrepareIInv ==
    ASSUME IInv, Next, NEW w \in Writers,
           Save(w) \/ Lock(w) \/ Compare(w) \/ CheckRecovery(w) \/ Stage(w)
    PROVE  IInv'
  <1> USE Distinct
  <1>t. TypeOK /\ StagingInv(w)  BY DEF IInv
  <1>1. CASE Save(w)
    <2>1. TypeOK'  BY SMTT(60), <1>1, <1>t DEF Save, Goto, TypeOK
    <2>2. at'[w] = "lock" /\ candidate'[w] \in Sources  BY <1>1, <1>t DEF Save, Goto, TypeOK
    <2>3. StagingInv(w)'  BY <1>1, <2>2, <1>t DEF Save, StagingInv, Locked
    <2> QED  BY <1>1, <2>1, <2>2, <2>3, <1>t, WorkIInv DEF Save, Goto, TypeOK
  <1>2. CASE Lock(w)
    <2>1. TypeOK'  BY <1>2, <1>t DEF Lock, Goto, TypeOK
    <2>2. at'[w] \in {"compare", "open"} /\ StagingInv(w)'
      BY <1>2, <1>t DEF Lock, Goto, TypeOK, StagingInv, Locked
    <2> QED  BY SMTT(60), <1>2, <2>1, <2>2, <1>t, WorkIInv DEF Lock, Goto, TypeOK
  <1>3. CASE Compare(w)
    <2>1. CASE Return(w)
      BY <1>3, <2>1, <1>t, ReturnIInv DEF Compare, TypeOK, StagingInv, Locked
    <2>2. CASE Goto(w, "recovery") /\ UNCHANGED <<lock, staged, candidate, had_backup>>
      <3>1. TypeOK'  BY <1>3, <2>2, <1>t DEF Compare, Goto, TypeOK
      <3>2. at'[w] = "recovery" /\ StagingInv(w)'
        BY <1>3, <2>2, <1>t DEF Compare, Goto, TypeOK, StagingInv, Locked
      <3> QED  BY <1>3, <2>2, <3>1, <3>2, <1>t, WorkIInv DEF Compare, Goto, TypeOK
    <2> QED  BY <1>3, <2>1, <2>2 DEF Compare
  <1>4. CASE CheckRecovery(w)
    <2>1. CASE Return(w)
      BY <1>4, <2>1, <1>t, ReturnIInv DEF CheckRecovery, TypeOK, StagingInv, Locked
    <2>2. CASE /\ had_backup' = [had_backup EXCEPT ![w] = dir["previous"] # None]
               /\ Goto(w, "stage")
               /\ UNCHANGED <<lock, candidate, staged>>
      <3>1. TypeOK'  BY <1>4, <2>2, <1>t DEF CheckRecovery, Goto, TypeOK
      <3>2. at'[w] = "stage" /\ StagingInv(w)'
        BY <1>4, <2>2, <1>t DEF CheckRecovery, Goto, TypeOK, StagingInv, Locked
      <3> QED  BY <1>4, <2>2, <3>1, <3>2, <1>t, WorkIInv DEF CheckRecovery, Goto, TypeOK
    <2> QED  BY <1>4, <2>1, <2>2 DEF CheckRecovery
  <1>5. CASE Stage(w)
    <2>1. CASE Return(w) /\ UNCHANGED <<dir, preserved>>
      BY <1>5, <2>1, <1>t, ReturnIInv DEF Stage, TypeOK, StagingInv, Locked
    <2>2. ASSUME NEW i \in Inodes,
                 dir' = [dir EXCEPT ![w] = [inode |-> i, source |-> candidate[w]]],
                 staged' = [staged EXCEPT ![w] = i],
                 preserved' = [preserved EXCEPT ![w] = FALSE],
                 Goto(w, "exchange"), UNCHANGED <<lock, candidate, had_backup>>
          PROVE  IInv'
      <3>1. candidate[w] \in Sources  BY <1>5, <1>t DEF Stage, StagingInv
      <3>2. [inode |-> i, source |-> candidate[w]] \in Files  BY <3>1 DEF Files
      <3>3. TypeOK'  BY <1>5, <2>2, <3>2, <1>t DEF Stage, Goto, TypeOK
      <3>4. Readable(w)'  BY <2>2, <3>1, <3>2, <1>t DEF TypeOK, Readable
      <3>5. at'[w] = "exchange"  BY <2>2, <1>t DEF Goto, TypeOK
      <3>6. StagingInv(w)'  BY <1>5, <2>2, <3>4, <3>5, <1>t DEF Stage, StagingInv, Locked
      <3> QED  BY <1>5, <2>2, <3>3, <3>5, <3>6, <1>t, WorkIInv DEF Stage, Goto, TypeOK
    <2> QED  BY <1>5, <2>1, <2>2 DEF Stage
  <1> QED  BY <1>1, <1>2, <1>3, <1>4, <1>5

\* The steps from the exchange on, the rollback included.
LEMMA CommitIInv ==
    ASSUME IInv, Next, NEW w \in Writers,
           Exchange(w) \/ Displaced(w) \/ Backup(w) \/ Cleanup(w) \/ Reread(w)
           \/ RollbackLook(w) \/ Rollback(w) \/ Drop(w)
    PROVE  IInv'
  <1> USE Distinct
  <1>t. TypeOK /\ StagingInv(w)  BY DEF IInv
  <1>r. Readable("target")
    BY DEF IInv, TargetInv, Exchange, Displaced, Backup, Cleanup, Reread, RollbackLook,
           Rollback, Drop
  <1>1. CASE Exchange(w)
    <2>1. Readable(w) /\ lock = w  BY <1>1, <1>t DEF Exchange, StagingInv, Locked
    <2>2. /\ dir' \in [Names -> Files \cup {None}]
          /\ \A n \in Names : n # w /\ n # "target" => dir'[n] = dir[n]
          /\ Readable(w)'
          /\ at' = [at EXCEPT ![w] = "displaced"] \/ at' = [at EXCEPT ![w] = "drop"]
      BY <1>1, <1>r, <2>1, <1>t, ExchangeFacts DEF Exchange, Goto, TypeOK, Readable
    <2>3. at'[w] \in {"displaced", "drop"}  BY <2>2, <1>t DEF TypeOK
    <2>4. StagingInv(w)'  BY <1>1, <2>1, <2>2, <2>3 DEF Exchange, StagingInv, Locked
    <2>5. TypeOK'  BY <1>1, <2>2, <1>t DEF Exchange, TypeOK
    <2> QED  BY <1>1, <2>2, <2>3, <2>4, <2>5, <1>t, WorkIInv DEF Exchange, TypeOK
  <1>2. CASE Displaced(w)
    <2>1. TypeOK'  BY <1>2, <1>t DEF Displaced, Goto, TypeOK
    <2>2. at'[w] \in {"backup", "look"} /\ StagingInv(w)'
      BY <1>2, <1>t DEF Displaced, Goto, TypeOK, StagingInv, Locked, same_snapshot, Readable
    <2> QED  BY <1>2, <2>1, <2>2, <1>t, WorkIInv DEF Displaced, Goto, TypeOK
  <1>3. CASE Backup(w)
    <2>1. Readable(w) /\ lock = w /\ dir[w] = expected[w]
      BY <1>3, <1>t DEF Backup, StagingInv, Locked
    <2>2. CASE Goto(w, "look") /\ UNCHANGED dir
      <3>1. TypeOK'  BY <1>3, <2>2, <1>t DEF Backup, Goto, TypeOK
      <3>2. at'[w] = "look" /\ StagingInv(w)'
        BY <1>3, <2>1, <2>2, <1>t DEF Backup, Goto, TypeOK, StagingInv, Locked, Readable
      <3> QED  BY <1>3, <2>2, <3>1, <3>2, <1>t, WorkIInv DEF Backup, Goto, TypeOK
    <2>3. CASE /\ exchange(w, "previous")
                  \/ dir' = [dir EXCEPT !["previous"] = dir[w], ![w] = None]
               /\ Goto(w, "cleanup")
      <3>1. /\ dir' \in [Names -> Files \cup {None}]
            /\ \A n \in Names : n # w /\ n # "previous" => dir'[n] = dir[n]
            /\ dir'["previous"] = dir[w]
        BY SMTT(60), <2>3, <1>t, ExchangeFacts DEF TypeOK
      <3>2. at'[w] = "cleanup"  BY <2>3, <1>t DEF Goto, TypeOK
      <3>3. StagingInv(w)'
        BY <1>3, <2>1, <3>1, <3>2 DEF Backup, StagingInv, Locked, Readable
      <3>4. TypeOK'  BY <1>3, <2>3, <3>1, <1>t DEF Backup, Goto, TypeOK
      <3> QED
        BY SMTT(60), <1>3, <2>1, <2>3, <3>1, <3>2, <3>3, <3>4, <1>t, WorkIInv
           DEF Backup, Goto, TypeOK
    <2> QED  BY <1>3, <2>2, <2>3 DEF Backup
  <1>4. CASE Cleanup(w)
    <2>1. TypeOK'  BY <1>4, <1>t DEF Cleanup, Goto, TypeOK
    <2>2. at'[w] = "reread" /\ StagingInv(w)'
      BY <1>4, <1>t DEF Cleanup, Goto, TypeOK, StagingInv, Locked
    <2> QED  BY <1>4, <2>1, <2>2, <1>t, WorkIInv DEF Cleanup, Goto, TypeOK
  <1>5. CASE Reread(w)
    BY <1>5, <1>t, ReadableIsSnapshot, ReturnIInv DEF Reread, TypeOK, StagingInv, Locked
  <1>6. CASE RollbackLook(w)
    <2>1. TypeOK'  BY <1>6, <1>t DEF RollbackLook, Goto, TypeOK
    <2>2. at'[w] \in {"rollback", "drop"} /\ StagingInv(w)'
      BY <1>6, <1>t DEF RollbackLook, Goto, TypeOK, StagingInv, Locked, Readable
    <2> QED  BY <1>6, <2>1, <2>2, <1>t, WorkIInv DEF RollbackLook, Goto, TypeOK
  <1>7. CASE Rollback(w)
    <2>1. lock = w  BY <1>7, <1>t DEF Rollback, StagingInv, Locked
    <2>2. /\ dir' \in [Names -> Files \cup {None}]
          /\ \A n \in Names : n # w /\ n # "target" => dir'[n] = dir[n]
      BY <1>7, <1>t, ExchangeFacts DEF Rollback, TypeOK
    <2>3. TypeOK'  BY <1>7, <2>2, <1>t DEF Rollback, Goto, TypeOK
    <2>4. at'[w] = "drop" /\ StagingInv(w)'
      BY <1>7, <2>1, <1>t DEF Rollback, Goto, TypeOK, StagingInv, Locked
    <2> QED  BY <1>7, <2>2, <2>3, <2>4, <1>t, WorkIInv DEF Rollback, Goto, TypeOK
  <1>8. CASE Drop(w)
    BY <1>8, <1>t, ReturnIInv DEF Drop, TypeOK, StagingInv, Locked
  <1> QED  BY <1>1, <1>2, <1>3, <1>4, <1>5, <1>6, <1>7, <1>8

\* A process that is killed leaves its files as they are and loses the lock.
LEMMA CrashIInv ==
    ASSUME IInv, NEW w \in Writers, Crash(w)
    PROVE  IInv'
  <1> USE Distinct
  <1>t. TypeOK /\ TargetInv  BY DEF IInv
  <1>1. TypeOK'  BY SMTT(60), <1>t, PolicyAssumption DEF Crash, Goto, TypeOK
  <1>2. at'[w] = "killed" /\ lock' # w  BY <1>t DEF Crash, Goto, TypeOK
  <1>3. \A v \in Writers : v # w =>
              /\ at'[v] = at[v] /\ expected'[v] = expected[v] /\ candidate'[v] = candidate[v]
              /\ staged'[v] = staged[v] /\ dir'[v] = dir[v] /\ (lock' = v <=> lock = v)
    BY SMTT(60), <1>t DEF Crash, Goto, TypeOK
  <1>4. TargetInv'
    BY SMTT(60), <1>2, <1>3, <1>t DEF Crash, TargetInv, Creating, Readable, IsInode
  <1>5. \A v \in Writers : StagingInv(v)'
    BY SMTT(60), <1>2, <1>3 DEF Crash, IInv, StagingInv, Locked, Readable
  <1> QED  BY <1>1, <1>4, <1>5 DEF IInv

\* The editor changes the target only.
LEMMA EditIInv ==
    ASSUME IInv, Next, NEW e \in Edits, EditRename(e) \/ EditInPlace(e)
    PROVE  IInv'
  <1> USE Distinct
  <1>t. TypeOK /\ TargetInv  BY DEF IInv
  <1>1. Readable("target") /\ Readable("target")'
    BY Whole DEF EditRename, EditInPlace
  <1>2. /\ dir' \in [Names -> Files \cup {None}]
        /\ \A n \in Names : n # "target" => dir'[n] = dir[n]
    <2>1. CASE EditRename(e)
      <3>1. PICK i \in Inodes : dir' = [dir EXCEPT !["target"] = [inode |-> i, source |-> e]]
        BY <2>1 DEF EditRename
      <3>2. [inode |-> i, source |-> e] \in Files  BY DEF Files
      <3> QED  BY <3>1, <3>2, <1>t DEF TypeOK
    <2>2. CASE EditInPlace(e)
      <3>1. [dir["target"] EXCEPT !.source = e] \in Files
        BY <1>1, <1>t, ReadableIsSnapshot DEF Snapshots, Files
      <3> QED  BY <2>2, <3>1, <1>t DEF EditInPlace, TypeOK
    <2> QED  BY <2>1, <2>2
  <1>3. TypeOK'  BY <1>2, <1>t DEF EditRename, EditInPlace, TypeOK
  <1>4. \A v \in Writers : ~Creating(v)'
    BY <1>1, <1>t DEF EditRename, EditInPlace, TargetInv, Creating, Readable
  <1>5. TargetInv'  BY <1>1, <1>4 DEF TargetInv
  <1>6. \A v \in Writers : StagingInv(v)'
    BY <1>2 DEF EditRename, EditInPlace, IInv, StagingInv, Readable
  <1> QED  BY <1>3, <1>5, <1>6 DEF IInv

\* Every step keeps the inductive invariant.
LEMMA StepIInv == IInv /\ [Next]_vars => IInv'
  <1> SUFFICES ASSUME IInv, [Next]_vars
               PROVE  IInv'
    OBVIOUS
  <1>1. CASE UNCHANGED vars
    BY SMTT(60), <1>1
       DEF vars, IInv, TypeOK, TargetInv, StagingInv, Creating, Readable, IsInode
  <1>2. CASE Next
    BY <1>2, OpenIInv, PrepareIInv, CommitIInv, CrashIInv, EditIInv DEF Next, Write
  <1> QED  BY <1>1, <1>2

-----------------------------------------------------------------------------
\* The inductive invariant of saving: the settings lock excludes, the staging name
\* refers to what each step of replace_policy takes it for, and a policy that was once
\* complete stays complete.
THEOREM Inductive == Spec => []IInv
  BY InitIInv, StepIInv, PTL DEF Spec

\* "A successful replacement retains the previous policy beside the target", whatever
\* the editor, other settings processes and crashes do: the recovery policy at the end
\* of replace_policy is the very file the caller expected to replace.
THEOREM PreviousPolicyIsKept == Spec => []PreviousIsRetained
  <1>1. IInv => PreviousIsRetained
    BY DEF IInv, StagingInv, PreviousIsRetained, Holds
  <1> QED  BY <1>1, Inductive, PTL

\* Once the target is a complete policy it is one after every step of replace_policy,
\* create_first_run_config, the editor, and after every crash.
THEOREM PolicyIsNeverExposed == Spec => PolicyStaysWhole
  <1>1. IInv /\ [Next]_vars => [Readable("target") => Readable("target")']_vars
    BY Whole
  <1> QED  BY <1>1, Inductive, PTL DEF Spec, PolicyStaysWhole

\* The last copy of an edit that no settings process replaced knowingly is removed by
\* one step only: TemporaryPolicy::drop after a rollback put the edit under the staging
\* name.
THEOREM EditsSurvive == Spec => OnlyRollbackLosesAnEdit
  <1> DEFINE A == \A e \in edits \cap edits' :
          (\E n \in Names : Holds(n, e)) /\ ~(\E n \in Names : Holds(n, e)')
          => \E w \in Writers : at[w] = "drop" /\ at'[w] = "open" /\ Holds(w, e)
  <1>1. ASSUME IInv, Next
        PROVE  A
    <2> USE Distinct
    <2>t. TypeOK  BY <1>1 DEF IInv
    <2> SUFFICES ASSUME NEW e \in edits, e \in edits', NEW n \in Names, Holds(n, e),
                        ~(\E m \in Names : Holds(m, e)')
                 PROVE  \E w \in Writers : at[w] = "drop" /\ at'[w] = "open" /\ Holds(w, e)
      OBVIOUS
    <2>e. e \in Sources /\ e # Empty  BY <2>t DEF TypeOK
    <2>n. dir'[n] # dir[n]  BY DEF Holds
    <2>1. ASSUME NEW w \in Writers, Write(w), ~Drop(w)
          PROVE  FALSE
      <3>1. CASE FirstRun(w)  BY <3>1, <2>n, <2>t DEF FirstRun, TypeOK, Holds
      <3>2. CASE FirstRunWrite(w)
        BY <3>2, <2>n, <2>e, <1>1, FirstRunWriteFacts DEF Holds, Readable
      <3>3. CASE Stage(w)  BY <3>3, <2>n, <2>t DEF Stage, TypeOK, Holds
      <3>4. CASE Exchange(w)
        BY SMTT(60), <3>4, <2>n, <2>t, ExchangeFacts DEF Exchange, TypeOK, Holds
      <3>5. CASE Backup(w)
        <4>1. CASE exchange(w, "previous")
          BY SMTT(60), <4>1, <2>n, <2>t, ExchangeFacts DEF Holds
        <4>2. CASE dir["previous"] = None /\ dir' = [dir EXCEPT !["previous"] = dir[w], ![w] = None]
          BY <4>2, <2>n, <2>t DEF TypeOK, Holds
        <4> QED  BY <3>5, <4>1, <4>2, <2>n DEF Backup
      <3>6. CASE Cleanup(w)  BY <3>6, <2>n, <2>t DEF Cleanup, TypeOK, Holds
      <3>7. CASE Rollback(w)
        BY SMTT(60), <3>7, <2>n, <2>t, ExchangeFacts DEF Rollback, TypeOK, Holds
      <3>8. CASE Open(w) \/ OpenFails(w) \/ Save(w) \/ Lock(w) \/ Compare(w) \/ CheckRecovery(w)
                 \/ Displaced(w) \/ Reread(w) \/ RollbackLook(w)
        BY <3>8, <2>n
           DEF Open, OpenFails, Save, Lock, Compare, CheckRecovery, Displaced, Reread,
               RollbackLook, vars
      <3> QED  BY <2>1, <3>1, <3>2, <3>3, <3>4, <3>5, <3>6, <3>7, <3>8 DEF Write
    <2>2. ASSUME NEW w \in Writers, Drop(w)
          PROVE  at[w] = "drop" /\ at'[w] = "open" /\ Holds(w, e)
      BY <2>2, <2>n, <2>t DEF Drop, Return, Goto, TypeOK
    <2>3. ASSUME NEW w \in Writers, Crash(w)
          PROVE  FALSE
      BY <2>3, <2>n DEF Crash
    <2>4. ASSUME NEW x \in Edits, EditRename(x) \/ EditInPlace(x)
          PROVE  FALSE
      <3>1. Readable("target") /\ Readable("target")'
        BY <2>4, <1>1, Whole DEF EditRename, EditInPlace
      <3>2. dir'["target"].source = x /\ \A m \in Names : m # "target" => dir'[m] = dir[m]
        BY SMTT(60), <2>4, <3>1, <2>t, ReadableIsSnapshot
           DEF EditRename, EditInPlace, TypeOK, Snapshots
      <3>3. n = "target"  BY <2>n, <3>2
      <3>4. e = x  BY <2>4, <3>3 DEF EditRename, EditInPlace, Holds
      <3> QED  BY <3>1, <3>2, <3>4 DEF Holds, Readable
    <2> QED  BY <1>1, <2>1, <2>2, <2>3, <2>4 DEF Next
  <1>2. IInv /\ [Next]_vars => [A]_vars  BY <1>1
  <1> QED  BY <1>2, Inductive, PTL DEF Spec, OnlyRollbackLosesAnEdit
=============================================================================
