---------------------------- MODULE ArchiveProofs ----------------------------
(***************************************************************************)
(* Proofs about BackupTasks and Snapshots, for any number of tasks, runs,  *)
(* snapshots and connections: what was made stays where it was promised.   *)
(***************************************************************************)
EXTENDS MCServerDomains, RunProofs, TableProofs

-----------------------------------------------------------------------------
(* Backups: the files of a task, and the archives of its runs. *)

RunSteps == {"none", "lock", "dump", "send", "drop", "purge", "over"}

Locked == {"dump", "send", "drop", "purge"}

Kept == [by: Archives \cup {NoBackup}, age: 0 .. MaxAge]

\* A step that takes a complete archive away, and why it may.
Taken(a) == Somewhere(a) /\ ~Somewhere(a)' => Lapsed(a) \/ Replaced(a)

\* Where nothing is sent, replaced or removed, nothing is taken away.
LEMMA NoneTaken ==
    ASSUME name' = name, remote' = remote, \A f \in Archives : store'[f].by = store[f].by,
           BackupTypeOK
    PROVE  \A a \in Archives : Taken(a)
BY DEF Taken, Somewhere, BackupTypeOK

\* The daemon's commands leave the destination alone, and a task's files in order.
LEMMA CommandsStep ==
    ASSUME BackupInv,
           \/ \E t \in BackupIds :
                 \/ CreateTask(t) \/ WriteConfig(t) \/ WriteSchedule(t)
                 \/ DeleteTask(t) \/ RemoveSchedule(t) \/ RemoveConfig(t)
           \/ CommandsStop
    PROVE  BackupInv' /\ \A a \in Archives : Taken(a)
<1>1. UNCHANGED destination
  BY DEF CreateTask, WriteConfig, WriteSchedule, DeleteTask, RemoveSchedule, RemoveConfig, CommandsStop
<1>2. /\ config' \in [BackupIds -> FileStates] /\ cronFile' \in [BackupIds -> FileStates]
      /\ creating' \in [BackupIds -> {"none", "config", "schedule", "ended"}]
      /\ deleting' \in [BackupIds -> {"none", "unschedule", "unconfig"}]
      /\ raced' \subseteq BackupIds
  <2>1. CASE CommandsStop
    BY <2>1 DEF CommandsStop, BackupInv, BackupTypeOK, FileStates
  <2>2. ASSUME NEW t \in BackupIds, CreateTask(t) \/ WriteConfig(t) \/ WriteSchedule(t)
        PROVE  /\ config' \in [BackupIds -> FileStates] /\ cronFile' \in [BackupIds -> FileStates]
               /\ creating' \in [BackupIds -> {"none", "config", "schedule", "ended"}]
               /\ deleting' = deleting /\ raced' = raced
    BY <2>2 DEF CreateTask, WriteConfig, WriteSchedule, Creating, BackupInv, BackupTypeOK, FileStates
  <2>3. ASSUME NEW t \in BackupIds, DeleteTask(t) \/ RemoveSchedule(t) \/ RemoveConfig(t)
        PROVE  /\ config' \in [BackupIds -> FileStates] /\ cronFile' \in [BackupIds -> FileStates]
               /\ deleting' \in [BackupIds -> {"none", "unschedule", "unconfig"}]
               /\ creating' = creating /\ raced' \subseteq BackupIds
    BY <2>3 DEF DeleteTask, RemoveSchedule, RemoveConfig, Deleting, BackupInv, BackupTypeOK, FileStates
  <2>4. QED BY <2>1, <2>2, <2>3 DEF BackupInv, BackupTypeOK
<1>3. BackupTypeOK'
  BY <1>1, <1>2 DEF BackupInv, BackupTypeOK, destination, naming
<1>4. ASSUME NEW u \in BackupIds PROVE TaskInv(u)'
  <2>1. TaskInv(u) /\ BackupTypeOK
    BY DEF BackupInv
  <2>2. CASE CommandsStop
    BY <2>1, <2>2 DEF CommandsStop, TaskInv, BackupTypeOK
  <2>3. ASSUME NEW t \in BackupIds, CreateTask(t) \/ WriteConfig(t) \/ WriteSchedule(t)
        PROVE  TaskInv(u)'
    BY <2>1, <2>3 DEF CreateTask, WriteConfig, WriteSchedule, Creating, TaskInv, BackupTypeOK, FileStates
  <2>4. ASSUME NEW t \in BackupIds, DeleteTask(t) \/ RemoveSchedule(t) \/ RemoveConfig(t)
        PROVE  TaskInv(u)'
    BY <2>1, <2>4 DEF DeleteTask, RemoveSchedule, RemoveConfig, Deleting, TaskInv, BackupTypeOK, FileStates
  <2>5. QED BY <2>2, <2>3, <2>4
<1>5. ASSUME NEW a \in Archives PROVE ArchiveInv(a)'
  BY <1>1 DEF BackupInv, ArchiveInv, Belongs, destination, naming
<1>6. \A a \in Archives : Taken(a)
  BY <1>1, NoneTaken DEF BackupInv, destination, naming
<1>7. QED BY <1>3, <1>4, <1>5, <1>6 DEF BackupInv

\* What a step of the run of a does to its record and to the lock.
LEMMA RunOf ==
    ASSUME BackupInv, NEW a \in Archives, BackupRun(a)
    PROVE  /\ UNCHANGED files
           /\ run[a].step \in {"lock", "dump", "send", "drop", "purge"}
           /\ run[a].task \in BackupIds
           /\ run' = [run EXCEPT ![a] = run'[a]]
           /\ \/ run'[a] = [task |-> NoBackup, step |-> "over"]
              \/ /\ run'[a].task = run[a].task /\ run'[a] \in [task: BackupIds, step: RunSteps]
                 /\ run'[a].step \in Locked /\ busy' = a
                 /\ run[a].step = "lock" => busy = NoBackup /\ run'[a].step = "dump"
           /\ run'[a].step = "over" => busy' = IF busy = a THEN NoBackup ELSE busy
<1>1. UNCHANGED files
  BY DEF BackupRun, LockDestination, Dump, Transfer, DropLocal, Purge
<1>2. run[a].step \in {"lock", "dump", "send", "drop", "purge"} /\ run[a].task \in BackupIds
      /\ run[a] \in [task: BackupIds \cup {NoBackup}, step: RunSteps]
  BY DEF BackupRun, LockDestination, Dump, Transfer, DropLocal, Purge, BackupInv, ArchiveInv,
         BackupTypeOK, RunSteps
<1>3. run \in [Archives -> [task: BackupIds \cup {NoBackup}, step: RunSteps]]
      /\ (run[a].step \in Locked <=> busy = a)
  BY DEF BackupInv, BackupTypeOK, RunSteps, Locked
<1>4. CASE EndRun(a)
  BY <1>1, <1>2, <1>3, <1>4 DEF EndRun
<1>5. ASSUME NEW step \in Locked, Step(a, step)
      PROVE  /\ run' = [run EXCEPT ![a] = run'[a]] /\ run'[a].task = run[a].task
             /\ run'[a].step = step /\ run'[a] \in [task: BackupIds, step: RunSteps]
  BY <1>2, <1>3, <1>5 DEF Step, Locked, RunSteps
<1>6. CASE LockDestination(a)
  BY <1>1, <1>2, <1>3, <1>4, <1>5, <1>6 DEF LockDestination, Locked
<1>7. CASE Dump(a)
  BY <1>1, <1>2, <1>3, <1>4, <1>5, <1>7 DEF Dump, Locked
<1>8. CASE Transfer(a)
  BY <1>1, <1>2, <1>3, <1>4, <1>5, <1>8 DEF Transfer, Locked
<1>9. CASE DropLocal(a)
  BY <1>1, <1>2, <1>3, <1>4, <1>5, <1>9 DEF DropLocal, Locked
<1>10. CASE Purge(a)
  BY <1>4, <1>10 DEF Purge
<1>11. QED BY <1>6, <1>7, <1>8, <1>9, <1>10 DEF BackupRun

\* A run keeps to the lock of its destination, and to its files.
LEMMA RunLocks ==
    ASSUME BackupInv, NEW a \in Archives, BackupRun(a)
    PROVE  /\ run' \in [Archives -> [task: BackupIds \cup {NoBackup}, step: RunSteps]]
           /\ \A b \in Archives \ {a} : run'[b] = run[b]
           /\ busy' \in Archives \cup {NoBackup}
           /\ \A b \in Archives : run'[b].step \in Locked <=> busy' = b
           /\ UNCHANGED files /\ \A t \in BackupIds : TaskInv(t)'
<1>1. BackupTypeOK /\ \A b \in Archives : ArchiveInv(b)
  BY DEF BackupInv
<1>2. run' \in [Archives -> [task: BackupIds \cup {NoBackup}, step: RunSteps]]
      /\ \A b \in Archives \ {a} : run'[b] = run[b]
  <2>1. run'[a] \in [task: BackupIds \cup {NoBackup}, step: RunSteps]
    BY RunOf DEF RunSteps
  <2>2. run \in [Archives -> [task: BackupIds \cup {NoBackup}, step: RunSteps]]
    BY <1>1 DEF BackupTypeOK, RunSteps
  <2>3. run' = [run EXCEPT ![a] = run'[a]]
    BY RunOf
  <2>4. QED BY <2>1, <2>2, <2>3
<1>3. \A b \in Archives : run[b].step \in Locked <=> busy = b
  BY <1>1 DEF BackupTypeOK, Locked
<1>4. busy' \in Archives \cup {NoBackup} /\ NoBackup \notin Archives
  BY <1>1, RunOf, BackupAssumption DEF BackupTypeOK, Locked
<1>5. \A b \in Archives : run'[b].step \in Locked <=> busy' = b
  <2>1. CASE run'[a].step = "over"
    <3>1. busy' = IF busy = a THEN NoBackup ELSE busy
      BY <2>1, RunOf
    <3>2. QED BY <1>2, <1>3, <1>4, <2>1, <3>1 DEF Locked
  <2>2. CASE run'[a].step # "over"
    <3>1. run'[a].step \in Locked /\ busy' = a /\ (run[a].step = "lock" => busy = NoBackup)
          /\ run[a].step \in {"lock", "dump", "send", "drop", "purge"}
      BY <2>2, RunOf
    <3>2. \A b \in Archives \ {a} : busy # b
      BY <1>3, <1>4, <3>1 DEF Locked
    <3>3. QED BY <1>2, <1>3, <3>1, <3>2
  <2>3. QED BY <2>1, <2>2
<1>6. ASSUME NEW t \in BackupIds PROVE TaskInv(t)'
  <2>1. UNCHANGED files /\ TaskInv(t)
    BY RunOf DEF BackupInv
  <2>2. QED BY <2>1 DEF files, TaskInv
<1>7. QED BY <1>2, <1>4, <1>5, <1>6, RunOf

\* What a run does once it has its lock: it puts only its own archive, under its own
\* name, and takes only what is there.
OwnWork(a) ==
    /\ run[a].step \in Locked
    /\ UNCHANGED naming
    /\ temporary' \subseteq Archives
    /\ store' \in [Archives -> Kept]
    /\ remote' \in [Archives -> Archives \cup {NoBackup}]
    /\ \A f \in Archives : \/ store'[f].by \in {NoBackup, store[f].by}
                           \/ f = name[a] /\ store'[f].by = a
    /\ \A f \in Archives : remote'[f] = remote[f] \/ (f = name[a] /\ remote'[f] = a)
    /\ run'[a].step # "dump"
    /\ run'[a].step \in {"send", "drop"} => store'[name[a]].by = a
    /\ run'[a].step = "drop" => remote'[name[a]] = a

\* That keeps the invariant.
LEMMA LockedStep ==
    ASSUME BackupInv, NEW a \in Archives, BackupRun(a), OwnWork(a)
    PROVE  BackupInv'
<1> USE DEF OwnWork
<1>1. BackupTypeOK /\ \A b \in Archives : ArchiveInv(b)
  BY DEF BackupInv
<1>2. BackupTypeOK'
  BY <1>1, RunLocks DEF BackupTypeOK, files, naming, RunSteps, Locked, Kept
<1>3. maker[a] # NoBackup /\ name' = name /\ maker' = maker /\ stamped' = stamped
      /\ maker[a] = run[a].task
  BY <1>1, RunOf, BackupAssumption DEF ArchiveInv, Locked, naming
<1>4. ASSUME NEW b \in Archives PROVE ArchiveInv(b)'
  <2>1. Belongs(b, store[b].by) /\ Belongs(b, remote[b]) /\ ArchiveInv(b)
    BY <1>1 DEF ArchiveInv
  <2>2. Belongs(b, store[b].by)' /\ Belongs(b, remote[b])'
    BY <1>3, <2>1 DEF Belongs
  <2>3. CASE b = a
    <3>1. run'[a].step \notin {"none", "lock"}
          /\ (run'[a].step # "over" => run'[a].task = run[a].task /\ run'[a].task \in BackupIds)
      BY RunOf DEF Locked
    <3>2. QED BY <1>3, <2>1, <2>2, <2>3, <3>1 DEF ArchiveInv
  <2>4. CASE b # a
    <3>1. run'[b] = run[b] /\ run[b].step \notin Locked
      BY <1>1, <2>4, RunLocks DEF BackupTypeOK, Locked
    <3>2. QED BY <1>3, <2>1, <2>2, <3>1 DEF ArchiveInv, Locked
  <2>5. QED BY <2>3, <2>4
<1>5. QED BY <1>2, <1>4, RunLocks DEF BackupInv

\* Two archives of one name are of tasks of one name.
LEMMA OneName ==
    ASSUME BackupInv, NEW a \in Archives, NEW b \in Archives, name[a] = name[b],
           maker[a] # NoBackup, maker[b] # NoBackup
    PROVE  NameOf[maker[a]] = NameOf[maker[b]]
BY DEF BackupInv, ArchiveInv

\* An archive that is somewhere has a task.
LEMMA MadeByTask ==
    ASSUME BackupInv, NEW a \in Archives, Somewhere(a)
    PROVE  maker[a] \in BackupIds
<1>1. name[a] \in Archives /\ maker[a] \in BackupIds \cup {NoBackup} /\ a # NoBackup
  BY BackupAssumption DEF BackupInv, BackupTypeOK
<1>2. Belongs(name[a], store[name[a]].by) /\ Belongs(name[a], remote[name[a]])
  BY <1>1 DEF BackupInv, ArchiveInv
<1>3. QED BY <1>1, <1>2 DEF Belongs, Somewhere

\* The name under which a run takes the lock.
LEMMA LockStep ==
    ASSUME BackupInv, NEW a \in Archives, LockDestination(a)
    PROVE  BackupInv' /\ \A b \in Archives : Taken(b)
<1>1. /\ BackupRun(a) /\ BackupTypeOK /\ (\A b \in Archives : ArchiveInv(b))
      /\ run[a].step = "lock" /\ run[a].task \in BackupIds /\ maker[a] = NoBackup
      /\ UNCHANGED <<store, temporary, remote>>
  BY DEF BackupRun, LockDestination, BackupInv, ArchiveInv
<1> DEFINE t == run[a].task
<1>2. CASE busy # NoBackup
  <2>1. EndRun(a) /\ UNCHANGED naming
    BY <1>2 DEF LockDestination
  <2>2. run'[a].step = "over"
    BY <1>1, <2>1 DEF EndRun, BackupTypeOK
  <2>3. BackupTypeOK'
    BY <1>1, <2>1, RunLocks DEF BackupTypeOK, files, naming, RunSteps, Locked
  <2>4. ASSUME NEW b \in Archives PROVE ArchiveInv(b)'
    BY <1>1, <2>1, <2>2, RunLocks DEF ArchiveInv, Belongs, naming
  <2>5. \A b \in Archives : Taken(b)
    BY <1>1, <2>1, NoneTaken DEF naming
  <2>6. QED BY <1>1, <2>3, <2>4, <2>5, RunLocks DEF BackupInv
<1>3. CASE busy = NoBackup
  <2>1. Step(a, "dump") /\ maker' = [maker EXCEPT ![a] = t]
    BY <1>3 DEF LockDestination
  <2>2. PICK f \in NameNow(a, t) :
           name' = [name EXCEPT ![a] = f] /\ stamped' = stamped \cup {f}
    BY <1>3 DEF LockDestination
  <2> HIDE DEF t
  <2>3. f = a \/ (f \in stamped /\ f \in Archives /\ NameOf[maker[f]] = NameOf[t])
    <3>1. f = a \/ f \in {g \in stamped : NameOf[maker[g]] = NameOf[t]}
      BY <2>2 DEF NameNow
    <3>2. QED BY <1>1, <3>1 DEF BackupTypeOK
  <2> USE DEF t
  <2>4. f # a => maker[f] # NoBackup
    BY <1>1, <2>3 DEF ArchiveInv
  <2>5. /\ maker' \in [Archives -> BackupIds \cup {NoBackup}] /\ maker'[a] = t
        /\ \A b \in Archives \ {a} : maker'[b] = maker[b]
        /\ name' \in [Archives -> Archives] /\ name'[a] = f
        /\ \A b \in Archives \ {a} : name'[b] = name[b]
        /\ stamped' \subseteq Archives /\ f \in Archives /\ t # NoBackup
    BY <1>1, <2>1, <2>2, <2>3, BackupAssumption DEF BackupTypeOK
  <2>6. BackupTypeOK'
    BY <1>1, <2>5, RunLocks DEF BackupTypeOK, files, RunSteps, Locked
  <2>7. run'[a].step = "dump" /\ run'[a].task = t
    BY <1>1, <2>1 DEF Step, BackupTypeOK
  <2>8. maker'[f] # NoBackup /\ NameOf[maker'[f]] = NameOf[t]
    BY <2>3, <2>4, <2>5
  <2>9. ASSUME NEW g \in Archives, NEW c \in Archives \cup {NoBackup}, Belongs(g, c)
        PROVE  Belongs(g, c)'
    BY <1>1, <2>5, <2>9 DEF Belongs
  <2>10. ASSUME NEW b \in Archives PROVE ArchiveInv(b)'
    <3>1. store[b].by \in Archives \cup {NoBackup} /\ remote[b] \in Archives \cup {NoBackup}
      BY <1>1 DEF BackupTypeOK
    <3>2. Belongs(b, store[b].by)' /\ Belongs(b, remote[b])'
      BY <1>1, <2>9, <3>1 DEF ArchiveInv, Belongs
    <3>3. b \in stamped' => maker'[b] # NoBackup
      BY <1>1, <2>2, <2>5, <2>8 DEF ArchiveInv
    <3>4. CASE b = a
      BY <1>1, <2>5, <2>7, <2>8, <3>2, <3>3, <3>4 DEF ArchiveInv
    <3>5. CASE b # a
      <4>1. run'[b] = run[b] /\ ArchiveInv(b) /\ name[b] \in Archives
        BY <1>1, <3>5, RunLocks DEF BackupTypeOK
      <4>2. maker[b] # NoBackup => name[b] # a
        BY <1>1, <4>1 DEF ArchiveInv
      <4>3. QED BY <1>1, <2>5, <3>2, <3>3, <3>5, <4>1, <4>2 DEF ArchiveInv
    <3>6. QED BY <3>4, <3>5
  <2>11. ASSUME NEW b \in Archives PROVE Taken(b)
    <3>1. b = a => ~Somewhere(b)
      BY <1>1, MadeByTask, BackupAssumption
    <3>2. b # a => name'[b] = name[b]
      BY <2>5
    <3>3. QED BY <1>1, <3>1, <3>2 DEF Taken, Somewhere
  <2>12. QED BY <1>1, <2>6, <2>10, <2>11, RunLocks DEF BackupInv
<1>4. QED BY <1>2, <1>3

\* A complete dump takes the place of an archive of its name only.
LEMMA DumpStep ==
    ASSUME BackupInv, NEW a \in Archives, Dump(a)
    PROVE  BackupInv' /\ \A b \in Archives : Taken(b)
<1>1. /\ BackupRun(a) /\ BackupTypeOK /\ ArchiveInv(a) /\ run[a].step = "dump"
      /\ UNCHANGED naming /\ remote' = remote /\ name[a] \in Archives
      /\ run[a] \in [task: BackupIds \cup {NoBackup}, step: RunSteps] /\ name' = name
  BY DEF BackupRun, Dump, BackupInv, BackupTypeOK, RunSteps, naming
<1>2. [by |-> a, age |-> 0] \in Kept
  BY BackupAssumption DEF Kept
<1>3. CASE /\ store' = [store EXCEPT ![name[a]] = [by |-> a, age |-> 0]]
           /\ Step(a, IF run[a].task \in Remote THEN "send" ELSE "purge")
           /\ temporary' = temporary
  <2>1. store' \in [Archives -> Kept] /\ store'[name[a]].by = a
        /\ \A f \in Archives \ {name[a]} : store'[f] = store[f]
    BY <1>1, <1>2, <1>3 DEF BackupTypeOK, Kept
  <2>2. run'[a].step \in {"send", "purge"}
    BY <1>1, <1>3 DEF Step, BackupTypeOK
  <2>3. BackupInv'
    <3>1. OwnWork(a)
      BY <1>1, <1>3, <2>1, <2>2 DEF OwnWork, Locked, BackupTypeOK, Kept
    <3>2. QED BY <1>1, <3>1, LockedStep
  <2>4. ASSUME NEW b \in Archives, Somewhere(b), ~Somewhere(b)' PROVE Replaced(b)
    <3>1. b # a /\ name[b] = name[a]
      BY <1>1, <2>1, <2>4 DEF Somewhere, BackupTypeOK
    <3>2. maker[b] # NoBackup /\ maker[a] # NoBackup
      BY <1>1, <2>4, MadeByTask, RunOf, BackupAssumption DEF ArchiveInv
    <3>3. Somewhere(a)'
      BY <1>1, <2>1 DEF Somewhere
    <3>4. QED BY <3>1, <3>2, <3>3, OneName DEF Replaced
  <2>5. QED BY <2>3, <2>4 DEF Taken
<1>4. CASE store' = store /\ EndRun(a) /\ temporary' \in {temporary, temporary \cup {name[a]}}
  <2>1. run'[a].step = "over"
    BY <1>1, <1>4 DEF EndRun, BackupTypeOK
  <2>2. BackupInv'
    <3>1. OwnWork(a)
      BY <1>1, <1>4, <2>1 DEF OwnWork, Locked, BackupTypeOK, Kept
    <3>2. QED BY <1>1, <3>1, LockedStep
  <2>3. QED BY <1>1, <1>4, <2>2, NoneTaken
<1>5. QED BY <1>3, <1>4 DEF Dump

\* rsync takes the place of an archive of the same name there, which it replaced here.
LEMMA TransferStep ==
    ASSUME BackupInv, NEW a \in Archives, Transfer(a)
    PROVE  BackupInv' /\ \A b \in Archives : Taken(b)
<1>1. /\ BackupRun(a) /\ BackupTypeOK /\ ArchiveInv(a) /\ run[a].step = "send"
      /\ UNCHANGED naming /\ store' = store /\ temporary' = temporary /\ name[a] \in Archives
      /\ run[a] \in [task: BackupIds \cup {NoBackup}, step: RunSteps] /\ name' = name
      /\ store[name[a]].by = a
  BY DEF BackupRun, Transfer, BackupInv, BackupTypeOK, RunSteps, naming, ArchiveInv
<1>2. CASE /\ remote' = [remote EXCEPT ![name[a]] = store[name[a]].by]
           /\ Step(a, IF run[a].task \in RemoveLocal THEN "drop" ELSE "purge")
  <2>1. remote' \in [Archives -> Archives \cup {NoBackup}] /\ remote'[name[a]] = a
        /\ \A f \in Archives \ {name[a]} : remote'[f] = remote[f]
    BY <1>1, <1>2 DEF BackupTypeOK
  <2>2. run'[a].step \in {"drop", "purge"}
    BY <1>1, <1>2 DEF Step, BackupTypeOK
  <2>3. BackupInv'
    <3>1. OwnWork(a)
      BY <1>1, <2>1, <2>2 DEF OwnWork, Locked, BackupTypeOK, Kept
    <3>2. QED BY <1>1, <3>1, LockedStep
  <2>4. ASSUME NEW b \in Archives, Somewhere(b), ~Somewhere(b)' PROVE Replaced(b)
    <3>1. b # a /\ name[b] = name[a]
      BY <1>1, <2>1, <2>4 DEF Somewhere, BackupTypeOK
    <3>2. maker[b] # NoBackup /\ maker[a] # NoBackup
      BY <1>1, <2>4, MadeByTask, RunOf, BackupAssumption DEF ArchiveInv
    <3>3. Somewhere(a)'
      BY <1>1 DEF Somewhere
    <3>4. QED BY <3>1, <3>2, <3>3, OneName DEF Replaced
  <2>5. QED BY <2>3, <2>4 DEF Taken
<1>3. CASE remote' = remote /\ EndRun(a)
  <2>1. run'[a].step = "over"
    BY <1>1, <1>3 DEF EndRun, BackupTypeOK
  <2>2. BackupInv'
    <3>1. OwnWork(a)
      BY <1>1, <1>3, <2>1 DEF OwnWork, Locked, BackupTypeOK, Kept
    <3>2. QED BY <1>1, <3>1, LockedStep
  <2>3. QED BY <1>1, <1>3, <2>2, NoneTaken
<1>4. QED BY <1>2, <1>3 DEF Transfer

\* What is removed here is what was sent.
LEMMA DropStep ==
    ASSUME BackupInv, NEW a \in Archives, DropLocal(a)
    PROVE  BackupInv' /\ \A b \in Archives : Taken(b)
<1>1. /\ BackupRun(a) /\ BackupTypeOK /\ ArchiveInv(a) /\ run[a].step = "drop"
      /\ UNCHANGED naming /\ remote' = remote /\ temporary' = temporary /\ name[a] \in Archives
      /\ run[a] \in [task: BackupIds \cup {NoBackup}, step: RunSteps] /\ name' = name
      /\ store[name[a]].by = a /\ remote[name[a]] = a
  BY DEF BackupRun, DropLocal, BackupInv, BackupTypeOK, RunSteps, naming, ArchiveInv
<1>2. Missing \in Kept /\ Missing.by = NoBackup /\ NoBackup \notin Archives
  BY BackupAssumption DEF Missing, Kept
<1>3. CASE store' = [store EXCEPT ![name[a]] = Missing] /\ Step(a, "purge")
  <2>1. store' \in [Archives -> Kept] /\ store'[name[a]].by = NoBackup
        /\ \A f \in Archives \ {name[a]} : store'[f] = store[f]
    BY <1>1, <1>2, <1>3 DEF BackupTypeOK, Kept
  <2>2. run'[a].step = "purge"
    BY <1>1, <1>3 DEF Step, BackupTypeOK
  <2>3. BackupInv'
    <3>1. OwnWork(a)
      BY <1>1, <2>1, <2>2 DEF OwnWork, Locked, BackupTypeOK, Kept
    <3>2. QED BY <1>1, <3>1, LockedStep
  <2>4. \A b \in Archives : Taken(b)
    BY <1>1, <1>2, <2>1 DEF Taken, Somewhere, BackupTypeOK
  <2>5. QED BY <2>3, <2>4
<1>4. CASE store' = store /\ EndRun(a)
  <2>1. run'[a].step = "over"
    BY <1>1, <1>4 DEF EndRun, BackupTypeOK
  <2>2. BackupInv'
    <3>1. OwnWork(a)
      BY <1>1, <1>4, <2>1 DEF OwnWork, Locked, BackupTypeOK, Kept
    <3>2. QED BY <1>1, <3>1, LockedStep
  <2>3. QED BY <1>1, <1>4, <2>2, NoneTaken
<1>5. QED BY <1>3, <1>4 DEF DropLocal

\* purge removes what the task's prefix finds, once it is older than its retention.
LEMMA PurgeStep ==
    ASSUME BackupInv, NEW a \in Archives, Purge(a)
    PROVE  BackupInv' /\ \A b \in Archives : Taken(b)
<1>1. /\ BackupRun(a) /\ BackupTypeOK /\ ArchiveInv(a) /\ run[a].step = "purge"
      /\ UNCHANGED naming /\ remote' = remote /\ EndRun(a) /\ name' = name
      /\ temporary' \subseteq Archives
  BY DEF BackupRun, Purge, BackupInv, BackupTypeOK, naming
<1>2. Missing \in Kept /\ Missing.by = NoBackup /\ NoBackup \notin Archives
  BY BackupAssumption DEF Missing, Kept
<1>3. run'[a].step = "over" /\ run[a].task \in BackupIds
  BY <1>1, RunOf DEF EndRun, BackupTypeOK
<1>4. PICK gone \in SUBSET {f \in Archives : Purgeable(f, run[a].task)} :
         store' = [f \in Archives |-> IF f \in gone THEN Missing ELSE store[f]]
  BY DEF Purge
<1>5. store' \in [Archives -> Kept]
      /\ \A f \in Archives : store'[f] = store[f] \/ store'[f].by = NoBackup
  BY <1>1, <1>2, <1>4 DEF BackupTypeOK, Kept
<1>6. BackupInv'
  <2>1. OwnWork(a)
    BY <1>1, <1>2, <1>3, <1>5 DEF OwnWork, Locked, BackupTypeOK, Kept
  <2>2. QED BY <1>1, <2>1, LockedStep
<1>7. ASSUME NEW b \in Archives, Somewhere(b), ~Somewhere(b)' PROVE Lapsed(b)
  <2>1. name[b] \in Archives /\ store'[name[b]] # store[name[b]]
    BY <1>1, <1>7 DEF Somewhere, BackupTypeOK
  <2>2. Purgeable(name[b], run[a].task)
    BY <1>4, <2>1
  <2>3. /\ maker[name[b]] \in Covers[run[a].task] /\ KeepFor[run[a].task] > 0
        /\ store[name[b]].age > KeepFor[run[a].task]
    BY <2>2 DEF Purgeable, Named
  <2>4. KeepFor[run[a].task] \in Nat /\ store[name[b]].age \in Nat
    BY <1>1, <1>3, <2>1, BackupAssumption DEF BackupTypeOK
  <2>5. maker[b] \in BackupIds /\ NoBackup \notin BackupIds
    BY <1>7, MadeByTask, BackupAssumption
  <2>6. maker[name[b]] \in BackupIds /\ NameOf[maker[name[b]]] = NameOf[maker[b]]
    BY <1>1, <2>1, <2>5 DEF BackupInv, ArchiveInv, BackupTypeOK
  <2>7. maker[b] \in Covers[run[a].task]
    BY <1>3, <2>3, <2>5, <2>6, BackupAssumption
  <2>8. QED BY <1>3, <2>3, <2>4, <2>7 DEF Lapsed
<1>8. QED BY <1>6, <1>7 DEF Taken

\* cron, or the daemon, starts a run.
LEMMA StartRunStep ==
    ASSUME BackupInv, NEW a \in Archives, NEW t \in BackupIds, StartRun(a, t)
    PROVE  BackupInv' /\ \A b \in Archives : Taken(b)
<1>1. UNCHANGED <<files, store, temporary, remote, naming, busy>> /\ run[a].step = "none"
      /\ BackupTypeOK /\ ArchiveInv(a)
  BY DEF StartRun, BackupInv
<1>2. PICK r \in {[task |-> t, step |-> "lock"], [task |-> NoBackup, step |-> "over"]} :
         run' = [run EXCEPT ![a] = r]
  BY DEF StartRun
<1>3. r \in [task: BackupIds \cup {NoBackup}, step: RunSteps] /\ r.step \notin Locked
      /\ r.step # "drop" /\ (r.step = "lock" => r.task \in BackupIds) /\ r.step \in {"lock", "over"}
  BY <1>2 DEF RunSteps, Locked
<1>4. run' \in [Archives -> [task: BackupIds \cup {NoBackup}, step: RunSteps]]
      /\ run'[a] = r /\ \A b \in Archives \ {a} : run'[b] = run[b]
  BY <1>1, <1>2, <1>3 DEF BackupTypeOK, RunSteps
<1>5. \A b \in Archives : run'[b].step \in Locked <=> busy' = b
  BY <1>1, <1>3, <1>4 DEF BackupTypeOK, Locked
<1>6. BackupTypeOK'
  BY <1>1, <1>4, <1>5 DEF BackupTypeOK, files, naming, RunSteps, Locked
<1>7. ASSUME NEW b \in Archives PROVE ArchiveInv(b)'
  <2>1. ArchiveInv(b)
    BY DEF BackupInv
  <2>2. QED BY <1>1, <1>3, <1>4, <2>1 DEF ArchiveInv, Belongs, naming, Locked
<1>8. ASSUME NEW u \in BackupIds PROVE TaskInv(u)'
  <2>1. TaskInv(u)
    BY DEF BackupInv
  <2>2. QED BY <1>1, <2>1 DEF files, TaskInv
<1>9. \A b \in Archives : Taken(b)
  BY <1>1, NoneTaken DEF naming
<1>10. QED BY <1>6, <1>7, <1>8, <1>9 DEF BackupInv

\* Time passes: the second ends, and perhaps the day.
LEMMA ClockStep ==
    ASSUME BackupInv, Second \/ Day
    PROVE  BackupInv' /\ \A a \in Archives : Taken(a)
<1>1. UNCHANGED <<files, temporary, remote, maker, name, run, busy>> /\ stamped' = {} /\ BackupTypeOK
  BY DEF Second, Day, BackupInv
<1>2. ASSUME NEW f \in Archives PROVE store'[f] \in Kept /\ store'[f].by = store[f].by
  <2>1. store[f] \in Kept
    BY <1>1 DEF BackupTypeOK, Kept
  <2>2. \/ store'[f] = store[f]
        \/ store[f].age < MaxAge /\ store'[f] = [store[f] EXCEPT !.age = @ + 1]
    BY DEF Second, Day
  <2>3. QED BY <2>1, <2>2, BackupAssumption DEF Kept
<1>3. store' \in [Archives -> Kept]
  <2>1. CASE Second
    BY <1>1, <2>1 DEF Second, BackupTypeOK, Kept
  <2>2. CASE Day
    BY <1>2, <2>2 DEF Day
  <2>3. QED BY <2>1, <2>2
<1>4. BackupTypeOK'
  BY <1>1, <1>3 DEF BackupTypeOK, files, Kept
<1>5. ASSUME NEW a \in Archives PROVE ArchiveInv(a)'
  <2>1. ArchiveInv(a) /\ name[a] \in Archives
    BY <1>1 DEF BackupInv, BackupTypeOK
  <2>2. QED BY <1>1, <1>2, <2>1 DEF ArchiveInv, Belongs
<1>6. ASSUME NEW u \in BackupIds PROVE TaskInv(u)'
  <2>1. TaskInv(u)
    BY DEF BackupInv
  <2>2. QED BY <1>1, <2>1 DEF files, TaskInv
<1>7. \A a \in Archives : Taken(a)
  BY <1>1, <1>2, NoneTaken
<1>8. QED BY <1>4, <1>5, <1>6, <1>7 DEF BackupInv

\* The first state: the tasks there are have both files, and no run has begun.
LEMMA InitBackup == BackupInit => BackupInv
<1> SUFFICES ASSUME BackupInit PROVE BackupInv
  OBVIOUS
<1>1. Missing \in Kept /\ Missing.by = NoBackup
      /\ NoRun \in [task: BackupIds \cup {NoBackup}, step: RunSteps] /\ NoRun.step = "none"
  BY BackupAssumption DEF Missing, Kept, NoRun, RunSteps
<1>2. BackupTypeOK
  BY <1>1, BackupAssumption DEF BackupInit, BackupTypeOK, FileStates, RunSteps, Kept
<1>3. ASSUME NEW t \in BackupIds PROVE TaskInv(t)
  BY DEF BackupInit, TaskInv
<1>4. ASSUME NEW a \in Archives PROVE ArchiveInv(a)
  BY <1>1 DEF BackupInit, ArchiveInv, Belongs
<1>5. QED BY <1>2, <1>3, <1>4 DEF BackupInv

\* Every step preserves the invariant and takes no archive it may not.
LEMMA NextBackup ==
    BackupInv /\ [BackupNext]_backupVars => BackupInv' /\ \A a \in Archives : Taken(a)
<1> SUFFICES ASSUME BackupInv, [BackupNext]_backupVars
             PROVE  BackupInv' /\ \A a \in Archives : Taken(a)
  OBVIOUS
<1>1. CASE \/ \E t \in BackupIds :
                 \/ CreateTask(t) \/ WriteConfig(t) \/ WriteSchedule(t)
                 \/ DeleteTask(t) \/ RemoveSchedule(t) \/ RemoveConfig(t)
           \/ CommandsStop
  BY <1>1, CommandsStep
<1>2. ASSUME NEW a \in Archives, NEW t \in BackupIds, StartRun(a, t)
      PROVE  BackupInv' /\ \A b \in Archives : Taken(b)
  BY <1>2, StartRunStep
<1>3. ASSUME NEW a \in Archives, BackupRun(a)
      PROVE  BackupInv' /\ \A b \in Archives : Taken(b)
  BY <1>3, LockStep, DumpStep, TransferStep, DropStep, PurgeStep DEF BackupRun
<1>4. CASE Second \/ Day
  BY <1>4, ClockStep
<1>5. CASE UNCHANGED backupVars
  <2>1. BackupInv'
    BY <1>5 DEF backupVars, BackupInv, BackupTypeOK, TaskInv, ArchiveInv, Belongs
  <2>2. QED BY <1>5, <2>1, NoneTaken DEF backupVars, BackupInv
<1>6. QED BY <1>1, <1>2, <1>3, <1>4, <1>5 DEF BackupNext

\* The inductive invariant of the backups: every order of commands, runs and failures.
THEOREM BackupInvariance == BackupSpec => []BackupInv
<1>1. BackupInv /\ [BackupNext]_backupVars => BackupInv'
  BY NextBackup
<1>2. QED BY <1>1, InitBackup, PTL DEF BackupSpec

\* Tasks, archives and runs are well formed: a run past flock holds the destination alone.
THEOREM BackupTypeCorrect == BackupSpec => []BackupTypeOK
<1>1. BackupInv => BackupTypeOK
  BY DEF BackupInv
<1>2. QED BY <1>1, BackupInvariance, PTL

\* createBackupTask and deleteBackupTask never leave a schedule without its parameters,
\* whichever write or removal fails and wherever the daemon stops.
THEOREM SchedulesHaveConfigs == BackupSpec => []ScheduledHasConfig
<1>1. BackupInv => ScheduledHasConfig
  BY DEF BackupInv, TaskInv, ScheduledHasConfig
<1>2. QED BY <1>1, BackupInvariance, PTL

\* No failed transfer, no incomplete dump and no run of another task takes a complete
\* archive from both machines, short of the retention of a task whose name begins as its
\* own, or of a complete archive of the same name and second.
THEOREM ArchivesAreKept == BackupSpec => ArchiveKept
<1>1. BackupInv /\ [BackupNext]_backupVars =>
         [\A a \in Archives :
             Somewhere(a) /\ ~Somewhere(a)' => Lapsed(a) \/ Replaced(a)]_backupVars
  BY NextBackup DEF Taken
<1>2. QED BY <1>1, BackupInvariance, PTL DEF BackupSpec, ArchiveKept

-----------------------------------------------------------------------------
(* Snapshots: what an answer promised, and how it is labelled. *)

SnapTask == [command: SnapCommands,
             step: {"idle", "find", "link", "label", "undo", "read", "write", "remove", "unlabel"},
             id: SnapIds \cup {NoSnap}, named: BOOLEAN, read: Labels \cup {"none"}]

\* A task that rests is well formed.
LEMMA RestingTask == NoSnapTask \in SnapTask /\ NoSnapTask.step = "idle" /\ NoSnapTask.id = NoSnap
BY DEF NoSnapTask, SnapTask, SnapCommands

\* A step of the command of s touches the snapshot it is about only.  Nothing is left to
\* show but what becomes of that snapshot, for s and for whoever works on it as well.
LEMMA LocalStep ==
    ASSUME SnapInv, NEW s \in SnapSlots, ~AtStep(s, "idle"),
           NEW id \in SnapIds, id = tasks[s].id,
           SnapTypeOK', mixed' = mixed, past' = past,
           \A t \in SnapSlots \ {s} : tasks'[t] = tasks[t],
           tasks'[s] = NoSnapTask \/
              (tasks'[s].id = id /\ tasks'[s].command = tasks[s].command),
           \A j \in SnapIds \ {id} :
              /\ j \in present' <=> j \in present
              /\ j \in promised' <=> j \in promised
              /\ meta'[j] = meta[j] /\ origin'[j] = origin[j],
           excused \subseteq excused', excused' \subseteq excused \cup (mixed \cap {id}),
           CommandInv(s)',
           id \in promised' => /\ id \in present' \cup excused'
                               /\ id \in mixed \/ Shown(id)' = origin'[id],
           \A t \in SnapSlots \ {s} :
              tasks[t].id = id /\ tasks[t].step \in {"label", "undo"} =>
                 /\ id \in excused' \/ id \in present' \ promised'
                 /\ tasks'[s].step \in {"label", "undo"} => id \in excused',
           id \notin past \cup mixed => "imported" \notin {meta'[id], origin'[id]}
    PROVE  SnapInv'
<1>1. /\ SnapTypeOK /\ PromisedKept /\ excused \subseteq mixed
      /\ \A t \in SnapSlots : CommandInv(t)
      /\ \A t \in SnapSlots : t # s => OverlapInv(s, t) /\ OverlapInv(t, s)
  BY DEF SnapInv
<1>2. PromisedKept'
  <2>1. ASSUME NEW j \in promised'
        PROVE  j \in present' \cup excused' /\ (j \in mixed' \/ Shown(j)' = origin'[j])
    <3>1. CASE j = id
      BY <2>1, <3>1
    <3>2. CASE j # id
      BY <1>1, <2>1, <3>2 DEF PromisedKept, Shown, SnapTypeOK
    <3>3. QED BY <3>1, <3>2
  <2>2. QED BY <2>1 DEF PromisedKept
<1>3. ASSUME NEW t \in SnapSlots \ {s}, tasks[t].step # "idle" PROVE CommandInv(t)'
  <2>1. CommandInv(t) /\ tasks'[t] = tasks[t] /\ tasks[t].id \in SnapIds
    BY <1>1, <1>3 DEF CommandInv, AtStep
  <2>2. CASE tasks[t].id # id
    BY <1>1, <2>1, <2>2 DEF CommandInv, AtStep, Shown
  <2>3. CASE tasks[t].id = id
    <3>1. id \in mixed
      BY <1>1, <1>3, <2>3 DEF OverlapInv, AtStep
    <3>2. QED BY <1>3, <2>1, <2>3, <3>1 DEF CommandInv, AtStep
  <2>4. QED BY <2>2, <2>3
<1>4. ASSUME NEW t \in SnapSlots \ {s}, tasks[t].step = "idle" PROVE CommandInv(t)'
  BY <1>4 DEF CommandInv, AtStep
<1>5. ASSUME NEW t \in SnapSlots, NEW u \in SnapSlots, t # u PROVE OverlapInv(t, u)'
  <2>1. CASE t # s /\ u # s
    <3>1. OverlapInv(t, u)
      BY <1>5 DEF SnapInv
    <3>2. QED BY <2>1, <3>1 DEF OverlapInv, AtStep
  <2>2. ASSUME NEW v \in SnapSlots \ {s} PROVE OverlapInv(s, v)' /\ OverlapInv(v, s)'
    <3>1. OverlapInv(s, v) /\ OverlapInv(v, s) /\ tasks'[v] = tasks[v]
      BY <1>1
    <3>2. CASE tasks'[s] = NoSnapTask
      BY <3>2, RestingTask DEF OverlapInv, AtStep
    <3>3. CASE tasks'[s].id = id /\ tasks'[s].command = tasks[s].command
      BY <1>1, <3>1, <3>3 DEF OverlapInv, AtStep
    <3>4. QED BY <3>2, <3>3
  <2>3. QED BY <1>5, <2>1, <2>2
<1>6. \A j \in SnapIds \ (past' \cup mixed') : "imported" \notin {meta'[j], origin'[j]}
  BY DEF SnapInv
<1>7. excused' \subseteq mixed'
  BY <1>1
<1>8. \A t \in SnapSlots : CommandInv(t)'
  BY <1>3, <1>4
<1>9. QED BY <1>2, <1>5, <1>6, <1>7, <1>8 DEF SnapInv

\* How a command moves on, and how it ends.
LEMMA Moves ==
    ASSUME SnapInv, NEW s \in SnapSlots, ~AtStep(s, "idle")
    PROVE  /\ tasks[s].id \in SnapIds /\ tasks[s] \in SnapTask
           /\ FinishSnap(s) =>
                 /\ tasks' \in [SnapSlots -> SnapTask] /\ tasks'[s] = NoSnapTask
                 /\ \A t \in SnapSlots \ {s} : tasks'[t] = tasks[t]
           /\ \A step \in {"link", "label", "undo", "read", "unlabel"} : Proceed(s, step) =>
                 /\ tasks' \in [SnapSlots -> SnapTask]
                 /\ tasks'[s].step = step /\ tasks'[s].id = tasks[s].id
                 /\ tasks'[s].command = tasks[s].command
                 /\ tasks'[s].named = tasks[s].named
                 /\ \A t \in SnapSlots \ {s} : tasks'[t] = tasks[t]
<1>1. tasks \in [SnapSlots -> SnapTask]
  BY DEF SnapInv, SnapTypeOK, SnapTask
<1>2. tasks[s].id \in SnapIds
  BY DEF SnapInv, CommandInv
<1>3. QED BY <1>1, <1>2, RestingTask DEF FinishSnap, Proceed, SnapTask

\* The connections that rest, after a step of one that does not.
LEMMA Resting ==
    ASSUME SnapInv, NEW s \in SnapSlots,
           \A t \in SnapSlots \ {s} : tasks'[t] = tasks[t],
           tasks'[s] = NoSnapTask \/ tasks'[s].step # "idle"
    PROVE  \A t \in SnapSlots : tasks'[t].step = "idle" => tasks'[t] = NoSnapTask
BY DEF SnapInv, SnapTypeOK

\* Steps that read the directory only: FindFree, ReadLabel, and the ends of the others.
LEMMA ReadingStep ==
    ASSUME SnapInv, NEW s \in SnapSlots, FindFree(s) \/ ReadLabel(s) \/ WriteLabel(s) \/ RemoveLabel(s)
    PROVE  SnapInv'
<1>1. /\ ~AtStep(s, "idle") /\ mixed' = mixed /\ past' = past /\ present' = present
      /\ origin' = origin /\ promised' = promised /\ excused' = excused
  BY DEF FindFree, ReadLabel, WriteLabel, RemoveLabel, AtStep
<1>0. PICK id \in SnapIds : id = tasks[s].id
  BY <1>1, Moves
<1>2. /\ SnapTypeOK /\ PromisedKept /\ CommandInv(s) /\ excused \subseteq mixed
      /\ tasks \in [SnapSlots -> SnapTask] /\ tasks[s] \in SnapTask
  BY <1>1, Moves DEF SnapInv, SnapTypeOK, SnapTask
<1>3. /\ tasks' \in [SnapSlots -> SnapTask]
      /\ \A t \in SnapSlots \ {s} : tasks'[t] = tasks[t]
      /\ \/ tasks'[s] = NoSnapTask
         \/ /\ tasks'[s].id = id /\ tasks'[s].command = tasks[s].command
            /\ tasks'[s].named = tasks[s].named
            /\ tasks'[s].step \in {"link", "write"} /\ meta' = meta
            /\ tasks'[s].step = "link" => tasks[s].step = "find"
            /\ tasks'[s].step = "write" => /\ tasks[s].step = "read"
                                           /\ tasks'[s].read = Shown(id)
  <2>1. CASE FindFree(s)
    BY <1>0, <1>1, <2>1, Moves DEF FindFree, AtStep
  <2>2. CASE ReadLabel(s) /\ ~FinishSnap(s)
    <3>1. tasks' = [tasks EXCEPT ![s].step = "write", ![s].read = Shown(id)]
      BY <1>0, <2>2 DEF ReadLabel, Shown
    <3>2. Shown(id) \in Labels
      BY <1>0, <1>2 DEF Shown, SnapTypeOK, Labels
    <3>3. tasks[s].step = "read" /\ meta' = meta
      BY <2>2 DEF ReadLabel, AtStep
    <3>4. QED BY <1>0, <1>2, <3>1, <3>2, <3>3 DEF SnapTask
  <2>3. CASE FinishSnap(s)
    BY <1>1, <2>3, Moves
  <2>4. QED BY <2>1, <2>2, <2>3 DEF WriteLabel, RemoveLabel
<1>4. /\ meta' \in [SnapIds -> Labels \cup {"none"}]
      /\ \A j \in SnapIds \ {id} : meta'[j] = meta[j]
      /\ id \notin mixed => \/ meta'[id] = meta[id]
                            \/ id \notin promised /\ meta'[id] = "none"
                            \/ meta'[id] = Shown(id)
  <2>1. CASE FindFree(s) \/ ReadLabel(s)
    BY <1>0, <1>2, <2>1 DEF FindFree, ReadLabel, SnapTypeOK
  <2>2. CASE WriteLabel(s)
    BY <1>0, <1>2, <2>2 DEF WriteLabel, SnapTypeOK, SnapTask, CommandInv, AtStep
  <2>3. CASE RemoveLabel(s)
    <3>1. tasks[s].command = "delete"
      BY <1>0, <1>1, <1>2, <2>3 DEF RemoveLabel, CommandInv, AtStep
    <3>2. id \notin mixed => id \notin promised
      BY <1>0, <1>1, <1>2, <3>1 DEF CommandInv
    <3>3. QED BY <1>0, <1>2, <2>3, <3>2 DEF RemoveLabel, SnapTypeOK
  <2>4. QED BY <2>1, <2>2, <2>3
<1>5. SnapTypeOK'
  <2>1. \A t \in SnapSlots : tasks'[t].step = "idle" => tasks'[t] = NoSnapTask
    BY <1>3, Resting
  <2>2. QED BY <1>0, <1>1, <1>2, <1>3, <1>4, <2>1 DEF SnapTypeOK, SnapTask
<1>6. id \notin mixed /\ meta'[id] = "imported" => meta[id] = "imported"
  BY <1>4 DEF Shown
<1>7. id \notin mixed /\ id \in promised => Shown(id)' = Shown(id)
  BY <1>0, <1>2, <1>4 DEF Shown, SnapTypeOK, Labels
<1>8. CommandInv(s)'
  <2>1. CASE tasks'[s] = NoSnapTask
    BY <2>1, RestingTask DEF CommandInv, AtStep
  <2>2. CASE tasks'[s] # NoSnapTask
    BY <1>0, <1>1, <1>2, <1>3, <2>2 DEF CommandInv, AtStep, Shown
  <2>3. QED BY <2>1, <2>2
<1>9. id \in promised' => /\ id \in present' \cup excused'
                          /\ id \in mixed \/ Shown(id)' = origin'[id]
  <2>1. id \in promised => id \in present \cup excused /\ (id \in mixed \/ Shown(id) = origin[id])
    BY <1>0, <1>2 DEF PromisedKept
  <2>2. QED BY <1>1, <1>7, <2>1
<1>10. \A t \in SnapSlots \ {s} :
          tasks[t].id = id /\ tasks[t].step \in {"label", "undo"} =>
             /\ id \in excused' \/ id \in present' \ promised'
             /\ tasks'[s].step \in {"label", "undo"} => id \in excused'
  <2>1. tasks'[s].step \notin {"label", "undo"}
    BY <1>3, RestingTask
  <2>2. \A t \in SnapSlots : CommandInv(t)
    BY DEF SnapInv
  <2>3. \A t \in SnapSlots \ {s} : tasks[t].id = id /\ tasks[t].step \in {"label", "undo"} =>
           id \in excused \/ id \in present \ promised
    BY <2>2 DEF CommandInv, AtStep
  <2>4. QED BY <1>1, <2>1, <2>3
<1>11. id \notin past \cup mixed => "imported" \notin {meta'[id], origin'[id]}
  BY <1>0, <1>1, <1>2, <1>6 DEF SnapInv
<1>12. tasks'[s] = NoSnapTask \/ (tasks'[s].id = id /\ tasks'[s].command = tasks[s].command)
  BY <1>3
<1>13. QED BY <1>0, <1>1, <1>2, <1>3, <1>4, <1>5, <1>8, <1>9, <1>10, <1>11, <1>12, LocalStep

\* What an answer adds: the promise, excused where another command could still undo it.
LEMMA PromiseOf ==
    ASSUME SnapInv, NEW s \in SnapSlots, NEW id \in SnapIds, id = tasks[s].id, ~AtStep(s, "idle"),
           Promise(s, id)
    PROVE  /\ promised' = promised \cup {id}
           /\ excused \subseteq excused' /\ excused' \subseteq excused \cup (mixed \cap {id})
           /\ \A t \in SnapSlots \ {s} :
                 tasks[t].id = id /\ tasks[t].step \in {"label", "undo"} => id \in excused'
<1>1. ASSUME Undoable(s, id) PROVE id \in mixed
  <2>1. PICK t \in SnapSlots \ {s} : tasks[t].id = id /\ tasks[t].step \in {"label", "undo"}
    BY <1>1 DEF Undoable
  <2>2. OverlapInv(s, t)
    BY DEF SnapInv
  <2>3. QED BY <2>1, <2>2 DEF OverlapInv, AtStep
<1>2. QED BY <1>1 DEF Promise, Undoable

\* AfterCreate: a creation that was given a name goes on to rename.
LEMMA AfterCreateMoves ==
    ASSUME SnapInv, NEW s \in SnapSlots, ~AtStep(s, "idle"), AfterCreate(s)
    PROVE  /\ tasks' \in [SnapSlots -> SnapTask]
           /\ \A t \in SnapSlots \ {s} : tasks'[t] = tasks[t]
           /\ \/ tasks'[s] = NoSnapTask
              \/ /\ tasks'[s].id = tasks[s].id /\ tasks'[s].command = tasks[s].command
                 /\ tasks'[s].step = "read" /\ tasks[s].named /\ tasks'[s].named
BY Moves DEF AfterCreate

\* writeImmutable.
LEMMA LinkStep == ASSUME SnapInv, NEW s \in SnapSlots, LinkFile(s) PROVE SnapInv'
<1>1. ~AtStep(s, "idle") /\ tasks[s].step = "link" /\ meta' = meta /\ mixed' = mixed /\ past' = past
  BY DEF LinkFile, AtStep
<1>0. PICK id \in SnapIds : id = tasks[s].id
  BY <1>1, Moves
<1>2. /\ SnapTypeOK /\ PromisedKept /\ CommandInv(s) /\ excused \subseteq mixed
      /\ \A t \in SnapSlots : CommandInv(t)
  BY DEF SnapInv
<1>3. tasks[s].command \in {"create", "import"}
  BY <1>1, <1>2 DEF CommandInv
<1>4. CASE id \notin present /\ present' = present \cup {id} /\ Proceed(s, "label")
           /\ promised' = promised /\ excused' = excused
           /\ origin' = [origin EXCEPT ![id] = Label(tasks[s].command)]
  <2>1. /\ tasks' \in [SnapSlots -> SnapTask] /\ tasks'[s].step = "label" /\ tasks'[s].id = id
        /\ tasks'[s].command = tasks[s].command /\ tasks'[s].named = tasks[s].named
        /\ \A t \in SnapSlots \ {s} : tasks'[t] = tasks[t]
    BY <1>0, <1>1, <1>4, Moves
  <2>2. origin' \in [SnapIds -> Labels \cup {"none"}] /\ origin'[id] = Label(tasks[s].command)
        /\ origin'[id] # "none" /\ \A j \in SnapIds \ {id} : origin'[j] = origin[j]
    BY <1>2, <1>4 DEF SnapTypeOK, Label, Labels
  <2>3. SnapTypeOK'
    <3>1. \A t \in SnapSlots : tasks'[t].step = "idle" => tasks'[t] = NoSnapTask
      BY <2>1, Resting
    <3>2. QED BY <1>1, <1>2, <1>4, <2>1, <2>2, <3>1 DEF SnapTypeOK, SnapTask
  <2>4. id \in promised => id \in excused
    BY <1>2, <1>4 DEF PromisedKept
  <2>5. CommandInv(s)'
    BY <1>0, <1>1, <1>2, <1>3, <1>4, <2>1, <2>2, <2>4 DEF CommandInv, AtStep, Label
  <2>6. \A t \in SnapSlots \ {s} : tasks[t].id = id /\ tasks[t].step \in {"label", "undo"} => id \in excused
    BY <1>2, <1>4 DEF CommandInv, AtStep
  <2>7. id \notin past \cup mixed => "imported" \notin {meta'[id], origin'[id]}
    BY <1>0, <1>1, <1>2, <1>3, <2>2 DEF SnapInv, CommandInv, Label
  <2>8. id \in promised' => /\ id \in present' \cup excused'
                            /\ id \in mixed \/ Shown(id)' = origin'[id]
    BY <1>2, <1>4, <2>4
  <2>9. QED BY <1>0, <1>1, <1>4, <2>1, <2>2, <2>3, <2>5, <2>6, <2>7, <2>8, LocalStep
<1>5. CASE id \in present /\ tasks[s].command = "create" /\ AfterCreate(s) /\ Promise(s, id)
           /\ present' = present /\ origin' = origin
  <2>1. /\ tasks' \in [SnapSlots -> SnapTask] /\ \A t \in SnapSlots \ {s} : tasks'[t] = tasks[t]
        /\ \/ tasks'[s] = NoSnapTask
           \/ tasks'[s].id = id /\ tasks'[s].command = "create" /\ tasks'[s].step = "read"
    BY <1>0, <1>1, <1>5, AfterCreateMoves
  <2>2. /\ promised' = promised \cup {id}
        /\ excused \subseteq excused' /\ excused' \subseteq excused \cup (mixed \cap {id})
        /\ \A t \in SnapSlots \ {s} :
              tasks[t].id = id /\ tasks[t].step \in {"label", "undo"} => id \in excused'
    BY <1>0, <1>1, <1>5, PromiseOf
  <2>3. SnapTypeOK'
    <3>1. \A t \in SnapSlots : tasks'[t].step = "idle" => tasks'[t] = NoSnapTask
      BY <2>1, Resting
    <3>2. QED BY <1>1, <1>2, <1>5, <2>1, <2>2, <3>1 DEF SnapTypeOK, SnapTask
  <2>4. id \notin mixed => meta[id] # "imported" /\ origin[id] = "created"
    BY <1>0, <1>1, <1>2, <1>5 DEF CommandInv, SnapTypeOK, Labels
  <2>5. id \notin mixed => Shown(id)' = origin'[id]
    BY <1>1, <1>2, <1>5, <2>4 DEF Shown, SnapTypeOK, Labels
  <2>6. CommandInv(s)'
    <3>1. CASE tasks'[s] = NoSnapTask
      BY <3>1, RestingTask DEF CommandInv, AtStep
    <3>2. CASE tasks'[s] # NoSnapTask
      BY <1>0, <1>1, <1>2, <1>5, <2>1, <2>2, <2>4, <3>2 DEF CommandInv, AtStep
    <3>3. QED BY <3>1, <3>2
  <2>7. id \notin past \cup mixed => "imported" \notin {meta'[id], origin'[id]}
    BY <1>1, <1>5, <2>4
  <2>8. QED BY <1>0, <1>1, <1>5, <2>1, <2>2, <2>3, <2>5, <2>6, <2>7, LocalStep
<1>6. CASE FinishSnap(s) /\ present' = present /\ origin' = origin /\ promised' = promised
           /\ excused' = excused
  <2>1. /\ tasks' \in [SnapSlots -> SnapTask] /\ tasks'[s] = NoSnapTask
        /\ \A t \in SnapSlots \ {s} : tasks'[t] = tasks[t]
    BY <1>1, <1>6, Moves
  <2>2. SnapTypeOK'
    <3>1. \A t \in SnapSlots : tasks'[t].step = "idle" => tasks'[t] = NoSnapTask
      BY <2>1, Resting
    <3>2. QED BY <1>1, <1>2, <1>6, <2>1, <3>1 DEF SnapTypeOK, SnapTask
  <2>3. CommandInv(s)' /\ tasks'[s].step \notin {"label", "undo"}
    BY <2>1, RestingTask DEF CommandInv, AtStep
  <2>4. \A t \in SnapSlots \ {s} : tasks[t].id = id /\ tasks[t].step \in {"label", "undo"} =>
           id \in excused \/ id \in present \ promised
    BY <1>2 DEF CommandInv, AtStep
  <2>5. id \in promised' => /\ id \in present' \cup excused'
                            /\ id \in mixed \/ Shown(id)' = origin'[id]
    BY <1>1, <1>2, <1>6 DEF PromisedKept, Shown
  <2>6. id \notin past \cup mixed => "imported" \notin {meta'[id], origin'[id]}
    BY <1>1, <1>6 DEF SnapInv
  <2>7. QED BY <1>0, <1>1, <1>6, <2>1, <2>2, <2>3, <2>4, <2>5, <2>6, LocalStep
<1>7. QED BY <1>0, <1>4, <1>5, <1>6 DEF LinkFile, NoPromise, Label

\* writeMetadata.
LEMMA LabelStep == ASSUME SnapInv, NEW s \in SnapSlots, LabelFile(s) PROVE SnapInv'
<1>1. /\ ~AtStep(s, "idle") /\ tasks[s].step = "label" /\ mixed' = mixed /\ past' = past
      /\ present' = present /\ origin' = origin
  BY DEF LabelFile, AtStep
<1>0. PICK id \in SnapIds : id = tasks[s].id
  BY <1>1, Moves
<1>2. /\ SnapTypeOK /\ PromisedKept /\ CommandInv(s) /\ excused \subseteq mixed
      /\ \A t \in SnapSlots \ {s} : CommandInv(t) /\ OverlapInv(s, t)
  BY DEF SnapInv
<1>3. /\ tasks[s].command \in {"create", "import"} /\ (id \in excused \/ id \in present \ promised)
      /\ id \notin mixed => origin[id] = Label(tasks[s].command)
      /\ id \notin mixed /\ tasks[s].command = "create" => "imported" \notin {meta[id], origin[id]}
  BY <1>0, <1>1, <1>2 DEF CommandInv
<1>4. \A t \in SnapSlots \ {s} : tasks[t].id = id /\ tasks[t].step \in {"label", "undo"} => id \in excused
  BY <1>0, <1>1, <1>2 DEF OverlapInv, AtStep
<1>5. CASE meta' = [meta EXCEPT ![id] = Label(tasks[s].command)] /\ Promise(s, id) /\ AfterCreate(s)
  <2>1. /\ tasks' \in [SnapSlots -> SnapTask] /\ \A t \in SnapSlots \ {s} : tasks'[t] = tasks[t]
        /\ \/ tasks'[s] = NoSnapTask
           \/ /\ tasks'[s].id = id /\ tasks'[s].command = tasks[s].command
              /\ tasks'[s].step = "read" /\ tasks[s].named
    BY <1>0, <1>1, <1>5, AfterCreateMoves
  <2>2. /\ promised' = promised \cup {id}
        /\ excused \subseteq excused' /\ excused' \subseteq excused \cup (mixed \cap {id})
    BY <1>0, <1>1, <1>5, PromiseOf
  <2>3. meta' \in [SnapIds -> Labels \cup {"none"}] /\ meta'[id] = Label(tasks[s].command)
        /\ meta'[id] # "none" /\ \A j \in SnapIds \ {id} : meta'[j] = meta[j]
    BY <1>2, <1>5 DEF SnapTypeOK, Label, Labels
  <2>4. SnapTypeOK'
    <3>1. \A t \in SnapSlots : tasks'[t].step = "idle" => tasks'[t] = NoSnapTask
      BY <2>1, Resting
    <3>2. QED BY <1>1, <1>2, <2>1, <2>2, <2>3, <3>1 DEF SnapTypeOK, SnapTask
  <2>5. id \in present' \cup excused' /\ (id \in mixed \/ Shown(id)' = origin'[id])
    BY <1>1, <1>3, <2>2, <2>3 DEF Shown
  <2>6. CommandInv(s)'
    <3>1. CASE tasks'[s] = NoSnapTask
      BY <3>1, RestingTask DEF CommandInv, AtStep
    <3>2. CASE tasks'[s] # NoSnapTask
      <4>1. tasks[s].command = "create"
        BY <1>1, <1>2, <2>1, <3>2 DEF CommandInv
      <4>2. QED BY <1>0, <1>1, <1>3, <2>1, <2>3, <3>2, <4>1 DEF CommandInv, AtStep, Label
    <3>3. QED BY <3>1, <3>2
  <2>7. id \notin past \cup mixed => "imported" \notin {meta'[id], origin'[id]}
    BY <1>0, <1>1, <1>2, <1>3, <2>3 DEF CommandInv, Label
  <2>8. tasks'[s].step \notin {"label", "undo"}
    BY <2>1, RestingTask
  <2>9. QED BY <1>0, <1>1, <1>4, <2>1, <2>2, <2>3, <2>4, <2>5, <2>6, <2>7, <2>8, LocalStep
<1>6. CASE Proceed(s, "undo") /\ promised' = promised /\ excused' = excused /\ meta' = meta
  <2>1. /\ tasks' \in [SnapSlots -> SnapTask] /\ tasks'[s].step = "undo" /\ tasks'[s].id = id
        /\ tasks'[s].command = tasks[s].command /\ tasks'[s].named = tasks[s].named
        /\ \A t \in SnapSlots \ {s} : tasks'[t] = tasks[t]
    BY <1>0, <1>1, <1>6, Moves
  <2>2. SnapTypeOK'
    <3>1. \A t \in SnapSlots : tasks'[t].step = "idle" => tasks'[t] = NoSnapTask
      BY <2>1, Resting
    <3>2. QED BY <1>1, <1>2, <1>6, <2>1, <3>1 DEF SnapTypeOK, SnapTask
  <2>3. CommandInv(s)'
    BY <1>0, <1>1, <1>2, <1>3, <1>6, <2>1 DEF CommandInv, AtStep
  <2>4. id \in promised' => /\ id \in present' \cup excused'
                            /\ id \in mixed \/ Shown(id)' = origin'[id]
    BY <1>1, <1>2, <1>6 DEF PromisedKept, Shown
  <2>5. id \notin past \cup mixed => "imported" \notin {meta'[id], origin'[id]}
    BY <1>1, <1>6 DEF SnapInv
  <2>6. QED BY <1>0, <1>1, <1>4, <1>6, <2>1, <2>2, <2>3, <2>4, <2>5, LocalStep
<1>7. QED BY <1>0, <1>5, <1>6 DEF LabelFile, NoPromise, Label

\* os.Remove of the file: by the command that could not label it, or by a deletion.
LEMMA RemovingStep ==
    ASSUME SnapInv, NEW s \in SnapSlots, UndoLink(s) \/ RemoveFile(s)
    PROVE  SnapInv'
<1>1. /\ ~AtStep(s, "idle") /\ tasks[s].step \in {"undo", "remove"} /\ mixed' = mixed /\ past' = past
      /\ meta' = meta /\ excused' = excused
  BY DEF UndoLink, RemoveFile, AtStep
<1>0. PICK id \in SnapIds : id = tasks[s].id
  BY <1>1, Moves
<1>2. /\ SnapTypeOK /\ PromisedKept /\ CommandInv(s) /\ excused \subseteq mixed
      /\ \A t \in SnapSlots \ {s} : CommandInv(t) /\ OverlapInv(s, t)
  BY DEF SnapInv
<1>3. /\ tasks[s].step = "remove" => tasks[s].command = "delete"
      /\ tasks[s].step = "undo" => id \in excused \/ id \notin promised
  BY <1>0, <1>1, <1>2 DEF CommandInv
<1>4. \A t \in SnapSlots \ {s} : tasks[t].id = id /\ tasks[t].step \in {"label", "undo"} => id \in excused
  BY <1>0, <1>1, <1>2, <1>3 DEF OverlapInv, AtStep
<1>5. /\ tasks' \in [SnapSlots -> SnapTask] /\ \A t \in SnapSlots \ {s} : tasks'[t] = tasks[t]
      /\ \/ tasks'[s] = NoSnapTask
         \/ /\ tasks'[s].id = id /\ tasks'[s].command = "delete" /\ tasks'[s].step = "unlabel"
            /\ tasks'[s].named = tasks[s].named
            /\ tasks[s].command = "delete" /\ id \notin promised'
  BY <1>0, <1>1, <1>3, Moves DEF UndoLink, RemoveFile, AtStep
<1>6. /\ present' \in {present, present \ {id}} /\ promised' \in {promised, promised \ {id}}
      /\ origin' = IF present' = present THEN origin ELSE [origin EXCEPT ![id] = "none"]
      /\ present' = present \/ id \notin promised' \/ id \in excused
  BY <1>0, <1>2, <1>3 DEF UndoLink, RemoveFile, AtStep, SnapTypeOK
<1>7. /\ origin' \in [SnapIds -> Labels \cup {"none"}] /\ origin'[id] \in {origin[id], "none"}
      /\ \A j \in SnapIds \ {id} : origin'[j] = origin[j]
      /\ \A j \in SnapIds : origin'[j] = "none" <=> j \notin present'
  BY <1>2, <1>6 DEF SnapTypeOK
<1>8. SnapTypeOK'
  <2>1. \A t \in SnapSlots : tasks'[t].step = "idle" => tasks'[t] = NoSnapTask
    BY <1>5, Resting
  <2>2. QED BY <1>1, <1>2, <1>5, <1>6, <1>7, <2>1 DEF SnapTypeOK, SnapTask
<1>9. CommandInv(s)'
  <2>1. CASE tasks'[s] = NoSnapTask
    BY <2>1, RestingTask DEF CommandInv, AtStep
  <2>2. CASE tasks'[s] # NoSnapTask
    BY <1>0, <1>1, <1>2, <1>5, <2>2 DEF CommandInv, AtStep
  <2>3. QED BY <2>1, <2>2
<1>10. id \in promised' => /\ id \in present' \cup excused'
                           /\ id \in mixed \/ Shown(id)' = origin'[id]
  BY <1>1, <1>2, <1>6 DEF PromisedKept, Shown
<1>11. id \notin past \cup mixed => "imported" \notin {meta'[id], origin'[id]}
  BY <1>1, <1>7 DEF SnapInv
<1>12. tasks'[s].step \notin {"label", "undo"}
  BY <1>5, RestingTask
<1>13. \A j \in SnapIds \ {id} : (j \in present' <=> j \in present) /\ (j \in promised' <=> j \in promised)
  BY <1>6
<1>14. tasks'[s] = NoSnapTask \/ (tasks'[s].id = id /\ tasks'[s].command = tasks[s].command)
  BY <1>5
<1>15. QED BY <1>0, <1>1, <1>4, <1>5, <1>7, <1>8, <1>9, <1>10, <1>11, <1>12, <1>13, <1>14, LocalStep

\* Handle: a command begins, and what it meets is remembered.
LEMMA AskStep ==
    ASSUME SnapInv, NEW s \in SnapSlots, NEW c \in SnapCommands, NEW id \in SnapIds,
           NEW named \in BOOLEAN, AskSnapshot(s, c, id, named)
    PROVE  SnapInv'
<1>1. /\ SnapTypeOK /\ PromisedKept /\ excused \subseteq mixed
      /\ \A t \in SnapSlots : CommandInv(t)
  BY DEF SnapInv
<1>2. /\ tasks[s].step = "idle" /\ (c = "create" => id \notin past) /\ (c = "import" => id \in past)
      /\ (named => c = "create")
      /\ mixed' = (IF Meets(s, id) THEN mixed \cup {id} ELSE mixed)
      /\ promised' = (IF c = "delete" THEN promised \ {id} ELSE promised)
      /\ excused' = (IF MeetsDelete(s, c, id) THEN excused \cup {id} ELSE excused)
      /\ present' = present /\ meta' = meta /\ origin' = origin /\ past' = past
  BY DEF AskSnapshot, AtStep
<1>3. /\ FirstStep(c) \in {"link", "find", "read", "remove"}
      /\ FirstStep(c) = "remove" <=> c = "delete"
      /\ FirstStep(c) = "read" <=> c = "rename"
      /\ FirstStep(c) = "link" <=> c = "create"
  BY DEF FirstStep, SnapCommands
<1>4. /\ tasks' \in [SnapSlots -> SnapTask] /\ \A t \in SnapSlots \ {s} : tasks'[t] = tasks[t]
      /\ tasks'[s].command = c /\ tasks'[s].id = id /\ tasks'[s].named = named
      /\ tasks'[s].step = FirstStep(c)
  <2> DEFINE new == [NoSnapTask EXCEPT !.command = c, !.id = id, !.named = named, !.step = FirstStep(c)]
  <2>1. /\ new.command = c /\ new.id = id /\ new.named = named /\ new.step = FirstStep(c)
        /\ new \in SnapTask
    BY <1>3 DEF NoSnapTask, SnapTask
  <2>2. tasks' = [tasks EXCEPT ![s] = new] /\ tasks \in [SnapSlots -> SnapTask]
    BY <1>1 DEF AskSnapshot, SnapTypeOK, SnapTask
  <2> HIDE DEF new
  <2>3. QED BY <2>1, <2>2
<1>5. SnapTypeOK'
  <2>1. \A t \in SnapSlots : tasks'[t].step = "idle" => tasks'[t] = NoSnapTask
    BY <1>3, <1>4, Resting
  <2>2. QED BY <1>1, <1>2, <1>4, <2>1 DEF SnapTypeOK, SnapTask
<1>6. MeetsDelete(s, c, id) => Meets(s, id)
  BY DEF MeetsDelete, Meets
<1>7. excused' \subseteq mixed' /\ mixed \subseteq mixed' /\ excused \subseteq excused'
      /\ promised' \subseteq promised
  BY <1>1, <1>2, <1>6
<1>8. PromisedKept'
  <2>1. ASSUME NEW j \in promised'
        PROVE  j \in present' \cup excused' /\ (j \in mixed' \/ Shown(j)' = origin'[j])
    <3>1. j \in promised /\ j \in present \cup excused /\ (j \in mixed \/ Shown(j) = origin[j])
      BY <1>1, <1>7, <2>1 DEF PromisedKept
    <3>2. Shown(j)' = Shown(j)
      BY <1>2 DEF Shown
    <3>3. QED BY <1>2, <1>7, <3>1, <3>2
  <2>2. QED BY <2>1 DEF PromisedKept
<1>9. ASSUME NEW t \in SnapSlots \ {s} PROVE CommandInv(t)'
  <2>1. CommandInv(t) /\ tasks'[t] = tasks[t]
    BY <1>1, <1>4
  <2>2. QED BY <1>2, <1>7, <2>1 DEF CommandInv, AtStep, Shown
<1>10. CommandInv(s)'
  <2>1. c = "create" /\ id \notin mixed' => "imported" \notin {meta'[id], origin'[id]}
    BY <1>2, <1>7 DEF SnapInv
  <2>2. QED BY <1>2, <1>3, <1>4, <2>1 DEF CommandInv, AtStep, SnapCommands
<1>11. ASSUME NEW t \in SnapSlots, NEW u \in SnapSlots, t # u PROVE OverlapInv(t, u)'
  <2>1. CASE t # s /\ u # s
    <3>1. OverlapInv(t, u) /\ tasks'[t] = tasks[t] /\ tasks'[u] = tasks[u]
      BY <1>4, <1>11, <2>1 DEF SnapInv
    <3>2. QED BY <1>7, <3>1 DEF OverlapInv, AtStep
  <2>2. ASSUME NEW v \in SnapSlots \ {s} PROVE OverlapInv(s, v)' /\ OverlapInv(v, s)'
    <3>1. tasks'[v] = tasks[v] /\ tasks'[s].step \notin {"label", "undo"}
      BY <1>3, <1>4
    <3>2. tasks[v].id = id => id \in mixed'
      BY <1>2 DEF Meets
    <3>3. tasks[v].id = id /\ "delete" \in {c, tasks[v].command} => id \in excused'
      BY <1>2 DEF MeetsDelete
    <3>4. QED BY <1>4, <3>1, <3>2, <3>3 DEF OverlapInv, AtStep
  <2>3. QED BY <1>11, <2>1, <2>2
<1>12. \A j \in SnapIds \ (past' \cup mixed') : "imported" \notin {meta'[j], origin'[j]}
  BY <1>2, <1>7 DEF SnapInv
<1>13. QED BY <1>5, <1>7, <1>8, <1>9, <1>10, <1>11, <1>12 DEF SnapInv

\* The daemon stops, or the second of a creation ends.
LEMMA OutsideStep ==
    ASSUME SnapInv, SnapStop \/ \E id \in SnapIds : SecondEnds(id)
    PROVE  SnapInv'
<1>1. /\ present' = present /\ meta' = meta /\ origin' = origin /\ promised' = promised
      /\ excused' = excused /\ mixed' = mixed /\ past \subseteq past' /\ past' \subseteq SnapIds
      /\ \A t \in SnapSlots : tasks'[t] \in {tasks[t], NoSnapTask}
      /\ tasks' \in [SnapSlots -> SnapTask]
  BY RestingTask DEF SnapStop, SecondEnds, SnapInv, SnapTypeOK, SnapTask
<1>2. SnapTypeOK'
  BY <1>1 DEF SnapInv, SnapTypeOK, SnapTask
<1>3. PromisedKept'
  BY <1>1 DEF SnapInv, PromisedKept, Shown
<1>4. ASSUME NEW t \in SnapSlots PROVE CommandInv(t)'
  <2>1. CommandInv(t)
    BY DEF SnapInv
  <2>2. CASE tasks'[t] = tasks[t]
    BY <1>1, <2>1, <2>2 DEF CommandInv, AtStep, Shown
  <2>3. CASE tasks'[t] = NoSnapTask
    BY <2>3, RestingTask DEF CommandInv, AtStep
  <2>4. QED BY <1>1, <2>2, <2>3
<1>5. ASSUME NEW t \in SnapSlots, NEW u \in SnapSlots, t # u PROVE OverlapInv(t, u)'
  <2>1. OverlapInv(t, u)
    BY <1>5 DEF SnapInv
  <2>2. QED BY <1>1, <2>1, RestingTask DEF OverlapInv, AtStep
<1>6. excused' \subseteq mixed'
      /\ \A j \in SnapIds \ (past' \cup mixed') : "imported" \notin {meta'[j], origin'[j]}
  BY <1>1 DEF SnapInv
<1>7. QED BY <1>2, <1>3, <1>4, <1>5, <1>6 DEF SnapInv

\* The first state: no snapshot.
LEMMA InitSnap == SnapInit => SnapInv
<1> SUFFICES ASSUME SnapInit PROVE SnapInv
  OBVIOUS
<1>1. SnapTypeOK
  BY RestingTask, SnapAssumption DEF SnapInit, SnapTypeOK, SnapTask
<1>2. \A s \in SnapSlots : tasks[s].step = "idle"
  BY RestingTask DEF SnapInit
<1>3. \A s \in SnapSlots : CommandInv(s) /\ \A t \in SnapSlots : OverlapInv(s, t)
  BY <1>2 DEF CommandInv, OverlapInv, AtStep
<1>4. QED BY <1>1, <1>3 DEF SnapInit, SnapInv, PromisedKept

\* Every step preserves the inductive invariant.
LEMMA NextSnap == SnapInv /\ [SnapNext]_snapVars => SnapInv'
<1> SUFFICES ASSUME SnapInv, [SnapNext]_snapVars PROVE SnapInv'
  OBVIOUS
<1>1. ASSUME NEW s \in SnapSlots, NEW c \in SnapCommands, NEW id \in SnapIds, NEW named \in BOOLEAN,
             AskSnapshot(s, c, id, named)
      PROVE  SnapInv'
  BY <1>1, AskStep
<1>2. ASSUME NEW s \in SnapSlots, SnapStep(s) PROVE SnapInv'
  BY <1>2, ReadingStep, LinkStep, LabelStep, RemovingStep DEF SnapStep
<1>3. CASE SnapStop \/ \E id \in SnapIds : SecondEnds(id)
  BY <1>3, OutsideStep
<1>4. CASE UNCHANGED snapVars
  BY <1>4 DEF snapVars, SnapInv, SnapTypeOK, PromisedKept, Shown, CommandInv, OverlapInv, AtStep
<1>5. QED BY <1>1, <1>2, <1>3, <1>4 DEF SnapNext

\* The inductive invariant of the snapshots: every interleaving of any number of commands.
THEOREM SnapInvariance == SnapSpec => []SnapInv
BY InitSnap, NextSnap, PTL DEF SnapSpec

\* The directory and the commands are well formed.
THEOREM SnapTypeCorrect == SnapSpec => []SnapTypeOK
<1>1. SnapInv => SnapTypeOK
  BY DEF SnapInv
<1>2. QED BY <1>1, SnapInvariance, PTL

\* create, importSnapshot, rename and delete, of any number of connections at once: a
\* snapshot that was answered for stays until its deletion is asked for, and keeps the
\* label of how it came, but for the commands that overlapped on it.
THEOREM PromisesAreKept == SnapSpec => []PromisedKept
<1>1. SnapInv => PromisedKept
  BY DEF SnapInv
<1>2. QED BY <1>1, SnapInvariance, PTL

-----------------------------------------------------------------------------
(* The domains together. *)

\* A behaviour in which one domain moves is one of every domain: what is proved of a domain
\* holds where they are checked together.
THEOREM DomainsRefine == MCSpec => Spec /\ RunsSpec /\ FwSpec /\ CronSpec /\ BackupSpec /\ SnapSpec
<1> DEFINE All == <<focus, vars, execVars, fwVars, cronVars, backupVars, snapVars>>
<1>1. MCInit => Init /\ RunsInit /\ FwInit /\ CronInit /\ BackupInit /\ SnapInit
  BY DEF MCInit
<1>2. [MCNext]_All => /\ [Next]_vars /\ [RunsNext]_execVars /\ [FwNext]_fwVars
                      /\ [CronNext]_cronVars /\ [BackupNext]_backupVars /\ [SnapNext]_snapVars
  <2>1. ASSUME UNCHANGED All
        PROVE  /\ UNCHANGED vars /\ UNCHANGED execVars /\ UNCHANGED fwVars
               /\ UNCHANGED cronVars /\ UNCHANGED backupVars /\ UNCHANGED snapVars
    BY <2>1
  <2>2. ASSUME MCNext
        PROVE  /\ [Next]_vars /\ [RunsNext]_execVars /\ [FwNext]_fwVars
               /\ [CronNext]_cronVars /\ [BackupNext]_backupVars /\ [SnapNext]_snapVars
    BY <2>2 DEF MCNext
  <2>3. QED BY <2>1, <2>2
<1>3. QED BY <1>1, <1>2, PTL DEF MCSpec, Spec, RunsSpec, FwSpec, CronSpec, BackupSpec, SnapSpec

\* The state of every domain is well formed; a holder of a lock is alive and alone.
THEOREM DomainsTypeCorrect == MCSpec => []DomainsTypeOK
<1>1. TypeOK /\ RunsTypeOK /\ FwTypeOK /\ CronTypeOK /\ BackupTypeOK /\ SnapTypeOK => DomainsTypeOK
  BY DEF DomainsTypeOK
<1>2. QED BY <1>1, DomainsRefine, TypeCorrect, RunsTypeCorrect, FwTypeCorrect, CronTypeCorrect,
             BackupTypeCorrect, SnapTypeCorrect, PTL
=============================================================================
