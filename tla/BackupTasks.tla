----------------------------- MODULE BackupTasks -----------------------------
(***************************************************************************)
(* Backups of files and databases: the daemon's commands that schedule them *)
(* (internal/domain/cron/backup.go) and the program that cron, or a manual  *)
(* run, starts for one (internal/backup/runner.go).  A task is two files    *)
(* that no lock covers: its parameters, and a line in /etc/cron.d.  A run   *)
(* makes an archive in the task's destination, may send it to another       *)
(* machine and remove it, and purges what is older than the task's          *)
(* retention, all under a lock of the destination.                          *)
(*                                                                         *)
(* Every task here has the same destination, which is what makes tasks meet *)
(* at all.  An archive is named after its task and the second in which its  *)
(* run took the lock: two runs of one second may have one name, and it is   *)
(* found again by the start of its name only.                               *)
(***************************************************************************)
EXTENDS Naturals, FiniteSets

CONSTANTS
    BackupIds,     \* tasks, each created once: the identifier is random
    Archives,      \* runs; the name of an archive is the first run that was given it
    NoBackup,
    KeepFor,       \* by task: RetentionDays; 0: for ever
    MaxAge,        \* bound: an archive this old, in days, is older than any retention
    Remote,        \* tasks that have a remote host
    RemoveLocal,   \* those that remove what was sent
    NameOf,        \* by task: its safeName and the kind of its archives
    Covers         \* by task: the tasks whose names start as its own does

ASSUME BackupAssumption ==
    /\ NoBackup \notin BackupIds \cup Archives
    /\ KeepFor \in [BackupIds -> Nat]
    /\ MaxAge \in Nat /\ \A t \in BackupIds : KeepFor[t] < MaxAge
    /\ RemoveLocal \subseteq Remote /\ Remote \subseteq BackupIds
    /\ Covers \in [BackupIds -> SUBSET BackupIds] /\ \A t \in BackupIds : t \in Covers[t]
    /\ \A t, u, v \in BackupIds :
          NameOf[t] = NameOf[u] => (t \in Covers[v] <=> u \in Covers[v])

VARIABLES
    config,      \* <id>.json
    cronFile,    \* /etc/cron.d/aegisadmin-backup-<id>
    creating,    \* the daemon's creation of each task
    deleting,    \* its deletion
    raced,       \* history: tasks deleted while they were being created
    store,       \* the destination, by name: the run whose archive is there, its age
    temporary,   \* names whose .tmp a run left behind
    remote,      \* the other machine, by name: the run whose archive is there
    maker,       \* by run: its task, once it has the lock
    name,        \* by run: the name of its archive
    stamped,     \* names given in the second that goes on
    run,         \* how far each run is
    busy         \* the run that holds the destination's lock

backupVars == <<config, cronFile, creating, deleting, raced,
                store, temporary, remote, maker, name, stamped, run, busy>>

files == <<config, cronFile, creating, deleting, raced>>

naming == <<maker, name, stamped>>

destination == <<store, temporary, remote, naming, run, busy>>

FileStates == {"absent", "partial", "whole"}

Missing == [by |-> NoBackup, age |-> 0]

NoRun == [task |-> NoBackup, step |-> "none"]

-----------------------------------------------------------------------------
BackupTypeOK ==
    /\ config \in [BackupIds -> FileStates] /\ cronFile \in [BackupIds -> FileStates]
    /\ creating \in [BackupIds -> {"none", "config", "schedule", "ended"}]
    /\ deleting \in [BackupIds -> {"none", "unschedule", "unconfig"}]
    /\ raced \subseteq BackupIds
    /\ store \in [Archives -> [by: Archives \cup {NoBackup}, age: 0 .. MaxAge]]
    /\ remote \in [Archives -> Archives \cup {NoBackup}]
    /\ temporary \subseteq Archives /\ stamped \subseteq Archives
    /\ name \in [Archives -> Archives]
    /\ maker \in [Archives -> BackupIds \cup {NoBackup}]
    /\ run \in [Archives -> [task: BackupIds \cup {NoBackup},
                             step: {"none", "lock", "dump", "send", "drop", "purge", "over"}]]
    /\ busy \in Archives \cup {NoBackup}
    \* a run past its lock holds it
    /\ \A a \in Archives : run[a].step \in {"dump", "send", "drop", "purge"} <=> busy = a

\* Some tasks are there already.
BackupInit ==
    /\ \E made \in SUBSET BackupIds :
          /\ config = [t \in BackupIds |-> IF t \in made THEN "whole" ELSE "absent"]
          /\ cronFile = config
          /\ creating = [t \in BackupIds |-> IF t \in made THEN "ended" ELSE "none"]
    /\ deleting = [t \in BackupIds |-> "none"]
    /\ raced = {}
    /\ store = [a \in Archives |-> Missing]
    /\ temporary = {} /\ stamped = {}
    /\ remote = [a \in Archives |-> NoBackup]
    /\ maker = [a \in Archives |-> NoBackup]
    /\ name = [a \in Archives |-> a]
    /\ run = [a \in Archives |-> NoRun]
    /\ busy = NoBackup

-----------------------------------------------------------------------------
(* The daemon. *)

Creating(t, step) == creating' = [creating EXCEPT ![t] = step]

Deleting(t, step) == deleting' = [deleting EXCEPT ![t] = step]

\* createBackupTask: valid parameters, a new identifier.
CreateTask(t) ==
    /\ creating[t] = "none"
    /\ Creating(t, "config")
    /\ UNCHANGED <<config, cronFile, deleting, raced, destination>>

\* os.WriteFile of the parameters: one that fails may leave a part.
WriteConfig(t) ==
    /\ creating[t] = "config"
    /\ \/ config' = [config EXCEPT ![t] = "whole"] /\ Creating(t, "schedule")
       \/ config' \in {config, [config EXCEPT ![t] = "partial"]} /\ Creating(t, "ended")
    /\ UNCHANGED <<cronFile, deleting, raced, destination>>

\* os.WriteFile of the schedule.  Where it fails the parameters are removed, or not.
WriteSchedule(t) ==
    /\ creating[t] = "schedule"
    /\ \/ cronFile' = [cronFile EXCEPT ![t] = "whole"] /\ UNCHANGED config
       \/ /\ cronFile' \in {cronFile, [cronFile EXCEPT ![t] = "partial"]}
          /\ config' \in {config, [config EXCEPT ![t] = "absent"]}
    /\ Creating(t, "ended")
    /\ UNCHANGED <<deleting, raced, destination>>

\* deleteBackupTask, of a task that has parameters; its creation may be under way.
DeleteTask(t) ==
    /\ deleting[t] = "none"
    /\ config[t] # "absent"
    /\ Deleting(t, "unschedule")
    /\ raced' = IF creating[t] = "schedule" THEN raced \cup {t} ELSE raced
    /\ UNCHANGED <<config, cronFile, creating, destination>>

\* Mutant: the parameters go first.
RemoveSchedule_ConfigFirst(t) ==
    /\ deleting[t] = "unschedule"
    /\ \/ config' = [config EXCEPT ![t] = "absent"] /\ Deleting(t, "unconfig")
       \/ Deleting(t, "none") /\ UNCHANGED config
    /\ UNCHANGED <<cronFile, creating, raced, destination>>

\* os.Remove of the schedule, then of the parameters; each may fail.
RemoveSchedule(t) ==
    /\ deleting[t] = "unschedule"
    /\ \/ cronFile' = [cronFile EXCEPT ![t] = "absent"] /\ Deleting(t, "unconfig")
       \/ Deleting(t, "none") /\ UNCHANGED cronFile
    /\ UNCHANGED <<config, creating, raced, destination>>

RemoveConfig(t) ==
    /\ deleting[t] = "unconfig"
    /\ config' \in {config, [config EXCEPT ![t] = "absent"]}
    /\ Deleting(t, "none")
    /\ UNCHANGED <<cronFile, creating, raced, destination>>

\* The daemon is stopped between two files, or while it writes one.
CommandsStop ==
    /\ \E t \in BackupIds : creating[t] \in {"config", "schedule"} \/ deleting[t] # "none"
    /\ config' \in {config} \cup
          {[config EXCEPT ![t] = "partial"] : t \in {u \in BackupIds : creating[u] = "config"}}
    /\ cronFile' \in {cronFile} \cup
          {[cronFile EXCEPT ![t] = "partial"] : t \in {u \in BackupIds : creating[u] = "schedule"}}
    /\ creating' = [t \in BackupIds |-> IF creating[t] = "none" THEN "none" ELSE "ended"]
    /\ deleting' = [t \in BackupIds |-> "none"]
    /\ UNCHANGED <<raced, destination>>

-----------------------------------------------------------------------------
(* The runner. *)

Step(a, step) == run' = [run EXCEPT ![a].step = step]

\* The run ends, successfully or not; the flock goes with the process.
EndRun(a) ==
    /\ run' = [run EXCEPT ![a] = [task |-> NoBackup, step |-> "over"]]
    /\ busy' = IF busy = a THEN NoBackup ELSE busy

\* cron starts what is scheduled, the daemon what has parameters (runBackupTask).
\* Run reads the parameters; without them, or with a part of them, it fails.
StartRun(a, t) ==
    /\ run[a].step = "none"
    /\ cronFile[t] = "whole" \/ config[t] # "absent"
    /\ run' = [run EXCEPT ![a] = IF config[t] = "whole" THEN [task |-> t, step |-> "lock"]
                                 ELSE [task |-> NoBackup, step |-> "over"]]
    /\ UNCHANGED <<files, store, temporary, remote, naming, busy>>

\* The name that a run of t is given now: that of an earlier run of the same second and
\* the same name, otherwise one of its own.
NameNow(a, t) ==
    LET alike == {f \in stamped : NameOf[maker[f]] = NameOf[t]} IN
    IF alike = {} THEN {a} ELSE alike

\* Flock, LOCK_NB: a second run of the destination gives up.  Then the time is read.
LockDestination(a) ==
    LET t == run[a].task IN
    /\ run[a].step = "lock"
    /\ \/ /\ busy = NoBackup
          /\ Step(a, "dump")
          /\ busy' = a
          /\ maker' = [maker EXCEPT ![a] = t]
          /\ \E f \in NameNow(a, t) :
                name' = [name EXCEPT ![a] = f] /\ stamped' = stamped \cup {f}
       \/ busy # NoBackup /\ EndRun(a) /\ UNCHANGED naming
    /\ UNCHANGED <<files, store, temporary, remote>>

\* mysqlDump, tarSource: a temporary file that must not be there yet, renamed when it is
\* complete, over the archive of that name if there is one, and removed when it is not;
\* a run that is killed leaves it.
Dump(a) ==
    LET f == name[a] IN
    /\ run[a].step = "dump"
    /\ \/ /\ f \notin temporary
          /\ store' = [store EXCEPT ![f] = [by |-> a, age |-> 0]]
          /\ Step(a, IF run[a].task \in Remote THEN "send" ELSE "purge")
          /\ UNCHANGED <<temporary, busy>>
       \/ /\ temporary' \in {temporary, temporary \cup {f}}
          /\ EndRun(a)
          /\ UNCHANGED store
    /\ UNCHANGED <<files, remote, naming>>

\* transfer: rsync; where it fails the archive stays and nothing is purged.
Transfer(a) ==
    LET f == name[a] IN
    /\ run[a].step = "send"
    /\ \/ /\ remote' = [remote EXCEPT ![f] = store[f].by]
          /\ Step(a, IF run[a].task \in RemoveLocal THEN "drop" ELSE "purge")
          /\ UNCHANGED busy
       \/ EndRun(a) /\ UNCHANGED remote
    /\ UNCHANGED <<files, store, temporary, naming>>

DropLocal(a) ==
    /\ run[a].step = "drop"
    /\ \/ /\ store' = [store EXCEPT ![name[a]] = Missing]
          /\ Step(a, "purge")
          /\ UNCHANGED busy
       \/ EndRun(a) /\ UNCHANGED store
    /\ UNCHANGED <<files, temporary, remote, naming>>

\* Mutant: any file of the destination.
Named_Any(f, t) == maker[f] # NoBackup

\* Whose file it is: the name of an archive, or of its .tmp, starts with the task's.
Named(f, t) == maker[f] \in Covers[t]

\* purge: every file that starts as the task's do and is older than its retention.
Purgeable(f, t) ==
    KeepFor[t] > 0 /\ Named(f, t) /\ store[f].by # NoBackup /\ store[f].age > KeepFor[t]

\* A removal that fails is passed over.  The age of a .tmp is not kept: any but one of
\* this second may be old enough.
Purge(a) ==
    LET t == run[a].task IN
    /\ run[a].step = "purge"
    /\ \E gone \in SUBSET {f \in Archives : Purgeable(f, t)} :
          store' = [f \in Archives |-> IF f \in gone THEN Missing ELSE store[f]]
    /\ \E gone \in SUBSET {f \in temporary \ stamped : KeepFor[t] > 0 /\ Named(f, t)} :
          temporary' = temporary \ gone
    /\ EndRun(a)
    /\ UNCHANGED <<files, remote, naming>>

\* The second ends: no name is given twice from now on.
Second ==
    /\ stamped # {}
    /\ stamped' = {}
    /\ UNCHANGED <<files, store, temporary, remote, maker, name, run, busy>>

Day ==
    /\ store' = [f \in Archives |->
          IF store[f].by # NoBackup /\ store[f].age < MaxAge
            THEN [store[f] EXCEPT !.age = @ + 1] ELSE store[f]]
    /\ stamped' = {}
    /\ UNCHANGED <<files, temporary, remote, maker, name, run, busy>>

BackupRun(a) == LockDestination(a) \/ Dump(a) \/ Transfer(a) \/ DropLocal(a) \/ Purge(a)

BackupNext ==
    \/ \E t \in BackupIds :
          \/ CreateTask(t) \/ WriteConfig(t) \/ WriteSchedule(t)
          \/ DeleteTask(t) \/ RemoveSchedule(t) \/ RemoveConfig(t)
    \/ \E a \in Archives, t \in BackupIds : StartRun(a, t)
    \/ \E a \in Archives : BackupRun(a)
    \/ CommandsStop
    \/ Second
    \/ Day

BackupSpec == BackupInit /\ [][BackupNext]_backupVars

-----------------------------------------------------------------------------
\* What cron runs finds its parameters: whichever file could not be written or removed,
\* and wherever the daemon was stopped, a schedule never outlives them.
ScheduledHasConfig ==
    \A t \in BackupIds \ raced : cronFile[t] = "whole" => config[t] = "whole"

\* The archive of the run a is complete on this machine or on the other one.
Somewhere(a) == store[name[a]].by = a \/ remote[name[a]] = a

\* The retention is over, of a task that finds the archive by its name.
Lapsed(a) ==
    \E t \in BackupIds :
        maker[a] \in Covers[t] /\ 0 < KeepFor[t] /\ KeepFor[t] < store[name[a]].age

\* A complete archive of the same second, by a task of the same name, is in its place.
Replaced(a) ==
    \E b \in Archives \ {a} :
        name[b] = name[a] /\ NameOf[maker[b]] = NameOf[maker[a]] /\ Somewhere(b)'

\* A complete archive does not go from both machines before the retention of its task is
\* over: no failed transfer, no incomplete dump and no run of another task takes it.
\* Excepted is what the names allow: a task whose name is the start of this one's, which
\* purges it with its own retention, and a run that was given the same name, which puts
\* another complete archive there.
ArchiveKept ==
    [][\A a \in Archives :
          Somewhere(a) /\ ~Somewhere(a)' => Lapsed(a) \/ Replaced(a)]_backupVars

-----------------------------------------------------------------------------
(* The inductive invariant behind both. *)

\* What holds of one task: its files come in one order and go in the other.
TaskInv(t) ==
    /\ creating[t] \in {"none", "config"} =>
          config[t] = "absent" /\ cronFile[t] = "absent" /\ deleting[t] = "none"
    /\ t \notin raced =>
          /\ cronFile[t] = "whole" => config[t] = "whole"
          /\ creating[t] = "schedule" =>
                config[t] = "whole" /\ cronFile[t] # "whole" /\ deleting[t] = "none"
          /\ deleting[t] = "unconfig" => cronFile[t] # "whole"

\* Whose archive may be found at the name f.
Belongs(f, a) == a # NoBackup => maker[a] # NoBackup /\ name[a] = f

\* What holds of one run and of the name it may have given: it knows its task, what it
\* sends is its own archive, and it removes only what it sent.
ArchiveInv(a) ==
    /\ run[a].step \notin {"none", "over"} => run[a].task \in BackupIds
    /\ run[a].step \in {"none", "lock"} => maker[a] = NoBackup
    /\ run[a].step \in {"dump", "send", "drop", "purge"} => maker[a] = run[a].task
    /\ run[a].step \in {"send", "drop"} => store[name[a]].by = a
    /\ run[a].step = "drop" => remote[name[a]] = a
    /\ maker[a] # NoBackup =>
          maker[name[a]] # NoBackup /\ NameOf[maker[name[a]]] = NameOf[maker[a]]
    /\ a \in stamped => maker[a] # NoBackup
    /\ Belongs(a, store[a].by) /\ Belongs(a, remote[a])

BackupInv ==
    BackupTypeOK /\ (\A t \in BackupIds : TaskInv(t)) /\ (\A a \in Archives : ArchiveInv(a))
=============================================================================
