-------------------------------- MODULE Updater --------------------------------
(***************************************************************************)
(* System upgrades (internal/domain/updates/upgrade.go): the daemon, which *)
(* creates a job file and asks systemd for the unit                        *)
(* aegisadmin-updater@<job>, and the updater process of that unit, which   *)
(* runs the package manager.  They share only files: one per job, the      *)
(* pointer current, and a lock file.                                       *)
(*                                                                         *)
(* The daemon's commands exclude each other (upgradeMu) but not the        *)
(* updater, so a command is split at every file it reads or writes.  The   *)
(* daemon may be restarted at any step (an upgrade of AegisAdmin does it)  *)
(* and the machine may be rebooted.  A file is written by rename: one      *)
(* write is atomic.  Of a job, the model keeps its status and whether it   *)
(* was created less than 30 seconds ago.                                   *)
(***************************************************************************)
EXTENDS Naturals

CONSTANTS Jobs, None

Statuses == {"pending", "running", "completed", "failed"}

\* queued: systemd has the start job.  started .. written: the process runs.
UnitSteps == {"none", "queued", "started", "locked", "read", "running", "written", "ended"}

\* What startUpgrade is about to do, for which job.
StartSteps == {"check", "close", "create", "point", "launch"}

ASSUME NoneAssumption == None \notin Jobs /\ None \notin Statuses
                         /\ None \notin [step: StartSteps, job: Jobs \cup {None}]

VARIABLES
    jobs,       \* status of each job file, None where there is none
    current,    \* the job the pointer file names
    recent,     \* jobs created less than 30 seconds ago
    unit,       \* progress of the unit of each job
    lock,       \* the job whose updater holds the flock
    daemon,     \* startUpgrade under way
    reboot,     \* the transient unit aegisadmin-reboot is scheduled
    installed   \* history: jobs whose package commands all succeeded

vars == <<jobs, current, recent, unit, lock, daemon, reboot, installed>>

-----------------------------------------------------------------------------
InProgress(status) == status \in {"pending", "running"}

\* The updater process of j exists.
Alive(j) == unit[j] \in {"started", "locked", "read", "running", "written"}

\* It is past its status check: packages may be being installed.
Installing(j) == unit[j] \in {"read", "running"}

\* The unit is Type=oneshot: as long as its process runs it is activating.
UnitState(j) == IF Alive(j) THEN "activating" ELSE "inactive"

\* systemctl is-active succeeds on a unit that is up, not on one coming up.
IsActive(j) == UnitState(j) \in {"active", "reloading"}

TypeOK ==
    /\ jobs \in [Jobs -> Statuses \cup {None}]
    /\ current \in Jobs \cup {None}
    /\ recent \subseteq Jobs
    /\ unit \in [Jobs -> UnitSteps]
    /\ lock \in Jobs \cup {None}
    /\ daemon \in [step: StartSteps, job: Jobs \cup {None}] \cup {None}
    /\ reboot \in BOOLEAN
    /\ installed \subseteq Jobs
    \* a unit is only ever started for a job that was written
    /\ \A j \in Jobs : unit[j] # "none" => jobs[j] # None

Init ==
    /\ jobs = [j \in Jobs |-> None]
    /\ current = None
    /\ recent = {}
    /\ unit = [j \in Jobs |-> "none"]
    /\ lock = None
    /\ daemon = None
    /\ reboot = FALSE
    /\ installed = {}

Write(j, status) == jobs' = [jobs EXCEPT ![j] = status]

-----------------------------------------------------------------------------
(* startUpgrade, in the daemon. *)

\* It reads current and its job: one that is in progress is looked at.
StartUpgrade ==
    /\ daemon = None
    /\ daemon' = IF current # None /\ InProgress(jobs[current])
                   THEN [step |-> "check", job |-> current]
                   ELSE [step |-> "create", job |-> None]
    /\ UNCHANGED <<jobs, current, recent, unit, lock, reboot, installed>>

\* "already_running" if the unit is active or the job is recent.
CheckRunning ==
    /\ daemon # None
    /\ daemon.step = "check"
    /\ daemon' = IF IsActive(daemon.job) \/ daemon.job \in recent
                   THEN None ELSE [daemon EXCEPT !.step = "close"]
    /\ UNCHANGED <<jobs, current, recent, unit, lock, reboot, installed>>

\* The job is closed: the copy that was read is written back as failed.  The error of the
\* write is ignored.
CloseJob ==
    /\ daemon # None
    /\ daemon.step = "close"
    /\ Write(daemon.job, "failed") \/ UNCHANGED jobs
    /\ daemon' = [step |-> "create", job |-> None]
    /\ UNCHANGED <<current, recent, unit, lock, reboot, installed>>

\* create: the job file, under a new random identifier ...
CreateJob(j) ==
    /\ daemon # None
    /\ daemon.step = "create"
    /\ jobs[j] = None
    /\ Write(j, "pending")
    /\ recent' = recent \cup {j}
    /\ daemon' = [step |-> "point", job |-> j]
    /\ UNCHANGED <<current, unit, lock, reboot, installed>>

\* ... then the pointer.
PointToJob ==
    /\ daemon # None
    /\ daemon.step = "point"
    /\ current' = daemon.job
    /\ daemon' = [daemon EXCEPT !.step = "launch"]
    /\ UNCHANGED <<jobs, recent, unit, lock, reboot, installed>>

\* systemctl start --no-block.
Launch ==
    /\ daemon # None
    /\ daemon.step = "launch"
    /\ unit' = [unit EXCEPT ![daemon.job] = "queued"]
    /\ daemon' = None
    /\ UNCHANGED <<jobs, current, recent, lock, reboot, installed>>

LaunchFails ==
    /\ daemon # None
    /\ daemon.step = "launch"
    /\ Write(daemon.job, "failed") \/ UNCHANGED jobs
    /\ daemon' = None
    /\ UNCHANGED <<current, recent, unit, lock, reboot, installed>>

\* An error return, or the daemon is restarted.
DaemonStops ==
    /\ daemon # None
    /\ daemon' = None
    /\ UNCHANGED <<jobs, current, recent, unit, lock, reboot, installed>>

-----------------------------------------------------------------------------
(* scheduleReboot, in the daemon. *)

upgradeInProgress ==
    /\ current # None
    /\ InProgress(jobs[current])
    /\ IsActive(current) \/ current \in recent

\* systemd-run refuses a second unit of the same name.
ScheduleReboot ==
    /\ daemon = None
    /\ ~upgradeInProgress
    /\ ~reboot
    /\ reboot' = TRUE
    /\ UNCHANGED <<jobs, current, recent, unit, lock, daemon, installed>>

\* Every process ends; the files stay.
RebootFires ==
    /\ reboot
    /\ reboot' = FALSE
    /\ daemon' = None
    /\ lock' = None
    /\ unit' = [j \in Jobs |-> IF unit[j] = "none" THEN "none" ELSE "ended"]
    /\ UNCHANGED <<jobs, current, recent, installed>>

-----------------------------------------------------------------------------
(* runUpdater, in the unit of job j. *)

\* systemd starts the process, possibly late (After=network-online.target).
UnitStarts(j) ==
    /\ unit[j] = "queued"
    /\ unit' = [unit EXCEPT ![j] = "started"]
    /\ UNCHANGED <<jobs, current, recent, lock, daemon, reboot, installed>>

\* Mutant: the result of the non-blocking flock is ignored.
TakeLock_Ignored(j) ==
    /\ unit[j] = "started"
    /\ unit' = [unit EXCEPT ![j] = "locked"]
    /\ lock' = j
    /\ UNCHANGED <<jobs, current, recent, daemon, reboot, installed>>

\* The non-blocking flock: "another update is running" ends the process.
TakeLock(j) ==
    /\ unit[j] = "started"
    /\ IF lock = None
         THEN lock' = j /\ unit' = [unit EXCEPT ![j] = "locked"]
         ELSE lock' = lock /\ unit' = [unit EXCEPT ![j] = "ended"]
    /\ UNCHANGED <<jobs, current, recent, daemon, reboot, installed>>

\* Mutant: the status is not looked at.
ReadJob_Closed(j) ==
    /\ unit[j] = "locked"
    /\ unit' = [unit EXCEPT ![j] = "read"]
    /\ UNCHANGED <<jobs, current, recent, lock, daemon, reboot, installed>>

\* The job is read: only a pending one is run.
ReadJob(j) ==
    /\ unit[j] = "locked"
    /\ unit' = [unit EXCEPT ![j] = IF jobs[j] = "pending" THEN "read" ELSE "written"]
    /\ UNCHANGED <<jobs, current, recent, lock, daemon, reboot, installed>>

\* store.write: when the run begins and for every line of output after that,
\* the updater's own copy of the job replaces the file.
WriteRunning(j) ==
    /\ Installing(j)
    /\ Write(j, "running")
    /\ unit' = [unit EXCEPT ![j] = "running"]
    /\ UNCHANGED <<current, recent, lock, daemon, reboot, installed>>

\* Mutant: the exit code of the package manager is not looked at.
finishUpgrade_AlwaysCompleted(j, exitCode) ==
    /\ unit[j] = "running"
    /\ Write(j, "completed")
    /\ installed' = IF exitCode = 0 THEN installed \cup {j} ELSE installed
    /\ unit' = [unit EXCEPT ![j] = "written"]
    /\ UNCHANGED <<current, recent, lock, daemon, reboot>>

\* Every command succeeded (exitCode = 0), or one failed or timed out.
finishUpgrade(j, exitCode) ==
    /\ unit[j] = "running"
    /\ Write(j, IF exitCode = 0 THEN "completed" ELSE "failed")
    /\ installed' = IF exitCode = 0 THEN installed \cup {j} ELSE installed
    /\ unit' = [unit EXCEPT ![j] = "written"]
    /\ UNCHANGED <<current, recent, lock, daemon, reboot>>

\* The process ends: done, or a write failed, or systemd's timeout killed it.
\* The flock goes with it.
UnitEnds(j) ==
    /\ Alive(j)
    /\ unit' = [unit EXCEPT ![j] = "ended"]
    /\ lock' = IF lock = j THEN None ELSE lock
    /\ UNCHANGED <<jobs, current, recent, daemon, reboot, installed>>

\* Thirty seconds pass.
Ages(j) ==
    /\ j \in recent
    /\ recent' = recent \ {j}
    /\ UNCHANGED <<jobs, current, unit, lock, daemon, reboot, installed>>

Next ==
    \/ StartUpgrade \/ CheckRunning \/ CloseJob \/ PointToJob \/ Launch
    \/ LaunchFails \/ DaemonStops \/ ScheduleReboot \/ RebootFires
    \/ \E j \in Jobs : \/ CreateJob(j) \/ UnitStarts(j) \/ TakeLock(j)
                       \/ ReadJob(j) \/ WriteRunning(j) \/ UnitEnds(j) \/ Ages(j)
    \/ \E j \in Jobs, exitCode \in 0 .. 1 : finishUpgrade(j, exitCode)

Spec == Init /\ [][Next]_vars

-----------------------------------------------------------------------------
\* Two updaters never run the package manager at the same time, whatever jobs
\* the daemon closes, starts or loses, and across kills and reboots.
OneInstallation == \A i, j \in Jobs : Installing(i) /\ Installing(j) => i = j

\* What upgrade-status reads is true.  The pointer file never names a job without a file: whatever step the daemon
\* is stopped at, upgrade-status and the next upgrade-start can read it.
CurrentReadable == current # None => jobs[current] # None

\* And a job that the status page shows as completed did install its packages,
\* although the daemon and the updater overwrite each other's copies of it.
CompletedIsTrue == \A j \in Jobs : jobs[j] = "completed" => j \in installed

\* Both at once: the job files can be read and believed, whoever was stopped where.
JobFilesTrue == CurrentReadable /\ CompletedIsTrue

\* scheduleReboot's refusal says that the server cannot be restarted during an
\* upgrade: a request that is accepted finds no upgrade under way.
NoRebootDuringUpgrade ==
    [][ScheduleReboot => \A j \in Jobs : ~Installing(j)]_vars

-----------------------------------------------------------------------------
(* The inductive invariant behind the safety properties. *)

IInv ==
    /\ TypeOK
    /\ \A j \in Jobs : unit[j] \in {"locked", "read", "running"} => lock = j
    /\ daemon # None =>
          /\ daemon.step # "create" => daemon.job \in Jobs /\ jobs[daemon.job] # None
          /\ daemon.step = "launch" => unit[daemon.job] = "none"
          /\ daemon.step = "point" => unit[daemon.job] = "none"
    /\ CurrentReadable
    /\ CompletedIsTrue

=============================================================================
