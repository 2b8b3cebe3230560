------------------------------ MODULE UpdaterJobs ------------------------------
(***************************************************************************)
(* Updater implements UpgradeJobs: the files of the two processes, the lock *)
(* and the units are how a job goes forward.                                *)
(***************************************************************************)
EXTENDS Updater

PhaseOf(j) ==
    IF jobs[j] = None THEN "none"
    ELSE IF j \in installed THEN "installed"
    ELSE IF Installing(j) THEN "installing"
    ELSE IF unit[j] \in {"written", "ended"} THEN "over"
    ELSE "waiting"

Progress == [j \in Jobs |-> PhaseOf(j)]

Upgrades == INSTANCE UpgradeJobs WITH
    UpgradeIds <- Jobs, Absent <- None, phase <- Progress, shown <- jobs

\* Daemon and updater, which overwrite each other's files and are stopped anywhere, move
\* a job as UpgradeJobs says.
ImplementsUpgrades == Upgrades!UpgradesSpec

\* What the refinement needs beside IInv: a job that was installed installs no more.
InstalledDone == \A j \in Jobs : j \in installed => unit[j] \in {"written", "ended"}

JobsInv == IInv /\ InstalledDone
=============================================================================
