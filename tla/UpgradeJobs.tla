------------------------------ MODULE UpgradeJobs ------------------------------
(***************************************************************************)
(* What the daemon and the updater promise of an upgrade, without lock,     *)
(* pointer, units or reboots: a job goes forward only, so that it installs  *)
(* at most once; one job installs at a time; one that was closed before it  *)
(* began never begins; and it is shown as completed from the end of its     *)
(* installation, when that succeeded, or never.                             *)
(***************************************************************************)
CONSTANTS UpgradeIds, Absent

VARIABLES
    phase,  \* of each job
    shown   \* the status that upgrade-status reads

upgradeVars == <<phase, shown>>

Phases == {"none", "waiting", "installing", "installed", "over"}

UpgradesInit ==
    /\ phase = [j \in UpgradeIds |-> "none"]
    /\ shown = [j \in UpgradeIds |-> Absent]

Move(j, from, to) ==
    /\ phase[j] = from
    /\ phase' = [phase EXCEPT ![j] = to]

Show(j, status) == shown' = [shown EXCEPT ![j] = status]

Ask(j) == Show(j, "pending") /\ Move(j, "none", "waiting")

Begin(j) ==
    /\ shown[j] = "pending"
    /\ Move(j, "waiting", "installing")
    /\ \A k \in UpgradeIds : phase[k] # "installing"
    /\ UNCHANGED shown

Proceed(j) == Show(j, "running") /\ phase[j] = "installing" /\ UNCHANGED phase

Complete(j) == Show(j, "completed") /\ Move(j, "installing", "installed")

Fail(j) == Show(j, "failed") /\ Move(j, "installing", "over")

\* The daemon gives the job up, wherever it is, and does not stop it.
Close(j) == Show(j, "failed") /\ phase[j] # "none" /\ UNCHANGED phase

\* Processes end: a kill, or a reboot, which ends them all.
Stop ==
    /\ UNCHANGED shown
    /\ phase' \in [UpgradeIds -> Phases]
    /\ \A j \in UpgradeIds :
          \/ phase'[j] = phase[j]
          \/ phase[j] \in {"waiting", "installing"} /\ phase'[j] = "over"

UpgradesNext ==
    \/ Stop
    \/ \E j \in UpgradeIds :
          Ask(j) \/ Begin(j) \/ Proceed(j) \/ Complete(j) \/ Fail(j) \/ Close(j)

UpgradesSpec == UpgradesInit /\ [][UpgradesNext]_upgradeVars
=============================================================================
