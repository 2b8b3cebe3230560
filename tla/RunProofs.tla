------------------------------- MODULE RunProofs -------------------------------
(***************************************************************************)
(* Proofs about what runs in units of its own: Updater, for any number of  *)
(* jobs, and Executions, for any number of runs and certificates, any      *)
(* limits and any retention that satisfy its assumptions.                  *)
(*                                                                         *)
(* Updater: whoever is between its flock and its last write is the holder  *)
(* of the lock, and only a process's own end (or a reboot) takes the lock  *)
(* away; a job file, once written, never disappears, and only              *)
(* finishUpgrade writes "completed".                                       *)
(*                                                                         *)
(* Executions: the file of a run whose runner is alive was written when    *)
(* the daemon asked for the unit, at most StartDelay before the unit was   *)
(* started, and ages with the program only, so no other run is old enough  *)
(* to purge it, and no poll to give it up where DelayAssumption holds      *)
(* (RunInv); whoever is between open_lock and the end of Certbot holds     *)
(* certbot.lock (CertbotInv).                                              *)
(***************************************************************************)
EXTENDS UpdaterJobs, Executions, TLAPS

-----------------------------------------------------------------------------
(* Updater. *)

\* The initial state satisfies the inductive invariant.
LEMMA InitInv == ASSUME Init PROVE IInv
BY NoneAssumption
   DEF Init, IInv, TypeOK, UnitSteps, Statuses, CurrentReadable, CompletedIsTrue

\* The steps of startUpgrade and scheduleReboot preserve it.
LEMMA DaemonStep ==
    ASSUME IInv,
           \/ StartUpgrade \/ CheckRunning \/ CloseJob \/ PointToJob \/ Launch
           \/ LaunchFails \/ DaemonStops \/ ScheduleReboot \/ RebootFires
    PROVE  IInv'
<1> USE NoneAssumption DEF IInv, TypeOK, CurrentReadable, CompletedIsTrue
<1>1. CASE StartUpgrade
  BY <1>1 DEF StartUpgrade, InProgress, StartSteps
<1>2. CASE CheckRunning
  BY <1>2 DEF CheckRunning, StartSteps
<1>3. CASE CloseJob
  BY <1>3 DEF CloseJob, Write, StartSteps, Statuses
<1>4. CASE PointToJob
  BY <1>4 DEF PointToJob, StartSteps
<1>5. CASE Launch
  BY <1>5 DEF Launch, UnitSteps
<1>6. CASE LaunchFails
  BY <1>6 DEF LaunchFails, Write, Statuses
<1>7. CASE DaemonStops
  BY <1>7 DEF DaemonStops
<1>8. CASE ScheduleReboot
  BY <1>8 DEF ScheduleReboot
<1>9. CASE RebootFires
  BY <1>9 DEF RebootFires, UnitSteps
<1>10. QED BY <1>1, <1>2, <1>3, <1>4, <1>5, <1>6, <1>7, <1>8, <1>9

\* The creation of a job, the updater's steps and the passing of time do too.
LEMMA JobStep ==
    ASSUME IInv, NEW j \in Jobs,
           \/ CreateJob(j) \/ UnitStarts(j) \/ TakeLock(j) \/ ReadJob(j)
           \/ WriteRunning(j) \/ UnitEnds(j) \/ Ages(j)
           \/ \E exitCode \in 0 .. 1 : finishUpgrade(j, exitCode)
    PROVE  IInv'
<1> USE NoneAssumption DEF IInv, TypeOK, CurrentReadable, CompletedIsTrue
<1>1. CASE CreateJob(j)
  BY <1>1 DEF CreateJob, Write, StartSteps, Statuses
<1>2. CASE UnitStarts(j)
  BY <1>2 DEF UnitStarts, UnitSteps
<1>3. CASE TakeLock(j)
  BY <1>3 DEF TakeLock, UnitSteps
<1>4. CASE ReadJob(j)
  BY <1>4 DEF ReadJob, UnitSteps
<1>5. CASE WriteRunning(j)
  BY <1>5 DEF WriteRunning, Write, Installing, Statuses, UnitSteps
<1>6. CASE UnitEnds(j)
  BY <1>6 DEF UnitEnds, Alive, UnitSteps
<1>7. CASE Ages(j)
  BY <1>7 DEF Ages
<1>8. ASSUME NEW exitCode \in 0 .. 1, finishUpgrade(j, exitCode)
      PROVE  IInv'
  BY <1>8 DEF finishUpgrade, Write, Statuses, UnitSteps
<1>9. QED BY <1>1, <1>2, <1>3, <1>4, <1>5, <1>6, <1>7, <1>8

\* Every step preserves the inductive invariant.
LEMMA NextInv == ASSUME IInv, [Next]_vars PROVE IInv'
<1>1. CASE UNCHANGED vars
  BY <1>1 DEF vars, IInv, TypeOK, CurrentReadable, CompletedIsTrue
<1>2. CASE Next
  BY <1>2, DaemonStep, JobStep DEF Next
<1>3. QED BY <1>1, <1>2

\* The inductive invariant holds in every reachable state.
THEOREM Invariance == Spec => []IInv
BY InitInv, NextInv, PTL DEF Spec

\* The files, the units and the daemon's progress are well formed.
THEOREM TypeCorrect == Spec => []TypeOK
<1>1. IInv => TypeOK
  BY DEF IInv
<1>2. QED BY <1>1, Invariance, PTL

\* At most one updater runs the package manager, for any number of jobs.
THEOREM InstallationsExclude == Spec => []OneInstallation
<1>1. IInv => OneInstallation
  BY DEF IInv, OneInstallation, Installing
<1>2. QED BY <1>1, Invariance, PTL

\* The job files are always readable and true: the pointer names a job that has a file,
\* and a job shown as completed did install its packages.
THEOREM JobFilesAreTrue == Spec => []JobFilesTrue
<1>1. IInv => JobFilesTrue
  BY DEF IInv, JobFilesTrue
<1>2. QED BY <1>1, Invariance, PTL

-----------------------------------------------------------------------------
(* Updater implements UpgradeJobs.  A job that was installed is past its     *)
(* last write (InstalledDone), so nothing installs it again.                 *)

\* The invariant of the refinement holds in every reachable state.
LEMMA JobsInvariance == Spec => []JobsInv
<1>1. Init => InstalledDone
  BY DEF Init, InstalledDone
<1>2. ASSUME JobsInv, [Next]_vars PROVE InstalledDone'
  <2> USE DEF InstalledDone, JobsInv, IInv, TypeOK
  <2>1. CASE UNCHANGED <<unit, installed>>
    BY <1>2, <2>1
  <2>2. CASE Launch
    BY <1>2, <2>2 DEF Launch
  <2>3. CASE RebootFires
    BY <1>2, <2>3 DEF RebootFires
  <2>4. ASSUME NEW j \in Jobs, UnitStarts(j) \/ TakeLock(j) \/ ReadJob(j) \/ WriteRunning(j) \/ UnitEnds(j)
        PROVE  InstalledDone'
    BY <1>2, <2>4 DEF UnitStarts, TakeLock, ReadJob, WriteRunning, Installing, UnitEnds
  <2>5. ASSUME NEW j \in Jobs, NEW exitCode \in 0 .. 1, finishUpgrade(j, exitCode)
        PROVE  InstalledDone'
    BY <1>2, <2>5 DEF finishUpgrade
  <2>6. CASE UNCHANGED vars
    BY <1>2, <2>1, <2>6 DEF vars
  <2>7. CASE StartUpgrade \/ CheckRunning \/ CloseJob \/ PointToJob \/ LaunchFails \/ DaemonStops \/ ScheduleReboot
    BY <1>2, <2>1, <2>7 DEF StartUpgrade, CheckRunning, CloseJob, PointToJob, LaunchFails, DaemonStops, ScheduleReboot
  <2>8. ASSUME NEW j \in Jobs, CreateJob(j) \/ Ages(j) PROVE InstalledDone'
    BY <1>2, <2>1, <2>8 DEF CreateJob, Ages
  <2>9. QED BY <1>2, <2>2, <2>3, <2>4, <2>5, <2>6, <2>7, <2>8 DEF Next
<1>3. Init => IInv
  BY InitInv
<1>4. JobsInv /\ [Next]_vars => JobsInv'
  BY <1>2, NextInv DEF JobsInv
<1>5. Init => JobsInv
  BY <1>1, <1>3 DEF JobsInv
<1>6. QED BY <1>4, <1>5, PTL DEF Spec

\* What a phase depends on.
LEMMA SamePhase ==
    ASSUME NEW j \in Jobs, unit'[j] = unit[j], (j \in installed') = (j \in installed),
           (jobs'[j] = None) = (jobs[j] = None)
    PROVE  PhaseOf(j)' = PhaseOf(j)
BY DEF PhaseOf, Installing

\* The phases change where that of one job does.
LEMMA OneMoves ==
    ASSUME NEW j \in Jobs, \A k \in Jobs \ {j} : PhaseOf(k)' = PhaseOf(k)
    PROVE  Progress' = [Progress EXCEPT ![j] = PhaseOf(j)']
BY DEF Progress

LEMMA NoneMoves ==
    ASSUME \A k \in Jobs : PhaseOf(k)' = PhaseOf(k)
    PROVE  Progress' = Progress
BY DEF Progress

\* The steps of the daemon.
LEMMA DaemonImplements ==
    ASSUME JobsInv,
           \/ StartUpgrade \/ CheckRunning \/ CloseJob \/ PointToJob \/ Launch
           \/ LaunchFails \/ DaemonStops \/ ScheduleReboot \/ RebootFires
    PROVE  [Upgrades!UpgradesNext]_<<Progress, jobs>>
<1>1. CASE StartUpgrade \/ CheckRunning \/ PointToJob \/ DaemonStops \/ ScheduleReboot
  <2>1. UNCHANGED <<jobs, unit, installed>>
    BY <1>1 DEF StartUpgrade, CheckRunning, PointToJob, DaemonStops, ScheduleReboot
  <2>2. QED BY <2>1, SamePhase, NoneMoves
<1>2. CASE (CloseJob \/ LaunchFails) /\ Write(daemon.job, "failed")
  <2>1. /\ daemon.job \in Jobs /\ jobs[daemon.job] # None
        /\ jobs' = [jobs EXCEPT ![daemon.job] = "failed"]
        /\ UNCHANGED <<unit, installed>>
    BY <1>2 DEF CloseJob, LaunchFails, Write, JobsInv, IInv, TypeOK
  <2>2. Progress' = Progress
    BY <2>1, SamePhase, NoneMoves, NoneAssumption DEF JobsInv, IInv, TypeOK, Statuses
  <2>3. Progress[daemon.job] # "none"
    BY <2>1 DEF Progress, PhaseOf
  <2>4. Upgrades!Close(daemon.job)
    BY <2>1, <2>2, <2>3 DEF Upgrades!Close, Upgrades!Show
  <2>5. QED BY <2>1, <2>4 DEF Upgrades!UpgradesNext
<1>3. CASE Launch
  <2>1. /\ daemon.job \in Jobs /\ unit[daemon.job] = "none"
        /\ unit' = [unit EXCEPT ![daemon.job] = "queued"]
        /\ UNCHANGED <<jobs, installed>>
    BY <1>3 DEF Launch, JobsInv, IInv, TypeOK
  <2>2. ASSUME NEW k \in Jobs PROVE PhaseOf(k)' = PhaseOf(k)
    <3>1. CASE k = daemon.job
      BY <2>1, <3>1 DEF PhaseOf, Installing, JobsInv, IInv, TypeOK
    <3>2. CASE k # daemon.job
      BY <2>1, <3>2, SamePhase DEF JobsInv, IInv, TypeOK
    <3>3. QED BY <3>1, <3>2
  <2>3. QED BY <2>1, <2>2, NoneMoves
<1>4. CASE RebootFires
  <2>1. /\ unit' = [j \in Jobs |-> IF unit[j] = "none" THEN "none" ELSE "ended"]
        /\ UNCHANGED <<jobs, installed>>
    BY <1>4 DEF RebootFires
  <2>2. ASSUME NEW j \in Jobs
        PROVE  \/ PhaseOf(j)' = PhaseOf(j)
               \/ PhaseOf(j) \in {"waiting", "installing"} /\ PhaseOf(j)' = "over"
    BY <2>1 DEF PhaseOf, Installing, JobsInv, IInv, TypeOK
  <2>3. Upgrades!Stop
    <3>1. Progress' \in [Jobs -> Upgrades!Phases]
      BY DEF Progress, PhaseOf, Upgrades!Phases
    <3>2. QED BY <2>1, <2>2, <3>1 DEF Upgrades!Stop, Progress
  <2>4. QED BY <2>3 DEF Upgrades!UpgradesNext
<1>5. CASE (CloseJob \/ LaunchFails) /\ UNCHANGED jobs
  <2>1. UNCHANGED <<jobs, unit, installed>>
    BY <1>5 DEF CloseJob, LaunchFails
  <2>2. QED BY <2>1, SamePhase, NoneMoves
<1>6. QED BY <1>1, <1>2, <1>3, <1>4, <1>5 DEF CloseJob, LaunchFails

\* A job whose process ends, or that was stopped before.
LEMMA JobStops ==
    ASSUME NEW j \in Jobs, UNCHANGED jobs, \A k \in Jobs \ {j} : PhaseOf(k)' = PhaseOf(k),
           \/ PhaseOf(j)' = PhaseOf(j)
           \/ PhaseOf(j) \in {"waiting", "installing"} /\ PhaseOf(j)' = "over"
    PROVE  [Upgrades!UpgradesNext]_<<Progress, jobs>>
<1>1. Progress' \in [Jobs -> Upgrades!Phases]
  BY DEF Progress, PhaseOf, Upgrades!Phases
<1>2. Upgrades!Stop
  BY <1>1 DEF Upgrades!Stop, Progress
<1>3. QED BY <1>2 DEF Upgrades!UpgradesNext

\* The steps of a job: its creation and its updater.
LEMMA JobImplements ==
    ASSUME JobsInv, NEW j \in Jobs,
           \/ CreateJob(j) \/ UnitStarts(j) \/ TakeLock(j) \/ ReadJob(j)
           \/ WriteRunning(j) \/ UnitEnds(j) \/ Ages(j)
           \/ \E exitCode \in 0 .. 1 : finishUpgrade(j, exitCode)
    PROVE  [Upgrades!UpgradesNext]_<<Progress, jobs>>
<1> USE DEF JobsInv, IInv, TypeOK, InstalledDone
<1>a. \A k \in Jobs \ {j} : PhaseOf(k)' = PhaseOf(k)
  <2> SUFFICES ASSUME NEW k \in Jobs \ {j} PROVE PhaseOf(k)' = PhaseOf(k)
    OBVIOUS
  <2>1. /\ unit'[k] = unit[k] /\ (k \in installed') = (k \in installed)
        /\ jobs'[k] = jobs[k]
    BY DEF CreateJob, UnitStarts, TakeLock, ReadJob, WriteRunning, UnitEnds, Ages, finishUpgrade, Write
  <2>2. QED BY <2>1, SamePhase
<1>b. Progress' = [Progress EXCEPT ![j] = PhaseOf(j)'] /\ Progress[j] = PhaseOf(j)
  BY <1>a, OneMoves DEF Progress
<1>1. CASE CreateJob(j)
  <2>1. PhaseOf(j) = "none" /\ PhaseOf(j)' = "waiting"
    BY <1>1, NoneAssumption DEF CreateJob, Write, PhaseOf, Installing, Statuses
  <2>2. Upgrades!Ask(j)
    BY <1>1, <1>b, <2>1 DEF CreateJob, Write, Upgrades!Ask, Upgrades!Show, Upgrades!Move
  <2>3. QED BY <2>2 DEF Upgrades!UpgradesNext
<1>2. CASE UnitStarts(j) \/ TakeLock(j) \/ Ages(j) \/ UnitEnds(j)
  <2>1. UNCHANGED <<jobs, installed>>
    BY <1>2 DEF UnitStarts, TakeLock, Ages, UnitEnds
  <2>2. \/ PhaseOf(j)' = PhaseOf(j)
        \/ PhaseOf(j) \in {"waiting", "installing"} /\ PhaseOf(j)' = "over"
    BY <1>2, <2>1 DEF UnitStarts, TakeLock, Ages, UnitEnds, Alive, PhaseOf, Installing
  <2>3. QED BY <1>a, <2>1, <2>2, JobStops
<1>3. CASE ReadJob(j)
  <2>1. CASE jobs[j] = "pending"
    <3>1. PhaseOf(j) = "waiting" /\ PhaseOf(j)' = "installing"
      BY <1>3, <2>1, NoneAssumption DEF ReadJob, PhaseOf, Installing
    <3>2. ASSUME NEW k \in Jobs PROVE Progress[k] # "installing"
      BY <1>3 DEF ReadJob, Progress, PhaseOf, Installing
    <3>3. Upgrades!Begin(j)
      BY <1>3, <1>b, <2>1, <3>1, <3>2 DEF ReadJob, Upgrades!Begin, Upgrades!Move
    <3>4. QED BY <3>3 DEF Upgrades!UpgradesNext
  <2>2. CASE jobs[j] # "pending"
    <3>1. PhaseOf(j) = "waiting" /\ PhaseOf(j)' = "over" /\ UNCHANGED jobs
      BY <1>3, <2>2 DEF ReadJob, PhaseOf, Installing
    <3>2. QED BY <1>a, <3>1, JobStops
  <2>3. QED BY <2>1, <2>2
<1>4. CASE WriteRunning(j)
  <2>1. PhaseOf(j) = "installing" /\ PhaseOf(j)' = "installing"
    BY <1>4, NoneAssumption DEF WriteRunning, Write, PhaseOf, Installing, Statuses
  <2>2. Progress' = Progress
    BY <1>b, <2>1 DEF Progress
  <2>3. Upgrades!Proceed(j)
    BY <1>4, <1>b, <2>1, <2>2 DEF WriteRunning, Write, Upgrades!Proceed, Upgrades!Show
  <2>4. QED BY <2>3 DEF Upgrades!UpgradesNext
<1>5. ASSUME NEW exitCode \in 0 .. 1, finishUpgrade(j, exitCode)
      PROVE  Upgrades!UpgradesNext
  <2>1. PhaseOf(j) = "installing"
    BY <1>5 DEF finishUpgrade, PhaseOf, Installing
  <2>2. CASE exitCode = 0
    <3>1. PhaseOf(j)' = "installed"
      BY <1>5, <2>2, NoneAssumption DEF finishUpgrade, Write, PhaseOf, Statuses
    <3>2. Upgrades!Complete(j)
      BY <1>5, <1>b, <2>1, <2>2, <3>1 DEF finishUpgrade, Write, Upgrades!Complete, Upgrades!Show, Upgrades!Move
    <3>3. QED BY <3>2 DEF Upgrades!UpgradesNext
  <2>3. CASE exitCode # 0
    <3>1. PhaseOf(j)' = "over"
      BY <1>5, <2>3, NoneAssumption DEF finishUpgrade, Write, PhaseOf, Installing, Statuses
    <3>2. Upgrades!Fail(j)
      BY <1>5, <1>b, <2>1, <2>3, <3>1 DEF finishUpgrade, Write, Upgrades!Fail, Upgrades!Show, Upgrades!Move
    <3>3. QED BY <3>2 DEF Upgrades!UpgradesNext
  <2>4. QED BY <2>2, <2>3
<1>6. QED BY <1>1, <1>2, <1>3, <1>4, <1>5

\* Daemon and updater implement the abstract upgrades, for any number of jobs: a job
\* goes forward only, one installs at a time, one closed before it began never begins,
\* and what upgrade-status shows as completed was installed.
THEOREM UpgradesAreImplemented == Spec => ImplementsUpgrades
<1>1. Init => Upgrades!UpgradesInit
  BY DEF Init, Upgrades!UpgradesInit, Progress, PhaseOf
<1>2. JobsInv /\ [Next]_vars => [Upgrades!UpgradesNext]_<<Progress, jobs>>
  <2> SUFFICES ASSUME JobsInv, [Next]_vars PROVE [Upgrades!UpgradesNext]_<<Progress, jobs>>
    OBVIOUS
  <2>1. CASE UNCHANGED vars
    BY <2>1, SamePhase, NoneMoves DEF vars
  <2>2. CASE Next
    BY <2>2, DaemonImplements, JobImplements DEF Next
  <2>3. QED BY <2>1, <2>2
<1>3. QED BY <1>1, <1>2, JobsInvariance, PTL
      DEF Spec, ImplementsUpgrades, Upgrades!UpgradesSpec, Upgrades!upgradeVars

-----------------------------------------------------------------------------
(* Executions. *)

\* What a program is, without the records.
LEMMA ProgramFacts ==
    ASSUME NEW p \in Programs
    PROVE  /\ p.kind \in RunKinds
           /\ p.kind \in CertbotKinds => p.cert \in Certs
BY DEF Programs, RunKinds, CronKinds, CertbotKinds

\* A purge takes no file that a runner or the daemon still answers for.
LEMMA PurgeSpares ==
    ASSUME ExecInv, NEW spared, NEW kind
    PROVE  /\ Purged(spared, kind) \in [Runs -> Results]
           /\ \A q \in Runs :
                 /\ Purged(spared, kind)[q] \in {result[q], NoResult}
                 /\ Active(q) \/ order[q] = "placed" => Purged(spared, kind)[q] = result[q]
<1>1. NoResult \in Results
  BY RunsAssumption DEF NoResult, Results
<1>2. Purged(spared, kind) \in [Runs -> Results]
  BY <1>1 DEF Purged, ExecInv, RunsTypeOK
<1>3. ASSUME NEW q \in Runs, Active(q) \/ order[q] = "placed"
      PROVE  ~(result[q].age > Retention)
  <2>1. /\ program[q].kind \in RunKinds /\ result[q].age \in Nat /\ spent[q] \in Nat
    BY ProgramFacts, RunsAssumption DEF ExecInv, RunsTypeOK, Results
  <2>2. /\ LongestRun[program[q].kind] \in Nat /\ StartDelay[program[q].kind] \in Nat
        /\ Retention \in Nat
        /\ StartDelay[program[q].kind] + LongestRun[program[q].kind] <= Retention
    BY <2>1, RunsAssumption
  <2>3. spent[q] <= LongestRun[program[q].kind] /\ result[q].age <= StartDelay[program[q].kind] + spent[q]
    BY <1>3, <2>1, <2>2 DEF ExecInv, RunInv
  <2>4. QED BY <2>1, <2>2, <2>3
<1>4. QED BY <1>2, <1>3 DEF Purged

-----------------------------------------------------------------------------
\* The first state of the runs.
LEMMA InitExec == RunsInit => ExecInv
<1> SUFFICES ASSUME RunsInit PROVE ExecInv
  OBVIOUS
<1>1. [kind |-> "task", cert |-> Nobody] \in Programs
  BY DEF Programs, CronKinds
<1>2. NoResult \in Results /\ NoResult.age = 0
  BY RunsAssumption DEF NoResult, Results
<1>3. RunsTypeOK
  BY <1>1, <1>2 DEF RunsInit, RunsTypeOK, RunnerSteps
<1>4. ASSUME NEW r \in Runs PROVE RunInv(r) /\ CertbotInv(r)
  <2>1. LongestRun["task"] \in Nat
    BY RunsAssumption DEF RunKinds, CronKinds
  <2>2. QED BY <2>1 DEF RunsInit, RunInv, CertbotInv, Active
<1>5. UsedCertificateKept
  BY DEF RunsInit, UsedCertificateKept
<1>6. QED BY <1>3, <1>4, <1>5 DEF ExecInv

\* startExecution and startAction, up to the placeholder.
LEMMA PlaceStep ==
    ASSUME ExecInv, NEW r \in Runs, NEW p \in Programs, Place(r, p)
    PROVE  ExecInv'
<1> DEFINE kept == IF p.kind \in CronKinds THEN Purged({}, p.kind) ELSE result
           new == [status |-> "running", age |-> 0]
<1>1. /\ order[r] = "unused" /\ runner[r] = "none" /\ spent[r] = 0
      /\ program' = [program EXCEPT ![r] = p]
      /\ runner' = runner /\ spent' = spent /\ certbotLock' = certbotLock
      /\ certs' = certs /\ used' = used /\ overtaken' = overtaken
  <2>1. order[r] = "unused" /\ program' = [program EXCEPT ![r] = p]
        /\ UNCHANGED <<runner, spent, certbotLock, world>>
    BY DEF Place
  <2>2. RunInv(r)
    BY DEF ExecInv
  <2>3. runner[r] = "none" /\ spent[r] = 0
    BY <2>1, <2>2 DEF RunInv
  <2>4. QED BY <2>1, <2>3 DEF world
<1>2. /\ kept \in [Runs -> Results]
      /\ \A q \in Runs : /\ kept[q] \in {result[q], NoResult}
                         /\ Active(q) \/ order[q] = "placed" => kept[q] = result[q]
  <2>1. result \in [Runs -> Results]
    BY DEF ExecInv, RunsTypeOK
  <2>2. QED BY <2>1, PurgeSpares
<1>3. \/ /\ order' = [order EXCEPT ![r] = "placed"]
         /\ result' = [kept EXCEPT ![r] = new]
      \/ /\ order' = [order EXCEPT ![r] = "refused"]
         /\ result' = kept
  BY DEF Place
<1>4. new \in Results /\ new.age = 0 /\ new.status = "running"
  BY RunsAssumption DEF Results
<1> HIDE DEF kept, new
<1>5. RunsTypeOK'
  <2>1. result' \in [Runs -> Results]
    BY <1>2, <1>3, <1>4
  <2>2. certbotLock # r
    BY <1>1, RunsAssumption DEF ExecInv, RunsTypeOK, Active
  <2>3. certbotLock' # Nobody => Active(certbotLock)' /\ IsCertbot(certbotLock)'
    BY <1>1, <2>2 DEF ExecInv, RunsTypeOK, Active, IsCertbot
  <2>4. QED BY <1>1, <1>3, <2>1, <2>3 DEF ExecInv, RunsTypeOK
<1>6. ASSUME NEW q \in Runs PROVE RunInv(q)'
  <2>1. CASE q = r
    <3>1. LongestRun[p.kind] \in Nat /\ StartDelay[p.kind] \in Nat
      BY ProgramFacts, RunsAssumption
    <3>2. program'[r] = p /\ order'[r] \in {"placed", "refused"}
          /\ (order'[r] = "placed" => result'[r] = new)
      BY <1>1, <1>2, <1>3 DEF ExecInv, RunsTypeOK
    <3>3. QED BY <1>1, <1>4, <2>1, <3>1, <3>2, RunsAssumption DEF RunInv, Active
  <2>2. CASE q # r
    <3>1. program'[q] = program[q] /\ order'[q] = order[q] /\ result'[q] = kept[q]
      BY <1>1, <1>2, <1>3, <2>2 DEF ExecInv, RunsTypeOK
    <3>2. RunInv(q)
      BY DEF ExecInv
    <3>3. QED BY <1>1, <1>2, <3>1, <3>2 DEF RunInv, Active
  <2>3. QED BY <2>1, <2>2
<1>7. ASSUME NEW q \in Runs PROVE CertbotInv(q)'
  BY <1>1 DEF ExecInv, RunsTypeOK, CertbotInv, IsCertbot
<1>8. UsedCertificateKept'
  BY <1>1 DEF ExecInv, UsedCertificateKept
<1>9. QED BY <1>5, <1>6, <1>7, <1>8 DEF ExecInv

\* systemd and the answer of systemd-run.
LEMMA SystemdStep ==
    ASSUME ExecInv, NEW r \in Runs, RunnerStarts(r) \/ Scheduled(r) \/ NotScheduled(r)
    PROVE  ExecInv'
<1>1. NoResult \in Results /\ NoResult.age = 0 /\ NoResult.status = "absent"
  BY RunsAssumption DEF NoResult, Results
<1>2. /\ order[r] = "placed" /\ program' = program /\ spent' = spent
      /\ certbotLock' = certbotLock /\ certs' = certs /\ used' = used /\ overtaken' = overtaken
      /\ result' \in [Runs -> Results]
      /\ order' \in [Runs -> {"unused", "placed", "scheduled", "refused"}]
      /\ runner' \in [Runs -> RunnerSteps]
      /\ runner' # runner => runner[r] = "none" /\ runner' = [runner EXCEPT ![r] = "booting"]
      /\ \A q \in Runs \ {r} : result'[q] = result[q] /\ order'[q] = order[q]
  BY <1>1 DEF RunnerStarts, Scheduled, NotScheduled, ordered, world, ExecInv, RunsTypeOK, RunnerSteps
<1>3. RunsTypeOK'
  <2>1. certbotLock' # Nobody => Active(certbotLock)' /\ IsCertbot(certbotLock)'
    BY <1>2 DEF ExecInv, RunsTypeOK, Active, IsCertbot
  <2>2. QED BY <1>2, <2>1 DEF ExecInv, RunsTypeOK
<1>4. ASSUME NEW q \in Runs PROVE RunInv(q)'
  <2>0. StartDelay[program[q].kind] \in Nat /\ Retention \in Nat
    BY ProgramFacts, RunsAssumption DEF ExecInv, RunsTypeOK
  <2>1. RunInv(q) /\ result[q] \in Results /\ spent[q] \in Nat
    BY DEF ExecInv, RunsTypeOK
  <2>2. CASE q # r
    BY <1>2, <2>1, <2>2 DEF RunInv, Active, ExecInv, RunsTypeOK
  <2>3. CASE q = r /\ RunnerStarts(r)
    BY <1>2, <2>0, <2>1, <2>3 DEF RunnerStarts, ordered, RunInv, Active, ExecInv, RunsTypeOK, Results
  <2>4. CASE q = r /\ Scheduled(r)
    BY <1>2, <2>1, <2>4 DEF Scheduled, RunInv, Active, ExecInv, RunsTypeOK
  <2>5. CASE q = r /\ NotScheduled(r)
    BY <1>1, <1>2, <2>0, <2>1, <2>5 DEF NotScheduled, RunInv, Active, ExecInv, RunsTypeOK
  <2>6. QED BY <2>2, <2>3, <2>4, <2>5
<1>5. ASSUME NEW q \in Runs PROVE CertbotInv(q)'
  BY <1>2 DEF ExecInv, RunsTypeOK, CertbotInv, IsCertbot
<1>6. UsedCertificateKept'
  BY <1>2 DEF ExecInv, UsedCertificateKept
<1>7. QED BY <1>3, <1>4, <1>5, <1>6 DEF ExecInv

\* What a step of the runner of r may do to everything else: nothing to the daemon's
\* command, nothing to another runner, and to a file of another run at most a purge.
LEMMA RunnerKeeps ==
    ASSUME ExecInv, NEW r \in Runs, Runner(r)
    PROVE  /\ program' = program /\ order' = order
           /\ overtaken' = overtaken
           /\ runner' \in [Runs -> RunnerSteps]
           /\ spent' \in [Runs -> Nat]
           /\ result' \in [Runs -> Results]
           /\ Active(r)
           /\ spent'[r] = IF runner'[r] = "over" THEN 0 ELSE spent[r]
           /\ \A q \in Runs \ {r} :
                 /\ runner'[q] = runner[q] /\ spent'[q] = spent[q]
                 /\ result'[q] \in {result[q], NoResult}
                 /\ Active(q) \/ order[q] = "placed" => result'[q] = result[q]
<1>1. ASSUME NEW step \in RunnerSteps, GoTo(r, step)
      PROVE  /\ runner' \in [Runs -> RunnerSteps] /\ spent' \in [Runs -> Nat]
             /\ spent'[r] = IF runner'[r] = "over" THEN 0 ELSE spent[r]
             /\ \A q \in Runs \ {r} : runner'[q] = runner[q] /\ spent'[q] = spent[q]
  BY <1>1 DEF GoTo, ExecInv, RunsTypeOK
<1>2. PICK step \in RunnerSteps : GoTo(r, step)
  BY DEF Runner, Boot, OpenLock, StartProgram, ProgramEnds, WriteResult, RunnerStopped, RunnerSteps
<1>3. program' = program /\ order' = order /\ overtaken' = overtaken
  BY DEF Runner, Boot, OpenLock, StartProgram, ProgramEnds, WriteResult, RunnerStopped, ordered, world
<1>4. Active(r)
  BY DEF Runner, Boot, OpenLock, StartProgram, ProgramEnds, WriteResult, RunnerStopped, Active
<1>5. /\ result' \in [Runs -> Results]
      /\ \A q \in Runs \ {r} :
            /\ result'[q] \in {result[q], NoResult}
            /\ Active(q) \/ order[q] = "placed" => result'[q] = result[q]
  <2>1. CASE Boot(r)
    <3>1. result' = result \/ result' = Purged({r}, program[r].kind)
      BY <2>1 DEF Boot
    <3>2. result \in [Runs -> Results]
      BY DEF ExecInv, RunsTypeOK
    <3>3. QED BY <3>1, <3>2, PurgeSpares
  <2>2. CASE OpenLock(r) \/ StartProgram(r) \/ ProgramEnds(r) \/ RunnerStopped(r)
    BY <2>2 DEF OpenLock, StartProgram, ProgramEnds, RunnerStopped, ExecInv, RunsTypeOK
  <2>3. CASE WriteResult(r)
    <3>1. PICK s \in {"finished", "failed"} :
             result' = result \/ result' = [result EXCEPT ![r] = [status |-> s, age |-> 0]]
      BY <2>3 DEF WriteResult
    <3>2. [status |-> s, age |-> 0] \in Results
      BY RunsAssumption DEF Results
    <3>3. QED BY <3>1, <3>2 DEF ExecInv, RunsTypeOK
  <2>4. QED BY <2>1, <2>2, <2>3 DEF Runner
<1>6. QED BY <1>1, <1>2, <1>3, <1>4, <1>5

\* The runner keeps the times: its own file is as it was until the runner is over.
LEMMA RunnerTimes ==
    ASSUME ExecInv, NEW r \in Runs, Runner(r), NEW q \in Runs
    PROVE  RunInv(q)'
<1>1. RunInv(q) /\ RunInv(r)
  BY DEF ExecInv
<1>2. CASE q # r
  BY <1>1, <1>2, RunnerKeeps DEF RunInv, Active
<1>3. CASE q = r
  <2>1. /\ program'[r] = program[r] /\ order'[r] = order[r] /\ Active(r)
        /\ spent'[r] = IF runner'[r] = "over" THEN 0 ELSE spent[r]
    BY RunnerKeeps
  <2>2. order[r] # "unused"
    BY <1>1, <2>1 DEF RunInv, Active
  <2>3. runner[r] = "running" => runner'[r] \in {"writing", "over"}
    BY DEF Runner, Boot, OpenLock, StartProgram, ProgramEnds, WriteResult, RunnerStopped, GoTo,
           ExecInv, RunsTypeOK
  <2>4. runner[r] = "writing" => runner'[r] = "over"
    BY DEF Runner, Boot, OpenLock, StartProgram, ProgramEnds, WriteResult, RunnerStopped, GoTo,
           ExecInv, RunsTypeOK
  <2>5. runner'[r] # "over" => result'[r] = result[r]
    BY DEF Runner, Boot, OpenLock, StartProgram, ProgramEnds, WriteResult, RunnerStopped, GoTo,
           ExecInv, RunsTypeOK, Purged
  <2>6. result'[r].age = result[r].age \/ result'[r].age = 0
    BY DEF Runner, Boot, OpenLock, StartProgram, ProgramEnds, WriteResult, RunnerStopped, GoTo,
           ExecInv, RunsTypeOK, Purged
  <2>7. LongestRun[program[r].kind] \in Nat /\ StartDelay[program[r].kind] \in Nat
    BY ProgramFacts, RunsAssumption DEF ExecInv, RunsTypeOK
  <2>8. QED BY <1>1, <1>3, <2>1, <2>2, <2>3, <2>4, <2>5, <2>6, <2>7 DEF RunInv, Active
<1>4. QED BY <1>2, <1>3

\* What the end of a program does to the certificates.
LEMMA EffectKeeps ==
    ASSUME ExecInv, NEW r \in Runs, runner[r] = "running", Effect(r)
    PROVE  /\ certs' \subseteq Certs /\ used' \subseteq Certs
           /\ used' \subseteq certs' \cup overtaken
           /\ used' # used => IsCertbot(r) /\ program[r].kind # "delete"
<1>1. IsCertbot(r) => program[r].cert \in Certs
  BY ProgramFacts DEF ExecInv, RunsTypeOK, IsCertbot
<1>2. CertbotInv(r) /\ certs \subseteq Certs /\ used \subseteq Certs
      /\ used \subseteq certs \cup overtaken
  BY DEF ExecInv, RunsTypeOK, UsedCertificateKept
<1>3. QED BY <1>1, <1>2 DEF Effect, IsCertbot, CertbotKinds, CertbotInv

\* The runner keeps to the lock of Certbot.
LEMMA RunnerLocks ==
    ASSUME ExecInv, NEW r \in Runs, Runner(r)
    PROVE  /\ RunsTypeOK' /\ UsedCertificateKept'
           /\ \A q \in Runs : CertbotInv(q)'
<1>1. /\ program' = program /\ overtaken' = overtaken
      /\ runner' \in [Runs -> RunnerSteps]
      /\ \A q \in Runs \ {r} : runner'[q] = runner[q]
  BY RunnerKeeps
<1>2. \A q \in Runs : IsCertbot(q)' <=> IsCertbot(q)
  BY <1>1 DEF IsCertbot
<1>3. /\ certs' \subseteq Certs /\ used' \subseteq Certs /\ UsedCertificateKept'
      /\ used' # used => /\ runner[r] = "running" /\ IsCertbot(r)
                         /\ program[r].kind # "delete"
  BY EffectKeeps, <1>1
  DEF Runner, Boot, OpenLock, StartProgram, ProgramEnds, WriteResult, RunnerStopped, world,
      ExecInv, RunsTypeOK, UsedCertificateKept
<1>4. /\ runner'[r] = "over" /\ certbotLock' = (IF certbotLock = r THEN Nobody ELSE certbotLock)
      \/ /\ runner'[r] # "over" /\ runner'[r] # "none"
         /\ certbotLock' = certbotLock
      \/ /\ runner[r] = "locking" /\ runner'[r] = "launching"
         /\ certbotLock = Nobody /\ certbotLock' = r
  BY DEF Runner, Boot, OpenLock, StartProgram, ProgramEnds, WriteResult, RunnerStopped, Unlock, GoTo,
         ExecInv, RunsTypeOK
<1>5. RunsTypeOK'
  <2>1. certbotLock' \in Runs \cup {Nobody}
    BY <1>4 DEF ExecInv, RunsTypeOK
  <2>2. certbotLock' # Nobody => Active(certbotLock)' /\ IsCertbot(certbotLock)'
    <3>1. CertbotInv(r)
      BY DEF ExecInv
    <3>2. CASE certbotLock' = r
      BY <1>2, <1>4, <3>1, <3>2, RunsAssumption DEF CertbotInv, Active, ExecInv, RunsTypeOK
    <3>3. CASE certbotLock' # r /\ certbotLock' # Nobody
      BY <1>1, <1>2, <1>4, <3>3 DEF Active, ExecInv, RunsTypeOK
    <3>4. QED BY <3>2, <3>3
  <2>3. order' = order /\ spent' \in [Runs -> Nat] /\ result' \in [Runs -> Results]
    BY RunnerKeeps
  <2>4. QED BY <1>1, <1>3, <2>1, <2>2, <2>3 DEF ExecInv, RunsTypeOK
<1>6. ASSUME NEW q \in Runs \ {r} PROVE CertbotInv(q)'
  <2>1. CertbotInv(q) /\ CertbotInv(r)
    BY DEF ExecInv
  <2>2. certbotLock = q => certbotLock' = q /\ used' = used
    <3>1. certbotLock = q => certbotLock' = q
      BY <1>4, RunsAssumption
    <3>2. used' # used => certbotLock = r
      BY <1>3, <2>1 DEF CertbotInv
    <3>3. QED BY <3>1, <3>2
  <2>3. QED BY <1>1, <1>2, <2>1, <2>2 DEF CertbotInv
<1>7. CertbotInv(r)'
  <2>1. CertbotInv(r)
    BY DEF ExecInv
  <2>2. CASE Boot(r)
    BY <1>1, <1>2, <2>2 DEF Boot, GoTo, CertbotInv, ExecInv, RunsTypeOK, IsCertbot
  <2>3. CASE OpenLock(r)
    BY <1>1, <1>2, <2>1, <2>3 DEF OpenLock, GoTo, CertbotInv, ExecInv, RunsTypeOK
  <2>4. CASE StartProgram(r)
    BY <1>1, <1>2, <2>1, <2>4 DEF StartProgram, GoTo, CertbotInv, CanBeDeleted, world, ExecInv, RunsTypeOK
  <2>5. CASE ProgramEnds(r)
    BY <1>1, <1>2, <2>1, <2>5 DEF ProgramEnds, GoTo, CertbotInv, ExecInv, RunsTypeOK
  <2>6. CASE WriteResult(r) \/ RunnerStopped(r)
    BY <1>1, <1>2, <2>1, <2>6 DEF WriteResult, RunnerStopped, GoTo, CertbotInv, ExecInv, RunsTypeOK
  <2>7. QED BY <2>2, <2>3, <2>4, <2>5, <2>6 DEF Runner
<1>8. QED BY <1>3, <1>5, <1>6, <1>7

\* An administrator enables or disables a site.
LEMMA SiteStep ==
    ASSUME ExecInv, NEW c \in Certs, SiteEnabled(c) \/ SiteDisabled(c)
    PROVE  ExecInv'
<1>1. /\ program' = program /\ order' = order /\ result' = result /\ runner' = runner
      /\ spent' = spent /\ certbotLock' = certbotLock /\ certs' = certs
  BY DEF SiteEnabled, SiteDisabled, ordered
<1>2. /\ used' \subseteq used \cup {c} /\ overtaken \subseteq overtaken'
      /\ overtaken' \subseteq overtaken \cup {c}
      /\ c \in used' => c \in certs \/ c \in used
      /\ c \in used' /\ c \in BeingDeleted => c \in used \/ c \in overtaken'
  BY DEF SiteEnabled, SiteDisabled
<1>3. RunsTypeOK'
  BY <1>1, <1>2 DEF ExecInv, RunsTypeOK, Active, IsCertbot
<1>4. UsedCertificateKept'
  BY <1>1, <1>2 DEF ExecInv, UsedCertificateKept
<1>5. ASSUME NEW q \in Runs PROVE RunInv(q)'
  <2>1. RunInv(q)
    BY DEF ExecInv
  <2>2. QED BY <1>1, <2>1 DEF RunInv, Active
<1>6. ASSUME NEW q \in Runs PROVE CertbotInv(q)'
  <2>1. CertbotInv(q)
    BY DEF ExecInv
  <2>2. runner[q] = "running" /\ program[q].kind = "delete" => program[q].cert \in BeingDeleted
    BY DEF BeingDeleted
  <2>3. QED BY <1>1, <1>2, <2>1, <2>2 DEF CertbotInv, IsCertbot, BeingDeleted
<1>7. QED BY <1>3, <1>4, <1>5, <1>6 DEF ExecInv

\* A tick: only what waits for systemd and the programs that run spend time.
LEMMA TimeStep == ExecInv /\ TimePasses => ExecInv'
<1> SUFFICES ASSUME ExecInv, TimePasses PROVE ExecInv'
  OBVIOUS
<1>1. /\ program' = program /\ order' = order /\ runner' = runner
      /\ certbotLock' = certbotLock /\ certs' = certs /\ used' = used /\ overtaken' = overtaken
  BY DEF TimePasses, ordered, world
<1>2. ASSUME NEW q \in Runs
      PROVE  /\ result'[q] \in Results /\ result'[q].status = result[q].status
             /\ result'[q].age \in {result[q].age, result[q].age + 1}
  <2>1. result[q] \in Results /\ result'[q] = Older(result[q])
    BY DEF TimePasses, ExecInv, RunsTypeOK
  <2>2. QED BY <2>1, RunsAssumption DEF Older, Results
<1>3. ASSUME NEW q \in Runs
      PROVE  spent'[q] = IF runner[q] = "running" THEN spent[q] + 1 ELSE spent[q]
  BY DEF TimePasses
<1>4. RunsTypeOK'
  <2>1. result' \in [Runs -> Results]
    BY <1>2 DEF TimePasses
  <2>2. spent' \in [Runs -> Nat]
    BY DEF TimePasses, ExecInv, RunsTypeOK
  <2>3. QED BY <1>1, <2>1, <2>2 DEF ExecInv, RunsTypeOK, Active, IsCertbot
<1>5. ASSUME NEW q \in Runs PROVE RunInv(q)'
  <2>1. RunInv(q)
    BY DEF ExecInv
  <2>2. /\ runner[q] \in {"none", "running", "over"}
        /\ runner[q] = "running" => spent[q] < LongestRun[program[q].kind]
        /\ order[q] = "placed" => result[q].age < StartDelay[program[q].kind]
    BY DEF TimePasses
  <2>3. /\ LongestRun[program[q].kind] \in Nat /\ StartDelay[program[q].kind] \in Nat
        /\ result[q].age \in Nat /\ spent[q] \in Nat
    BY ProgramFacts, RunsAssumption DEF ExecInv, RunsTypeOK, Results
  <2>4. QED BY <1>1, <1>2, <1>3, <2>1, <2>2, <2>3 DEF RunInv, Active
<1>6. ASSUME NEW q \in Runs PROVE CertbotInv(q)'
  BY <1>1 DEF ExecInv, CertbotInv, IsCertbot
<1>7. UsedCertificateKept'
  BY <1>1 DEF ExecInv, UsedCertificateKept
<1>8. QED BY <1>4, <1>5, <1>6, <1>7 DEF ExecInv

\* Every step preserves the inductive invariant.
LEMMA NextExec == ExecInv /\ [RunsNext]_execVars => ExecInv'
<1> SUFFICES ASSUME ExecInv, [RunsNext]_execVars PROVE ExecInv'
  OBVIOUS
<1>1. ASSUME NEW r \in Runs, NEW p \in Programs, Place(r, p) PROVE ExecInv'
  BY <1>1, PlaceStep
<1>2. ASSUME NEW r \in Runs, RunnerStarts(r) \/ Scheduled(r) \/ NotScheduled(r) PROVE ExecInv'
  BY <1>2, SystemdStep
<1>3. ASSUME NEW r \in Runs, Runner(r) PROVE ExecInv'
  BY <1>3, RunnerTimes, RunnerLocks DEF ExecInv
<1>4. ASSUME NEW c \in Certs, SiteEnabled(c) \/ SiteDisabled(c) PROVE ExecInv'
  BY <1>4, SiteStep
<1>5. CASE TimePasses
  BY <1>5, TimeStep
<1>6. CASE UNCHANGED execVars
  BY <1>6 DEF execVars, ExecInv, RunsTypeOK, UsedCertificateKept, RunInv, CertbotInv, Active, IsCertbot
<1>7. QED BY <1>1, <1>2, <1>3, <1>4, <1>5, <1>6 DEF RunsNext

\* The inductive invariant holds of every behaviour of daemon, systemd, runners and clock.
THEOREM RunsInvariance == RunsSpec => []ExecInv
BY InitExec, NextExec, PTL DEF RunsSpec

\* The results, the runners and certbot.lock are well formed: the lock is that of a live
\* runner of Certbot.
THEOREM RunsTypeCorrect == RunsSpec => []RunsTypeOK
<1>1. ExecInv => RunsTypeOK
  BY DEF ExecInv
<1>2. QED BY <1>1, RunsInvariance, PTL

\* Two actions of Certbot never run at once, whatever else was started or stopped.
THEOREM CertbotRunsAlone == RunsSpec => []OneCertbot
<1>1. ExecInv => OneCertbot
  BY DEF ExecInv, CertbotInv, OneCertbot
<1>2. QED BY <1>1, RunsInvariance, PTL

\* A poll finds the file of an announced run that is going on, gives no action of Certbot
\* up before it is over, and a task only when systemd was slow to start it.
THEOREM PollsAreRight == RunsSpec => []PollIsRight
<1>1. ASSUME ExecInv, NEW r \in Runs, Active(r)
      PROVE  /\ order[r] = "scheduled" => RunResult(r) # "absent"
             /\ RunResult(r) = "given up" =>
                   /\ ~IsCertbot(r)
                   /\ program[r].kind = "task" =>
                         Waited(r) > GiveUp["task"] - LongestRun["task"]
  <2> DEFINE k == program[r].kind
  <2>1. RunInv(r) /\ result[r].age \in Nat /\ spent[r] \in Nat
    BY <1>1, RunsAssumption DEF ExecInv, RunsTypeOK, Results
  <2>2. k \in RunKinds
    BY <1>1, ProgramFacts DEF ExecInv, RunsTypeOK
  <2>3. GiveUp[k] \in Nat /\ LongestRun[k] \in Nat /\ StartDelay[k] \in Nat
    BY <2>2, RunsAssumption
  <2>4. /\ result[r].status \in {"running", "absent"}
        /\ order[r] = "scheduled" => result[r].status = "running"
        /\ spent[r] <= LongestRun[k] /\ result[r].age <= StartDelay[k] + spent[r]
    BY <1>1, <2>1 DEF RunInv
  <2>5. RunResult(r) = "given up" => result[r].age > GiveUp[k]
    BY <2>4 DEF RunResult
  <2>6. order[r] = "scheduled" => RunResult(r) # "absent"
    BY <2>4 DEF RunResult
  <2>7. IsCertbot(r) => StartDelay[k] + LongestRun[k] <= GiveUp[k]
    BY DelayAssumption DEF IsCertbot
  <2> HIDE DEF k
  <2>8. ASSUME IsCertbot(r), RunResult(r) = "given up" PROVE FALSE
    <3>1. result[r].age > GiveUp[k] /\ StartDelay[k] + LongestRun[k] <= GiveUp[k]
      BY <2>5, <2>7, <2>8
    <3>2. QED BY <2>1, <2>3, <2>4, <3>1
  <2>9. ASSUME RunResult(r) = "given up" PROVE Waited(r) > GiveUp[k] - LongestRun[k]
    <3>1. result[r].age > GiveUp[k]
      BY <2>5, <2>9
    <3>2. result[r].age - spent[r] > GiveUp[k] - LongestRun[k]
      BY <2>1, <2>3, <2>4, <3>1
    <3>3. QED BY <3>2 DEF Waited
  <2>10. QED BY <2>6, <2>8, <2>9 DEF k
<1>2. ExecInv => PollIsRight
  BY <1>1 DEF PollIsRight
<1>3. QED BY <1>2, RunsInvariance, PTL

\* delete-certificate never takes away a certificate that an enabled site names, unless
\* the site took it up after ensure_certificate_can_be_deleted had looked.
THEOREM UsedCertificatesAreKept == RunsSpec => []UsedCertificateKept
<1>1. ExecInv => UsedCertificateKept
  BY DEF ExecInv
<1>2. QED BY <1>1, RunsInvariance, PTL
=============================================================================
