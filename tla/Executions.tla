------------------------------ MODULE Executions ------------------------------
(***************************************************************************)
(* Programs that the daemon starts and does not wait for: a task of a user's *)
(* crontab, a backup, an action of Certbot (domain/cron, domain/certbot and *)
(* the two runners of libexec).  The daemon writes a result file that says  *)
(* "running" and asks systemd for a unit; the runner of the unit replaces   *)
(* the file when the program is over; a poll of the page reads the file.    *)
(*                                                                         *)
(* Daemon, systemd, runner and poll share only the file, so a poll decides  *)
(* by the file's age when the runner is given up.  Time is kept as ages.    *)
(* The steps of a runner other than its program take less than one tick.    *)
(***************************************************************************)
EXTENDS Integers, FiniteSets

CONSTANTS
    Runs,        \* execution identifiers: 16 random bytes, never drawn twice
    Certs,       \* certificates
    Nobody,      \* no run, no certificate
    LongestRun,  \* by kind: the longest program, with the time to end it
    GiveUp,      \* by kind: the age at which a poll gives a running file up
    StartDelay,  \* by kind: the longest wait for systemd-run
    Retention    \* the age at which a result file is purged

\* backup stands for every run of root, whose time is counted in hours, task for those
\* of the other users.
CronKinds == {"task", "backup"}

\* issue stands for every action that keeps the certificate (issue, reinstall and the
\* renewals): what the others do is among what issue may do.
CertbotKinds == {"issue", "delete"}

RunKinds == CronKinds \cup CertbotKinds

Programs == [kind: CronKinds, cert: {Nobody}] \cup [kind: CertbotKinds, cert: Certs]

ASSUME RunsAssumption ==
    /\ Nobody \notin Runs \cup Certs
    /\ LongestRun \in [RunKinds -> Nat] /\ GiveUp \in [RunKinds -> Nat]
    /\ StartDelay \in [RunKinds -> Nat] /\ Retention \in Nat
    /\ \A k \in RunKinds : StartDelay[k] + LongestRun[k] <= Retention

\* A poll waits for the start and the longest run of an action of Certbot, in seconds
\* 20 + (900 + 5) <= 930.  It does not for Cron: 30 + 70 > 75 for a task, and hours for
\* a backup.
ASSUME DelayAssumption ==
    \A k \in CertbotKinds : StartDelay[k] + LongestRun[k] <= GiveUp[k]

VARIABLES
    program,     \* what each run is
    order,       \* how far the daemon's command is
    result,      \* the result file
    runner,      \* how far the runner is
    spent,       \* time since the unit was started
    certbotLock, \* certbot.lock
    certs,       \* certificates that exist
    used,        \* certificates that an enabled Apache site names
    overtaken    \* history: certificates a site took up while they were being deleted

execVars == <<program, order, result, runner, spent, certbotLock, certs, used, overtaken>>

ordered == <<program, order>>

world == <<certs, used, overtaken>>

-----------------------------------------------------------------------------
NoResult == [status |-> "absent", age |-> 0]

Results == [status: {"absent", "running", "finished", "failed"}, age: 0 .. Retention + 1]

RunnerSteps == {"none", "booting", "locking", "launching", "running", "writing", "failing", "over"}

Active(r) == runner[r] \notin {"none", "over"}

IsCertbot(r) == program[r].kind \in CertbotKinds

SameDirectory(k, l) == (k \in CronKinds) = (l \in CronKinds)

\* The result files of the directory, without those that are too old.
Purged(spared, kind) ==
    [r \in Runs |->
        IF r \notin spared /\ SameDirectory(program[r].kind, kind) /\ result[r].age > Retention
          THEN NoResult ELSE result[r]]

\* Mutant: a poll gives up one tick early.
RunResult_Early(r) ==
    IF result[r].status = "running" /\ result[r].age >= GiveUp[program[r].kind]
      THEN "given up" ELSE result[r].status

\* What a poll answers: runResult and actionResult.
RunResult(r) ==
    IF result[r].status = "running" /\ result[r].age > GiveUp[program[r].kind]
      THEN "given up" ELSE result[r].status

-----------------------------------------------------------------------------
RunsTypeOK ==
    /\ program \in [Runs -> Programs]
    /\ order \in [Runs -> {"unused", "placed", "scheduled", "refused"}]
    /\ result \in [Runs -> Results]
    /\ runner \in [Runs -> RunnerSteps]
    /\ spent \in [Runs -> Nat]
    /\ certbotLock \in Runs \cup {Nobody}
    \* the lock is that of a live runner
    /\ certbotLock # Nobody => Active(certbotLock) /\ IsCertbot(certbotLock)
    /\ certs \subseteq Certs /\ used \subseteq Certs /\ overtaken \subseteq Certs

RunsInit ==
    /\ program = [r \in Runs |-> [kind |-> "task", cert |-> Nobody]]
    /\ order = [r \in Runs |-> "unused"]
    /\ result = [r \in Runs |-> NoResult]
    /\ runner = [r \in Runs |-> "none"]
    /\ spent = [r \in Runs |-> 0]
    /\ certbotLock = Nobody
    /\ certs \in SUBSET Certs
    /\ used \in SUBSET certs
    /\ overtaken = {}

\* startExecution and startAction, up to the placeholder.  Cron purges first.
Place(r, p) ==
    LET kept == IF p.kind \in CronKinds THEN Purged({}, p.kind) ELSE result IN
    /\ order[r] = "unused"
    /\ program' = [program EXCEPT ![r] = p]
    /\ \/ /\ order' = [order EXCEPT ![r] = "placed"]
          /\ result' = [kept EXCEPT ![r] = [status |-> "running", age |-> 0]]
       \/ /\ order' = [order EXCEPT ![r] = "refused"]
          /\ result' = kept
    /\ UNCHANGED <<runner, spent, certbotLock, world>>

\* systemd starts the unit that systemd-run asks for.
RunnerStarts(r) ==
    /\ order[r] = "placed"
    /\ runner[r] = "none"
    /\ runner' = [runner EXCEPT ![r] = "booting"]
    /\ UNCHANGED <<ordered, result, spent, certbotLock, world>>

Scheduled(r) ==
    /\ order[r] = "placed"
    /\ runner[r] # "none"
    /\ order' = [order EXCEPT ![r] = "scheduled"]
    /\ UNCHANGED <<program, result, runner, spent, certbotLock, world>>

\* systemd-run failed or ran out of time (the unit may be running): the file goes.
\* Or the daemon stops at this point: the file stays.
NotScheduled(r) ==
    /\ order[r] = "placed"
    /\ order' = [order EXCEPT ![r] = "refused"]
    /\ \/ result' = [result EXCEPT ![r] = NoResult]
       \/ UNCHANGED result
    /\ UNCHANGED <<program, runner, spent, certbotLock, world>>

-----------------------------------------------------------------------------
(* The runner. *)

GoTo(r, step) ==
    /\ runner' = [runner EXCEPT ![r] = step]
    /\ spent' = IF step = "over" THEN [spent EXCEPT ![r] = 0] ELSE spent

\* main, up to the lock.  The runner of Cron does not look at the file; when the user
\* may no longer run tasks it ends without a result.
Boot(r) ==
    /\ runner[r] = "booting"
    /\ IF IsCertbot(r)
         THEN IF result[r].status = "running"
                THEN GoTo(r, "locking") /\ result' = Purged({r}, program[r].kind)
                ELSE GoTo(r, "failing") /\ UNCHANGED result
         ELSE (GoTo(r, "launching") \/ GoTo(r, "over")) /\ UNCHANGED result
    /\ UNCHANGED <<ordered, certbotLock, world>>

\* Mutant: the lock is taken whoever holds it.
OpenLock_Shared(r) ==
    /\ runner[r] = "locking"
    /\ GoTo(r, "launching")
    /\ certbotLock' = r
    /\ UNCHANGED <<ordered, result, world>>

\* open_lock does not wait: a second action fails.
OpenLock(r) ==
    /\ runner[r] = "locking"
    /\ IF certbotLock = Nobody THEN GoTo(r, "launching") /\ certbotLock' = r
                               ELSE GoTo(r, "failing") /\ UNCHANGED certbotLock
    /\ UNCHANGED <<ordered, result, world>>

\* Mutant: the enabled sites are not searched.
CanBeDeleted_Unused(c) == c \in certs

\* ensure_certificate_can_be_deleted.
CanBeDeleted(c) == c \in certs /\ c \notin used

\* execute, up to the start of the program, which may fail.
StartProgram(r) ==
    /\ runner[r] = "launching"
    /\ \/ /\ program[r].kind = "delete" => CanBeDeleted(program[r].cert)
          /\ GoTo(r, "running")
       \/ GoTo(r, "failing")
    /\ UNCHANGED <<ordered, result, certbotLock, world>>

\* What a program that is over may have done to the certificates.
Effect(r) ==
    LET c == program[r].cert IN
    \/ UNCHANGED <<certs, used>>
    \/ /\ program[r].kind = "issue"
       /\ certs' = certs \cup {c} /\ used' = used \cup {c}
    \/ /\ program[r].kind = "delete"
       /\ certs' = certs \ {c} /\ UNCHANGED used

\* The program ends, or the runner ends it at its limit: both are "finished".
ProgramEnds(r) ==
    /\ runner[r] = "running"
    /\ GoTo(r, "writing")
    /\ Effect(r)
    /\ UNCHANGED <<ordered, result, certbotLock, overtaken>>

\* The lock goes with the process.
Unlock(r) == certbotLock' = IF certbotLock = r THEN Nobody ELSE certbotLock

\* write_result replaces the file, or fails; then the lock is closed.
WriteResult(r) ==
    /\ runner[r] \in {"writing", "failing"}
    /\ \/ result' = [result EXCEPT ![r] =
                [status |-> IF runner[r] = "writing" THEN "finished" ELSE "failed", age |-> 0]]
       \/ UNCHANGED result
    /\ GoTo(r, "over")
    /\ Unlock(r)
    /\ UNCHANGED <<ordered, world>>

\* systemd ends the unit: RuntimeMaxSec, an administrator, a shutdown, no memory.
RunnerStopped(r) ==
    /\ Active(r)
    /\ GoTo(r, "over")
    /\ IF runner[r] = "running" THEN Effect(r) ELSE UNCHANGED <<certs, used>>
    /\ Unlock(r)
    /\ UNCHANGED <<ordered, result, overtaken>>

-----------------------------------------------------------------------------
\* The certificates that a running program is deleting.
BeingDeleted ==
    {program[r].cert : r \in {s \in Runs : runner[s] = "running" /\ program[s].kind = "delete"}}

\* Apache accepts a site only if the certificate it names is there.
SiteEnabled(c) ==
    /\ c \in certs
    /\ used' = used \cup {c}
    /\ overtaken' = overtaken \cup ({c} \cap BeingDeleted)
    /\ UNCHANGED <<ordered, result, runner, spent, certbotLock, certs>>

SiteDisabled(c) ==
    /\ c \in used
    /\ used' = used \ {c}
    /\ UNCHANGED <<ordered, result, runner, spent, certbotLock, certs, overtaken>>

Older(f) == IF f.status = "absent" \/ f.age > Retention THEN f ELSE [f EXCEPT !.age = @ + 1]

TimePasses ==
    /\ \A r \in Runs :
          /\ runner[r] \in {"none", "running", "over"}
          /\ runner[r] = "running" => spent[r] < LongestRun[program[r].kind]
          /\ order[r] = "placed" => result[r].age < StartDelay[program[r].kind]
    /\ result' = [r \in Runs |-> Older(result[r])]
    /\ spent' = [r \in Runs |-> IF runner[r] = "running" THEN spent[r] + 1 ELSE spent[r]]
    /\ UNCHANGED <<ordered, runner, certbotLock, world>>

Runner(r) ==
    \/ Boot(r) \/ OpenLock(r) \/ StartProgram(r) \/ ProgramEnds(r) \/ WriteResult(r)
    \/ RunnerStopped(r)

RunsNext ==
    \/ \E r \in Runs, p \in Programs : Place(r, p)
    \/ \E r \in Runs : RunnerStarts(r) \/ Scheduled(r) \/ NotScheduled(r) \/ Runner(r)
    \/ \E c \in Certs : SiteEnabled(c) \/ SiteDisabled(c)
    \/ TimePasses

RunsSpec == RunsInit /\ [][RunsNext]_execVars

-----------------------------------------------------------------------------
\* Two actions of Certbot never run at once, whatever was started, refused, stopped
\* or given up meanwhile.
OneCertbot ==
    \A r, s \in Runs :
        /\ runner[r] = "running" /\ IsCertbot(r)
        /\ runner[s] = "running" /\ IsCertbot(s)
        => r = s

\* The page says of a run it gave up that it exceeded the maximum duration (app.js):
\* a run that is given up is over.
GivenUpIsOver == \A r \in Runs : RunResult(r) = "given up" => ~Active(r)

\* How long systemd took to start the unit: the file ages with the program from then on.
Waited(r) == result[r].age - spent[r]

\* A poll of a run that is going on finds the file of one that was announced, which no
\* other run has purged, and does not give the run up, although the limits of the runner
\* and of the poll count from two moments: never an action of Certbot, and a task only
\* when systemd took the time by which a poll waits longer than a task may run.
PollIsRight ==
    \A r \in Runs :
        Active(r) =>
            /\ order[r] = "scheduled" => RunResult(r) # "absent"
            /\ RunResult(r) = "given up" =>
                  /\ ~IsCertbot(r)
                  /\ program[r].kind = "task" =>
                        Waited(r) > GiveUp["task"] - LongestRun["task"]

\* No deletion takes away a certificate that an enabled site names, except one that a
\* site took up between the check and the deletion.
UsedCertificateKept == used \subseteq certs \cup overtaken

-----------------------------------------------------------------------------
(* The inductive invariants behind the safety properties. *)

\* What holds of one run: a file that a runner still answers for is no older than the
\* wait for systemd and the time the runner has been given.
RunInv(r) ==
    /\ order[r] = "unused" => runner[r] = "none"
    /\ spent[r] # 0 => runner[r] \in {"running", "writing"}
    /\ spent[r] <= LongestRun[program[r].kind]
    /\ order[r] = "placed" =>
          /\ result[r].age <= StartDelay[program[r].kind]
          /\ runner[r] # "over" => result[r].status = "running"
    /\ Active(r) =>
          /\ result[r].status \in {"running", "absent"}
          /\ result[r].age <= StartDelay[program[r].kind] + spent[r]
          /\ order[r] = "scheduled" => result[r].status = "running"

\* Certbot runs only under the lock, and never deletes what a site named all along.
CertbotInv(r) ==
    /\ runner[r] = "locking" => IsCertbot(r)
    /\ IsCertbot(r) /\ runner[r] \in {"launching", "running", "writing"} =>
          /\ certbotLock = r
          /\ runner[r] = "running" /\ program[r].kind = "delete" =>
                program[r].cert \notin used \/ program[r].cert \in overtaken

ExecInv == RunsTypeOK /\ UsedCertificateKept /\ \A r \in Runs : RunInv(r) /\ CertbotInv(r)
=============================================================================
