-------------------------- MODULE MCServerDomains --------------------------
(* Model checking of the server's domains that change files and run          *)
(* programs.  They share no state: a behaviour is one of a single domain,    *)
(* drawn at the beginning, and the others stay as they were.                 *)
EXTENDS UpdaterJobs, Executions, Firewall, CronTasks, BackupTasks, Snapshots, TLC

CONSTANTS b1, b2, b3   \* the tasks of BackupTasks

VARIABLE focus

\* Of the run kinds of Executions: a task, a backup, certbot.
ByKind(t, b, c) == [k \in RunKinds |-> IF k = "task" THEN t ELSE IF k = "backup" THEN b ELSE c]
\* Of the three only certbot is sure to be over before a poll gives it up: a task when
\* systemd was quick, a backup not even then.
MCStartDelay == ByKind(2, 2, 1)
MCLongestRun == ByKind(1, 2, 1)
MCGiveUp == ByKind(2, 2, 2)

\* b2 and b3 are kept for ever; the name of b1 is the start of that of b2, not of b3's.
MCKeepFor == (b1 :> 1) @@ (b2 :> 0) @@ (b3 :> 0)
MCCovers == (b1 :> {b1, b2}) @@ (b2 :> {b2}) @@ (b3 :> {b3})
MCNameOf == (b1 :> 1) @@ (b2 :> 2) @@ (b3 :> 3)

\* Connections and runs are interchangeable, and one set is all of them; so are the
\* identifiers of tasks, which are random.
Perms == Permutations(FwSlots) \cup Permutations(TaskIds)

\* The files of the backup tasks and the destination of their runs move in behaviours of
\* their own: a run reads the files of its task when it starts, and nothing reads back.
Domains == {"updates", "runs", "firewall", "cron", "schedules", "archives", "snapshots"}

MCInit ==
    /\ focus \in Domains
    /\ Init /\ RunsInit /\ FwInit /\ CronInit /\ BackupInit /\ SnapInit
    \* one initial state of the domains that rest
    /\ focus # "runs" => certs = {}
    /\ focus # "firewall" => ~firewalld /\ table = <<>>
    /\ focus # "cron" => crontab = <<>>
    /\ config = [t \in BackupIds |-> IF focus = "archives" THEN "whole" ELSE "absent"]

MCNext ==
    /\ UNCHANGED focus
    /\ \/ /\ focus = "updates" /\ Next
          /\ UNCHANGED <<execVars, fwVars, cronVars, backupVars, snapVars>>
       \/ /\ focus = "runs" /\ RunsNext
          /\ UNCHANGED <<vars, fwVars, cronVars, backupVars, snapVars>>
       \/ /\ focus = "firewall" /\ FwNext
          /\ UNCHANGED <<vars, execVars, cronVars, backupVars, snapVars>>
       \/ /\ focus = "cron" /\ CronNext
          /\ UNCHANGED <<vars, execVars, fwVars, backupVars, snapVars>>
       \/ /\ focus = "schedules" /\ BackupNext
          /\ UNCHANGED <<vars, execVars, fwVars, cronVars, destination, snapVars>>
       \/ /\ focus = "archives" /\ BackupNext
          /\ UNCHANGED <<vars, execVars, fwVars, cronVars, files, snapVars>>
       \/ /\ focus = "snapshots" /\ SnapNext
          /\ UNCHANGED <<vars, execVars, fwVars, cronVars, backupVars>>

\* States differ in the domain that moves only.
Moving ==
    CASE focus = "updates" -> <<focus, vars>>
      [] focus = "runs" -> <<focus, execVars>>
      [] focus = "firewall" -> <<focus, fwVars>>
      [] focus = "cron" -> <<focus, cronVars>>
      [] focus \in {"schedules", "archives"} -> <<focus, backupVars>>
      [] focus = "snapshots" -> <<focus, snapVars>>

\* The state of every domain is well formed; a holder of a lock is alive and alone.
DomainsTypeOK == TypeOK /\ RunsTypeOK /\ FwTypeOK /\ CronTypeOK /\ BackupTypeOK /\ SnapTypeOK

MCSpec ==
    /\ MCInit
    /\ [][MCNext]_<<focus, vars, execVars, fwVars, cronVars, backupVars, snapVars>>
=============================================================================
