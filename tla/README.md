# A TLA+ verification of AegisAdmin

AegisAdmin is a web control panel for a Linux server. This directory holds TLA+
models of the parts of it whose correctness depends on the order of events, the
TLC configurations that check them on small instances, and TLAPS proofs of
their safety properties for every instance. `PROJECT.json` maps every
definition to the lines it stands for; paths below are relative to
`src/backend/go/internal/` unless they start with `src/`.

## 1. The system

Two processes and a few helpers share a machine.

* **aegisadmin-web** (unprivileged) serves HTTP. It keeps the users in SQLite
  (`authstore`), the sessions in memory and in one file (`websession`), the
  attempt limiter in memory (`webauth`), and forwards every command on the
  server to the daemon (`client`, `web*` packages).
* **aegisadmin-daemon** (root) accepts one request per connection on a Unix
  socket (`server`), finds the handler of the domain (`router`) and runs
  it in a goroutine of its own (`domain/*`). No lock spans the domains; a few
  have one (`upgradeMu`, the composer's mutex, a `flock` around the crontab).
* **aegisadmin-updater@job** is a systemd unit the daemon starts for one upgrade;
  **aegisadmin-backup** is started by cron; **aegisadmin-admin** is the local
  recovery command; `cron-runner.py` and `certbot-runner.py` run jobs outside
  the daemon and leave their results in files.

### Inventory

| Component | State | Operations | What is hard | What makes it correct |
|---|---|---|---|---|
| Session manager (`websession`) | sessions, session file, time of last write | Create, Rotate, Get, Destroy, load | failed writes before and after the rename, restart, power loss, capacity, expiry | ended sessions stay ended; the file can be loaded; one session's failure costs no other; identity changes only with the identifier |
| Login and account handlers (`webapp`, `webauth`, `authstore`) | users table; locals of every request under way | login, challenge, enrollment, password change, account pages, administration, recovery commands | handlers read a session, then a row, then update, then rotate, with other requests in between | an accepted session has proved the current password and second factor and owes nothing |
| Login limiter (`webauth/limiter.go`) | counters per address and login | Allowed, Failure, Success | check and count are apart; a lockout must end | wrong guesses per window are bounded; a locked key opens again |
| Backup and restoration (`authstore/backup.go`, `webapp/settings.go`) | database content, safety copy | backup, restore | four separate operations, cancellation in between, logins during it | an active root account remains; old sessions end |
| Upgrades and reboot (`domain/updates/upgrade.go`) | job files, pointer, lock, unit | start, status, reboot, run | daemon and updater share files; restarts, kills, reboots | one installation at a time; no false completion; no reboot during an upgrade |
| Daemon transport (`client`, `server`, `router`, `protocol`, `api`) | connections | Execute, handleConnection, Route | the client's deadline passes while the command runs; retries | a command runs at most once per request; an answer belongs to its request |
| Permissions and modules (`authstore`, `webapp`) | levels per user and module, enabled modules, policies | authorise, change permissions | changed while a request is under way | a command runs only for a level that allows it |
| Virtual hosts (`domain/apache`) | site files, links, running configuration | create, update, enable, disable, delete, reload, restart | no lock; each mutation backs up, writes, validates and restores | what is enabled on disk stays valid |
| Configuration snapshots (`domain/configuration`) | immutable files, metadata | create, import, rename, delete, compare | no lock; two creations of one second share a file, which a failed metadata write removes | an announced snapshot stays until it is deleted; its label says how it came |
| Firewall (`domain/firewall`) | rule list of ufw or firewalld | add, delete, enable, disable, reload | rules are addressed by position; actions run five seconds later, in processes of their own | the rule that was confirmed, and shown, is the one removed; a completed action is in force |
| Scheduled tasks (`domain/cron`, `cron-runner.py`) | crontabs, job metadata, result files | create, edit, toggle, delete, run, result | the whole table is read and replaced, the user edits it too; a poll judges a run by its file's age | what was answered of a task stays true; a replaced table is saved; a run that is given up is over |
| Access address (`domain/adminaccess`) | listener and proxy configuration | update with rollback | file, link, reload and profile change in turn; the restoration may fail too | a success leaves all in agreement, a refusal puts them back |
| Certificates (`domain/certbot`, `certbot-runner.py`) | certificates, result files | issue, renew, delete | runs outside the daemon, polled; a check of the sites before the deletion | one action at a time; a certificate in use stays |
| Package list (`domain/updates`, composer) | cached inventories | refresh, list | cache shared by requests | the list is of one scan |
| fail2ban, mysql, php, services, tor, logs, network, storage, system | none of their own | read status, restart | external commands with deadlines | input validation |
| Backups of files (`backup/runner.go`, `domain/cron/backup.go`) | two files per task, archives | create, delete, run, purge | stops between the two files; failed transfers; archives found by the start of their name | a schedule has its parameters; a good archive goes only when it is elsewhere or too old |
| Navigation, settings, SMTP secrets, preferences, access log (`authstore`) | rows | edit, reorder, encrypt | reorder over a changed list | positions stay a permutation |
| Database migrations (`authstore/lifecycle.go`) | schema version | Migrate | interrupted migration | each applied once |
| i18n, rendering, download statistics, mysqlsetup, packaging scripts | none that outlives a request | format, render, install | – | – |

### Interactions

A browser request carries a session cookie. `webapp` reads the session
(`websession`), then the account (`authstore`), checks the permission, and for a
server command opens a connection to the daemon, waits at most ten seconds and
renders what comes back. The daemon gives every connection its own goroutine and
thirty seconds, so commands of different users, and a command whose client has
given up, run at the same time. The daemon and the updater meet only in files.
The recovery commands and a restoration change the users table under the web
server while its handlers run.

## 2. Plan

Done in this order, most important behaviour first:

1. `WebSession`: session manager with its disk. *(done, proved)*
2. `WebAuth`: handlers over the users table. *(done, proved)*
3. `WebAuthRestore`: restoration composed with the handlers. *(done, proved)*
4. `Limiter`. *(done, proved)*
5. `Updater`: daemon, updater and systemd. *(done, proved)*
6. `Routes`, `Gateway`: a web request from its checks to the daemon's replies.
   *(done, proved)*
7. `ApacheSites`: concurrent mutations of virtual hosts. *(done, proved)*
8. `Firewall`, `CronTables`, `Executions`, `BackupTasks`, `Snapshots`, `AdminAccess`:
   the domains of the daemon that keep files and start programs. *(done, proved)*
9. Abstract specifications and their refinements: `SessionStore` by `WebSession`,
   `AccountAccess` by `WebAuth`, `UpgradeJobs` by `Updater`, `TaskTable` by
   `CronTables`. *(done, proved)*
10. Reordering of the navigation, migrations, the caches of packages and composer.

Abstract specifications: `SessionStore`, the life of a session identifier without
clock, file or capacity; `AccountAccess`, who may use a session and on which proof,
without requests, rows or versions; `UpgradeJobs`, the life of an upgrade without lock,
pointer or units; `TaskTable`, scheduled tasks changed by one command at a time, each at
one moment (section 3).

Left: the domains without an abstract specification (firewall, sites, backups, snapshots,
runs, requests) have their invariants proved one by one. Those commands can meet with no
lock between them, so a specification that says more than the invariants do would have to
repeat each window in which they undo each other.

## 3. The modules

**WebSession** (`websession/session.go`, `websession/persistence.go`). A method
holds the manager's mutex for its whole body, so a method is one action:
`Create`, `Rotate`, `GetFound`/`GetMissing`, `Destroy`, with their refusals
(`CreateRefused`, `RotateRefused`, `RotateWithoutEntropy`). `file` is what a
reader sees, `synced` what a power loss leaves; `persistLocked` ends `"ok"`,
`"unwritten"` (an error before the rename) or `"unsynced"` (an error after it).
`RestartProcess` and `PowerLoss` are `NewPersistent` over either content. An
identifier is 32 random bytes, so it is never issued twice. `issued` and
`revoked` are history variables. The CSRF token of a session never changes and
is left out.

**SessionStore**, **WebSessionStore**. The first is what the handlers rely on: an
identifier is issued once, for one identity; a live session may lapse at any time; a
lapsed one may come back only with the identity it had, only if that is a lasting
one, and never once it was forgotten; an ended one is forgotten in the same step. The
second maps `WebSession` to it. `Phase` of an identifier is read off memory and the
history; `Holder` is the identity in memory or in either content of the disk, so
that a record which some restart could still read counts as not forgotten: a
`Destroy` that left one behind would not be the abstract `End`. A failed `Create` or
`Rotate` is an `Issue` that lapses at once; a failed `Destroy` is `Reopen`.

**WebAuth** (`webapp/webapp.go`, `webapp/users.go`, `webauth/authentication.go`,
`authstore/store.go`, `admin.go`, `lifecycle.go`). A handler is split where other
requests can come in: `Start` (the session is read), `CheckUser`, `VerifyCode` or
`Authenticate` (the row is read), `PrepareTOTP` and `UpdateUser` (one conditional
UPDATE), `Rotate` (the new session). `requests[r]` holds what the handler has
read. The administrator's pages and `aegisadmin-admin` are `CreateUser`,
`UpdateAdminUser`, `ResetPassword`, `DeleteAdminUser` and `DisableRootTwoFactor`.
The session manager appears through what `WebSession` shows of it: `Rotate`
replaces an identifier by a fresh one, and `SessionEnds` may take a session away
at any time. `password` and `code` of a session are history: the credentials that
were proved to obtain it.

**AccountAccess**, **WebAuthAccess**. The first says what a session is worth: pending,
admitted on a proof of all that its account asks for, or void. A session is given out
once and never promoted, because each step of a login rotates the identifier; a change
of what an account asks for, even to the same, and its end void every session of the account,
and no other. The second maps `WebAuth` to it: `Requirement` is the password, second factor and
debt of each row, `Standing` compares the version that a session carries with the
version of the row. No request appears in `AccountAccess`: that a handler may
rotate with a row it read before the account changed is what the refinement has to
explain, and the answer is that such a session is void from the start. `Withdraw` is a
logout, an expiry or a lost record; a session that only a restart could bring back
counts as present in `WebAuth`.

**WebAuthRestore** (`authstore/backup.go`, `webapp/settings.go`) extends WebAuth with
a restoration in its four operations, `SaveCurrent`, `ReplaceContent`,
`InvalidateRestored`, `FinishRestore`, any of which may be the last
(`RestoreFails`).

**Limiter** (`webauth/limiter.go`, used at `webapp/webapp.go:489-551`). `Begin` is
the call of Allowed that lets a request go on to the verification, `Failure` and
`Success` the calls after it; `wrong` is a history variable that counts the
failed verifications of a key's window.

**Updater** (`domain/updates/upgrade.go`, the unit file). The daemon's
`startUpgrade` is split at every file it reads or writes, because the updater
works on the same files; `upgradeMu` keeps the daemon's own commands apart.
`UnitState` is what systemd reports for a `Type=oneshot` unit: activating for as
long as its process runs.

**UpgradeJobs**, **UpdaterJobs**. A job goes forward only, one installs at a time, one that
was closed before it began never begins, and one is shown as completed from the end of its
installation or never. `Close` shows a job as failed wherever it is: the daemon gives a job
up without stopping it, so a job that is shown as failed may still be installing, and its
end may still be shown. `Progress` reads the phase off the file of the job, its unit and
what was installed.

**ApacheSites** (`domain/apache/mutations.go` and the files it calls). A command is
split at every file it writes and at every program it runs; `ops[w].step` is where
the goroutine of connection `w` is. `content` and `links` are the two directories
(one, where `direct`), `probes` the temporary links of `validateDisabled`, `served`
what Apache loaded last. A program ends as `Runs` says: `"error"` is the deadline,
with or without the effect. What a command undoes is the sequence given by
`AfterTest` and `AfterReload`, and the results of undoing are ignored, as in the
code. `DaemonStop` ends every command where it is and turns probes into `stale`
links. The history variables say which sites a command was not left alone with:
`alone` (no other command on the same site), `lost` (a program that decides about
the file or the link was cut short) and `shaken`.

**Routes** is the web application and the daemon as data: for every route the
check it makes (a session, a level of a module, or the root account), whether it is
a form, and the calls of its client function in order, each with what the function
does when it succeeds, is refused or is lost; and for every domain of the daemon
the commands it has and the number of their arguments. A handler with an action in
its path is one route per action. A route is named for its handler, a client
function for its own name or, where several packages use one name, for its package.

**Gateway** (`webapp`, `authstore`, `client`, `server`, `router`) is a request on its way:
`Session`, `User`, `Gate`, `Form` are the reads that the handler makes one after the other,
`Dispatch` sends a batch of calls, `Connect`, `handleConnection` and `Lost` are a call,
`Follow` is the client function after it. A call that ended as `"lost"` may have been done
or not: its client cannot know. `Administration` and `Browser` change what the request read.
`held` is history: what was true at some moment of the request. `Needed` is the table of
levels of `src/docs/modules-and-permissions.md`; `Required` is the same but for `Delegated`,
the issue and the deletion of a certificate, which `certbotAction` leaves to the level
"action". That, and that `/mysql/metrics` and `/updates/summary` need a session and no
level, is what the violated `DocumentedLevels` shows; `AuthorisedWork` holds of the code
with these named exceptions. Root is refused the routes of a disabled module.

**Executions** (`domain/cron/manage.go`, `result.go`, `domain/certbot`, the two runners of
`src/backend/libexec`). A run is a result file and a unit: `Place` writes the file,
`RunnerStarts` is systemd, `Scheduled` and `NotScheduled` the end of the command, `Boot`,
`OpenLock`, `StartProgram`, `ProgramEnds`, `WriteResult` the runner, which systemd may end
anywhere (`RunnerStopped`). `RunResult` is what a poll answers. Time is kept as the age of
each file and the time that each program has had; `LongestRun` and `GiveUp` are the limits
of the runner and of the poll, which count from different moments, and `StartDelay` is how
long the command waits for systemd, each by the kind of run. Only for Certbot does the poll
wait for both (`DelayAssumption`).

**Firewall** (`domain/firewall`, `webfirewall`, the page). A deletion is `Click`,
`DeleteCheck`, `Delete`, and five seconds later `Verify`, for firewalld `Reread`, and the
removal; the other commands are `Ask` and what systemd runs. `table` and `permanent` are
the two rule sets of firewalld; UFW has the first only. `Outside` is a person at the
console.

**CronTables** (`domain/cron/manage.go`). The table is a sequence of lines: markers with a
job, suspended markers, and plain job lines, whose task is named by the job and its count.
`Records`, `findRecord` and `replace` are the code's functions of these names; a command is
`Begin` (the flock), `ReadTable`, `SaveTable`, `InstallTable`. The user's own edits
(`EditTable`) take no lock. `validTaskInput` takes any five fields for a schedule, so some
jobs, `Misread`, are written and then read back as a comment or a variable (`# 0 2 * *`,
`A=1 * * * *`): after a marker such a line makes the whole table unreadable (`Misled`), on
its own it is passed over, and in a suspended marker, which holds it encoded, it is read as
it was.

**BackupTasks** (`domain/cron/backup.go`, `backup/runner.go`). The two files of a task, and
runs: `LockDestination`, `Dump`, `Transfer`, `DropLocal`, `Purge`. An archive has a name:
that of its task (`NameOf`) and the second in which its run took the lock (`NameNow`,
`stamped`), so that a run of the same second and name renames its archive over the complete
one that is there. `Covers` says which tasks' names begin like which, because the purge
looks at no more of a file.

**Snapshots** (`domain/configuration`). The file, which is linked and never rewritten, and
its metadata, each with its failures. An identifier is the second and the fingerprint, so
`create` of one in the same second finds the file there (`LinkFile`).

**TaskTable**, **CronTasks**. The first is a table with a content and a state for every task
and at most one command under way, which takes effect at one moment, on the task it was
asked for, as that task is then; it is what a reader of `domain/cron/manage.go` would like
to rely on, although the code reads all lines, replaces all lines later, and never looks
again. The second maps `CronTables` to it: `Told` is what the markers of the crontab say of
each task, `Pending` the command of the connection that holds the lock, and the moment is
the installation of the table. A save by hand while a command works, or a listing that
failed, makes the command one that no longer sees: its end may change the table in any way
(`Clobber`), as it does in the code. While an enabled task has a content that is read as
something else (`Legible` fails), no command takes effect.

**AdminAccess** (`domain/adminaccess`). `mode` is the layout: two directories of sites, one,
or no Apache. The update is the sequence of `WriteSite`, `SwitchSite`, `ConfigTest`,
`ReloadServer`, `WriteProfile` (the last two the other way round without Apache), and the
restoration the sequence of `Restore...`, whose failures are noted in `lost` and otherwise
ignored, as in the code.

An `MC` module adds the symmetry sets and the values of constants; `MCApacheSites`,
`MCServerDomains` and `MCGateway` (requests, and attempts at the limiter) compose parts that
share no state: a variable `focus`, drawn at the beginning, says which one moves, and the
others stay in one initial state (`VIEW Moving` compares states by the part that moves). In
`MCServerDomains`, whose backups move once from tasks being made and once from tasks that
are there, connections are interchangeable, and so are the identifiers of tasks, which are
random. `MCApacheSites` also has the count of commands, and `MCGateway` the count of changes
and the rule that they wait while a call is under way or the answer is written, when nobody
reads them. Definitions named `X_Something` directly before `X` are variants of `X` with one
plausible mistake; the properties are shown to notice them (section 4).

## 4. The runs

| Run | Shows | Bounds |
|---|---|---|
| `websession_faults` | `RevokedStaysRevoked`, `RestartAccepted`, `LiveRotationNotRefused`, `OthersStayOnDisk`, `OlderUsesOnDisk` hold under every write failure, restart and power loss, and `ImplementsStore`: the manager implements `SessionStore` | three identifiers over a table of two, so that the table fills and rotates; the clock runs past every timeout; three of the five session states (the other two differ in name only here) |
| `webauth_accounts` | `CurrentPassword`, `SecondFactorPassed`, `PasswordChangeEnforced`, `CredentialChangeEndsSessions` hold for a root and an ordinary account with two overlapping requests, the administrator and the recovery commands, and `ImplementsAccess`: the handlers implement `AccountAccess` | two identifiers, passwords and secrets; four versions; one account at a time exists, either the root or the other: handlers of different accounts share no row |
| `webauth_required` | **violated**: requiring a second factor does not affect open sessions | three versions |
| `restore_root` | `RootStaysActive`: no restoration, however it is interrupted, leaves a server without the active root it had; `RestoreTypeOK` also says that the AUTOINCREMENT counter covers every row | two contents, one restoration |
| `restore_sessions` | **violated**: the restored version plus one may be the version of a session that is open now | the same |
| `updater_reboot` | **violated**: a reboot is accepted thirty seconds into an upgrade | two jobs |
| `apache_sites` | `RefusedKeepsSite`, `SuccessServed`, `SettledSitesAccepted` for two commands interleaved at every step, with every failure, the daemon's stops and a scheduled restart, in both layouts; `SuccessAgrees`, `RefusedUndone` for two overlapping updates of the access address in the three layouts | two connections, two sites, two accepted contents and a refused one, two commands (`MaxCommands`); every initial directory that Apache accepts, drafts and stale links included. Access address: two connections, two addresses, one of them also disabled, any number of updates |
| `gateway_requests` | for every route: `AuthorisedWork`, `Understood`, `Verified`, `SuccessIsReal`, `RunsOnce`, and under fairness `Answered`; for the limiter: `GuessesBounded` with overlapping attempts, `LockoutEnds` under fairness of time | one browser, one request at a time, every module in turn, every level; one change of account, level, module or session besides logins, two (`MaxChanges`) for the firewall, whose deletion makes two calls; numbers of arguments at and beside the limits of `certbot issue`. Limiter: two attempts at once, one address, two logins, limits of three and two, a window of two |
| `gateway_levels` | **violated**: a user without a level on an enabled module has its status read through `/mysql/metrics` | the same |
| `server_domains` | upgrades: `OneInstallation`, `JobFilesTrue`, and `ImplementsUpgrades`: daemon and updater implement `UpgradeJobs`; runs: `OneCertbot`, `PollIsRight`, `UsedCertificateKept`; firewall: `ConfirmedIsRemoved`, `CompletedInForce`; crontabs: `AnsweredIsKept`, and `ImplementsTable`: the commands on a crontab implement `TaskTable`; backups: `ScheduledHasConfig`, `ArchiveKept`; snapshots: `PromisedKept` | three jobs; two runs and a certificate; a poll waits as long as a task may run but not for systemd too, and not as long as a backup; two rules and two actions, both firewalls; two task identifiers, two jobs, one of them misread, two connections, tables to which the user adds up to three lines, one save by hand; three backup tasks and three runs: the name of the first, the only one with a retention, is the start of the second's, which is sent and removed, and not of the third's; two snapshots, one of this server, two connections |
| `firewall_shown` | **violated**: a click on a row removes the rule that has its number now | two rules, two actions |
| `cron_result` | **violated**: a poll gives up a backup that is running within its time | one run |

Every property of a passing run has a mutant in `PROJECT.json`: a mapped
definition is replaced by a variant with a plausible mistake and TLC must then
report that property. The six violation runs state what a comment, a message
or a page of the documentation says, and TLC's counterexample is the
disagreement recorded under "findings". They are kept as runs so that a change of
the code can be followed by a change of the run.

Deadlock is checked in every run but `apache_sites` and `server_domains` (and the two
violation runs taken from it), where a behaviour ends with its last command, run or
identifier: in the other systems something can always happen.

`OlderUsesOnDisk` replaces an earlier statement that a session in use survives every
restart, which the code does not give: `Get` writes at most once a minute, a use within
that minute is written with the next one only, and if no session is used after it, not
at all. The record can so be older than the idle time of a session that was used
within it, and the restart drops it. The comment at `websession/persistence.go:34` and
`src/docs/en/operations.md:50`, which say that authenticated sessions survive
restarts, are true of sessions last used before the last write; that is what the
property states.

The properties of `apache_sites` are conditional, because the code has no lock
around a site: two commands on the same site can restore each other's refused
content, a test that runs out of time leaves an enabled site untested (`enable`,
line 217) or a deleted one restored without its link (`delete`, line 316). What they
show is that this is all: commands on different sites never damage each other,
although each tests the whole server, and a command that was left alone and whose
programs came to an end leaves its site in order.

Those of `server_domains` have exceptions of the same kind, each the width of one unlocked
window of the code: a firewall rule changed between the last comparison and the removal
(`touched`), a certificate that a site takes up while it is being deleted (`overtaken`), a
crontab that its user saves while a command rewrites it or that `crontab -l` fails to show
(`unseen`), a backup task deleted before its creation ended (`raced`), a snapshot announced
on the file of a creation that has not ended, or met by a deletion (`excused`), or whose
metadata two commands wrote (`mixed`). Three others are of the code's conventions: a run
that is given up while it goes on, which `PollIsRight` allows to backups, and to tasks when
systemd was slow (`Waited`); archives that share a name or its start (`Replaced`, `Lapsed`);
a table with a misread schedule (`Misled`). The properties show that nothing outside these
windows goes wrong.

### Bounds

`MaxTime`, `MaxVersion`, `MaxAccounts`, `MaxCount`, `MaxBackups`, `MaxRestores`,
`MaxCommands`, `MaxChanges`, `MaxLines` and `MaxEdits`
cap counters that the code leaves open; each is a guard and nothing else. Ages in
`Executions` stop one past the largest limit they are compared with, those of archives at
`MaxAge`, which exceeds every retention time.
The proofs hold for every value of them.

Every module's type invariant is proved for every instance. Of them the runs state
`RestoreTypeOK`, which includes that of `WebAuth`, and `ConfigurationTypeOK`, the
conjunction over the modules of `apache_sites`; `DomainsTypeOK` is the same for
`server_domains`, and is left to its proof. They say more than types where it matters: who
holds a lock is alive and alone (`Executions`, `CronTables`, `BackupTasks`), the counter of
accounts covers every row, and a connection that rests holds nothing.

### Fairness

Two properties, both of `gateway_requests`, are liveness properties. `LockoutEnds` assumes
weak fairness of `Tick` alone: time passes. No fairness is put on the requests, whose
arrival the code does not control. The other properties are safety properties. `Answered`
assumes that a handler which is not waiting goes on, and that dialling and reading end
(`Connect`, `Lost`), which the client's deadlines of one and ten seconds guarantee. Nothing
is assumed of the daemon.

## 5. The proofs

The `...Proofs` modules prove safety properties for all values of the constants:
`WebSessionProofs` (`WebSession`, `WebSessionStore`), `WebAuthProofs` (`WebAuth`,
`WebAuthAccess`, `WebAuthRestore`), `LimiterProofs`, `RunProofs` (`Updater`, `UpdaterJobs`,
`Executions`), `GatewayProofs` (`Gateway`, `Routes`), `TableProofs` (`Firewall`,
`CronTables`, `CronTasks`), `ArchiveProofs` (`BackupTasks`, `Snapshots`, and the domains
together) and `ApacheProofs` (`ApacheSites`, `AdminAccess`, and the two together). The
inductive invariant of a component is defined at the end of its module, the strengthenings
that only one theorem needs beside their proof; a proof shows that it holds at first, that
every action keeps it, with one lemma per action, and that the properties follow. Each was
checked by TLC on the instance of its run before it was proved. The type invariants are the
first conjuncts.

* **WebSession.** `RevokedStaysRevoked` alone is not inductive: a restart could bring an
  ended session back from the file. `IdInv` adds, for each identifier, that a revoked or
  never issued one is absent from memory *and* from both contents of the disk, that a
  session and its two records are of the same login, and that times are ordered.
  `CapacityInv` bounds all three tables; it rests on `LiveSubset` and `LiveGrown`, about the
  cardinality of a table with an entry removed or added. `RestartIsAccepted` follows from
  these; `OthersAreKept` goes through the writing actions, each of which puts the whole
  table, but for what it ends, in the file; `IdentityIsImmutable` no run states, because
  `ImplementsStore` says it too, but for the creation time. `OlderUsesAreKept` needs
  `UsesInv`: the last write is not in the future, and a use that is older than it is in the
  record of the session in the file, if there is one; a restart from the content that a
  power loss leaves takes the time of the last write back with the sessions. Assumed:
  positive timeouts and capacity, finitely many identifiers.
* **The refinement** (`StoreIsImplemented`). Under the mapping of `WebSessionStore` an
  initial state of `WebSession` is one of `SessionStore`, and a step is, for every
  identifier, one of its steps or none. The proof shows for each action what becomes of
  the phase and of the holder of each identifier; `IdInv` is what rules out that a
  restart reopens a session that was ended, or under another identity.
* **The other refinements.** *`AccessIsImplemented`* (`WebAuth` implements `AccountAccess`)
  needs, beyond the invariant of `WebAuth`, no more than that a step which changes what a
  row asks for raises its version, and that an account which is created has no sessions:
  identifiers of accounts are never used again. Each action either leaves both sides alone,
  gives one session, withdraws one, or changes one row and voids its sessions.
  *`UpgradesAreImplemented`* (`Updater` implements `UpgradeJobs`) adds to the invariant that
  a job which was installed installs no more (`InstalledDone`); without it the phase of a
  job could go back. *`TableIsImplemented`* (`CronTables` implements `TaskTable`) adds
  `Faithful`: between reading and installing, the lines that a command prepared make of its
  task what was asked of the task *as it was read*; `CronInv` says that, unless the command
  no longer sees, the table is still the one it read, so the effect is on the task as it is.
  Assumed: the constant for "no task" is no command (`PendingAssumption`); that for "none"
  is not what an account asks for (`AskedAssumption`).
* **Components together.** `DomainsRefine` and `ConfigurationRefines`: a behaviour of a
  composed run is one of each of its components, so that every theorem about a component
  holds in the run; `DomainsTypeCorrect` and `ConfigurationTypeCorrect` follow.
* **WebAuth.** The properties are about accepted sessions, but a request holds a
  session and a row that it read some time ago. `SoundFor` says what a session
  proves *as long as the account still has the session's version*, `StillTrue` what
  a row that was read still tells under the same condition, and `SoundRequest`
  carries both through a handler. The key fact is that every change of a
  credential raises `auth_version` (`ChangeRaisesVersion`), from which
  `CredentialChangeIsFinal` follows too. Assumed: at most one root.
* **WebAuthRestore.** An uploaded content takes versions back, so nothing of the above
  survives but the shape of sessions and requests (`ShapeInv`). `RestoreInv` adds that a
  content which was accepted has an active root. `RootIsKept` follows step by step: the
  handlers cannot suspend or delete the root, and `ReplaceContent` installs such a
  content only.
* **Limiter.** `KeyInv`: below the limit the counter covers every wrong
  verification, and `wrong` plus the requests that are between Allowed and
  Failure never exceeds the limit minus one plus the number of requests.
* **Updater.** Whoever is past the lock holds it; a job that the daemon is about to
  point to or launch has a file and no unit yet. `JobFilesAreTrue` joins the two
  statements about the job files that are conjuncts of the invariant.
* **Executions.** `RunInv` bounds the age of the file of a run by the wait for systemd and
  the time its program has had, so that no purge takes its file, no poll gives up an action
  of Certbot, and one gives up a task only when the wait exceeded what `GiveUp` leaves
  beyond `LongestRun`; that the lock of certbot belongs to the program that runs
  (`CertbotInv`) gives `CertbotRunsAlone` and `UsedCertificatesAreKept`. Assumed: the start
  delay and `LongestRun` of every kind together do not exceed `Retention`
  (`RunsAssumption`), nor `GiveUp` for the actions of Certbot (`DelayAssumption`): 20
  seconds for `systemd-run`, 900 for the program and 5 to end it, against 930, if certbot
  keeps its outputs open until it ends and dies of SIGKILL (`certbot-runner.py:508`, `670`).
  Of tasks the second is not assumed, because it is false: `systemd-run` has 30 seconds
  (`cron.go:91`), the unit 70 (`manage.go:380`), and the poll waits 75 (`result.go:64`), so
  a task can be given up while it runs; a backup, which has two hours, regularly is.
* **BackupTasks, Snapshots.** `TaskInv` is the order in which the two files of a task come
  and go, `ArchiveInv` that a run which drops its archive has transferred it, `CommandInv`
  what each step of a snapshot command knows of the file, its metadata and its label.
  `ArchivesAreKept` is an action property: `DropLocal`, `Purge` and a `Dump` of the same
  name take a complete archive away, and the invariant says that the first has been
  transferred, that what is at a name was made under that name (`Belongs`), and that runs
  share one only if their tasks' names are alike. Assumed: the name of each task is a start
  of itself, tasks of one name are covered alike, and a task that removes local archives has
  a remote host.
* **Firewall.** The proof needs what a list is: no rule twice, and for firewalld in the
  order of its numbers. `NumberOf` is a bijection from a finite set of rules to its
  places (`Places`, `SortedRules`), and `RemoveAt` and `InsertAt` keep a list a list
  (`Removing`, `Inserting`). `ActInv` then carries the confirmed fingerprint through an
  action: unless the rules were touched since its last comparison, the rule at its number
  is the one it names.
* **CronTables.** `AnsweredIsKept` is about records, which are found by parsing; the
  invariant `CronInv` says the same of markers (`Said`), and that a table which a command is
  about to install says of one task what the answer will, and of every other what the table
  it read does (`Prepared`). Tables that parse can be joined (`Joined`) and cut before a
  record (`Sides`) without a line changing its meaning; so `replace` changes one task
  (`Replacing`), because `findRecord` insists on exactly one record, and a new identifier is
  one that no marker has. `Written`, that every marker is followed by a job, is kept
  whatever the schedules are; a table that is written and not `Misled` is read as what it
  says (`ReadableSays`). Assumed: identifiers that are drawn differ from each other, and
  from those of the user's own lines, which the code keeps apart by their form.
* **AdminAccess.** `AloneInv` says, step by step, what an update that met no other has
  done and what is left to undo; `SuccessIsServed` and `RefusalIsUndone` are its value at
  the end.
* **ApacheSites.** `SitesInv` gives every command that met no other on its site what it
  knows at each step: of its file (`FileKnown`), of its link (`LinkKnown`), of its last
  test (`TestKnown`), and the form of the list of what remains to be undone (`Shape`).
  The hard part of `RestingSitesAreAccepted` is that a test covers *all* sites: a command
  on another site may be refused because of this one, or let it pass, but cannot change
  its file.

* **Gateway.** What a request may do depends on a table of some hundred routes, so the proof
  has two halves. `RouteSound` says what is owed for a route: the level its handler asks
  for, if it asks, is one that each of its commands requires, a handler that asks for none
  gives no lasting or operating command, the reserved commands are behind `rootUser`, a page
  changes nothing, a form goes on only after a success and changes something in its last
  call alone, and the domains take what is sent. `RoutesSound` shows it for every route,
  from lemmas about the works that client functions are put together from (`SingleWork`,
  `InTurnWork`, `FormAfterForm`); the sets of calls they are about (`PlainCalls`,
  `ReadCalls`, `StrictCalls`) make it one step per client function. `GatewayInv` uses
  nothing else of a route. The rights that a request has shown are no longer those of the
  account, so it speaks of what was `held` at some moment of the request, and carries it
  from check to check (`RightsInv`) into the calls (`CallInv`); that a request found its
  account at the version of its session is worth something only because the version never
  goes back. `FormInv` is the order of a form's calls. Assumed: nothing but that `None` is
  no session.

What stays with TLC: `LockoutEnds` and `Answered` (liveness), and the violated properties.

## 6. What is not modelled

* What pages show, translations, and the collectors of the domains that only read
  (`system`, `storage`, `network`, `logs`, `services`, `php`, `mysql`, `tor`, `fail2ban`):
  they format what commands print and keep nothing between requests. Their calls are in
  `Routes`.
* Package inventory and composer: caches behind a mutex of what a package manager
  printed.
* Navigation, settings, preferences, access log: single SQL transactions.
* Download statistics, the MySQL account's setup, the installation scripts.

Within the modelled parts: file permissions and ownership, the wording of answers and the
size of outputs are left out; a certificate's renewal is a run that keeps it (`issue`);
tasks of different users share only the lock, so one table is modelled; backup tasks with
different destinations share nothing, so all have the same one. A second restoration does
not begin during one (`SaveCurrent`), although `backup.go:35` would let it; the removal of a
validation link does not fail (`Judge`; `mutations.go:70` would not notice); a program that
ends with an error has done nothing (`ApacheSites.Runs`; `command.go:42` only sees the
exit), while one that is cut short may have; and when systemd ends a unit, the end of its
program and the release of its lock are one step (`RunnerStopped`, `UnitEnds`), where the
lock goes with the last process that has its file open. Liveness is stated where the code
bounds a wait (`Limiter`, `Gateway`): the runs, the timers of the firewall and the backups
wait for systemd and for programs of other projects. `PROJECT.json` gives the reason for
each component that is left out.
