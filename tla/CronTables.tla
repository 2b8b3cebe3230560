------------------------------ MODULE CronTables ------------------------------
(***************************************************************************)
(* The tasks of a user's crontab (internal/domain/cron/manage.go).  The     *)
(* daemon keeps its tasks among the lines that the user writes himself:     *)
(* an active task is a marker followed by a job line, a suspended one is a  *)
(* marker that holds the job, and a job line without marker is a task of    *)
(* the user that the first change adopts.                                   *)
(*                                                                         *)
(* A command reads the whole table, saves a copy and installs a new one,    *)
(* under a lock that excludes other commands but not the user's own         *)
(* crontab -e.  The lock is one for all users: one table is enough.  A run  *)
(* of a task changes no table (see Executions).                             *)
(***************************************************************************)
EXTENDS Naturals, FiniteSets, Sequences, SequencesExt

CONSTANTS
    TaskIds,     \* random UUIDs, never drawn twice
    JobLines,    \* schedule and command: five fields, whatever they are, and a command
    Misread,     \* those that read as a comment or a variable: # 0 2 * *, A=1 * * * *
    CronSlots,   \* connections of the daemon
    NoTask,
    MaxLines,    \* bound: the user adds no line to a table this long
    MaxEdits     \* bound: edits by the user

\* An identifier of a task of the user (LegacyId) is told from a UUID.
ASSUME CronAssumption == NoTask \notin TaskIds \cup JobLines \cup CronSlots
                         /\ Misread \subseteq JobLines /\ MaxLines \in Nat /\ MaxEdits \in Nat
                         /\ \A id \in TaskIds : id \notin JobLines \X Nat

ActiveMarker(id) == [kind |-> "active", id |-> id, job |-> NoTask]
SuspendedMarker(id, job) == [kind |-> "suspended", id |-> id, job |-> job]
JobLine(job) == [kind |-> "job", id |-> NoTask, job |-> job]

Lines == {ActiveMarker(id) : id \in TaskIds}
         \cup {SuspendedMarker(id, job) : id \in TaskIds, job \in JobLines}
         \cup {JobLine(job) : job \in JobLines}

CronCommands == {"create", "update", "suspend", "resume", "delete"}

VARIABLES
    crontab,     \* the table
    cronLock,    \* the connection that holds the flock
    calls,       \* the command of each connection
    drawn,       \* UUIDs drawn so far
    acked,       \* history: what the last answer about a task said of it, where it holds still
    edits        \* edits by the user so far

cronVars == <<crontab, cronLock, calls, drawn, acked, edits>>

NoCall == [command |-> "create", step |-> "idle", target |-> NoTask, job |-> NoTask,
           id |-> NoTask, original |-> <<>>, lines |-> <<>>, then |-> {},
           unseen |-> FALSE]

-----------------------------------------------------------------------------
(* parseRecords.  A record stands for the lines start .. end. *)

\* Every active marker has the line of its task after it.
Written(lines) ==
    \A i \in DOMAIN lines :
        lines[i].kind = "active" => i + 1 \in DOMAIN lines /\ lines[i + 1].kind = "job"

\* The line after a marker reads as a comment or a variable.
Misled(lines) ==
    \E i \in DOMAIN lines :
        lines[i].kind = "active" /\ i + 1 \in DOMAIN lines /\ lines[i + 1].job \in Misread

\* A marker that no job follows, or none that reads as one, makes the whole table unreadable.
Parses(lines) == Written(lines) /\ ~Misled(lines)

\* The job lines that no marker precedes, up to i; comments and variables are passed over.
Legacy(lines, i) ==
    {j \in 1 .. i : /\ lines[j].kind = "job" /\ lines[j].job \notin Misread
                    /\ j > 1 => lines[j - 1].kind # "active"}

\* legacyTaskIdentifier: the job and how many of the same came before it.
LegacyId(lines, i) ==
    <<lines[i].job, Cardinality({j \in Legacy(lines, i) : lines[j].job = lines[i].job})>>

Records(lines) ==
    {[id |-> lines[i].id, job |-> lines[i + 1].job, start |-> i, end |-> i + 1,
      enabled |-> TRUE, managed |-> TRUE] : i \in {j \in DOMAIN lines : lines[j].kind = "active"}}
    \cup
    {[id |-> lines[i].id, job |-> lines[i].job, start |-> i, end |-> i,
      enabled |-> FALSE, managed |-> TRUE] : i \in {j \in DOMAIN lines : lines[j].kind = "suspended"}}
    \cup
    {[id |-> LegacyId(lines, i), job |-> lines[i].job, start |-> i, end |-> i,
      enabled |-> TRUE, managed |-> FALSE] : i \in Legacy(lines, Len(lines))}

\* findRecord: exactly one.
findRecord(lines, id) ==
    {r \in Records(lines) : \A x \in Records(lines) : (x.id = id) = (x = r)}

\* Mutant: the last line of the record stays.
replace_KeepsLast(lines, start, end, replacement) ==
    SubSeq(lines, 1, start - 1) \o replacement \o SubSeq(lines, end, Len(lines))

replace(lines, start, end, replacement) ==
    SubSeq(lines, 1, start - 1) \o replacement \o SubSeq(lines, end + 1, Len(lines))

\* The lines of a task in a state: a suspended marker holds its job encoded, so it reads
\* back as it was; the line of an active one reads back as what it looks like.
Rendered(id, job, enabled) ==
    IF enabled THEN <<ActiveMarker(id), JobLine(job)>> ELSE <<SuspendedMarker(id, job)>>

-----------------------------------------------------------------------------
CronTypeOK ==
    /\ crontab \in Seq(Lines)
    /\ cronLock \in CronSlots \cup {NoTask}
    /\ \A s \in CronSlots :
          /\ calls[s].command \in CronCommands
          /\ calls[s].step \in {"idle", "read", "save", "install"}
          /\ calls[s].original \in Seq(Lines) /\ calls[s].lines \in Seq(Lines)
          \* only the holder of the lock is past it
          /\ (calls[s].step # "idle") = (cronLock = s)
    /\ drawn \subseteq TaskIds
    /\ edits \in 0 .. MaxEdits

\* What is said of a task: its job and whether it is enabled, or that there is none.
NothingSaid == [id \in {} |-> {}]

CronInit ==
    /\ crontab \in {<<>>} \cup {<<JobLine(j)>> : j \in JobLines}
    /\ cronLock = NoTask
    /\ calls = [s \in CronSlots |-> NoCall]
    /\ drawn = {}
    /\ acked = NothingSaid
    /\ edits = 0

\* The command ends; the lock, if it has it, is released.
EndCall(s) ==
    /\ calls' = [calls EXCEPT ![s] = NoCall]
    /\ cronLock' = IF cronLock = s THEN NoTask ELSE cronLock

\* validTaskInput counts the fields of the schedule: the Misread ones pass too.
Arguments(command, target, job) ==
    /\ (command = "create") = (target = NoTask)
    /\ (command \in {"create", "update"}) = (job # NoTask)

Begun(command, target, job) ==
    [NoCall EXCEPT !.command = command, !.step = "read", !.target = target, !.job = job]

\* manage: a command whose arguments are accepted waits for the flock.
Begin(s, command, target, job) ==
    /\ calls[s].step = "idle"
    /\ Arguments(command, target, job)
    /\ cronLock = NoTask
    /\ cronLock' = s
    /\ calls' = [calls EXCEPT ![s] = Begun(command, target, job)]
    /\ UNCHANGED <<crontab, drawn, acked, edits>>

\* Mutant: an update renders the task as active.
EnabledAfter_Reset(call, r) == call.command # "suspend"

\* An update leaves a suspended task suspended.
EnabledAfter(call, r) ==
    IF call.command = "update" THEN r.enabled ELSE call.command = "resume"

\* What a command makes of the lines it read: the task's id and lines, if it is allowed.
Changed(call, lines, fresh) ==
    IF call.command = "create"
    THEN {[id |-> fresh, lines |-> lines \o Rendered(fresh, call.job, TRUE),
           then |-> {<<call.job, TRUE>>}]}
    ELSE {LET id == IF r.managed THEN r.id ELSE fresh
              job == IF call.command = "update" THEN call.job ELSE r.job
              enabled == EnabledAfter(call, r)
              deleted == call.command = "delete"
          IN  [id |-> id,
               lines |-> replace(lines, r.start, r.end,
                                 IF deleted THEN <<>> ELSE Rendered(id, job, enabled)),
               then |-> IF deleted THEN {} ELSE {<<job, enabled>>}] :
             r \in {x \in findRecord(lines, call.target) :
                        /\ call.command = "suspend" => x.enabled
                        /\ call.command = "resume" => ~x.enabled}}

\* crontab -l, parseRecords and the change.  Any failure of crontab -l that exits with 1
\* is taken for a table that does not exist.
ReadTable(s) ==
    /\ calls[s].step = "read"
    /\ \/ \E blind \in BOOLEAN, fresh \in (TaskIds \ drawn) \cup {NoTask} :
             LET lines == IF blind THEN <<>> ELSE crontab IN
             /\ Parses(lines)
             /\ \E c \in Changed(calls[s], lines, fresh) :
                   /\ c.id # NoTask
                   /\ calls' = [calls EXCEPT ![s] =
                        [@ EXCEPT !.step = "save", !.id = c.id, !.original = lines,
                                  !.lines = c.lines, !.then = c.then,
                                  !.unseen = blind /\ crontab # <<>>]]
                   /\ drawn' = drawn \cup {c.id}
             /\ UNCHANGED cronLock
       \/ EndCall(s) /\ UNCHANGED drawn
    /\ UNCHANGED <<crontab, acked, edits>>

\* backup: a new file, synced; or nothing is installed.
SaveTable(s) ==
    /\ calls[s].step = "save"
    /\ \/ /\ calls' = [calls EXCEPT ![s].step = "install"]
          /\ UNCHANGED cronLock
       \/ EndCall(s)
    /\ UNCHANGED <<crontab, drawn, acked, edits>>

\* install: crontab refuses the lines or replaces the table; it may be killed after
\* it did.  A failure leaves the task unknown; a command that did not see the table it
\* replaces leaves every task unknown.
InstallTable(s) ==
    LET call == calls[s] IN
    /\ call.step = "install"
    /\ EndCall(s)
    /\ \/ /\ crontab' = call.lines
          /\ acked' = IF call.unseen THEN NothingSaid
                      ELSE [id \in DOMAIN acked \cup {call.id} |->
                              IF id = call.id THEN call.then ELSE acked[id]]
       \/ /\ crontab' \in {crontab, call.lines}
          /\ acked' = IF call.unseen THEN NothingSaid
                      ELSE [id \in DOMAIN acked \ {call.id} |-> acked[id]]
    /\ UNCHANGED <<drawn, edits>>

\* The daemon is stopped: the flock goes with the process.
StopDaemon ==
    /\ cronLock # NoTask
    /\ calls' = [s \in CronSlots |-> NoCall]
    /\ cronLock' = NoTask
    /\ UNCHANGED <<crontab, drawn, acked, edits>>

\* The user saves a table of his own: a line less, a job more, or a line copied.
EditTable ==
    /\ edits < MaxEdits
    /\ edits' = edits + 1
    /\ \/ \E i \in DOMAIN crontab : crontab' = RemoveAt(crontab, i)
       \/ /\ Len(crontab) < MaxLines
          /\ \E i \in 1 .. Len(crontab) + 1, line \in ToSet(crontab) \cup {JobLine(j) : j \in JobLines} :
                crontab' = InsertAt(crontab, i, line)
    /\ acked' = NothingSaid
    /\ calls' = [s \in CronSlots |->
                   IF calls[s].step \in {"save", "install"} THEN [calls[s] EXCEPT !.unseen = TRUE]
                   ELSE calls[s]]
    /\ UNCHANGED <<cronLock, drawn>>

TableStep(s) == ReadTable(s) \/ SaveTable(s) \/ InstallTable(s)

TaskNames == TaskIds \cup (JobLines \X (1 .. MaxLines)) \cup {NoTask}

CronNext ==
    \/ \E s \in CronSlots, c \in CronCommands, t \in TaskNames, j \in JobLines \cup {NoTask} :
          Begin(s, c, t, j)
    \/ \E s \in CronSlots : TableStep(s)
    \/ StopDaemon
    \/ EditTable

CronSpec == CronInit /\ [][CronNext]_cronVars

-----------------------------------------------------------------------------
\* What the markers of the lines say of a task.
Said(lines, id) ==
    {<<lines[i + 1].job, TRUE>> : i \in {j \in DOMAIN lines : lines[j] = ActiveMarker(id)}}
    \cup {<<job, FALSE>> : job \in {k \in JobLines : \E i \in DOMAIN lines : lines[i] = SuspendedMarker(id, k)}}

\* What the daemon reads of a task.
Read(lines, id) == {<<r.job, r.enabled>> : r \in {x \in Records(lines) : x.id = id}}

\* What an answer said of a task stays true of the lines, whatever else is created, changed,
\* adopted, suspended or deleted at the same time: one marker, in that state, or none.  The
\* daemon reads it back too, as exactly one record or none, except while an enabled task has a
\* schedule that reads as a comment or a variable, which validTaskInput accepts: such a task,
\* created, updated or resumed with success, makes the whole table unreadable (parseRecords).
AnsweredIsKept ==
    \A id \in DOMAIN acked :
        /\ Written(crontab) /\ Said(crontab, id) = acked[id]
        /\ Misled(crontab) \/ (Parses(crontab) /\ Read(crontab, id) = acked[id])

-----------------------------------------------------------------------------
(* The inductive invariant behind it. *)

\* The tasks that have a marker.
Marked(lines) == {lines[i].id : i \in DOMAIN lines} \ {NoTask}

CallRecord ==
    [command: CronCommands, step: {"idle", "read", "save", "install"}, target: TaskNames,
     job: JobLines \cup {NoTask}, id: TaskIds \cup {NoTask}, original: Seq(Lines), lines: Seq(Lines),
     then: SUBSET (JobLines \X BOOLEAN), unseen: BOOLEAN]

\* A table to install differs from the one that was read in what it says of one task.
Prepared(call) ==
    /\ call.id \in TaskIds
    /\ Written(call.lines) /\ Marked(call.lines) \subseteq drawn
    /\ ~call.unseen => call.original = crontab
    /\ Said(call.lines, call.id) = call.then
    /\ \A id \in TaskIds \ {call.id} : Said(call.lines, id) = Said(call.original, id)

CronInv ==
    /\ CronTypeOK /\ calls \in [CronSlots -> CallRecord]
    /\ Marked(crontab) \subseteq drawn
    /\ acked = [id \in DOMAIN acked |-> acked[id]] /\ DOMAIN acked \subseteq TaskIds
    /\ \A s \in CronSlots :
          /\ calls[s].step = "read" => Arguments(calls[s].command, calls[s].target, calls[s].job)
          /\ calls[s].step \in {"save", "install"} => Prepared(calls[s])
    /\ AnsweredIsKept
=============================================================================
