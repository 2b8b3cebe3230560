------------------------------- MODULE CronTasks -------------------------------
(***************************************************************************)
(* CronTables implements TaskTable: a command reads all lines, and replaces *)
(* them later, yet it is as if it changed one task at one moment.           *)
(***************************************************************************)
EXTENDS CronTables

\* What the table says of each task; one whose lines are torn says nothing.
Told == [id \in TaskIds |-> IF Written(crontab) THEN Said(crontab, id) ELSE {}]

\* A command, as TaskTable knows it.
CommandOf(call) ==
    [command |-> call.command, target |-> call.target, content |-> call.job, sees |-> ~call.unseen]

ASSUME PendingAssumption ==
    NoTask \notin [command: CronCommands, target: TaskNames, content: JobLines \cup {NoTask}, sees: BOOLEAN]

\* That of the connection that holds the lock.
Pending == IF cronLock = NoTask THEN NoTask ELSE CommandOf(calls[cronLock])

Table == INSTANCE TaskTable WITH
    Names <- TaskIds, Other <- TaskNames \ TaskIds, Contents <- JobLines, Misleading <- Misread,
    Commands <- CronCommands, NoContent <- NoTask, NoCommand <- NoTask,
    tasks <- Told, saves <- edits, pending <- Pending

\* The commands on the crontab change tasks as TaskTable says, one at a time and one
\* task each, whatever the user's lines are and whatever stops or fails.
ImplementsTable == Table!TasksSpec

\* What the refinement needs beside CronInv: the lines to install make of the task what was
\* asked, given what was read of it.
Faithful(call) ==
    /\ call.step = "read" => call.unseen = FALSE
    /\ call.step \in {"save", "install"} =>
          /\ Parses(call.original)
          /\ Table!Effect(CommandOf(call), call.id, Said(call.original, call.id), call.then)

TasksInv == CronInv /\ \A s \in CronSlots : Faithful(calls[s])
=============================================================================
