------------------------------- MODULE TaskTable -------------------------------
(***************************************************************************)
(* What the commands on scheduled tasks promise, without files, lines or    *)
(* lock: a table that has a job for each task and whether it is enabled,    *)
(* and one command at a time, which takes effect at one moment, on the task *)
(* it was asked for, as that task is at this moment.  An enabled task with  *)
(* a misleading content, which is accepted as any other, keeps every later  *)
(* command from taking effect.                                              *)
(*                                                                         *)
(* A person who saves the table by hand may change all of it.  A command    *)
(* that this overtakes, or that did not see the table, may undo it: such a  *)
(* command no longer sees, and what it leaves behind is unknown.            *)
(***************************************************************************)
EXTENDS Naturals

CONSTANTS
    Names,       \* tasks of the panel
    Other,       \* what else a command may be asked for: nothing, a line of the user's
    Contents,    \* schedule and command line
    Misleading,  \* those that do not look like a task
    Commands,
    NoContent, NoCommand

VARIABLES
    tasks,       \* what the table says of each task
    saves,       \* how often it was saved by hand
    pending      \* the command under way

taskVars == <<tasks, saves, pending>>

\* Nothing, or one content in one state; by hand, a task can be written twice.
Said == SUBSET (Contents \X BOOLEAN)

TasksInit ==
    /\ tasks = [n \in Names |-> {}]
    /\ saves = 0
    /\ pending = NoCommand

Ask ==
    /\ pending = NoCommand /\ pending' # NoCommand
    /\ pending' \in [command: Commands, target: Names \cup Other,
                     content: Contents \cup {NoContent}, sees: BOOLEAN]
    /\ pending'.sees
    /\ UNCHANGED <<tasks, saves>>

\* What a command makes of a task that has one content in one state.
Makes(asked, content, enabled, after) ==
    \/ asked.command = "update" /\ after = {<<asked.content, enabled>>}
    \/ asked.command = "suspend" /\ enabled /\ after = {<<content, FALSE>>}
    \/ asked.command = "resume" /\ ~enabled /\ after = {<<content, TRUE>>}
    \/ asked.command = "delete" /\ after = {}

\* A new task; the task with the name; or a line of the user's, which gets one.
Effect(asked, n, before, after) ==
    \/ asked.command = "create" /\ before = {} /\ after = {<<asked.content, TRUE>>}
    \/ /\ asked.target = n
       /\ \E said \in before : before = {said} /\ Makes(asked, said[1], said[2], after)
    \/ /\ asked.target \in Other /\ before = {}
       /\ \E content \in Contents : Makes(asked, content, TRUE, after)

\* No enabled task is taken for something else.
Legible == \A n \in Names, content \in Misleading : <<content, TRUE>> \notin tasks[n]

TakeEffect(n) ==
    /\ pending # NoCommand
    /\ pending.sees
    /\ Legible
    /\ pending' = NoCommand
    /\ tasks' = [tasks EXCEPT ![n] = tasks'[n]]
    /\ Effect(pending, n, tasks[n], tasks'[n])
    /\ UNCHANGED saves

\* A refusal, a failure, or the end of the daemon.
Abandon ==
    /\ pending # NoCommand
    /\ pending' = NoCommand
    /\ UNCHANGED <<tasks, saves>>

Overlook == [pending EXCEPT !.sees = FALSE]

\* The table could not be read.
Miss ==
    /\ pending # NoCommand
    /\ pending' = Overlook
    /\ UNCHANGED <<tasks, saves>>

SaveByHand ==
    /\ saves' = saves + 1
    /\ tasks' \in [Names -> Said]
    /\ \/ UNCHANGED pending
       \/ pending # NoCommand /\ pending' = Overlook

\* The command that did not see ends.
Clobber ==
    /\ pending # NoCommand
    /\ ~pending.sees
    /\ tasks' \in [Names -> Said]
    /\ pending' = NoCommand
    /\ UNCHANGED saves

TasksNext ==
    \/ \E n \in Names : TakeEffect(n)
    \/ Ask \/ Abandon \/ Miss \/ SaveByHand \/ Clobber

TasksSpec == TasksInit /\ [][TasksNext]_taskVars
=============================================================================
