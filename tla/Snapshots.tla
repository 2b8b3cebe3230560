------------------------------ MODULE Snapshots ------------------------------
(***************************************************************************)
(* Configuration snapshots (internal/domain/configuration): a directory of  *)
(* immutable files, each with a metadata file that holds its name and says  *)
(* whether it was imported.  The identifier is the second of the snapshot   *)
(* and the fingerprint of its content, so a file is its identifier; two     *)
(* creations in one second of an unchanged server are the same snapshot,    *)
(* and one that was exported and deleted comes back by an import, after the *)
(* second of its creation (an export, a deletion and an import are three    *)
(* requests of a person).                                                   *)
(*                                                                         *)
(* Nothing locks the directory: a command is split at every file.           *)
(***************************************************************************)
EXTENDS FiniteSets

CONSTANTS
    SnapIds,     \* identifiers
    OwnIds,      \* those that this server can create, in their second
    SnapSlots,   \* connections of the daemon
    NoSnap

ASSUME SnapAssumption == OwnIds \subseteq SnapIds /\ NoSnap \notin SnapIds

VARIABLES
    present,     \* <id>.json
    meta,        \* <id>.meta.json: imported or not; none where there is no file
    past,        \* identifiers whose second is over
    tasks,       \* the command of each connection
    origin,      \* history: how the present file came
    promised,    \* history: snapshots that an answer said are there
    excused,     \* history: snapshots promised while their writer could still undo them,
                 \* or while they were being deleted
    mixed        \* history: snapshots whose metadata two commands wrote at once

snapVars == <<present, meta, past, tasks, origin, promised, excused, mixed>>

SnapCommands == {"create", "import", "rename", "delete"}

\* named: snapshot-create was given a name.
NoSnapTask == [command |-> "rename", step |-> "idle", id |-> NoSnap, named |-> FALSE,
               read |-> "none"]

-----------------------------------------------------------------------------
Labels == {"created", "imported"}

SnapTypeOK ==
    /\ present \subseteq SnapIds
    /\ meta \in [SnapIds -> Labels \cup {"none"}]
    /\ past \subseteq SnapIds
    /\ tasks \in [SnapSlots -> [command: SnapCommands,
                                step: {"idle", "find", "link", "label", "undo", "read", "write",
                                       "remove", "unlabel"},
                                id: SnapIds \cup {NoSnap}, named: BOOLEAN,
                                read: Labels \cup {"none"}]]
    /\ \A s \in SnapSlots : tasks[s].step = "idle" => tasks[s] = NoSnapTask
    /\ origin \in [SnapIds -> Labels \cup {"none"}]
    /\ \A id \in SnapIds : origin[id] = "none" <=> id \notin present
    /\ promised \subseteq SnapIds /\ excused \subseteq SnapIds /\ mixed \subseteq SnapIds

SnapInit ==
    /\ present = {}
    /\ meta = [id \in SnapIds |-> "none"]
    /\ past = SnapIds \ OwnIds
    /\ tasks = [s \in SnapSlots |-> NoSnapTask]
    /\ origin = [id \in SnapIds |-> "none"]
    /\ promised = {} /\ excused = {} /\ mixed = {}

\* Another command on the same snapshot.
Meets(s, id) == \E t \in SnapSlots \ {s} : tasks[t].id = id

\* One of two commands on the same snapshot is to delete it.
MeetsDelete(s, command, id) ==
    \E t \in SnapSlots \ {s} : tasks[t].id = id /\ "delete" \in {command, tasks[t].command}

\* A command that has linked the file and not yet written its metadata.
Undoable(s, id) ==
    \E t \in SnapSlots \ {s} : tasks[t].id = id /\ tasks[t].step \in {"label", "undo"}

AtStep(s, step) == tasks[s].step = step

Proceed(s, step) == tasks' = [tasks EXCEPT ![s].step = step]

FinishSnap(s) == tasks' = [tasks EXCEPT ![s] = NoSnapTask]

\* The answer says that the snapshot is there.
Promise(s, id) ==
    /\ promised' = promised \cup {id}
    /\ excused' = IF Undoable(s, id) THEN excused \cup {id} ELSE excused

NoPromise == UNCHANGED <<promised, excused>>

-----------------------------------------------------------------------------
FirstStep(command) ==
    CASE command = "create" -> "link"
      [] command = "import" -> "find"
      [] command = "rename" -> "read"
      [] OTHER -> "remove"

\* Handle.
AskSnapshot(s, command, id, named) ==
    /\ AtStep(s, "idle")
    /\ command = "create" => id \notin past
    /\ command = "import" => id \in past
    /\ named => command = "create"
    /\ tasks' = [tasks EXCEPT ![s] =
          [NoSnapTask EXCEPT !.command = command, !.id = id, !.named = named,
             !.step = FirstStep(command)]]
    /\ mixed' = IF Meets(s, id) THEN mixed \cup {id} ELSE mixed
    \* what is to be deleted is no longer promised
    /\ promised' = IF command = "delete" THEN promised \ {id} ELSE promised
    /\ excused' = IF MeetsDelete(s, command, id) THEN excused \cup {id} ELSE excused
    /\ UNCHANGED <<present, meta, origin, past>>

\* importSnapshot: the content is a snapshot, whose file is not there yet.
FindFree(s) ==
    /\ AtStep(s, "find")
    /\ \/ tasks[s].id \notin present /\ Proceed(s, "link")
       \/ FinishSnap(s)
    /\ UNCHANGED <<present, meta, origin, promised, excused, mixed, past>>

\* After a creation: snapshot-create with a name renames it.
AfterCreate(s) == IF tasks[s].named THEN Proceed(s, "read") ELSE FinishSnap(s)

\* Mutant: a file that is there is undone as if it had been written.
LinkFile_UndoExisting(s) ==
    LET id == tasks[s].id IN
    /\ AtStep(s, "link")
    /\ \/ /\ id \notin present
          /\ present' = present \cup {id}
          /\ origin' = [origin EXCEPT ![id] =
                           IF tasks[s].command = "create" THEN "created" ELSE "imported"]
          /\ Proceed(s, "label")
       \/ Proceed(s, "undo") /\ UNCHANGED <<present, origin>>
    /\ UNCHANGED <<meta, promised, excused, mixed, past>>

\* writeImmutable: link fails where the file exists.  create then answers with the one
\* that is there; import fails.
LinkFile(s) ==
    LET id == tasks[s].id IN
    /\ AtStep(s, "link")
    /\ \/ /\ id \notin present
          /\ present' = present \cup {id}
          /\ origin' = [origin EXCEPT ![id] =
                           IF tasks[s].command = "create" THEN "created" ELSE "imported"]
          /\ Proceed(s, "label")
          /\ NoPromise
       \/ /\ id \in present /\ tasks[s].command = "create"
          /\ AfterCreate(s)
          /\ Promise(s, id)
          /\ UNCHANGED <<present, origin>>
       \/ FinishSnap(s) /\ NoPromise /\ UNCHANGED <<present, origin>>
    /\ UNCHANGED <<meta, mixed, past>>

\* writeMetadata: a rename, or nothing; then the file is to be removed.
LabelFile(s) ==
    LET id == tasks[s].id IN
    /\ AtStep(s, "label")
    /\ \/ /\ meta' = [meta EXCEPT ![id] =
                         IF tasks[s].command = "create" THEN "created" ELSE "imported"]
          /\ Promise(s, id)
          /\ AfterCreate(s)
       \/ Proceed(s, "undo") /\ NoPromise /\ UNCHANGED meta
    /\ UNCHANGED <<present, origin, mixed, past>>

\* os.Remove(target): whoever else was told that it is there.
UndoLink(s) ==
    LET id == tasks[s].id IN
    /\ AtStep(s, "undo")
    /\ \/ present' = present \ {id} /\ origin' = [origin EXCEPT ![id] = "none"]
       \/ UNCHANGED <<present, origin>>
    /\ FinishSnap(s)
    /\ UNCHANGED <<meta, promised, excused, mixed, past>>

\* rename: get, then the metadata; without it the snapshot counts as created here.
ReadLabel(s) ==
    LET id == tasks[s].id IN
    /\ AtStep(s, "read")
    /\ \/ /\ id \in present
          /\ tasks' = [tasks EXCEPT ![s].step = "write",
                                    ![s].read = IF meta[id] = "none" THEN "created" ELSE meta[id]]
       \/ FinishSnap(s)
    /\ UNCHANGED <<present, meta, origin, promised, excused, mixed, past>>

WriteLabel(s) ==
    /\ AtStep(s, "write")
    /\ meta' \in {meta, [meta EXCEPT ![tasks[s].id] = tasks[s].read]}
    /\ FinishSnap(s)
    /\ UNCHANGED <<present, origin, promised, excused, mixed, past>>

\* delete: the file goes first; a metadata that stays is overwritten by whoever
\* brings the snapshot back.
RemoveFile(s) ==
    LET id == tasks[s].id IN
    /\ AtStep(s, "remove")
    /\ \/ /\ id \in present
          /\ present' = present \ {id}
          /\ origin' = [origin EXCEPT ![id] = "none"]
          /\ promised' = promised \ {id}
          /\ Proceed(s, "unlabel")
       \/ FinishSnap(s) /\ UNCHANGED <<present, origin, promised>>
    /\ UNCHANGED <<meta, excused, mixed, past>>

RemoveLabel(s) ==
    /\ AtStep(s, "unlabel")
    /\ meta' \in {meta, [meta EXCEPT ![tasks[s].id] = "none"]}
    /\ FinishSnap(s)
    /\ UNCHANGED <<present, origin, promised, excused, mixed, past>>

\* The daemon is stopped: every command ends where it is.
SnapStop ==
    /\ \E s \in SnapSlots : ~AtStep(s, "idle")
    /\ tasks' = [s \in SnapSlots |-> NoSnapTask]
    /\ UNCHANGED <<present, meta, origin, promised, excused, mixed, past>>

\* The clock: later creations have another identifier.
SecondEnds(id) ==
    /\ id \notin past
    /\ past' = past \cup {id}
    /\ UNCHANGED <<present, meta, tasks, origin, promised, excused, mixed>>

SnapStep(s) ==
    \/ FindFree(s) \/ LinkFile(s) \/ LabelFile(s) \/ UndoLink(s) \/ ReadLabel(s) \/ WriteLabel(s)
    \/ RemoveFile(s) \/ RemoveLabel(s)

SnapNext ==
    \/ \E s \in SnapSlots, c \in SnapCommands, id \in SnapIds, named \in BOOLEAN :
          AskSnapshot(s, c, id, named)
    \/ \E s \in SnapSlots : SnapStep(s)
    \/ \E id \in SnapIds : SecondEnds(id)
    \/ SnapStop

SnapSpec == SnapInit /\ [][SnapNext]_snapVars

-----------------------------------------------------------------------------
\* What the list shows: without metadata, created here.
Shown(id) == IF meta[id] = "none" THEN "created" ELSE meta[id]

\* A snapshot that an answer said is there stays until its deletion is asked for:
\* repeated creations and imports never take it.  The exception is a promise given on the
\* file of a command that had not written its metadata yet, and removed it.  It is
\* labelled with how its file came, across renames, deletions that left their metadata
\* and stops of the daemon, unless commands on it overlapped.
PromisedKept ==
    \A id \in promised :
        /\ id \in present \cup excused
        /\ id \in mixed \/ Shown(id) = origin[id]

-----------------------------------------------------------------------------
(* The inductive invariant behind it. *)

Label(command) == IF command = "create" THEN "created" ELSE "imported"

\* What holds of the command of one connection.
CommandInv(s) ==
    LET c == tasks[s] id == c.id IN
    ~AtStep(s, "idle") =>
        /\ id \in SnapIds
        /\ c.command = "delete" <=> c.step \in {"remove", "unlabel"}
        /\ c.step \in {"find", "link", "label", "undo"} => c.command \in {"create", "import"}
        /\ c.named => c.command = "create"
        /\ c.command = "import" => id \in past /\ c.step \in {"find", "link", "label", "undo"}
        \* its file is there, and nobody was told so, unless it met another
        /\ c.step \in {"label", "undo"} => id \in excused \/ id \in present \ promised
        /\ id \notin mixed =>
              /\ c.command = "delete" => id \notin promised
              /\ c.step = "write" => c.read = Shown(id)
              /\ c.step = "label" => origin[id] = Label(c.command)
              /\ c.command = "create" => "imported" \notin {meta[id], origin[id]}

\* Two commands on one snapshot leave it mixed; they excuse what one may take from the
\* other.
OverlapInv(s, t) ==
    LET id == tasks[s].id IN
    ~AtStep(s, "idle") /\ ~AtStep(t, "idle") /\ id = tasks[t].id =>
        /\ id \in mixed
        /\ \/ "delete" \in {tasks[s].command, tasks[t].command}
           \/ {tasks[s].step, tasks[t].step} \subseteq {"label", "undo"}
           => id \in excused

SnapInv ==
    /\ SnapTypeOK /\ PromisedKept
    /\ excused \subseteq mixed
    /\ \A s \in SnapSlots : CommandInv(s)
    /\ \A s, t \in SnapSlots : s # t => OverlapInv(s, t)
    /\ \A id \in SnapIds \ (past \cup mixed) : "imported" \notin {meta[id], origin[id]}
=============================================================================
