----------------------------- MODULE ApacheSites -----------------------------
(***************************************************************************)
(* Virtual hosts (internal/domain/apache/mutations.go): the daemon's       *)
(* commands create, update, enable, disable, delete, reload and restart.   *)
(* Each connection runs its command in a goroutine of its own and nothing  *)
(* locks the site files, so a command is split at every file it writes and *)
(* at every program it runs (apachectl, a2ensite, a2dissite, systemctl);   *)
(* reads with no write between them are one step.                          *)
(*                                                                         *)
(* A file is its content: one that Apache accepts (Good), one that it      *)
(* refuses (Bad), or the empty file that an interrupted restoration        *)
(* leaves, which Apache accepts.  A program may succeed, fail, or end in   *)
(* an error: it was killed after ten seconds, with or without having done  *)
(* its work, or it was not started at all, as every program is once the    *)
(* thirty seconds of the command are over.                                 *)
(***************************************************************************)
EXTENDS Naturals, Sequences

CONSTANTS Slots, Sites, Good, Bad, Empty, None

ASSUME ContentAssumption ==
    /\ Good \cap Bad = {}
    /\ Empty \notin Good \cup Bad /\ None \notin Good \cup Bad \cup {Empty}
    /\ None \notin Sites

Contents == Good \cup Bad \cup {Empty}

SiteCommands == {"create", "update", "enable", "disable", "delete"}
Commands == SiteCommands \cup {"reload", "restart"}

UndoSteps == {"unwrite", "restore", "unswitch", "rereload"}
Steps == {"idle", "start", "backup", "write", "switch", "check", "remove", "probe", "test",
          "judge", "reload", "schedule"} \cup UndoSteps

\* What a program, or a whole command, comes to.
Outcomes == {"ok", "failed", "error"}

VARIABLES
    direct,     \* the profile has one directory: every file is enabled
    content,    \* sites-available: the content of each site, None where there is no file
    links,      \* sites-enabled: the sites that have a link
    probes,     \* the site of each connection's zz-aegisadmin-validation link
    stale,      \* sites with such a link left by a daemon that was stopped
    served,     \* what Apache loaded last, site by site
    up,         \* Apache runs
    scheduled,  \* the transient unit that restarts Apache in five seconds
    ops,        \* the command of each connection
    answer,     \* the command that the last step answered, with its result
    shaken      \* history: sites that a command was not left alone with (see Shake)

vars == <<direct, content, links, probes, stale, served, up, scheduled, ops, answer, shaken>>

Disk == <<content, links, probes>>
Server == <<direct, stale, served, up, scheduled>>

Idle == [command |-> "reload", site |-> None, new |-> None, step |-> "idle", enabled |-> FALSE,
         backup |-> None, ran |-> "ok", undo |-> <<>>, result |-> "ok",
         alone |-> TRUE, lost |-> {}, foundFile |-> None, foundLink |-> FALSE]

-----------------------------------------------------------------------------
Probed == {probes[w] : w \in Slots} \ {None}

\* The files that Apache reads: every one, or those that have a link.
Included == IF direct THEN {s \in Sites : content[s] # None} ELSE links \cup stale \cup Probed

Loaded == [s \in Sites |-> IF s \in Included THEN content[s] ELSE None]

\* apachectl configtest.  A link without its file is refused too.
Accepted == \A s \in Included : content[s] \in Good \cup {Empty}

\* siteEnabled: any link of the directory that leads to the file.
siteEnabled(s) == direct \/ (content[s] # None /\ s \in links \cup stale \cup Probed)

Busy(w) == ops[w].step # "idle"

\* commandRunner.Run: how a program ends, and whether it took effect.
Runs(possible) ==
    {r \in [ran: Outcomes, took: BOOLEAN] :
        /\ r.took => possible
        /\ r.ran = "ok" => r.took
        /\ r.ran = "failed" => ~r.took}

TypeOK ==
    /\ direct \in BOOLEAN
    /\ content \in [Sites -> Contents \cup {None}]
    /\ links \subseteq Sites
    /\ probes \in [Slots -> Sites \cup {None}]
    /\ stale \subseteq Sites
    /\ served \in [Sites -> Contents \cup {None}]
    /\ up \in BOOLEAN /\ scheduled \in BOOLEAN
    /\ shaken \subseteq Sites
    /\ \A w \in Slots :
          /\ ops[w].command \in Commands /\ ops[w].site \in Sites \cup {None}
          /\ ops[w].step \in Steps
          /\ ops[w].result \in Outcomes /\ ops[w].ran \in Outcomes
          /\ ops[w].backup \in Contents \cup {None}
          /\ ops[w].undo \in Seq(UndoSteps)
          /\ ops[w].lost \subseteq {"file", "link"}
          \* one directory: nothing is linked, probed or switched
          /\ direct => links = {} /\ stale = {} /\ probes[w] = None
                       /\ ops[w].step \notin {"probe", "unswitch"}
          \* a probe lasts from the link to the verdict
          /\ probes[w] # None => ops[w].step \in {"test", "judge"} /\ probes[w] = ops[w].site

\* A server that runs, on a configuration that it accepts: files that are not enabled
\* may be drafts, and an earlier daemon may have left links.
Init ==
    /\ direct \in BOOLEAN
    /\ content \in [Sites -> Good \cup Bad \cup {None}]
    /\ links \in SUBSET Sites
    /\ stale \in SUBSET Sites
    /\ direct => links = {} /\ stale = {}
    /\ probes = [w \in Slots |-> None]
    /\ Accepted
    /\ served = Loaded
    /\ up = TRUE
    /\ scheduled = FALSE
    /\ ops = [w \in Slots |-> Idle]
    /\ answer = Idle
    /\ shaken = {}

-----------------------------------------------------------------------------
(* Moving a command on. *)

Finish(op, result) == [op EXCEPT !.step = "idle", !.result = result]

\* The command ends, or goes on, without knowing the state of the file or of the link.
Lose(op, what) == [op EXCEPT !.lost = @ \cup {what}]

\* The steps of plan, then the answer.
Undo(op, plan, result) ==
    IF plan = <<>> THEN Finish(op, result)
    ELSE [op EXCEPT !.step = Head(plan), !.undo = Tail(plan), !.result = result]

\* A site is shaken by a command that ends without having put it in order: a program
\* that decides about it was cut short, or another command was at work on it.  A
\* success that no one disturbed settles it.
Shake(op) ==
    IF op.site = None THEN shaken
    ELSE IF ~op.alone \/ op.lost # {} THEN shaken \cup {op.site}
    ELSE IF op.result = "ok" THEN shaken \ {op.site}
    ELSE shaken

\* The command is at op: where that is its end the answer is written and the
\* connection closed.
Move(w, op) ==
    IF op.step = "idle"
    THEN /\ ops' = [ops EXCEPT ![w] = Idle]
         /\ answer' = [op EXCEPT !.backup = None, !.new = None, !.ran = "ok", !.undo = <<>>]
         /\ shaken' = Shake(op)
    ELSE /\ ops' = [ops EXCEPT ![w] = op]
         /\ answer' = Idle
         /\ UNCHANGED shaken

\* The client connects: handleConnection.
Arrive(w) ==
    \E c \in Commands, s \in Sites \cup {None}, n \in Good \cup Bad \cup {None} :
        LET met == {v \in Slots \ {w} : s # None /\ ops[v].site = s}
            op == [Idle EXCEPT !.command = c, !.site = s, !.new = n,
                     !.step = IF c \in SiteCommands THEN "start" ELSE "test",
                     !.alone = (met = {}),
                     !.foundFile = IF s = None THEN None ELSE content[s],
                     !.foundLink = s \in links]
        IN  /\ ops[w].step = "idle"
            /\ (c \in SiteCommands) = (s # None)
            /\ (c \in {"create", "update"}) = (n # None)
            /\ ops' = [v \in Slots |-> IF v = w THEN op
                                       ELSE IF v \in met THEN [ops[v] EXCEPT !.alone = FALSE]
                                       ELSE ops[v]]
            /\ answer' = Idle
            /\ shaken' = IF met = {} THEN shaken ELSE shaken \cup {s}
            /\ UNCHANGED <<Disk, Server>>

-----------------------------------------------------------------------------
(* The steps of the commands. *)

At(w, step) == ops[w].step = step

\* parsePayload, decodeContent, the file name, the identifier: refused before any file
\* is looked at; or the directories cannot be read.
Refuse(w) ==
    /\ At(w, "start")
    /\ \E result \in {"failed", "error"} : Move(w, Finish(ops[w], result))
    /\ UNCHANGED <<Disk, Server>>

\* create: the name is free.
StartCreate(w) ==
    /\ At(w, "start") /\ ops[w].command = "create"
    /\ Move(w, IF content[ops[w].site] # None THEN Finish(ops[w], "failed")
               ELSE [ops[w] EXCEPT !.step = "write"])
    /\ UNCHANGED <<Disk, Server>>

\* update, enable, disable, delete: sitePath, siteEnabled and what they refuse.
StartExisting(w) ==
    LET op == ops[w]
        enabled == siteEnabled(op.site)
    IN  /\ At(w, "start") /\ op.command # "create"
        /\ Move(w, IF \/ content[op.site] = None
                      \/ op.command = "enable" /\ enabled
                      \/ op.command = "disable" /\ (~enabled \/ direct)
                   THEN Finish(op, "failed")
                   ELSE [op EXCEPT !.enabled = enabled,
                           !.step = IF op.command \in {"update", "delete"} THEN "backup"
                                    ELSE "switch"])
        /\ UNCHANGED <<Disk, Server>>

\* backup: reads the file and writes the copy; either may fail.
Backup(w) ==
    LET op == ops[w]
        copied == [op EXCEPT !.backup = content[op.site],
                     !.step = IF op.command = "update" THEN "write"
                              ELSE IF op.enabled /\ ~direct THEN "switch"
                              ELSE "remove"]
    IN  /\ At(w, "backup")
        /\ \/ content[op.site] # None /\ Move(w, copied)
           \/ Move(w, Finish(op, "error"))
        /\ UNCHANGED <<Disk, Server>>

\* atomicWrite: a rename, or nothing.
Write(w) ==
    LET op == ops[w]
        next == IF direct \/ (op.command = "update" /\ op.enabled) THEN "test" ELSE "probe"
    IN  /\ At(w, "write")
        /\ \/ /\ content' = [content EXCEPT ![op.site] = op.new]
              /\ Move(w, [op EXCEPT !.step = next])
           \/ /\ Move(w, Finish(op, "error"))
              /\ UNCHANGED content
        /\ UNCHANGED <<links, probes, Server>>

\* The command that a2ensite and a2dissite are for, and the opposite one.
Link(s) == links \cup {s}
Unlink(s) == links \ {s}

\* siteCommand.  A command that cannot say what it did is not undone.
Switch(w) ==
    LET op == ops[w]
        on == op.command = "enable"
    IN  /\ At(w, "switch")
        /\ \E r \in Runs(on => content[op.site] # None) :
              /\ links' = IF ~r.took THEN links ELSE IF on THEN Link(op.site) ELSE Unlink(op.site)
              /\ Move(w, IF r.ran = "error" THEN Finish(Lose(op, "link"), "error")
                         ELSE [op EXCEPT !.step = "check", !.ran = r.ran])
        /\ UNCHANGED <<content, probes, Server>>

\* siteEnabled, after the program; the directory may be unreadable.
Check(w) ==
    LET op == ops[w]
        done == op.ran = "ok" /\ (siteEnabled(op.site) = (op.command = "enable"))
    IN  /\ At(w, "check")
        /\ \/ Move(w, IF ~done THEN Finish(op, "failed")
                      ELSE [op EXCEPT !.step = IF op.command = "delete" THEN "remove" ELSE "test"])
           \/ Move(w, Finish(Lose(op, "link"), "error"))
        /\ UNCHANGED <<Disk, Server>>

\* delete: os.Remove.  Where it fails the link is put back.
Remove(w) ==
    LET op == ops[w]
    IN  /\ At(w, "remove")
        /\ \/ /\ content[op.site] # None
              /\ content' = [content EXCEPT ![op.site] = None]
              /\ Move(w, [op EXCEPT !.step = "test"])
           \/ /\ Move(w, Undo(op, IF op.enabled /\ ~direct THEN <<"unswitch">> ELSE <<>>, "error"))
              /\ UNCHANGED content
        /\ UNCHANGED <<links, probes, Server>>

\* validateDisabled: the link under which the test will see the file.
Probe(w) ==
    LET op == ops[w]
    IN  /\ At(w, "probe")
        /\ \/ /\ probes' = [probes EXCEPT ![w] = op.site]
              /\ Move(w, [op EXCEPT !.step = "test"])
           \/ /\ Move(w, [op EXCEPT !.step = "judge", !.ran = "error"])
              /\ UNCHANGED probes
        /\ UNCHANGED <<content, links, Server>>

\* configTest: a program without effect, whose exit code is the verdict.
Test(w) ==
    /\ At(w, "test")
    /\ \E r \in Runs(Accepted) :
          /\ r.ran = "failed" => ~Accepted
          /\ r.ran = "error" => ~r.took
          /\ Move(w, [ops[w] EXCEPT !.step = "judge", !.ran = r.ran])
    /\ UNCHANGED <<Disk, Server>>

\* Mutant: enable reports an invalid configuration without disabling the site again.
AfterTest_LeftEnabled(op) ==
    IF op.command = "create" THEN <<"unwrite">>
    ELSE IF op.command \in {"update", "delete"} THEN <<"restore">>
    ELSE <<>>

\* What a command undoes when its test says no, or says nothing.
AfterTest(op) ==
    IF op.command = "create" THEN <<"unwrite">>
    ELSE IF op.command = "delete" /\ op.ran = "failed" /\ op.enabled /\ ~direct
    THEN <<"restore", "unswitch">>
    ELSE IF op.command \in {"update", "delete"} THEN <<"restore">>
    ELSE IF op.command \in {"enable", "disable"} /\ op.ran = "failed" THEN <<"unswitch">>
    ELSE <<>>

\* The link that a command leaves behind when its test says nothing.
Unjudged(op) ==
    IF /\ op.ran = "error"
       /\ op.command \in {"enable", "disable"} \/ (op.command = "delete" /\ op.enabled /\ ~direct)
    THEN Lose(op, "link") ELSE op

\* Mutant: a disabled or deleted site is left to the next reload.
Reloads_NotRemovals(op) ==
    \/ op.command = "create" /\ direct
    \/ op.command = "update" /\ op.enabled
    \/ op.command \in {"enable", "reload"}

\* Apache is reloaded where the file is one of those it reads.
Reloads(op) ==
    \/ op.command = "create" /\ direct
    \/ op.command \in {"update", "delete"} /\ op.enabled
    \/ op.command \in {"enable", "disable", "reload"}

\* Mutant: the validation link is not removed.
Judge_KeepsProbe(w) ==
    LET op == ops[w]
    IN  /\ At(w, "judge")
        /\ Move(w, IF op.ran # "ok" THEN Undo(Unjudged(op), AfterTest(op), op.ran)
                   ELSE IF op.command = "restart" THEN [op EXCEPT !.step = "schedule"]
                   ELSE IF Reloads(op) THEN [op EXCEPT !.step = "reload"]
                   ELSE Finish(op, "ok"))
        /\ UNCHANGED <<Disk, Server>>

\* The probe goes, and the command goes by the verdict.
Judge(w) ==
    LET op == ops[w]
    IN  /\ At(w, "judge")
        /\ probes' = [probes EXCEPT ![w] = None]
        /\ Move(w, IF op.ran # "ok" THEN Undo(Unjudged(op), AfterTest(op), op.ran)
                   ELSE IF op.command = "restart" THEN [op EXCEPT !.step = "schedule"]
                   ELSE IF Reloads(op) THEN [op EXCEPT !.step = "reload"]
                   ELSE Finish(op, "ok"))
        /\ UNCHANGED <<content, links, Server>>

\* Mutant: delete puts the file back and forgets the link.
AfterReload_LinkForgotten(op) ==
    IF op.command = "create" THEN <<"unwrite">>
    ELSE IF op.command \in {"update", "delete"} THEN <<"restore", "rereload">>
    ELSE IF op.command \in {"enable", "disable"} THEN <<"unswitch", "rereload">>
    ELSE <<>>

\* What a command undoes when Apache was not reloaded.
AfterReload(op) ==
    IF op.command = "create" THEN <<"unwrite">>
    ELSE IF op.command = "delete" /\ ~direct THEN <<"restore", "unswitch", "rereload">>
    ELSE IF op.command \in {"update", "delete"} THEN <<"restore", "rereload">>
    ELSE IF op.command \in {"enable", "disable"} THEN <<"unswitch", "rereload">>
    ELSE <<>>

\* systemctl reload, which tests the configuration itself.
Reloading(r) == served' = IF r.took THEN Loaded ELSE served

\* reloadCommand.
Reload(w) ==
    LET op == ops[w]
    IN  /\ At(w, "reload")
        /\ \E r \in Runs(up /\ Accepted) :
              /\ Reloading(r)
              /\ Move(w, IF r.ran = "ok" THEN Finish(op, "ok")
                         ELSE Undo(op, AfterReload(op), r.ran))
        /\ UNCHANGED <<Disk, direct, stale, up, scheduled>>

\* restart: systemd-run --on-active=5s.
Schedule(w) ==
    /\ At(w, "schedule")
    /\ \E r \in Runs(TRUE) :
          /\ scheduled' = (scheduled \/ r.took)
          /\ Move(w, Finish(ops[w], r.ran))
    /\ UNCHANGED <<Disk, direct, stale, served, up>>

-----------------------------------------------------------------------------
(* Undoing.  The results of these steps are not looked at. *)

Undone(op) == Undo(op, op.undo, op.result)

Unwrite(w) ==
    /\ At(w, "unwrite")
    /\ \/ /\ content' = [content EXCEPT ![ops[w].site] = None]
          /\ Move(w, Undone(ops[w]))
       \/ /\ Move(w, Undone(Lose(ops[w], "file")))
          /\ UNCHANGED content
    /\ UNCHANGED <<links, probes, Server>>

\* restore: the file is emptied, then written; the second may fail.
Restore(w) ==
    LET op == ops[w]
    IN  /\ At(w, "restore")
        /\ \/ /\ content' = [content EXCEPT ![op.site] = op.backup]
              /\ Move(w, Undone(op))
           \/ /\ \/ content' = [content EXCEPT ![op.site] = Empty]
                 \/ UNCHANGED content
              /\ Move(w, Undone(Lose(op, "file")))
        /\ UNCHANGED <<links, probes, Server>>

\* The opposite of Switch.
Unswitch(w) ==
    LET op == ops[w]
        on == op.command # "enable"
    IN  /\ At(w, "unswitch")
        /\ \E r \in Runs(on => content[op.site] # None) :
              /\ links' = IF ~r.took THEN links ELSE IF on THEN Link(op.site) ELSE Unlink(op.site)
              /\ Move(w, Undone(IF r.ran = "ok" THEN op ELSE Lose(op, "link")))
        /\ UNCHANGED <<content, probes, Server>>

Rereload(w) ==
    /\ At(w, "rereload")
    /\ \E r \in Runs(up /\ Accepted) :
          /\ Reloading(r)
          /\ Move(w, Undone(ops[w]))
    /\ UNCHANGED <<Disk, direct, stale, up, scheduled>>

-----------------------------------------------------------------------------
(* The world around the daemon. *)

\* systemd starts the transient unit: Apache is stopped, and starts if it accepts
\* the configuration that it then finds.
RestartFires ==
    /\ scheduled
    /\ scheduled' = FALSE
    /\ up' = Accepted
    /\ served' = IF Accepted THEN Loaded ELSE served
    /\ answer' = Idle
    /\ UNCHANGED <<Disk, direct, stale, ops, shaken>>

\* main returns on SIGTERM without waiting for the connections: their commands stop
\* where they are, and no deferred removal runs.  A restoration may have emptied its
\* file.  systemd starts the daemon again.
DaemonStop ==
    /\ \E w \in Slots : Busy(w)
    /\ \E emptied \in SUBSET {ops[w].site : w \in {v \in Slots : At(v, "restore")}} :
          content' = [s \in Sites |-> IF s \in emptied THEN Empty ELSE content[s]]
    /\ stale' = stale \cup Probed
    /\ probes' = [w \in Slots |-> None]
    /\ shaken' = shaken \cup ({ops[w].site : w \in {v \in Slots : Busy(v)}} \ {None})
    /\ ops' = [w \in Slots |-> Idle]
    /\ answer' = Idle
    /\ UNCHANGED <<direct, links, served, up, scheduled>>

Work(w) ==
    \/ Refuse(w) \/ StartCreate(w) \/ StartExisting(w) \/ Backup(w) \/ Write(w)
    \/ Switch(w) \/ Check(w) \/ Remove(w)
    \/ Probe(w) \/ Test(w) \/ Judge(w) \/ Reload(w) \/ Schedule(w)
    \/ Unwrite(w) \/ Restore(w) \/ Unswitch(w) \/ Rereload(w)

Next == RestartFires \/ DaemonStop \/ \E w \in Slots : Arrive(w) \/ Work(w)

Spec == Init /\ [][Next]_vars

-----------------------------------------------------------------------------
Answered(results) == answer.site # None /\ answer.alone /\ answer.result \in results

\* A command that does not succeed, and that no other command met on its site, leaves
\* the file as it found it (unless the restoration itself could not be written):
\* whichever program failed or ran out of time, and whatever happens to other sites.
\* It leaves the link as well, where each program that was to put it back did so and
\* the site has no link left by an earlier stop of the daemon.
RefusedKeepsSite ==
    Answered({"failed", "error"}) =>
        /\ "file" \notin answer.lost => content[answer.site] = answer.foundFile
        /\ answer.lost = {} /\ answer.site \notin stale
              => (answer.site \in links) = answer.foundLink


\* A command that succeeds on an enabled site is already in force: Apache serves the
\* new content, and no longer serves what was disabled or deleted.
SuccessServed ==
    LET s == answer.site
    IN  Answered({"ok"}) =>
          /\ answer.command = "enable" \/ (answer.command = "update" /\ answer.enabled)
                => served[s] # None /\ served[s] = content[s]
          /\ answer.command = "disable" \/ (answer.command = "delete" /\ answer.enabled)
                => served[s] = None

\* A site that no command is at work on and that none has shaken is fit for the next
\* start of Apache: if Apache reads it, Apache accepts it.
SettledSitesAccepted ==
    \A s \in Included \ shaken :
        (\A w \in Slots : ops[w].site # s) => content[s] \in Good \cup {Empty}

-----------------------------------------------------------------------------
(* The inductive invariant behind the three. *)

Op == [command: Commands, site: Sites \cup {None}, new: Good \cup Bad \cup {None}, step: Steps,
       enabled: BOOLEAN, backup: Contents \cup {None}, ran: Outcomes, undo: Seq(UndoSteps),
       result: Outcomes, alone: BOOLEAN, lost: SUBSET {"file", "link"},
       foundFile: Contents \cup {None}, foundLink: BOOLEAN]

\* The steps that a command goes through.
StepsOf ==
    [create |-> {"start", "write", "probe", "test", "judge", "reload", "unwrite"},
     update |-> {"start", "backup", "write", "probe", "test", "judge", "reload", "restore", "rereload"},
     enable |-> {"start", "switch", "check", "test", "judge", "reload", "unswitch", "rereload"},
     disable |-> {"start", "switch", "check", "test", "judge", "reload", "unswitch", "rereload"},
     delete |-> {"start", "backup", "switch", "check", "remove", "test", "judge", "reload",
                 "restore", "unswitch", "rereload"},
     reload |-> {"test", "judge", "reload"},
     restart |-> {"test", "judge", "schedule"}]

\* What is left to undo after a step of the undoing.
PlansOf(op) ==
    IF op.step \in {"unwrite", "rereload"} THEN {<<>>}
    ELSE IF op.step = "unswitch" THEN {<<>>, <<"rereload">>}
    ELSE IF op.command = "delete" /\ ~direct
    THEN {<<>>, <<"rereload">>, <<"unswitch">>, <<"unswitch", "rereload">>}
    ELSE {<<>>, <<"rereload">>}

\* What holds of every command, disturbed or not.
Shape(op) ==
    /\ op.step # "idle" =>
          /\ (op.command \in SiteCommands) = (op.site # None)
          /\ (op.command \in {"create", "update"}) = (op.new # None)
          /\ op.step \in StepsOf[op.command]
    /\ direct => /\ op.step \notin {"probe", "switch", "check", "unswitch"}
                 /\ op.command \in {"enable", "disable"} => op.step \in {"idle", "start"}
    /\ op.step \in UndoSteps => op.undo \in PlansOf(op) /\ op.result # "ok"

\* Apache read the site when the command came.
WasRead(op) == IF direct THEN op.foundFile # None ELSE op.foundLink \/ op.site \in stale

\* What a command that is alone with its site knows of the file at each of its steps.
FileKnown(op) ==
    LET here == content[op.site] IN
    /\ op.command = "create" /\ op.step # "start" => op.foundFile = None
    /\ op.command # "create" /\ op.step # "start" => op.foundFile # None
    /\ op.command \in {"update", "delete"} /\ op.step \notin {"start", "backup"}
          => op.backup = op.foundFile
    /\ op.command \in {"enable", "disable"} => here = op.foundFile
    /\ op.step \in {"start", "backup", "write", "switch", "check", "remove"} => here = op.foundFile
    /\ op.step \in {"unswitch", "rereload"} /\ "file" \notin op.lost => here = op.foundFile
    /\ op.command \in {"create", "update"} =>
          (op.step \in {"probe", "test", "judge", "reload", "unwrite", "restore"} => here = op.new)
    /\ op.command = "delete" /\ op.step \in {"test", "judge", "reload", "restore"} => here = None

\* What it knows of the link.
LinkKnown(op) ==
    LET linked == op.site \in links IN
    /\ direct => ~op.foundLink
    /\ op.command \in {"update", "delete"} /\ op.step # "start"
          => op.enabled = (direct \/ op.foundLink \/ op.site \in stale)
    /\ op.command = "enable" /\ op.step # "start" => ~op.foundLink /\ op.site \notin stale
    /\ op.command = "disable" /\ op.step # "start" => op.foundLink \/ op.site \in stale
    /\ op.command \in {"create", "update"} \/ op.step \in {"start", "backup", "switch"}
          => linked = op.foundLink
    /\ op.step = "check" =>
          \/ op.ran = "ok" /\ linked = (op.command = "enable")
          \/ op.ran = "failed" /\ linked = op.foundLink
    /\ op.command = "enable" /\ op.step \in {"test", "judge", "reload", "unswitch"} => linked
    /\ op.command = "disable" /\ op.step \in {"test", "judge", "reload", "unswitch"}
          => ~linked /\ op.site \notin stale
    /\ op.command = "delete" =>
          (op.step \in {"remove", "test", "judge", "reload", "restore", "unswitch"}
              => ~linked /\ op.site \notin stale)
    /\ op.command = "delete" /\ op.step = "restore" /\ op.undo \in {<<>>, <<"rereload">>}
          => direct \/ ~op.enabled \/ "link" \in op.lost
    /\ op.command = "delete" =>
          /\ op.step \in {"switch", "check", "reload", "unswitch"} => op.enabled
          /\ op.step = "restore" /\ op.undo \notin {<<>>, <<"rereload">>} => op.enabled
    /\ op.step = "rereload" /\ "link" \notin op.lost => linked = op.foundLink

\* What it knows of Apache's verdict: a new or enabled file that passed its test is
\* accepted, as the test read it.
TestKnown(op, probe) ==
    /\ op.step = "test" /\ ~direct =>
          (op.command = "create" \/ (op.command = "update" /\ ~op.enabled) => probe = op.site)
    /\ op.step = "reload" \/ (op.step = "judge" /\ op.ran = "ok") =>
          (op.command \in {"create", "update", "enable"} => content[op.site] \in Good \cup {Empty})
    /\ op.site \notin shaken /\ WasRead(op) => op.foundFile \in Good \cup {Empty}

Known(op, probe) == FileKnown(op) /\ LinkKnown(op) /\ TestKnown(op, probe)

SitesInv ==
    /\ TypeOK /\ ops \in [Slots -> Op] /\ answer \in Op
    /\ \A w \in Slots : (ops[w].step = "idle" => ops[w] = Idle) /\ Shape(ops[w])
    /\ \A v, w \in Slots :
          v # w /\ ops[v].site = ops[w].site /\ ops[w].site # None => ~ops[w].alone
    /\ \A w \in Slots : ops[w].site # None /\ ops[w].alone => Known(ops[w], probes[w])
    /\ SettledSitesAccepted /\ RefusedKeepsSite /\ SuccessServed
=============================================================================
