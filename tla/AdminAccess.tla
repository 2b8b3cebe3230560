---------------------------- MODULE AdminAccess ----------------------------
(***************************************************************************)
(* The address of the administration pages (internal/domain/adminaccess).   *)
(* Where Apache is installed, a virtual host publishes them: its file, the  *)
(* link that enables it and what the running Apache has loaded change one   *)
(* after the other, and the profile that records the settings last.         *)
(* Otherwise the web server itself listens there, from a profile that it    *)
(* reads when it restarts.                                                  *)
(*                                                                         *)
(* A refused update undoes its steps, whose errors nobody reads.  Nothing   *)
(* locks the files.  Every program may fail: by itself, after its ten       *)
(* seconds, or because the deadline of the command is over.                 *)
(***************************************************************************)
EXTENDS FiniteSets

CONSTANTS
    Addresses,    \* listening addresses, port and allowed network: one value
    Offered,      \* the settings that are asked for
    AdminSlots,   \* connections of the daemon
    NoSite        \* no address but the loopback one

Settings == [enabled: BOOLEAN, address: Addresses]

ASSUME AdminAssumption ==
    NoSite \notin Addresses /\ Offered \subseteq Settings /\ Offered # {}

VARIABLES
    mode,         \* "sites": the link is another file; "confd": the file is its own link;
                  \* "direct": no Apache
    file,         \* aegisadmin-admin.conf, or the addresses in the web server's profile
    enabled,      \* the link, where mode = "sites"
    serving,       \* what the running server has loaded; "down" when it is stopped
    profile,      \* /etc/aegisadmin-system/admin-web
    updates,      \* the update of each connection
    verdict,      \* history: how the last update ended; mixed while it met another
    before,       \* history: the state that it found
    lost          \* history: a step of its restoration failed

accessVars == <<mode, file, enabled, serving, profile, updates, verdict, before, lost>>

Publishable == Addresses \cup {NoSite}

\* What a server that reads its files now has.
LoadedSite(f, e) == IF mode = "sites" /\ ~e THEN NoSite ELSE f

Found == [file |-> file, enabled |-> enabled, serving |-> serving, profile |-> profile]

AnySettings == CHOOSE w \in Offered : TRUE

NothingFound == [file |-> NoSite, enabled |-> FALSE, serving |-> NoSite, profile |-> AnySettings]

\* want: the request; old, was: the file and the link read.
NoUpdate == [step |-> "idle", want |-> AnySettings, old |-> NoSite, was |-> FALSE,
             oldProfile |-> AnySettings]

-----------------------------------------------------------------------------
AdminTypeOK ==
    /\ mode \in {"sites", "confd", "direct"}
    /\ file \in Publishable /\ enabled \in BOOLEAN /\ serving \in Publishable \cup {"down"}
    /\ enabled => mode = "sites"
    /\ profile \in Settings
    /\ updates \in [AdminSlots ->
          [step: {"idle", "write", "switch", "test", "reload", "profile",
                  "undo", "unswitch", "unprofile", "unload"},
           want: Settings, old: Publishable, was: BOOLEAN, oldProfile: Settings]]
    /\ \A u \in AdminSlots : updates[u].step = "idle" => updates[u] = NoUpdate
    /\ verdict \in {"none", "running", "mixed", "ok", "refused"}
    /\ before \in [file: Publishable, enabled: BOOLEAN, serving: Publishable \cup {"down"}, profile: Settings]
    /\ lost \in BOOLEAN

\* An installation whose files agree with its profile.
AdminInit ==
    /\ mode \in {"sites", "confd", "direct"}
    /\ profile \in Offered
    /\ enabled = (mode = "sites" /\ profile.enabled)
    /\ \/ file = profile.address /\ (mode = "sites" \/ profile.enabled)
       \/ file = NoSite /\ ~profile.enabled
    /\ serving = LoadedSite(file, enabled)
    /\ updates = [u \in AdminSlots |-> NoUpdate]
    /\ verdict = "none" /\ before = NothingFound /\ lost = FALSE

UpdateAt(u, step) == updates[u].step = step

ActiveUpdates == {u \in AdminSlots : ~UpdateAt(u, "idle")}

Goto(u, step) == updates' = [updates EXCEPT ![u].step = step]

\* The update is refused: what it wanted no longer matters.
FallBack(u) == updates' = [updates EXCEPT ![u] = [@ EXCEPT !.step = "undo", !.want = AnySettings]]

\* The answer, which says nothing of the files when another update met this one.
FinishUpdate(u, result) ==
    /\ updates' = [updates EXCEPT ![u] = NoUpdate]
    /\ verdict' = IF verdict = "running" THEN result
                  ELSE IF ActiveUpdates = {u} THEN "none" ELSE "mixed"

\* A step of the restoration, whose error is dropped: done or not.
UndoStep(effect, otherwise) ==
    \/ effect /\ UNCHANGED lost
    \/ otherwise /\ lost' = (verdict = "running" \/ lost)

-----------------------------------------------------------------------------
\* Mutant: whether the site is enabled is taken from the profile.
BeginUpdate_ByProfile(u, want) ==
    /\ UpdateAt(u, "idle")
    /\ updates' = [updates EXCEPT ![u] =
          [NoUpdate EXCEPT !.step = "write", !.want = want, !.old = file,
             !.was = mode # "direct" /\ profile.enabled,
             !.oldProfile = IF mode = "direct" THEN profile ELSE AnySettings]]
    /\ verdict' = IF ActiveUpdates = {} THEN "running" ELSE "mixed"
    /\ before' = IF ActiveUpdates = {} THEN Found ELSE NothingFound
    /\ lost' = FALSE
    /\ UNCHANGED <<mode, file, enabled, serving, profile>>

\* update and updateDirect, as far as the files that they read.
BeginUpdate(u, want) ==
    /\ UpdateAt(u, "idle")
    /\ updates' = [updates EXCEPT ![u] =
          [NoUpdate EXCEPT !.step = "write", !.want = want, !.old = file,
             !.was = IF mode = "sites" THEN enabled ELSE mode = "confd" /\ file # NoSite,
             !.oldProfile = IF mode = "direct" THEN profile ELSE AnySettings]]
    /\ verdict' = IF ActiveUpdates = {} THEN "running" ELSE "mixed"
    /\ before' = IF ActiveUpdates = {} THEN Found ELSE NothingFound
    /\ lost' = FALSE
    /\ UNCHANGED <<mode, file, enabled, serving, profile>>

\* The package's installation asks for the settings that the profile has.
reconcilePackage(u) == BeginUpdate(u, profile)

\* The virtual host, enabled or not; or directListenAddresses.
render(want) == IF mode = "direct" /\ ~want.enabled THEN NoSite ELSE want.address

\* atomicWrite: all of the file or none of it.
WriteSite(u) ==
    /\ UpdateAt(u, "write")
    /\ \/ /\ file' = render(updates[u].want)
          /\ Goto(u, IF mode = "direct" THEN "profile" ELSE "switch")
          /\ UNCHANGED verdict
       \/ FinishUpdate(u, "refused") /\ UNCHANGED file
    /\ UNCHANGED <<mode, enabled, serving, profile, before, lost>>

\* The link: a2ensite when it is missing now, a2dissite when it was there at the beginning;
\* in a conf.d the file itself goes.
SwitchSite(u) ==
    LET want == updates[u].want IN
    /\ UpdateAt(u, "switch")
    /\ \/ /\ IF want.enabled THEN mode = "confd" \/ enabled ELSE mode = "sites" /\ ~updates[u].was
          /\ Goto(u, "test") /\ UNCHANGED <<file, enabled>>
       \/ /\ mode = "sites"
          /\ IF want.enabled THEN ~enabled ELSE updates[u].was
          /\ enabled' = want.enabled
          /\ Goto(u, "test") /\ UNCHANGED file
       \/ /\ mode = "sites"
          /\ IF want.enabled THEN ~enabled ELSE updates[u].was
          /\ enabled' \in {enabled, want.enabled}
          /\ FallBack(u) /\ UNCHANGED file
       \/ /\ mode = "confd" /\ ~want.enabled
          /\ \/ file' = NoSite /\ Goto(u, "test")
             \/ FallBack(u) /\ UNCHANGED file
          /\ UNCHANGED enabled
    /\ UNCHANGED <<mode, serving, profile, verdict, before, lost>>

\* apachectl configtest.
ConfigTest(u) ==
    /\ UpdateAt(u, "test")
    /\ \/ Goto(u, "reload")
       \/ FallBack(u)
    /\ UNCHANGED <<mode, file, enabled, serving, profile, verdict, before, lost>>

\* What the server has after a reload or restart that failed: systemd may have gone on.
AfterFailure ==
    {serving, LoadedSite(file, enabled)} \cup IF mode = "direct" THEN {"down"} ELSE {}

\* systemctl reload of Apache, or restart of the web server.
ReloadServer(u) ==
    /\ UpdateAt(u, "reload")
    /\ \/ /\ serving' = LoadedSite(file, enabled)
          /\ IF mode = "direct" THEN FinishUpdate(u, "ok")
             ELSE Goto(u, "profile") /\ UNCHANGED verdict
       \/ serving' \in AfterFailure /\ FallBack(u) /\ UNCHANGED verdict
    /\ UNCHANGED <<mode, file, enabled, profile, before, lost>>

\* The profile, in direct mode before the restart.
WriteProfile(u) ==
    /\ UpdateAt(u, "profile")
    /\ \/ /\ profile' = updates[u].want
          /\ IF mode = "direct" THEN Goto(u, "reload") /\ UNCHANGED verdict
             ELSE FinishUpdate(u, "ok")
       \/ FallBack(u) /\ UNCHANGED <<profile, verdict>>
    /\ UNCHANGED <<mode, file, enabled, serving, before, lost>>

-----------------------------------------------------------------------------
\* restore: the file that was read, or none.
RestoreSite(u) ==
    /\ UpdateAt(u, "undo")
    /\ UndoStep(file' = updates[u].old, UNCHANGED file)
    /\ Goto(u, IF mode = "direct" THEN "unprofile" ELSE IF mode = "sites" THEN "unswitch" ELSE "unload")
    /\ UNCHANGED <<mode, enabled, serving, profile, verdict, before>>

RestoreLink(u) ==
    /\ UpdateAt(u, "unswitch")
    /\ UndoStep(enabled' = updates[u].was, UNCHANGED enabled)
    /\ Goto(u, "unload")
    /\ UNCHANGED <<mode, file, serving, profile, verdict, before>>

RestoreProfile(u) ==
    /\ UpdateAt(u, "unprofile")
    /\ UndoStep(profile' = updates[u].oldProfile, UNCHANGED profile)
    /\ Goto(u, "unload")
    /\ UNCHANGED <<mode, file, enabled, serving, verdict, before>>

\* Mutant: the files are restored and the server is not told.
RestoreServed_Silent(u) ==
    /\ UpdateAt(u, "unload")
    /\ FinishUpdate(u, "refused")
    /\ UNCHANGED <<mode, file, enabled, serving, profile, before, lost>>

RestoreServed(u) ==
    /\ UpdateAt(u, "unload")
    /\ UndoStep(serving' = LoadedSite(file, enabled), serving' \in AfterFailure)
    /\ FinishUpdate(u, "refused")
    /\ UNCHANGED <<mode, file, enabled, profile, before>>

-----------------------------------------------------------------------------
\* The daemon is stopped: updates end where they are.
AdminStop ==
    /\ ActiveUpdates # {}
    /\ updates' = [u \in AdminSlots |-> NoUpdate]
    /\ verdict' = "none"
    /\ UNCHANGED <<mode, file, enabled, serving, profile, before, lost>>

\* The server reads its files for another reason: a command on a site, a restart.
ServerReloads ==
    /\ serving' = LoadedSite(file, enabled)
    /\ UNCHANGED <<mode, file, enabled, profile, updates, verdict, before, lost>>

UpdateStep(u) ==
    \/ WriteSite(u) \/ SwitchSite(u) \/ ConfigTest(u) \/ ReloadServer(u) \/ WriteProfile(u)
    \/ RestoreSite(u) \/ RestoreLink(u) \/ RestoreProfile(u) \/ RestoreServed(u)

AdminNext ==
    \/ \E u \in AdminSlots :
          \/ \E want \in Offered : BeginUpdate(u, want)
          \/ reconcilePackage(u)
          \/ UpdateStep(u)
    \/ AdminStop
    \/ ServerReloads

AdminSpec == AdminInit /\ [][AdminNext]_accessVars

-----------------------------------------------------------------------------
\* An update that succeeded left the server with what the profile says, and files that
\* keep it so: from whatever an earlier update, a failed restoration or a stop of the
\* daemon left, as long as no other update was running.
SuccessAgrees ==
    verdict = "ok" =>
        /\ serving = IF profile.enabled THEN profile.address ELSE NoSite
        /\ LoadedSite(file, enabled) = serving

\* A refused update, none of whose restoring steps failed, leaves the files as they were,
\* and the server too unless it had not loaded them.
RefusedUndone ==
    verdict = "refused" /\ ~lost =>
        /\ <<file, enabled, profile>> = <<before.file, before.enabled, before.profile>>
        /\ before.serving = LoadedSite(before.file, before.enabled) => serving = before.serving

-----------------------------------------------------------------------------
(* The inductive invariant behind both. *)

\* What the settings ask the server to publish.
Target(want) == IF want.enabled THEN want.address ELSE NoSite

FilesAsFound == file = before.file /\ enabled = before.enabled

\* What holds of an update that met no other, step by step.
AloneInv(u) ==
    LET op == updates[u] IN
    /\ before.enabled => mode = "sites"
    /\ op.old = before.file
    /\ mode = "sites" => op.was = before.enabled
    /\ mode = "direct" => op.oldProfile = before.profile
    /\ op.step \in {"write", "switch", "test", "reload", "profile", "undo"} => ~lost
    /\ op.step \in {"switch", "test"} => mode # "direct"
    \* the profile is written last, or just before the restart
    /\ profile = before.profile \/ (mode = "direct" /\ op.step \in {"reload", "undo", "unprofile"})
          \/ (lost /\ op.step = "unload")
    /\ op.step = "write" =>
          FilesAsFound /\ serving \in {before.serving, LoadedSite(file, enabled)}
    /\ op.step = "switch" => file = op.want.address /\ enabled = before.enabled
    /\ op.step \in {"test", "reload", "profile"} => LoadedSite(file, enabled) = Target(op.want)
    /\ op.step = "reload" /\ mode = "direct" => profile = op.want
    /\ op.step = "profile" /\ mode # "direct" => serving = LoadedSite(file, enabled)
    /\ op.step = "unprofile" => mode = "direct"
    /\ op.step \in {"unswitch", "unprofile"} /\ ~lost => file = before.file
    /\ op.step = "unload" /\ ~lost => FilesAsFound

AdminInv ==
    /\ AdminTypeOK /\ SuccessAgrees /\ RefusedUndone
    /\ \A u \in AdminSlots : UpdateAt(u, "unswitch") => mode = "sites"
    /\ verdict \in {"none", "ok", "refused"} => ActiveUpdates = {}
    /\ verdict = "running" => \A u \in ActiveUpdates : AloneInv(u) /\ ActiveUpdates = {u}
=============================================================================
