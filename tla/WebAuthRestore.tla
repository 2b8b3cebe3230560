---------------------------- MODULE WebAuthRestore ----------------------------
(***************************************************************************)
(* Backup and restoration of the database from the settings page, next to  *)
(* the handlers of WebAuth.                                                *)
(*                                                                         *)
(* RestoreDatabase is four separate operations on the store: a safety copy *)
(* of the current content, the replacement of the content, the UPDATE that *)
(* raises every auth_version, and the end of the acting session.  Other    *)
(* handlers run in between, and the request may be cancelled in between.   *)
(* The content carries the users table and its AUTOINCREMENT counter.      *)
(***************************************************************************)
EXTENDS WebAuth

CONSTANTS MaxBackups,  \* bound: contents an administrator keeps
          MaxRestores  \* bound: restorations

ASSUME RestoreBounds == MaxBackups \in Nat /\ MaxRestores \in Nat

VARIABLES
    backups,   \* the contents an administrator can upload
    restore,   \* the restoration under way, or None
    safety,    \* before-restore-latest.sqlite, or None
    restores   \* number of restorations begun

restoreVars == <<backups, restore, safety, restores>>

Content == [users: [Users -> Row \cup {None}], created: SUBSET Users]

Database == [users |-> users, created |-> created]

\* A database that was migrated and has no root account yet.
FreshDatabase == [users |-> [u \in Users |-> None], created |-> {}]

\* rootUser: the session is accepted and its account is the root.
RootSession(id) == Accepted(sessions[id]) /\ sessions[id].user \in Roots

\* Mutant: the root account of the uploaded content is not checked.
validateBackup_NoRootCheck(content) == TRUE

\* validateBackup: exactly one active root account.
validateBackup(content) ==
    \E u \in Roots : content.users[u] # None /\ content.users[u].status = "active"

RestoreTypeOK ==
    /\ TypeOK
    \* the counter covers every row
    /\ \A u \in Users : users[u] # None => u \in created
    /\ \A content \in backups : content \in Content
    /\ restores \in 0 .. MaxRestores
    /\ safety # None => safety \in Content
    /\ restore # None => /\ restore.id \in Ids
                         /\ restore.content \in backups
                         /\ restore.step \in {"saved", "replaced", "invalidated"}

RestoreInit ==
    /\ Init
    /\ backups = {FreshDatabase}
    /\ restore = None
    /\ safety = None
    /\ restores = 0

BackupDatabase(id) ==
    /\ RootSession(id)
    /\ Cardinality(backups) < MaxBackups
    /\ backups' = backups \cup {Database}
    /\ UNCHANGED <<vars, restore, safety, restores>>

\* The content is accepted and the current one is copied; the one safety file
\* is overwritten.
SaveCurrent(id, content) ==
    /\ restore = None
    /\ restores < MaxRestores
    /\ RootSession(id)
    /\ validateBackup(content)
    /\ safety' = Database
    /\ restores' = restores + 1
    /\ restore' = [id |-> id, content |-> content, step |-> "saved"]
    /\ UNCHANGED <<vars, backups>>

\* Mutant: the rows are copied and the AUTOINCREMENT counter starts again.
ReplaceContent_CounterReset ==
    /\ restore # None
    /\ restore.step = "saved"
    /\ users' = restore.content.users
    /\ created' = {}
    /\ restore' = [restore EXCEPT !.step = "replaced"]
    /\ UNCHANGED <<sessions, requests, backups, safety, restores>>

ReplaceContent ==
    /\ restore # None
    /\ restore.step = "saved"
    /\ users' = restore.content.users
    /\ created' = restore.content.created
    /\ restore' = [restore EXCEPT !.step = "replaced"]
    /\ UNCHANGED <<sessions, requests, backups, safety, restores>>

\* UPDATE users SET auth_version = auth_version + 1
InvalidateRestored ==
    /\ restore # None
    /\ restore.step = "replaced"
    /\ \A u \in Users : users[u] # None => users[u].authVersion < MaxVersion
    /\ users' = [u \in Users |->
          IF users[u] = None THEN None ELSE [users[u] EXCEPT !.authVersion = @ + 1]]
    /\ restore' = [restore EXCEPT !.step = "invalidated"]
    /\ UNCHANGED <<created, sessions, requests, backups, safety, restores>>

\* The handler invalidates the session it was called with, and no other.
FinishRestore ==
    /\ restore # None
    /\ restore.step = "invalidated"
    /\ sessions' = Destroyed(restore.id)
    /\ restore' = None
    /\ UNCHANGED <<users, created, requests, backups, safety, restores>>

\* The request is cancelled, or the next operation fails.
RestoreFails ==
    /\ restore # None
    /\ restore' = None
    /\ UNCHANGED <<vars, backups, safety, restores>>

RestoreNext ==
    \/ Next /\ UNCHANGED restoreVars
    \/ \E id \in Ids : BackupDatabase(id)
    \/ \E id \in Ids, content \in backups : SaveCurrent(id, content)
    \/ ReplaceContent
    \/ InvalidateRestored
    \/ FinishRestore
    \/ RestoreFails

RestoreSpec == RestoreInit /\ [][RestoreNext]_<<vars, restoreVars>>

-----------------------------------------------------------------------------
RootActive == \E u \in Roots : users[u] # None /\ users[u].status = "active"

\* A server that has an active root account keeps one: neither an uploaded
\* content nor an account operation during the restoration locks the
\* administrator out.
RootStaysActive == [][RootActive => RootActive']_<<vars, restoreVars>>

\* What RestoreDatabase says its UPDATE is for ("invalidate restored
\* sessions"): once it has run, no session issued before it is accepted, the
\* acting one aside, which the handler ends next.
RestoreEndsSessions ==
    [][InvalidateRestored => AcceptedSessions' \subseteq {restore.id}]_<<vars, restoreVars>>

-----------------------------------------------------------------------------
(* The inductive invariant.  That of WebAuth fails here (an uploaded content takes  *)
(* versions back); what is left of it is the shape of sessions and requests, and    *)
(* what an accepted content has.                                                    *)

ShapedSession(session) == session.state # "anonymous" => session.user \in Users

ShapedRequest(request) ==
    /\ ShapedSession(request.session)
    /\ request.kind # "login" => request.session.user \in Users
    /\ request.step = "checked" =>
          /\ request.kind \notin {"login", "challenge"}
          /\ request.row # None
          /\ request.kind = "account_enable" => request.row.totpSecret # None

\* The rows obey the trigger, and the counter covers them.
Consistent(content) ==
    \A u \in Users : content.users[u] # None =>
        /\ u \in content.created
        /\ content.users[u].totpEnabled => content.users[u].totpSecret # None

RestoreInv ==
    /\ RestoreTypeOK
    /\ \A id \in Ids : sessions[id] # None => ShapedSession(sessions[id])
    /\ \A r \in Requests : requests[r] # None => ShapedRequest(requests[r])
    /\ \A content \in backups : Consistent(content)
    /\ restore # None => validateBackup(restore.content)

=============================================================================
