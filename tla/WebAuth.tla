------------------------------- MODULE WebAuth -------------------------------
(***************************************************************************)
(* Login, second factor, password change and account administration of     *)
(* aegisadmin-web: the handlers of internal/webapp over the users table of *)
(* internal/authstore and the sessions of internal/websession.             *)
(*                                                                         *)
(* A handler is not atomic.  It reads its session, then the row of its     *)
(* user, then (for some) runs one conditional UPDATE, then rotates the     *)
(* session; other requests, the administrator and the recovery commands    *)
(* run in between.  Each of those steps is an action, and a request that   *)
(* is under way keeps in requests[r] what it read.  One SQL statement is   *)
(* atomic: the store has one connection.                                   *)
(*                                                                         *)
(* The session manager is used through what WebSession shows of it: Rotate *)
(* replaces one identifier by a fresh one, and a session may disappear at  *)
(* any time (expiry, restart).  password and code of a session are history *)
(* fields: the password and the TOTP secret that were proved to obtain it. *)
(***************************************************************************)
EXTENDS Naturals, FiniteSets

CONSTANTS
    Users,       \* account identifiers (users.id, never reused)
    Roots,       \* the account whose type is root (at most one)
    Ids,         \* session identifiers
    Requests,    \* concurrent HTTP requests
    Passwords, Secrets, None,
    MaxVersion,  \* bound on auth_version
    MaxAccounts  \* bound on the accounts ever created

Row == [status: {"active", "suspended"}, password: Passwords,
        mustChangePassword: BOOLEAN, authVersion: Nat,
        twoFactorRequired: BOOLEAN,
        totpSecret: Secrets \cup {None}, totpEnabled: BOOLEAN]

States == {"anonymous", "password_change", "two_factor_challenge",
           "two_factor_enrollment", "authenticated"}

Session == [state: States, user: Users \cup {None}, authVersion: Nat,
            password: Passwords \cup {None}, code: Secrets \cup {None}]

Kinds == {"login", "challenge", "password", "enrollment",
          "account_setup", "account_enable", "account_disable"}

\* "session": the session is read.  "checked": the row is read and accepted.
\* "rotate": session is now the one to be issued.
Request == [kind: Kinds, step: {"session", "checked", "rotate"}, id: Ids,
            session: Session, row: Row \cup {None}]

ASSUME NoneAssumption ==
    /\ None \notin Users /\ None \notin Passwords /\ None \notin Secrets
    /\ None \notin Row /\ None \notin Session /\ None \notin Request

ASSUME RootAssumption == Roots \subseteq Users /\ \A a, b \in Roots : a = b

ASSUME BoundsAssumption == MaxVersion \in Nat /\ MaxAccounts \in Nat

VARIABLES
    users,     \* the users table
    created,   \* accounts ever created (AUTOINCREMENT)
    sessions,  \* the live sessions
    requests   \* what each handler under way has read

vars == <<users, created, sessions, requests>>

-----------------------------------------------------------------------------
Anonymous == [state |-> "anonymous", user |-> None, authVersion |-> 0,
              password |-> None, code |-> None]

\* The session states each handler accepts.
SessionStates(kind) ==
    CASE kind = "login"      -> {"anonymous"}
      [] kind = "challenge"  -> {"two_factor_challenge"}
      [] kind = "password"   -> {"password_change", "authenticated"}
      [] kind = "enrollment" -> {"two_factor_enrollment"}
      [] OTHER               -> {"authenticated"}

\* The test on status and version that every handler makes on the row it read.
Current(session, row) ==
    /\ row # None
    /\ row.status = "active"
    /\ row.authVersion = session.authVersion

\* What the handlers test besides; a failure invalidates the session.
Gate(kind, session, row) ==
    /\ kind = "challenge" => row.totpSecret # None /\ row.totpEnabled
    /\ kind = "password" /\ session.state = "password_change" => row.mustChangePassword
    /\ kind = "enrollment" => row.twoFactorRequired /\ ~row.totpEnabled

\* What the account pages test besides; a failure leaves the session alone.
Form(kind, row) ==
    /\ kind = "account_setup" => ~row.totpEnabled
    /\ kind = "account_enable" => row.totpSecret # None
    /\ kind = "account_disable" =>
          ~row.twoFactorRequired /\ row.totpSecret # None /\ row.totpEnabled

\* Mutant: the challenge is skipped unless two factors are required.
nextState_OnlyIfRequired(row) ==
    IF row.twoFactorRequired
      THEN IF row.totpSecret # None /\ row.totpEnabled THEN "two_factor_challenge"
           ELSE "two_factor_enrollment"
    ELSE IF row.mustChangePassword THEN "password_change"
    ELSE "authenticated"

\* Authenticate: the step that follows a correct password.
nextState(row) ==
    IF row.totpSecret # None /\ row.totpEnabled THEN "two_factor_challenge"
    ELSE IF row.twoFactorRequired THEN "two_factor_enrollment"
    ELSE IF row.mustChangePassword THEN "password_change"
    ELSE "authenticated"

\* Mutant: a correct code opens the dashboard at once.
afterCode_NoPasswordChange(row) == "authenticated"

\* The step that follows a correct code.
afterCode(row) ==
    IF row.mustChangePassword THEN "password_change" ELSE "authenticated"

Destroyed(id) == [sessions EXCEPT ![id] = None]

Finished(r) == [requests EXCEPT ![r] = None]

\* Identifiers are random: a new one is neither live nor held by a request.
Fresh(id) ==
    /\ sessions[id] = None
    /\ \A r \in Requests : requests[r] # None => requests[r].id # id

\* The session that authenticatedUser would let through.
Accepted(session) ==
    /\ session # None
    /\ session.state = "authenticated"
    /\ Current(session, users[session.user])

-----------------------------------------------------------------------------
TypeOK ==
    /\ users \in [Users -> Row \cup {None}]
    \* the schema's trigger: an enabled second factor has a secret
    /\ \A u \in Users : users[u] # None /\ users[u].totpEnabled => users[u].totpSecret # None
    /\ created \subseteq Users
    /\ sessions \in [Ids -> Session \cup {None}]
    /\ requests \in [Requests -> Request \cup {None}]

Init ==
    /\ users = [u \in Users |-> None]
    /\ created = {}
    /\ sessions = [id \in Ids |-> None]
    /\ requests = [r \in Requests |-> None]

(* The login page, and the end of sessions. *)

\* GET /login without a session.
LoginPage(id) ==
    /\ Fresh(id)
    /\ sessions' = [sessions EXCEPT ![id] = Anonymous]
    /\ UNCHANGED <<users, created, requests>>

\* logout; also expiry, and a restart that does not restore the session.
SessionEnds(id) ==
    /\ sessions[id] # None
    /\ sessions' = Destroyed(id)
    /\ UNCHANGED <<users, created, requests>>

(* The handlers. *)

\* requestSession finds a session in a state the handler accepts.
Start(r, kind, id) ==
    /\ requests[r] = None
    /\ sessions[id] # None
    /\ sessions[id].state \in SessionStates(kind)
    /\ requests' = [requests EXCEPT ![r] =
          [kind |-> kind, step |-> "session", id |-> id,
           session |-> sessions[id], row |-> None]]
    /\ UNCHANGED <<users, created, sessions>>

\* ... or in another state: every handler but login invalidates it.
StartRefused(kind, id) ==
    /\ kind # "login"
    /\ sessions[id] # None
    /\ sessions[id].state \notin SessionStates(kind)
    /\ sessions' = Destroyed(id)
    /\ UNCHANGED <<users, created, requests>>

\* An error answer: bad token or form, wrong password or code, a limiter, a
\* failing store or session file.  A GET of a setup page ends here too.
Abandon(r) ==
    /\ requests[r] # None
    /\ requests' = Finished(r)
    /\ UNCHANGED <<users, created, sessions>>

\* authenticate: the password of an active account is right.
Authenticate(r, u) ==
    LET row == users[u] IN
    /\ requests[r] # None
    /\ requests[r].kind = "login" /\ requests[r].step = "session"
    /\ row # None
    /\ row.status = "active"
    /\ requests' = [requests EXCEPT
          ![r].step = "rotate",
          ![r].session = [state |-> nextState(row), user |-> u,
                          authVersion |-> row.authVersion,
                          password |-> row.password, code |-> None]]
    /\ UNCHANGED <<users, created, sessions>>

\* verifyTwoFactor: the code is right for the secret that was read.
VerifyCode(r) ==
    LET request == requests[r]
        row == users[request.session.user] IN
    /\ request # None
    /\ request.kind = "challenge" /\ request.step = "session"
    /\ Current(request.session, row)
    /\ Gate("challenge", request.session, row)
    /\ requests' = [requests EXCEPT
          ![r].step = "rotate",
          ![r].session = [request.session EXCEPT
                             !.state = afterCode(row), !.code = row.totpSecret]]
    /\ UNCHANGED <<users, created, sessions>>

\* passwordUser, pendingEnrollmentUser, authenticatedUser and the form.
CheckUser(r) ==
    LET request == requests[r]
        row == users[request.session.user] IN
    /\ request # None
    /\ request.kind \notin {"login", "challenge"} /\ request.step = "session"
    /\ Current(request.session, row)
    /\ Gate(request.kind, request.session, row)
    /\ Form(request.kind, row)
    /\ requests' = [requests EXCEPT ![r].step = "checked", ![r].row = row]
    /\ UNCHANGED <<users, created, sessions>>

CheckUserFails(r) ==
    LET request == requests[r]
        row == users[request.session.user] IN
    /\ request # None
    /\ request.kind # "login" /\ request.step = "session"
    /\ ~(Current(request.session, row) /\ Gate(request.kind, request.session, row))
    /\ sessions' = Destroyed(request.id)
    /\ requests' = Finished(r)
    /\ UNCHANGED <<users, created>>

-----------------------------------------------------------------------------
(* The conditional UPDATEs. *)

\* The WHERE clause they share: the row still is the version that was read.
Unchanged(request) == Current(request.row, users[request.session.user])

\* PrepareTOTP stores a secret unless one is there.
PrepareTOTP(r, secret) ==
    LET request == requests[r]
        u == request.session.user
        updated == [users[u] EXCEPT !.totpSecret = IF @ = None THEN secret ELSE @]
    IN
    /\ request # None
    /\ request.kind \in {"enrollment", "account_setup"} /\ request.step = "checked"
    /\ request.row.totpSecret = None
    /\ Unchanged(request)
    /\ ~users[u].totpEnabled
    /\ users' = [users EXCEPT ![u] = updated]
    /\ requests' = [requests EXCEPT ![r].row = updated]
    /\ UNCHANGED <<created, sessions>>

\* The row was changed meanwhile: enrollment also invalidates the session.
PrepareTOTPFails(r) ==
    LET request == requests[r]
        u == request.session.user IN
    /\ request # None
    /\ request.kind \in {"enrollment", "account_setup"} /\ request.step = "checked"
    /\ request.row.totpSecret = None
    /\ ~(Unchanged(request) /\ ~users[u].totpEnabled)
    /\ sessions' = IF request.kind = "enrollment" THEN Destroyed(request.id) ELSE sessions
    /\ requests' = Finished(r)
    /\ UNCHANGED <<users, created>>

\* What ChangePassword, EnableTOTP and DisableTOTP require of the row ...
Updatable(request) ==
    LET row == users[request.session.user] IN
    /\ Unchanged(request)
    /\ CASE request.kind = "password" -> row.password = request.row.password
         [] request.kind \in {"enrollment", "account_enable"} ->
               row.totpSecret = request.row.totpSecret /\ ~row.totpEnabled
         [] OTHER -> ~row.twoFactorRequired /\ row.totpEnabled

\* ... and set in it; password is the new one.
Updated(kind, row, password) ==
    LET bumped == [row EXCEPT !.authVersion = @ + 1] IN
    CASE kind = "password" ->
            [bumped EXCEPT !.password = password, !.mustChangePassword = FALSE]
      [] kind \in {"enrollment", "account_enable"} ->
            [bumped EXCEPT !.totpEnabled = TRUE]
      [] OTHER -> [bumped EXCEPT !.totpSecret = None, !.totpEnabled = FALSE]

\* The session the handler asks Rotate for once the row is updated.
Reissued(request, row) ==
    [request.session EXCEPT
        !.state = IF request.kind = "enrollment" THEN afterCode(row) ELSE "authenticated",
        !.authVersion = row.authVersion,
        !.password = IF request.kind = "password" THEN row.password ELSE @,
        !.code = IF request.kind \in {"enrollment", "account_enable"}
                   THEN row.totpSecret ELSE @]

\* The kinds that end in an UPDATE; enrollment needs a secret to verify.
Updating(request) ==
    /\ request.kind \in {"password", "enrollment", "account_enable", "account_disable"}
    /\ request.step = "checked"
    /\ request.kind = "enrollment" => request.row.totpSecret # None

UpdateUser(r, password) ==
    LET request == requests[r]
        u == request.session.user
        updated == Updated(request.kind, users[u], password)
    IN
    /\ request # None
    /\ Updating(request)
    /\ request.kind = "password" => password # request.row.password
    /\ Updatable(request)
    /\ users[u].authVersion < MaxVersion
    /\ users' = [users EXCEPT ![u] = updated]
    /\ requests' = [requests EXCEPT ![r].step = "rotate",
                                    ![r].session = Reissued(request, updated)]
    /\ UNCHANGED <<created, sessions>>

\* A conflict: a mandatory step invalidates the session, an account page not.
UpdateUserFails(r) ==
    LET request == requests[r] IN
    /\ request # None
    /\ Updating(request)
    /\ ~Updatable(request)
    /\ sessions' = IF request.kind \in {"password", "enrollment"}
                     THEN Destroyed(request.id) ELSE sessions
    /\ requests' = Finished(r)
    /\ UNCHANGED <<users, created>>

\* Sessions.Rotate, whether or not the previous identifier is still live.
Rotate(r, id) ==
    LET request == requests[r] IN
    /\ request # None
    /\ request.step = "rotate"
    /\ Fresh(id)
    /\ sessions' = [Destroyed(request.id) EXCEPT ![id] = request.session]
    /\ requests' = Finished(r)
    /\ UNCHANGED <<users, created>>

-----------------------------------------------------------------------------
(* The administrator's pages and the local recovery commands. *)

Exists(u) == users[u] # None

\* Mutant: a new account may have the id of a deleted one (no AUTOINCREMENT).
CreateUser_ReusesId(u, password, required) ==
    /\ ~Exists(u) /\ Cardinality(created \cup {u}) <= MaxAccounts
    /\ u \in Roots => ~required
    /\ created' = created \cup {u}
    /\ users' = [users EXCEPT ![u] =
          [status |-> "active", password |-> password,
           mustChangePassword |-> u \notin Roots, authVersion |-> 1,
           twoFactorRequired |-> required, totpSecret |-> None,
           totpEnabled |-> FALSE]]
    /\ UNCHANGED <<sessions, requests>>

\* InitializeRoot and CreateAdminUser.
CreateUser(u, password, required) ==
    /\ u \notin created /\ Cardinality(created) < MaxAccounts
    /\ u \in Roots => ~required
    /\ created' = created \cup {u}
    /\ users' = [users EXCEPT ![u] =
          [status |-> "active", password |-> password,
           mustChangePassword |-> u \notin Roots, authVersion |-> 1,
           twoFactorRequired |-> required, totpSecret |-> None,
           totpEnabled |-> FALSE]]
    /\ UNCHANGED <<sessions, requests>>

UpdateAdminUser(u, status, required, resetTOTP) ==
    /\ Exists(u) /\ u \notin Roots
    /\ resetTOTP => users[u].authVersion < MaxVersion
    /\ users' = [users EXCEPT
          ![u].status = status,
          ![u].twoFactorRequired = required,
          ![u].totpSecret = IF resetTOTP THEN None ELSE @,
          ![u].totpEnabled = IF resetTOTP THEN FALSE ELSE @,
          ![u].authVersion = IF resetTOTP THEN @ + 1 ELSE @]
    /\ UNCHANGED <<created, sessions, requests>>

\* Mutant: the reset forgets the version.
ResetPassword_SameVersion(u, password) ==
    /\ Exists(u)
    /\ users' = [users EXCEPT ![u].password = password,
                              ![u].mustChangePassword = u \notin Roots]
    /\ UNCHANGED <<created, sessions, requests>>

\* ResetAdminPassword, and ResetRootPassword for the root account.
ResetPassword(u, password) ==
    /\ Exists(u)
    /\ users[u].authVersion < MaxVersion
    /\ users' = [users EXCEPT ![u].password = password,
                              ![u].mustChangePassword = u \notin Roots,
                              ![u].authVersion = @ + 1]
    /\ UNCHANGED <<created, sessions, requests>>

DeleteAdminUser(u) ==
    /\ Exists(u) /\ u \notin Roots
    /\ users' = [users EXCEPT ![u] = None]
    /\ UNCHANGED <<created, sessions, requests>>

\* Mutant: the second factor is removed under the same version.
DisableRootTwoFactor_SameVersion(u) ==
    /\ Exists(u) /\ u \in Roots
    /\ users' = [users EXCEPT ![u].twoFactorRequired = FALSE,
                              ![u].totpSecret = None,
                              ![u].totpEnabled = FALSE]
    /\ UNCHANGED <<created, sessions, requests>>

DisableRootTwoFactor(u) ==
    /\ Exists(u) /\ u \in Roots
    /\ users[u].authVersion < MaxVersion
    /\ users' = [users EXCEPT ![u].twoFactorRequired = FALSE,
                              ![u].totpSecret = None,
                              ![u].totpEnabled = FALSE,
                              ![u].authVersion = @ + 1]
    /\ UNCHANGED <<created, sessions, requests>>

-----------------------------------------------------------------------------
Handlers ==
    \/ \E id \in Ids : LoginPage(id) \/ SessionEnds(id)
    \/ \E r \in Requests, kind \in Kinds, id \in Ids : Start(r, kind, id)
    \/ \E kind \in Kinds, id \in Ids : StartRefused(kind, id)
    \/ \E r \in Requests : Abandon(r) \/ VerifyCode(r) \/ CheckUser(r)
                           \/ CheckUserFails(r) \/ PrepareTOTPFails(r)
                           \/ UpdateUserFails(r)
    \/ \E r \in Requests, u \in Users : Authenticate(r, u)
    \/ \E r \in Requests, secret \in Secrets : PrepareTOTP(r, secret)
    \/ \E r \in Requests, password \in Passwords : UpdateUser(r, password)
    \/ \E r \in Requests, id \in Ids : Rotate(r, id)

Administration ==
    \E u \in Users :
        \/ \E password \in Passwords, required \in BOOLEAN :
              CreateUser(u, password, required)
        \/ \E status \in {"active", "suspended"}, required, resetTOTP \in BOOLEAN :
              UpdateAdminUser(u, status, required, resetTOTP)
        \/ \E password \in Passwords : ResetPassword(u, password)
        \/ DeleteAdminUser(u)
        \/ DisableRootTwoFactor(u)

Next == Handlers \/ Administration

Spec == Init /\ [][Next]_vars

-----------------------------------------------------------------------------
AcceptedSessions == {id \in Ids : Accepted(sessions[id])}

RowOf(id) == users[sessions[id].user]

\* Whoever holds a session that authenticatedUser accepts has proved the
\* password the account has now: no login that was under way during a reset or
\* a change of the password ends in an accepted session.
CurrentPassword == \A id \in AcceptedSessions : sessions[id].password = RowOf(id).password

\* ... and, where the account has a second factor, a code of its current secret,
\* whichever of login, enrollment and the account page the session came from.
SecondFactorPassed ==
    \A id \in AcceptedSessions :
        RowOf(id).totpEnabled => sessions[id].code = RowOf(id).totpSecret

\* ... and owes no password change: a temporary password never opens the
\* dashboard, however the challenge, the enrollment and the change interleave.
PasswordChangeEnforced == \A id \in AcceptedSessions : ~RowOf(id).mustChangePassword

\* Every step that changes an account's password or takes away its second
\* factor ends every session of the account (docs/en/root-password-recovery.md
\* says so of the two recovery commands).
CredentialsChange(u) ==
    /\ users[u] # None /\ users'[u] # None
    /\ \/ users'[u].password # users[u].password
       \/ users[u].totpEnabled /\ ~users'[u].totpEnabled

NoneAccepted(u) == \A id \in AcceptedSessions : sessions[id].user # u

CredentialChangeEndsSessions ==
    [][\A u \in Users : CredentialsChange(u) => NoneAccepted(u)']_vars

\* docs/en/two-factor-authentication.md: when two-factor authentication is
\* required but not yet configured, the user must confirm a code before
\* accessing the dashboard.
RequiredTwoFactorEnforced ==
    \A id \in AcceptedSessions : RowOf(id).twoFactorRequired => RowOf(id).totpEnabled

-----------------------------------------------------------------------------
(* The inductive invariant behind the safety properties. *)

\* What a session proves, as long as the account has the session's version.
SoundFor(session, row) ==
    row # None =>
        /\ session.authVersion <= row.authVersion
        /\ session.authVersion = row.authVersion =>
              /\ session.password = row.password
              /\ session.state = "authenticated" => ~row.mustChangePassword
              /\ session.state \in {"authenticated", "password_change"} /\ row.totpEnabled
                    => session.code = row.totpSecret

Sound(session) ==
    session.state # "anonymous" =>
        session.user \in created /\ SoundFor(session, users[session.user])

\* What a row that was read still tells, as long as the version is the same.
StillTrue(read, row) ==
    row # None =>
        /\ read.authVersion <= row.authVersion
        /\ read.authVersion = row.authVersion =>
              /\ read.password = row.password
              /\ read.mustChangePassword = row.mustChangePassword
              /\ read.totpEnabled = row.totpEnabled
              /\ read.totpSecret # None => read.totpSecret = row.totpSecret

SoundRequest(request) ==
    /\ Sound(request.session)
    /\ request.kind # "login" \/ request.step = "rotate" => request.session.user \in Users
    /\ request.session.user \in Users => request.session.state # "anonymous"
    /\ request.step # "rotate" => request.session.state \in SessionStates(request.kind)
    /\ request.step = "checked" =>
          /\ request.kind \notin {"login", "challenge"}
          /\ request.row # None
          /\ request.kind = "account_enable" => request.row.totpSecret # None
          /\ request.row.authVersion = request.session.authVersion
          /\ StillTrue(request.row, users[request.session.user])

IInv ==
    /\ TypeOK
    /\ \A u \in Users : users[u] # None => u \in created
    /\ \A id \in Ids : sessions[id] # None =>
          /\ Sound(sessions[id])
          /\ sessions[id].state # "anonymous" <=> sessions[id].user \in Users
    /\ \A r \in Requests : requests[r] # None => SoundRequest(requests[r])

=============================================================================
