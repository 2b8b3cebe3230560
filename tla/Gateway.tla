------------------------------- MODULE Gateway -------------------------------
(***************************************************************************)
(* A request of the web application from its arrival to its answer: the    *)
(* checks its handler makes (authenticatedUser, modulePermission or        *)
(* rootUser, validForm), each a read of its own of the session map or of   *)
(* the database, and the calls it sends to the daemon over a Unix socket,  *)
(* each on a connection of its own.  Meanwhile root changes the user's     *)
(* account, permissions and modules, sessions begin and end, and the       *)
(* daemon stops.                                                           *)
(*                                                                         *)
(* One browser of one account is followed, with the routes of one module   *)
(* (module "-": those that belong to none).  The routes are data, in       *)
(* Routes.  Requests of one browser meet only in the session and in the    *)
(* daemon, whose commands are the business of other modules, so one at a   *)
(* time is followed.                                                       *)
(***************************************************************************)
EXTENDS Routes

CONSTANT None

ASSUME NoneAssumption == None \notin [version : Nat, complete : BOOLEAN]

VARIABLES
    kind,       \* users.type of the account: "root" or "user"
    module,     \* the module whose routes are followed
    status,     \* users.status, or "gone" when the row is deleted
    version,    \* users.auth_version
    level,      \* user_module_permissions.permission_level, "none" without a row
    enabled,    \* navigation_modules.is_enabled
    session,    \* the browser's session: auth version, and whether its login is complete
    request,    \* the request being served
    calls       \* the calls it has sent, in order

account == <<kind, module, status, version, level, enabled>>
vars == <<kind, module, status, version, level, enabled, session, request, calls>>

Sessions == [version : Nat, complete : BOOLEAN]
Grants == Levels \cup {"none"}

\* The modules no form can disable (is_essential), or that are none.
Essential == {"about", "-"}

\* The level a permission row can change: about is granted to all, root needs none.
HasRow == kind = "user" /\ module \notin Essential

\* The level PermissionForModule grants now, if any.
PermissionForModule ==
    IF ~enabled THEN {}
    ELSE IF kind = "root" THEN {"modify"}
    ELSE IF module = "about" THEN {"view"}
    ELSE {level} \ {"none"}

\* What holds now of the session, of the account and of the permission.
Facts ==
    {f \in {"session"} : session # None /\ session.complete /\ session.version = version}
    \cup {f \in {"account"} : status = "active"}
    \cup PermissionForModule

route == request.route

Idle == [step |-> "idle", route |-> None, at |-> 1, version |-> 0, alive |-> FALSE,
         token |-> FALSE, held |-> {}, result |-> "none"]

Init ==
    /\ kind \in {"root", "user"}
    /\ module \in Modules
    /\ status = "active"
    /\ version = 1
    /\ level \in IF HasRow THEN Grants ELSE {"none"}
    /\ enabled \in IF module \in Essential THEN {TRUE} ELSE BOOLEAN
    /\ session = None
    /\ request = Idle
    /\ calls = <<>>

-----------------------------------------------------------------------------
(* The checks of a handler. *)

Step(next) == request' = [request EXCEPT !.step = next]

Answer(result) == request' = [request EXCEPT !.step = "answered", !.result = result]

At(step) == request.step = step

\* ServeMux finds the handler. alive: the session of the request's cookie is in the
\* map; token: the form carries its token.
\* updatesJob reads the job before it checks anything.
Arrive ==
    /\ At("idle")
    /\ \E r \in RoutesOf[module], token \in BOOLEAN :
         /\ token => r.form
         /\ request' = [Idle EXCEPT !.step = IF r.late THEN "call" ELSE "session",
                                    !.route = r, !.alive = session # None, !.token = token,
                                    !.held = Facts]
    /\ UNCHANGED <<account, session, calls>>

\* updatesJob, with the job: without a session, its age decides.
Peek ==
    /\ At("peek")
    /\ IF request.alive THEN Step("session") ELSE Answer("done") \/ Answer("error")
    /\ UNCHANGED <<account, session, calls>>

\* requestSession, by the cookie the request came with. A session whose login is
\* not complete is destroyed.
Session ==
    /\ At("session")
    /\ IF request.alive /\ session.complete
       THEN /\ request' = [request EXCEPT !.step = "user", !.version = session.version]
            /\ UNCHANGED session
       ELSE /\ Answer("denied")
            /\ session' = IF request.alive THEN None ELSE session
    /\ UNCHANGED <<account, calls>>

\* FindByID: the database may fail; an account that is gone, suspended or has
\* another version loses the session it was found by, unless it ended already.
User ==
    /\ At("user")
    /\ \/ /\ Answer("error")
          /\ UNCHANGED session
       \/ /\ status = "active" /\ version = request.version
          /\ Step("gate")
          /\ UNCHANGED session
       \/ /\ status # "active" \/ version # request.version
          /\ Answer("denied")
          /\ session' = IF request.alive THEN None ELSE session
    /\ UNCHANGED <<account, calls>>

\* modulePermission, rootUser, or no more than the session.
Granted ==
    /\ route.gate = "module" => PermissionForModule \cap route.levels # {}
    /\ route.gate = "root" => kind = "root"

Gate ==
    /\ At("gate")
    /\ \/ Granted /\ Step("form")
       \/ ~Granted /\ Answer("denied")
       \/ route.gate = "module" /\ Answer("error")
    /\ UNCHANGED <<account, session, calls>>

\* ValidateCSRF looks the session up again; then the values of the request are
\* checked, here and in the client function, which also looks at its context.
Form ==
    /\ At("form")
    /\ \/ /\ route.form => request.alive /\ request.token
          /\ IF request.at > Len(route.work) THEN Answer("done") ELSE Step("call")
       \/ /\ route.form /\ ~(request.alive /\ request.token)
          /\ Answer("denied")
       \/ /\ ~route.late
          /\ Answer("error")
    /\ UNCHANGED <<account, session, calls>>

-----------------------------------------------------------------------------
(* The calls. *)

\* A call, the k-th of a batch: "new", "running" once the request is sent, and as
\* the client saw it end. "lost": it will not learn what the daemon did or still
\* does. starts: how often the request was sent.
Sent(k) == [at |-> request.at, k |-> k, state |-> "new", starts |-> 0, held |-> request.held]

Ends == {"ok", "refused", "lost"}

CallOf(i) == route.work[calls[i].at][calls[i].k]

\* A batch is sent, each call by a goroutine of its own when there are several.
Dispatch ==
    /\ At("call")
    /\ calls' = calls \o [k \in DOMAIN route.work[request.at] |-> Sent(k)]
    /\ Step("wait")
    /\ UNCHANGED <<account, session>>

\* A call of the application's own database: a statement or a transaction.
Store(i) ==
    /\ calls[i].state = "new"
    /\ CallOf(i).domain = "store"
    /\ \E end \in {"ok", "refused"} :
         calls' = [calls EXCEPT ![i].state = end, ![i].starts = @ + 1]
    /\ UNCHANGED <<account, session, request>>

\* connect: it tries again for a second while the socket is missing or refuses;
\* the request is sent once.
Connect(i) ==
    /\ calls[i].state = "new"
    /\ CallOf(i).domain # "store"
    /\ calls' \in {[calls EXCEPT ![i].state = "running", ![i].starts = @ + 1],
                   [calls EXCEPT ![i].state = "lost"]}
    /\ UNCHANGED <<account, session, request>>

\* handleConnection routes the request and writes the reply, which the client
\* reads, or cannot read.
handleConnection(i) ==
    /\ calls[i].state = "running"
    /\ \E end \in {"ok", "refused", "lost"} :
         /\ end = "ok" => Understands(CallOf(i))
         /\ calls' = [calls EXCEPT ![i].state = end]
    /\ UNCHANGED <<account, session, request>>

Lost_Resent(i) ==
    /\ calls[i].state = "running"
    /\ calls' = [calls EXCEPT ![i].state = "new"]
    /\ UNCHANGED <<account, session, request>>
Lost_NoDeadline(i) == FALSE /\ UNCHANGED vars

\* The client's deadline, ten seconds. The daemon, which has thirty, is not told.
Lost(i) ==
    /\ calls[i].state = "running"
    /\ calls' = [calls EXCEPT ![i].state = "lost"]
    /\ UNCHANGED <<account, session, request>>

\* The daemon stops: its commands stop where they are, its connections break.
DaemonStop ==
    /\ \E i \in DOMAIN calls : calls[i].state = "running"
    /\ calls' = [i \in DOMAIN calls |->
                   IF calls[i].state = "running" THEN [calls[i] EXCEPT !.state = "lost"]
                   ELSE calls[i]]
    /\ UNCHANGED <<account, session, request>>

\* The batch is over: the client function goes on, or answers. The calls of a
\* batch of several all go on whatever became of them.
Batch == {i \in DOMAIN calls : calls[i].at = request.at}

Goto(at) ==
    IF at <= Len(route.work) THEN request' = [request EXCEPT !.step = "call", !.at = at]
    ELSE IF route.late THEN request' = [request EXCEPT !.step = "peek", !.at = at]
    ELSE Answer("done")

Follow ==
    /\ At("wait")
    /\ \A i \in Batch : calls[i].state \in Ends
    /\ \E i \in Batch : \E next \in CallOf(i).then[calls[i].state] :
         \/ next = "on" /\ Goto(request.at + 1)
         \/ next = "skip" /\ Goto(request.at + 2)
         \/ next = "end" /\ Goto(Len(route.work) + 1)
         \/ next = "error" /\ Answer("error")
    /\ UNCHANGED <<account, session, calls>>

\* The response is written. Work the daemon still does for the request goes on
\* unseen: nothing here depends on it any more.
Close ==
    /\ At("answered")
    /\ request' = Idle
    /\ calls' = <<>>
    /\ UNCHANGED <<account, session>>

-----------------------------------------------------------------------------
(* What changes the user's rights meanwhile: other requests, of root or of    *)
(* this browser. The request, if any, remembers what held at any time of it.  *)

Witness(alive) ==
    /\ request' = IF At("idle") THEN request
                  ELSE [request EXCEPT !.held = @ \cup Facts',
                                       !.alive = @ /\ alive]
    /\ UNCHANGED calls

\* updateUser: status, permission and, with a reset of the second factor, version.
\* replacePermissions deletes every level and writes those of enabled modules.
UpdateAdminUser ==
    /\ kind = "user" /\ status # "gone"
    /\ status' \in {"active", "suspended"}
    /\ level' \in IF HasRow /\ enabled THEN Grants ELSE {"none"}
    /\ version' \in {version, version + 1}
    /\ UNCHANGED <<kind, module, enabled, session>>
    /\ Witness(TRUE)

ResetAdminPassword ==
    /\ kind = "user" /\ status # "gone"
    /\ version' = version + 1
    /\ UNCHANGED <<kind, module, status, level, enabled, session>>
    /\ Witness(TRUE)

\* The row goes, and the permissions with it.
DeleteAdminUser ==
    /\ kind = "user" /\ status # "gone"
    /\ status' = "gone"
    /\ level' = "none"
    /\ UNCHANGED <<kind, module, version, enabled, session>>
    /\ Witness(TRUE)

ToggleModule ==
    /\ module \notin Essential
    /\ enabled' = ~enabled
    /\ UNCHANGED <<kind, module, status, version, level, session>>
    /\ Witness(TRUE)

\* A session begins: complete, or not (the login page's, or one before a second
\* factor or a first password). WebAuth has the details.
Login ==
    /\ session = None
    /\ \E complete \in BOOLEAN :
         /\ complete => status = "active"
         /\ session' = [version |-> version, complete |-> complete]
    /\ UNCHANGED account
    /\ Witness(FALSE)

\* Its login is completed: the session has a new identifier.
CompleteLogin ==
    /\ session # None /\ ~session.complete /\ status = "active"
    /\ session' = [version |-> version, complete |-> TRUE]
    /\ UNCHANGED account
    /\ Witness(FALSE)

\* The user's own new password: a new version, and a new session for it.
ChangePassword ==
    /\ session # None /\ status = "active" /\ session.version = version
    /\ version' = version + 1
    /\ session' = [version |-> version + 1, complete |-> TRUE]
    /\ UNCHANGED <<kind, module, status, level, enabled>>
    /\ Witness(FALSE)

\* Logout, expiry, eviction, restart of the web server's session map.
SessionEnds ==
    /\ session # None
    /\ session' = None
    /\ UNCHANGED account
    /\ Witness(FALSE)

-----------------------------------------------------------------------------
Handler == Arrive \/ Peek \/ Session \/ User \/ Gate \/ Form \/ Dispatch \/ Follow \/ Close

Client == \E i \in DOMAIN calls : Store(i) \/ Connect(i) \/ Lost(i)

Daemon == DaemonStop \/ \E i \in DOMAIN calls : handleConnection(i)

Administration == UpdateAdminUser \/ ResetAdminPassword \/ DeleteAdminUser \/ ToggleModule

Browser == Login \/ CompleteLogin \/ ChangePassword \/ SessionEnds

Next == Handler \/ Client \/ Daemon \/ Administration \/ Browser

\* A handler that is not blocked goes on, dialling ends within a second, reading
\* the reply within ten. Nothing is assumed of the daemon.
Fairness ==
    /\ WF_vars(Peek \/ Session \/ User \/ Gate \/ Form \/ Dispatch \/ Follow \/ Close)
    /\ WF_vars(Client)

Spec == Init /\ [][Next]_vars /\ Fairness

-----------------------------------------------------------------------------
(* What a request may do. *)

\* The commands that leave a lasting change, with their domains: something is made, rewritten
\* or removed for good. docs/modules-and-permissions.md:14 reserves them to "modify".
Lasting ==
    ({"apache"} \X {"create", "update", "enable", "disable", "delete"})
    \cup ({"fail2ban"} \X {"ban", "unban"})
    \cup ({"firewall"} \X {"add", "delete"})
    \cup ({"cron"} \X {"create", "update", "suspend", "resume", "delete", "backup-create",
                     "backup-delete"})
    \cup ({"updates"} \X {"upgrade-start", "composer-refresh"})
    \cup ({"certbot"} \X {"issue", "delete"})

\* Those that start, stop or renew something that is there, which "action" may too.
Operating ==
    ({"services", "php", "mysql"} \X {"restart"})
    \cup ({"tor", "apache", "fail2ban"} \X {"reload", "restart"})
    \cup ({"firewall"} \X {"reload", "enable", "disable"})
    \cup ({"cron"} \X {"run", "backup-run"})
    \cup ({"certbot"} \X {"renew-test", "renew", "reinstall", "renew-replace"})

\* Those that only root may give, and those of them that change nothing; "write" is a
\* write of the application's database.
Consulting ==
    ({"admin-access"} \X {"status"})
    \cup ({"configuration"} \X {"capabilities", "inventory", "snapshots", "snapshot",
                              "snapshot-compare", "snapshot-export"})
Reserved ==
    Consulting
    \cup ({"admin-access"} \X {"update"}) \cup ({"updates"} \X {"reboot"}) \cup ({"store"} \X {"write"})
    \cup ({"configuration"} \X {"snapshot-create", "snapshot-name", "snapshot-delete",
                              "snapshot-import"})

Listed(call, table) == <<call.domain, call.command>> \in table

\* The levels of which one is needed, by the table of the documentation.
Needed(call) ==
    IF Listed(call, Lasting) THEN Modify
    ELSE IF Listed(call, Operating) THEN Operate
    ELSE Levels

\* Lasting changes that certbotAction leaves to "action" all the same.
Delegated == {"certbot"} \X {"issue", "delete"}

\* The levels of which the handlers of modules ask one.
Required(call) == IF Listed(call, Delegated) THEN Operate ELSE Needed(call)

Preferences == {changeTheme, changeLanguage}

Changing(call) == Listed(call, Lasting \cup Operating \cup (Reserved \ Consulting))

\* Types; a request that is over leaves nothing for the next.
TypeOK ==
    /\ kind \in {"root", "user"} /\ module \in Modules
    /\ status \in {"active", "suspended", "gone"}
    /\ kind = "root" => status = "active"
    /\ version \in Nat /\ level \in Grants /\ enabled \in BOOLEAN
    /\ session = None \/ session \in Sessions
    /\ request.step \in {"idle", "session", "user", "gate", "form", "call", "wait", "peek",
                         "answered"}
    /\ ~At("idle") => route.module = module
    /\ request.held \subseteq Levels \cup {"session", "account"}
    /\ request.result \in {"none", "done", "error", "denied"}
    /\ (request.result # "none") = At("answered")
    /\ At("call") => request.at \in DOMAIN route.work
    /\ At("idle") => request = Idle /\ calls = <<>>
    /\ \A i \in DOMAIN calls :
         calls[i].state \in {"new", "running"} \cup Ends /\ calls[i].starts \in Nat

\* Every call a handler sends rests on a complete, current session and an active
\* account, and where modulePermission is asked on a level that the command
\* requires, each of them true at some moment of that request: what was withdrawn
\* before it arrived is of no use to it. What changes the server is sent only by
\* handlers that ask, so a route with a session alone (mysqlMetrics, the theme)
\* reads, or writes the user's own preferences; root alone gives the reserved
\* commands, and a change is made for a form with the session's token. The levels
\* are those of the documentation but for Delegated (see DocumentedLevels).
\* updatesJob, late, is not covered: it reads a job before it checks anything.
AuthorisedWork ==
    ~At("idle") /\ ~route.late =>
        \A i \in DOMAIN calls :
            LET call == CallOf(i)
            IN /\ {"session", "account"} \subseteq calls[i].held
               /\ route.gate = "module" => calls[i].held \cap Required(call) # {}
               /\ Listed(call, Lasting) \/ Listed(call, Operating) => route.gate = "module"
               /\ Listed(call, Reserved) => kind = "root" \/ route \in Preferences
               /\ Changing(call) => request.token

\* What docs/modules-and-permissions.md:11-14 says of the routes of an enabled module: without
\* a level they are denied, and a lasting change is made at the level "modify" only, whoever
\* but root asks. The code disagrees: mysqlMetrics and updatesSummary (webapp.go) ask for no
\* level, and certbotAction (system_modules.go) issues and deletes certificates at "action".
DocumentedLevels ==
    ~At("idle") /\ ~route.late /\ route.module # "-" /\ enabled /\ kind = "user" =>
        \A i \in DOMAIN calls : calls[i].held \cap Needed(CallOf(i)) # {}

\* Every call the client packages send names a command its domain has, with a
\* number of arguments it takes, on both sides of the socket; issue alone passes
\* on as many values as the form holds.
Understood ==
    \A i \in DOMAIN calls :
        \/ CallOf(i).domain = "store" \/ Understands(CallOf(i))
        \/ CallOf(i).domain = "certbot" /\ CallOf(i).command = "issue"

\* A command that changes something is sent only when every call the same
\* request made before it was answered with success: a rule is not deleted on
\* a check that failed or was not heard of (Firewall.Delete), settings are not
\* saved on sources that could not be read.
Verified ==
    \A i, j \in DOMAIN calls :
        calls[i].at < calls[j].at /\ Changing(CallOf(j)) => calls[i].state = "ok"

\* A form that is answered with success did all of its work: the daemon, or the
\* database, finished every call of it with success.
SuccessIsReal ==
    request.result = "done" /\ route.form => \A i \in DOMAIN calls : calls[i].state = "ok"

\* A request makes no change twice: no call of it is sent again, as connect
\* repeats the dialling and never the command, and no two calls of it change.
RunsOnce ==
    /\ \A i \in DOMAIN calls : calls[i].starts <= 1
    /\ \A i, j \in DOMAIN calls : Changing(CallOf(i)) /\ Changing(CallOf(j)) => i = j

\* Every request is answered, whatever the daemon does or does not do.
Answered == request.step # "idle" ~> request.step = "idle"

-----------------------------------------------------------------------------
(* The inductive invariant of the proofs. *)

Held == Levels \cup {"session", "account"}

RequestRecord ==
    [step : {"idle", "session", "user", "gate", "form", "call", "wait", "peek", "answered"},
     route : Routes \cup {None}, at : Nat \ {0}, version : Nat, alive : BOOLEAN,
     token : BOOLEAN, held : SUBSET Held, result : {"none", "done", "error", "denied"}]

Sends ==
    [at : Nat, k : Nat, state : {"new", "running"} \cup Ends, starts : 0..1, held : SUBSET Held]

\* The records have their fields; a session is not ahead of its account, and the one
\* the request came with is in the map until the request is answered.
ShapeInv ==
    /\ request \in RequestRecord /\ calls \in Seq(Sends)
    /\ ~At("idle") => route \in RoutesOf[module]
    /\ At("peek") => route.late
    /\ session # None => session.version <= version
    /\ request.alive /\ ~At("answered") => session # None

\* What the checks that were passed have shown, at some moment of the request.
RightsInv ==
    /\ ~At("idle") => Facts \subseteq request.held
    /\ At("user") => /\ request.version <= version
                     /\ request.version = version => "session" \in request.held
    /\ request.step \in {"gate", "form", "call", "wait"} /\ ~route.late =>
         {"session", "account"} \subseteq request.held
    /\ request.step \in {"form", "call", "wait"} /\ ~route.late =>
         /\ route.gate = "module" => request.held \cap route.levels # {}
         /\ route.gate = "root" => kind = "root"
    /\ request.step \in {"call", "wait"} /\ ~route.late => (route.form => request.token)

\* What was shown when a call was sent, and the place of a call in the route's work.
CallInv ==
    \A i \in DOMAIN calls :
        /\ calls[i].at \in DOMAIN route.work /\ calls[i].k \in DOMAIN route.work[calls[i].at]
        /\ calls[i].state = "new" => calls[i].starts = 0
        /\ ~route.late =>
             /\ {"session", "account"} \subseteq calls[i].held
             /\ route.gate = "module" => calls[i].held \cap route.levels # {}
             /\ route.gate = "root" => kind = "root"
             /\ route.form => request.token

\* A form sends one call after the other, each after the success of the last.
FormInv ==
    ~At("idle") /\ route.form =>
        /\ request.step \in {"session", "user", "gate", "form"} => calls = <<>>
        /\ \A i, j \in DOMAIN calls : calls[i].at = calls[j].at => i = j
        /\ \A i \in DOMAIN calls :
             /\ calls[i].at <= request.at
             /\ At("call") => calls[i].at < request.at
             /\ calls[i].at < request.at \/ request.result = "done" => calls[i].state = "ok"

GatewayInv == TypeOK /\ ShapeInv /\ RightsInv /\ CallInv /\ FormInv

=============================================================================
