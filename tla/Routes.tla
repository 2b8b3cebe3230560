-------------------------------- MODULE Routes --------------------------------
(* The requests the web application takes for a signed-in user, the calls     *)
(* each sends to the daemon, and the calls the daemon's domains take.         *)
(*                                                                            *)
(* A route is a request that a handler of internal/webapp serves, a handler   *)
(* with an action in its path being one route for each action: who may make   *)
(* it (gate, module, levels), whether it is a form (a token is validated),    *)
(* and its work: a sequence of batches of calls, the calls of a batch running *)
(* side by side. A call to the daemon is a domain, a command and a number of  *)
(* arguments; then says, for each way the call may end, what the client       *)
(* function may do next: go "on" to the next batch, "skip" one, "end" with    *)
(* success, or end with an "error". Where it lists two, the content of the    *)
(* reply decides, which is not modelled. The domain "store" stands for the    *)
(* application's own database, whose calls do not leave the process.          *)
(*                                                                            *)
(* Reads that only choose words or defaults (languageForUser, the default log *)
(* of the log page) and the writes of the access log are left out, as are the *)
(* routes of WebAuth and WebAuthRestore: login, second factor, own password,  *)
(* restoration of the database.                                               *)
EXTENDS Naturals, Sequences

-----------------------------------------------------------------------------
(* How a client function goes on from a call. *)

Checked_LostIsSuccess == [ok |-> {"on"}, refused |-> {"error"}, lost |-> {"on"}]

\* Any failure is the function's failure.
Checked == [ok |-> {"on"}, refused |-> {"error"}, lost |-> {"error"}]

\* The same, and the data of the reply may be unusable too.
Decoded == [Checked EXCEPT !.ok = {"on", "error"}]

\* The same, and the data may show that there is nothing more to ask.
MayEnd == [Checked EXCEPT !.ok = {"on", "end", "error"}]

\* A refusal may say that the program is not installed: an empty page.
Absent == [Decoded EXCEPT !.refused = {"end", "error"}]

\* A failure leaves a card or a list of the page empty.
Shown == [ok |-> {"on"}, refused |-> {"on"}, lost |-> {"on"}]

\* The same, but data that cannot be decoded is an error.
ShownDecoded == [Shown EXCEPT !.ok = {"on", "error"}]

Call(domain, command, args, then) ==
    [domain |-> domain, command |-> command, args |-> args, then |-> then]

\* One call after another, none with arguments.
InTurn(domain, commands, then) ==
    [i \in DOMAIN commands |-> <<Call(domain, commands[i], 0, then)>>]

\* A single call.
Single(domain, command, args, then) == <<<<Call(domain, command, args, then)>>>>

StoreRead == Single("store", "read", 0, Checked)
StoreWrite == Single("store", "write", 0, Checked)

-----------------------------------------------------------------------------
(* The client packages of the web application. *)

\* webdashboard
Resources == Single("system", "info", 0, Shown)
Processes == Single("system", "processes", 0, Checked)
Supervision == <<<<Call("storage", "list", 0, Shown), Call("services", "list", 0, Shown),
                   Call("network", "list", 0, Shown)>>>>
DashboardSnapshot == <<Resources[1] \o Supervision[1]>>

\* webstorage, webservices, webnetwork, weblogs
StorageSnapshot == Single("storage", "list", 0, Decoded)
ServicesSnapshot == Single("services", "list", 0, Decoded)
RestartService == Single("services", "restart", 1, Checked)
NetworkSnapshot ==
    Single("network", "list", 0, MayEnd) \o Single("network", "status", 1, Decoded)
LogSources == Single("logs", "list", 0, Decoded)
LogsSnapshot ==
    Single("logs", "list", 0, MayEnd) \o Single("logs", "tail", 2, Decoded)

\* webphp
PHPSnapshot == InTurn("php", <<"info", "fpm">>, Decoded)
RestartPHP == Single("php", "restart", 1, Checked)

\* webmysql: once the service is known to exist, a refused info ends the page
\* with a warning; when the service call itself failed, it is an error.
MySQLSnapshot ==
       Single("mysql", "service", 0,
              [ok |-> {"on", "end", "error"}, refused |-> {"skip"}, lost |-> {"skip"}])
    \o Single("mysql", "info", 0,
              [ok |-> {"skip", "error"}, refused |-> {"end"}, lost |-> {"end"}])
    \o Single("mysql", "info", 0, Decoded)
    \o InTurn("mysql", <<"status", "databases">>, ShownDecoded)
RestartMySQL == Single("mysql", "restart", 0, Checked)
MySQLMetrics == Single("mysql", "status", 0, Decoded)

\* webtor
TorSnapshot ==
       Single("tor", "info", 0, Absent)
    \o InTurn("tor", <<"status", "configtest", "hidden-services">>, Decoded)
TorAction(action) == Single("tor", action, 0, Checked)

\* webapache
ApacheSnapshot == Single("apache", "overview", 0, Decoded)
ApacheAction(action) == Single("apache", action, 0, Checked)
ApacheSite == Single("apache", "site", 1, Decoded)
ApacheSiteAction(action) == Single("apache", action, 1, Checked)

\* webfail2ban
Fail2banSnapshot ==
       Single("fail2ban", "info", 0, Absent)
    \o Single("fail2ban", "status", 0, Decoded)
    \o Single("fail2ban", "configtest", 0, MayEnd)
    \o Single("fail2ban", "jail", 1, Decoded)
Fail2banAction(action, args) == Single("fail2ban", action, args, Checked)

\* webfirewall
FirewallSnapshot == InTurn("firewall", <<"info", "rules">>, Decoded)
FirewallCommand(command) == Single("firewall", command, 0, Checked)
FirewallAdd == Single("firewall", "add", 4, Checked)

FirewallDelete_Unconfirmed ==
    Single("firewall", "delete-check", 1, Decoded) \o Single("firewall", "delete", 2, Checked)
FirewallDelete_CheckIgnored ==
    Single("firewall", "delete-check", 1, Shown) \o Single("firewall", "delete", 3, Checked)

FirewallDelete ==
    Single("firewall", "delete-check", 1, Decoded) \o Single("firewall", "delete", 3, Checked)

\* webcron
CronSnapshot == InTurn("cron", <<"info", "status", "users", "jobs">>, Decoded)
CronArguments(action) == IF action = "create" THEN 3 ELSE IF action = "update" THEN 4 ELSE 2
CronAction(action) ==
    Single("cron", action, CronArguments(action), IF action = "run" THEN Decoded ELSE Checked)
CronBackupCreate == Single("cron", "backup-create", 12, Checked)
CronBackupRun == Single("cron", "backup-run", 1, Decoded)
CronBackupDelete == Single("cron", "backup-delete", 1, Checked)
CronResult == Single("cron", "run-result", 1, Decoded)

\* webcertbot
CertbotSnapshot == InTurn("certbot", <<"info", "status", "certificates">>, Decoded)
CertbotStart(action, args) == Single("certbot", action, args, Decoded)
CertbotResult == Single("certbot", "action-result", 1, Decoded)

\* webupdates
UpdatesSummary == InTurn("updates", <<"info", "firmware">>, Decoded)
UpdatesSnapshot ==
    InTurn("updates", <<"info", "firmware", "composer-status", "list">>, Decoded)
StartUpgrade == Single("updates", "upgrade-start", 0, Decoded)
UpdatesJob == Single("updates", "upgrade-status", 1, Decoded)
RefreshComposer == Single("updates", "composer-refresh", 0, Checked)
Reboot == Single("updates", "reboot", 1, Checked)

\* websettings, webconfiguration
AdminAccess == Single("admin-access", "status", 0, Decoded)
UpdateAdminAccess == Single("admin-access", "update", 1, Decoded)
ConfigurationCall(command, args) == Single("configuration", command, args, Checked)

-----------------------------------------------------------------------------
(* The routes. *)

Levels == {"view", "action", "modify"}
Operate == {"action", "modify"}
Modify == {"modify"}

Route(name, gate, module, levels, form, work) ==
    [name |-> name, gate |-> gate, module |-> module, levels |-> levels,
     form |-> form, late |-> FALSE, work |-> work]

Page(module, work) == Route(module, "module", module, Levels, FALSE, work)

\* A form of a module: an action of a handler's path.
ModuleForm(module, levels, action, work) == Route(action, "module", module, levels, TRUE, work)

SessionPage(name, work) == Route(name, "session", "-", Levels, FALSE, work)
SessionForm(name, work) == Route(name, "session", "-", Levels, TRUE, work)
RootPage(name, work) == Route(name, "root", "-", Levels, FALSE, work)
RootForm(name, work) == Route(name, "root", "-", Levels, TRUE, work)

\* The dashboard and what every page asks for.
dashboard == SessionPage("dashboard", DashboardSnapshot)
dashboardResources == SessionPage("resources", Resources)
dashboardSupervision == SessionPage("supervision", Supervision)
navigationMenu == SessionPage("menu", StoreRead)
changeTheme == SessionForm("theme", StoreWrite)
changeLanguage == SessionForm("language", StoreWrite)

\* The pages of the modules.
about == Page("about", <<>>)
processes == Page("processes", Processes)
storage == Page("storage", StorageSnapshot)
services == Page("services", ServicesSnapshot)
network == Page("network", NetworkSnapshot)
logs == Page("logs", LogsSnapshot)
php == Page("php", PHPSnapshot)
mysql == Page("mysql", MySQLSnapshot)
tor == Page("tor", TorSnapshot)
apache == Page("apache", ApacheSnapshot)
fail2ban == Page("fail2ban", Fail2banSnapshot)
firewall == Page("firewall", FirewallSnapshot)
cron == Page("cron", CronSnapshot)
certbot == Page("certbot", CertbotSnapshot)
updates == Page("updates", UpdatesSnapshot)
apacheSite == Route("site", "module", "apache", Modify, FALSE, ApacheSite)
cronResult == Route("result", "module", "cron", Operate, FALSE, CronResult)
certbotResult == Route("result", "module", "certbot", Levels, FALSE, CertbotResult)

\* Two routes of modules whose handlers ask for a session only.
updatesSummary == Route("summary", "session", "updates", Levels, FALSE, UpdatesSummary)
mysqlMetrics == Route("metrics", "session", "mysql", Levels, FALSE, MySQLMetrics)

\* The job of an update is read before anything is checked, and shown without a
\* session too: the web server restarts during the update, and its sessions end.
updatesJob == [Page("updates", UpdatesJob) EXCEPT !.name = "job", !.late = TRUE]

\* The forms of the modules. A form may hold more values than "issue" takes, or none.
restartService == ModuleForm("services", Operate, "restart", RestartService)
restartPHP == ModuleForm("php", Operate, "restart", RestartPHP)
restartMySQL == ModuleForm("mysql", Operate, "restart", RestartMySQL)
torAction == {ModuleForm("tor", Operate, a, TorAction(a)) : a \in {"reload", "restart"}}
apacheAction ==
    {ModuleForm("apache", Operate, a, ApacheAction(a)) : a \in {"reload", "restart"}}
    \cup {ModuleForm("apache", Modify, a, ApacheSiteAction(a)) :
             a \in {"create", "update", "enable", "disable", "delete"}}
    \cup {ModuleForm("apache", Modify, "issue", CertbotStart("issue", n)) : n \in {3, 23}}
fail2banAction ==
    {ModuleForm("fail2ban", Operate, a, Fail2banAction(a, 0)) : a \in {"reload", "restart"}}
    \cup {ModuleForm("fail2ban", Modify, a, Fail2banAction(a, 2)) : a \in {"ban", "unban"}}

firewallAction_DeleteForOperators ==
    {ModuleForm("firewall", Operate, a, FirewallCommand(a)) : a \in {"reload", "enable", "disable"}}
    \cup {ModuleForm("firewall", Operate, "add", FirewallAdd),
          ModuleForm("firewall", Operate, "delete", FirewallDelete)}

firewallAction ==
    {ModuleForm("firewall", Operate, a, FirewallCommand(a)) : a \in {"reload", "enable", "disable"}}
    \cup {ModuleForm("firewall", Modify, "add", FirewallAdd),
          ModuleForm("firewall", Modify, "delete", FirewallDelete)}

cronAction ==
    {ModuleForm("cron", Operate, "run", CronAction("run"))}
    \cup {ModuleForm("cron", Modify, a, CronAction(a)) :
             a \in {"create", "update", "suspend", "resume", "delete"}}
cronBackupCreate == ModuleForm("cron", Modify, "backup create", CronBackupCreate)
cronBackupAction ==
    {ModuleForm("cron", Operate, "backup run", CronBackupRun),
     ModuleForm("cron", Modify, "backup delete", CronBackupDelete)}
certbotAction ==
    {ModuleForm("certbot", Operate, a, CertbotStart(a, 0)) : a \in {"renew-test", "renew"}}
    \cup {ModuleForm("certbot", Operate, a, CertbotStart(a, 1)) :
             a \in {"delete", "reinstall", "renew-replace"}}
    \cup {ModuleForm("certbot", Operate, "issue", CertbotStart("issue", n)) : n \in {2, 3, 23}}
startUpdates == ModuleForm("updates", Modify, "start", StartUpgrade)
refreshComposer == ModuleForm("updates", Modify, "composer-refresh", RefreshComposer)

\* What only the root account may do.
rebootServer == RootForm("reboot", Reboot)
modules == RootPage("modules", StoreRead)
createCategory == RootForm("create category", StoreWrite)
navigationAction == RootForm("category or module", StoreWrite)
reorderNavigation == RootForm("reorder", StoreWrite)
users == RootPage("users", StoreRead)
userAccessLog == RootPage("access log", StoreRead \o StoreRead)
newUser == RootPage("new user", StoreRead)
editUser ==
    RootPage("edit user", Single("store", "read", 0, Decoded) \o StoreRead
                              \o Single("store", "read", 0, Shown))
createUser ==
    RootForm("create user", StoreRead \o Single("store", "read", 0, Decoded) \o StoreWrite)
updateUser == RootForm("update user", StoreWrite)
resetUserPassword == RootForm("password", StoreWrite)
deleteUser == RootForm("delete user", StoreWrite)
settings ==
    RootPage("settings", StoreRead \o StoreRead
                            \o Single("logs", "list", 0, Shown) \o AdminAccess)
updateSettings == RootForm("update settings", LogSources \o StoreWrite)
updateSMTPSettings == RootForm("smtp", StoreWrite)
updateAdminAccess == RootForm("admin access", UpdateAdminAccess)
backupDatabase == RootForm("backup database", StoreRead)
configuration ==
    RootPage("configuration", ConfigurationCall("inventory", 0)
                                  \o ConfigurationCall("snapshots", 0))
configurationPost ==
    {RootForm(command, ConfigurationCall(command, IF command = "snapshot-create" THEN 1 ELSE 2))
        : command \in {"snapshot-create", "snapshot-name", "snapshot-delete"}}
importConfigurationSnapshot == RootForm("import", ConfigurationCall("snapshot-import", 2))
compareConfigurationSnapshots == RootPage("compare", ConfigurationCall("snapshot-compare", 2))
configurationSnapshot == RootPage("snapshot", ConfigurationCall("snapshot", 1))
exportConfigurationSnapshot == RootPage("export", ConfigurationCall("snapshot-export", 1))

\* The routes the application registers.
Routes ==
    {dashboard, dashboardResources, dashboardSupervision, updatesSummary, mysqlMetrics,
     navigationMenu, changeTheme, changeLanguage,
     about, processes, storage, services, network, logs, php, mysql, tor, apache, fail2ban,
     firewall, cron, certbot, updates, apacheSite, cronResult, certbotResult, updatesJob,
     rebootServer, modules, createCategory, navigationAction, reorderNavigation,
     users, userAccessLog, newUser, editUser, createUser, updateUser, resetUserPassword,
     deleteUser, settings, updateSettings, updateSMTPSettings, updateAdminAccess,
     backupDatabase, configuration, importConfigurationSnapshot,
     compareConfigurationSnapshots, configurationSnapshot, exportConfigurationSnapshot,
     restartService, restartPHP, restartMySQL, cronBackupCreate, startUpdates, refreshComposer}
    \cup torAction \cup apacheAction \cup fail2banAction \cup firewallAction \cup cronAction
    \cup cronBackupAction \cup certbotAction \cup configurationPost

\* The modules of the navigation that routes name; "-" stands for none.
Modules == {r.module : r \in Routes}

\* The routes of a module.
RoutesOf == [m \in Modules |-> {r \in Routes : r.module = m}]

-----------------------------------------------------------------------------
(* What the domains of the daemon take: commands and argument counts. *)

Takes(commands, counts) == commands \X counts

apacheArguments ==
    Takes({"info", "overview", "configtest", "vhosts", "sites", "modules", "reload", "restart"}, {0})
    \cup Takes({"config", "site", "create", "update", "enable", "disable", "delete"}, {1})
certbotArguments ==
    Takes({"info", "status", "certificates", "renew-test", "renew"}, {0})
    \cup Takes({"delete", "reinstall", "renew-replace", "action-result"}, {1})
    \cup Takes({"issue"}, 3..22)
cronDomainArguments ==
    Takes({"info", "status", "users", "jobs"}, {0}) \cup Takes({"create"}, {3})
    \cup Takes({"update"}, {4}) \cup Takes({"suspend", "resume", "delete", "run"}, {2})
    \cup Takes({"run-result", "backup-delete", "backup-run"}, {1}) \cup Takes({"backup-create"}, {12})
fail2banArguments ==
    Takes({"info", "status", "configtest", "reload", "restart"}, {0})
    \cup Takes({"jail"}, {1}) \cup Takes({"ban", "unban"}, {2})
firewallArguments ==
    Takes({"info", "status", "rules", "enable", "disable", "reload"}, {0})
    \cup Takes({"add", "add-execute"}, {4}) \cup Takes({"delete-check"}, {1})
    \cup Takes({"delete", "delete-execute"}, {3})
phpArguments == Takes({"info", "fpm"}, {0}) \cup Takes({"configuration", "extensions", "restart"}, {1})
mysqlArguments == Takes({"service", "info", "status", "databases", "variables", "restart"}, {0})
torArguments ==
    Takes({"info", "status", "configtest", "hidden-services", "reload", "restart"}, {0})
servicesArguments == Takes({"list"}, {0}) \cup Takes({"status", "restart"}, {1})
storageArguments == Takes({"list"}, {0}) \cup Takes({"status"}, {1})
networkArguments == Takes({"list"}, {0}) \cup Takes({"status"}, {1})
logsArguments == Takes({"list"}, {0}) \cup Takes({"tail"}, {2})
systemArguments == Takes({"info", "processes"}, {0})
updatesArguments ==
    Takes({"info", "list", "firmware", "upgrade-start", "composer-status", "composer-refresh"}, {0})
    \cup Takes({"upgrade-status", "reboot"}, {1})
configurationArguments ==
    Takes({"capabilities", "inventory", "snapshots"}, {0}) \cup Takes({"snapshot-create"}, {0, 1})
    \cup Takes({"snapshot", "snapshot-export"}, {1})
    \cup Takes({"snapshot-name", "snapshot-delete", "snapshot-import", "snapshot-compare"}, {2})
adminAccessArguments == Takes({"status", "reconcile-package"}, {0}) \cup Takes({"update"}, {1})

\* The domains the daemon registers, with what each takes.
Domains ==
    ({"admin-access"} \X adminAccessArguments)
    \cup ({"apache"} \X apacheArguments) \cup ({"certbot"} \X certbotArguments)
    \cup ({"configuration"} \X configurationArguments)
    \cup ({"cron"} \X cronDomainArguments) \cup ({"fail2ban"} \X fail2banArguments)
    \cup ({"firewall"} \X firewallArguments) \cup ({"logs"} \X logsArguments)
    \cup ({"mysql"} \X mysqlArguments) \cup ({"network"} \X networkArguments)
    \cup ({"php"} \X phpArguments) \cup ({"services"} \X servicesArguments)
    \cup ({"storage"} \X storageArguments) \cup ({"system"} \X systemArguments)
    \cup ({"tor"} \X torArguments) \cup ({"updates"} \X updatesArguments)

\* Route and the domain's Handle: the domain is known, so is the command, and
\* the number of arguments is right.
Understands(call) == <<call.domain, <<call.command, call.args>>>> \in Domains

=============================================================================
