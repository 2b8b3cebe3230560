----------------------------- MODULE GatewayProofs -----------------------------
(***************************************************************************)
(* Proofs about Gateway, for every route of Routes and any number of       *)
(* changes of the account.                                                 *)
(*                                                                         *)
(* The argument has two halves.  RouteSound says what a handler and its    *)
(* client function owe for the calls they send: that the level the handler *)
(* asks for is one the command needs, that a form goes on only after a     *)
(* success and changes something in its last call alone.  RoutesSound      *)
(* shows it for each route of the table.  GatewayInv then follows a        *)
(* request through the checks, using of a route nothing but RouteSound.    *)
(***************************************************************************)
EXTENDS Gateway, SequenceTheorems, TLAPS

-----------------------------------------------------------------------------
(* What is required of a call and of a route. *)

\* What a client function may do once a call has ended.
Nexts == {"on", "skip", "end", "error"}
Thens == [ok : SUBSET Nexts, refused : SUBSET Nexts, lost : SUBSET Nexts]

\* The calls both sides of the socket know; issue alone may be refused for its arguments.
DomainNames == {x[1] : x \in Domains} \cup {"store"}
CommandNames == {x[2][1] : x \in Domains} \cup {"read", "write"}

KnownCalls ==
    {c \in [domain : DomainNames, command : CommandNames, args : Nat, then : Thens] :
        \/ c.domain = "store" \/ Understands(c)
        \/ c.domain = "certbot" /\ c.command = "issue"}

\* Those that any page may send, and those a page of root may send.
PlainCalls == {c \in KnownCalls : ~Listed(c, Lasting) /\ ~Listed(c, Operating)
                                                      /\ ~Listed(c, Reserved)}
ReadCalls == {c \in KnownCalls : ~Listed(c, Lasting) /\ ~Listed(c, Operating)
                                                     /\ ~Changing(c)}

\* The calls of which a failure is the form's failure.
StrictCalls == {c \in KnownCalls : /\ c.then.refused = {"error"} /\ c.then.lost = {"error"}
                                   /\ c.then.ok \subseteq {"on", "error"}}

CallSound(r, c) ==
    /\ c \in KnownCalls
    /\ r.gate = "module" => r.levels \subseteq Required(c)
    /\ Listed(c, Lasting) \/ Listed(c, Operating) => r.gate = "module"
    /\ Listed(c, Reserved) => r.gate = "root" \/ r \in Preferences
    /\ Changing(c) => r.form
    /\ r.form => c \in StrictCalls

RouteSound(r) ==
    /\ r.gate \in {"module", "session", "root"} /\ r.levels \subseteq Levels
    /\ r.form \in BOOLEAN /\ r.late \in BOOLEAN
    /\ r.work \in Seq(Seq(KnownCalls))
    /\ \A a \in DOMAIN r.work : \A k \in DOMAIN r.work[a] : CallSound(r, r.work[a][k])
    /\ r.late => ~r.form /\ Len(r.work) > 0
    /\ r.form => \A a \in DOMAIN r.work :
                    /\ Len(r.work[a]) = 1
                    /\ a < Len(r.work) => ~Changing(r.work[a][1])

\* The ways to go on that the client functions use name, for each end, what may follow.
LEMMA Followings ==
    /\ Checked \in Thens /\ Decoded \in Thens /\ MayEnd \in Thens /\ Absent \in Thens
    /\ Shown \in Thens /\ ShownDecoded \in Thens
<1>1. Checked \in Thens /\ Shown \in Thens
  BY DEF Checked, Shown, Thens, Nexts
<1>2. QED
  BY <1>1 DEF Decoded, MayEnd, Absent, ShownDecoded, Thens, Nexts

\* A command that its domain takes with n arguments, and that no list holds.
Askable(d, c, n) ==
    /\ <<d, <<c, n>>>> \in Domains
    /\ <<d, c>> \notin Lasting /\ <<d, c>> \notin Operating /\ <<d, c>> \notin Reserved

\* A call of such a command is plain.
LEMMA PlainCall ==
    ASSUME NEW d, NEW c, NEW n \in Nat, NEW t \in Thens, Askable(d, c, n)
    PROVE  Call(d, c, n, t) \in PlainCalls
<1>1. d \in DomainNames /\ c \in CommandNames
  <2>1. PICK x \in Domains : x = <<d, <<c, n>>>>
    BY DEF Askable
  <2>2. x[1] = d /\ x[2][1] = c
    BY <2>1
  <2>3. QED
    BY <2>2 DEF DomainNames, CommandNames
<1>2. QED
  BY <1>1 DEF Askable, Call, PlainCalls, KnownCalls, Understands, Listed

\* The commands that pages and checks send are plain.
LEMMA Plain ==
    ASSUME NEW t \in Thens
    PROVE  /\ \A c \in {"info", "processes"} : Call("system", c, 0, t) \in PlainCalls
           /\ Call("storage", "list", 0, t) \in PlainCalls
           /\ Call("services", "list", 0, t) \in PlainCalls
           /\ Call("network", "list", 0, t) \in PlainCalls
           /\ Call("network", "status", 1, t) \in PlainCalls
           /\ Call("logs", "list", 0, t) \in PlainCalls
           /\ Call("logs", "tail", 2, t) \in PlainCalls
           /\ \A c \in {"info", "fpm"} : Call("php", c, 0, t) \in PlainCalls
           /\ \A c \in {"service", "info", "status", "databases"} :
                 Call("mysql", c, 0, t) \in PlainCalls
           /\ \A c \in {"info", "status", "configtest", "hidden-services"} :
                 Call("tor", c, 0, t) \in PlainCalls
           /\ Call("apache", "overview", 0, t) \in PlainCalls
           /\ Call("apache", "site", 1, t) \in PlainCalls
           /\ \A c \in {"info", "status", "configtest"} : Call("fail2ban", c, 0, t) \in PlainCalls
           /\ Call("fail2ban", "jail", 1, t) \in PlainCalls
           /\ \A c \in {"info", "rules"} : Call("firewall", c, 0, t) \in PlainCalls
           /\ Call("firewall", "delete-check", 1, t) \in PlainCalls
           /\ \A c \in {"info", "status", "users", "jobs"} : Call("cron", c, 0, t) \in PlainCalls
           /\ Call("cron", "run-result", 1, t) \in PlainCalls
           /\ \A c \in {"info", "status", "certificates"} : Call("certbot", c, 0, t) \in PlainCalls
           /\ Call("certbot", "action-result", 1, t) \in PlainCalls
           /\ \A c \in {"info", "firmware", "composer-status", "list"} :
                 Call("updates", c, 0, t) \in PlainCalls
           /\ Call("updates", "upgrade-status", 1, t) \in PlainCalls
           /\ Call("store", "read", 0, t) \in PlainCalls
<1>1. \A c \in {"info", "processes"} : Askable("system", c, 0)
  BY DEF Askable, Domains, systemArguments, Takes, Lasting, Operating, Reserved, Consulting
<1>2. Askable("storage", "list", 0)
  BY DEF Askable, Domains, storageArguments, Takes, Lasting, Operating, Reserved, Consulting
<1>3. Askable("services", "list", 0)
  BY DEF Askable, Domains, servicesArguments, Takes, Lasting, Operating, Reserved, Consulting
<1>4. /\ Askable("network", "list", 0)
     /\ Askable("network", "status", 1)
  BY DEF Askable, Domains, networkArguments, Takes, Lasting, Operating, Reserved, Consulting
<1>5. /\ Askable("logs", "list", 0)
     /\ Askable("logs", "tail", 2)
  BY DEF Askable, Domains, logsArguments, Takes, Lasting, Operating, Reserved, Consulting
<1>6. \A c \in {"info", "fpm"} : Askable("php", c, 0)
  BY DEF Askable, Domains, phpArguments, Takes, Lasting, Operating, Reserved, Consulting
<1>7. \A c \in {"service", "info", "status", "databases"} : Askable("mysql", c, 0)
  BY DEF Askable, Domains, mysqlArguments, Takes, Lasting, Operating, Reserved, Consulting
<1>8. \A c \in {"info", "status", "configtest", "hidden-services"} : Askable("tor", c, 0)
  BY DEF Askable, Domains, torArguments, Takes, Lasting, Operating, Reserved, Consulting
<1>9. /\ Askable("apache", "overview", 0)
     /\ Askable("apache", "site", 1)
  BY DEF Askable, Domains, apacheArguments, Takes, Lasting, Operating, Reserved, Consulting
<1>10. /\ \A c \in {"info", "status", "configtest"} : Askable("fail2ban", c, 0)
     /\ Askable("fail2ban", "jail", 1)
  BY DEF Askable, Domains, fail2banArguments, Takes, Lasting, Operating, Reserved, Consulting
<1>11. /\ \A c \in {"info", "rules"} : Askable("firewall", c, 0)
     /\ Askable("firewall", "delete-check", 1)
  BY DEF Askable, Domains, firewallArguments, Takes, Lasting, Operating, Reserved, Consulting
<1>12. /\ \A c \in {"info", "status", "users", "jobs"} : Askable("cron", c, 0)
     /\ Askable("cron", "run-result", 1)
  BY DEF Askable, Domains, cronDomainArguments, Takes, Lasting, Operating, Reserved, Consulting
<1>13. /\ \A c \in {"info", "status", "certificates"} : Askable("certbot", c, 0)
     /\ Askable("certbot", "action-result", 1)
  BY DEF Askable, Domains, certbotArguments, Takes, Lasting, Operating, Reserved, Consulting
<1>14. /\ \A c \in {"info", "firmware", "composer-status", "list"} : Askable("updates", c, 0)
     /\ Askable("updates", "upgrade-status", 1)
  BY DEF Askable, Domains, updatesArguments, Takes, Lasting, Operating, Reserved, Consulting
<1>15. Call("store", "read", 0, t) \in PlainCalls
  BY DEF Call, PlainCalls, KnownCalls, DomainNames, CommandNames, Listed, Lasting, Operating,
         Reserved, Consulting
<1>16. QED
  BY PlainCall, <1>1, <1>2, <1>3, <1>4, <1>5, <1>6, <1>7, <1>8, <1>9, <1>10, <1>11, <1>12,
     <1>13, <1>14, <1>15

-----------------------------------------------------------------------------
(* The work of a client function. *)

\* A single call is a work of the calls it is one of.
LEMMA SingleWork ==
    ASSUME NEW C, NEW d, NEW c, NEW n, NEW t, Call(d, c, n, t) \in C
    PROVE  Single(d, c, n, t) \in Seq(Seq(C))
BY DEF Single

\* So are calls in turn.
LEMMA InTurnWork ==
    ASSUME NEW C, NEW d, NEW t, NEW S, NEW s \in Seq(S),
           \A x \in S : Call(d, x, 0, t) \in C
    PROVE  InTurn(d, s, t) \in Seq(Seq(C))
<1>1. \A i \in 1..Len(s) : <<Call(d, s[i], 0, t)>> \in Seq(C)
  OBVIOUS
<1>2. InTurn(d, s, t) \in [1..Len(s) -> Seq(C)] /\ Len(s) \in Nat
  BY <1>1 DEF InTurn
<1>3. QED
  BY <1>2, SeqDef

\* Works follow each other.
LEMMA WorkAfterWork ==
    ASSUME NEW C, NEW v \in Seq(Seq(C)), NEW w \in Seq(Seq(C))
    PROVE  v \o w \in Seq(Seq(C))
OBVIOUS

\* The pages of the modules and of the dashboard send plain calls.
LEMMA PageWorks ==
    /\ Resources \in Seq(Seq(PlainCalls)) /\ Processes \in Seq(Seq(PlainCalls))
    /\ Supervision \in Seq(Seq(PlainCalls)) /\ DashboardSnapshot \in Seq(Seq(PlainCalls))
    /\ StorageSnapshot \in Seq(Seq(PlainCalls)) /\ ServicesSnapshot \in Seq(Seq(PlainCalls))
    /\ NetworkSnapshot \in Seq(Seq(PlainCalls)) /\ LogsSnapshot \in Seq(Seq(PlainCalls))
    /\ PHPSnapshot \in Seq(Seq(PlainCalls)) /\ MySQLSnapshot \in Seq(Seq(PlainCalls))
    /\ MySQLMetrics \in Seq(Seq(PlainCalls)) /\ TorSnapshot \in Seq(Seq(PlainCalls))
    /\ ApacheSnapshot \in Seq(Seq(PlainCalls)) /\ ApacheSite \in Seq(Seq(PlainCalls))
    /\ Fail2banSnapshot \in Seq(Seq(PlainCalls)) /\ FirewallSnapshot \in Seq(Seq(PlainCalls))
    /\ CronSnapshot \in Seq(Seq(PlainCalls)) /\ CronResult \in Seq(Seq(PlainCalls))
    /\ CertbotSnapshot \in Seq(Seq(PlainCalls)) /\ CertbotResult \in Seq(Seq(PlainCalls))
    /\ UpdatesSummary \in Seq(Seq(PlainCalls)) /\ UpdatesSnapshot \in Seq(Seq(PlainCalls))
    /\ UpdatesJob \in Seq(Seq(PlainCalls)) /\ StoreRead \in Seq(Seq(PlainCalls))
<1>1. /\ Resources \in Seq(Seq(PlainCalls)) /\ Processes \in Seq(Seq(PlainCalls))
      /\ StorageSnapshot \in Seq(Seq(PlainCalls)) /\ ServicesSnapshot \in Seq(Seq(PlainCalls))
      /\ MySQLMetrics \in Seq(Seq(PlainCalls)) /\ ApacheSnapshot \in Seq(Seq(PlainCalls))
      /\ ApacheSite \in Seq(Seq(PlainCalls)) /\ CronResult \in Seq(Seq(PlainCalls))
      /\ CertbotResult \in Seq(Seq(PlainCalls)) /\ UpdatesJob \in Seq(Seq(PlainCalls))
      /\ StoreRead \in Seq(Seq(PlainCalls))
  BY Plain, Followings, SingleWork
     DEF Resources, Processes, StorageSnapshot, ServicesSnapshot, MySQLMetrics, ApacheSnapshot,
         ApacheSite, CronResult, CertbotResult, UpdatesJob, StoreRead
<1>2. Supervision \in Seq(Seq(PlainCalls)) /\ Len(Supervision) = 1
  BY Plain, Followings DEF Supervision
<1>3. DashboardSnapshot \in Seq(Seq(PlainCalls))
  <2>1. Resources[1] \in Seq(PlainCalls) /\ Supervision[1] \in Seq(PlainCalls)
    <3>1. Len(Resources) = 1
      BY DEF Resources, Single
    <3>2. PICK u \in Seq(Seq(PlainCalls)) : u = Resources
      BY <1>1
    <3>3. PICK v \in Seq(Seq(PlainCalls)) : v = Supervision
      BY <1>2
    <3>4. u[1] \in Seq(PlainCalls) /\ v[1] \in Seq(PlainCalls)
      BY <1>2, <3>1, <3>2, <3>3
    <3>5. QED
      BY <3>2, <3>3, <3>4
  <2>2. QED
    BY <2>1 DEF DashboardSnapshot
<1>4. NetworkSnapshot \in Seq(Seq(PlainCalls)) /\ LogsSnapshot \in Seq(Seq(PlainCalls))
  <2>1. /\ Single("network", "list", 0, MayEnd) \in Seq(Seq(PlainCalls))
        /\ Single("network", "status", 1, Decoded) \in Seq(Seq(PlainCalls))
        /\ Single("logs", "list", 0, MayEnd) \in Seq(Seq(PlainCalls))
        /\ Single("logs", "tail", 2, Decoded) \in Seq(Seq(PlainCalls))
    BY Plain, Followings, SingleWork
  <2>2. QED
    BY <2>1, WorkAfterWork DEF NetworkSnapshot, LogsSnapshot
<1>5. /\ PHPSnapshot \in Seq(Seq(PlainCalls)) /\ FirewallSnapshot \in Seq(Seq(PlainCalls))
      /\ CronSnapshot \in Seq(Seq(PlainCalls)) /\ CertbotSnapshot \in Seq(Seq(PlainCalls))
      /\ UpdatesSummary \in Seq(Seq(PlainCalls)) /\ UpdatesSnapshot \in Seq(Seq(PlainCalls))
  <2>1. /\ <<"info", "fpm">> \in Seq({"info", "fpm"})
        /\ <<"info", "rules">> \in Seq({"info", "rules"})
        /\ <<"info", "status", "users", "jobs">> \in Seq({"info", "status", "users", "jobs"})
        /\ <<"info", "status", "certificates">> \in Seq({"info", "status", "certificates"})
        /\ <<"info", "firmware">> \in Seq({"info", "firmware", "composer-status", "list"})
        /\ <<"info", "firmware", "composer-status", "list">>
             \in Seq({"info", "firmware", "composer-status", "list"})
    OBVIOUS
  <2>2. QED
    BY <2>1, Plain, Followings, InTurnWork
       DEF PHPSnapshot, FirewallSnapshot, CronSnapshot, CertbotSnapshot, UpdatesSummary,
           UpdatesSnapshot
<1>6. MySQLSnapshot \in Seq(Seq(PlainCalls))
  <2> DEFINE t1 == [ok |-> {"on", "end", "error"}, refused |-> {"skip"}, lost |-> {"skip"}]
             t2 == [ok |-> {"skip", "error"}, refused |-> {"end"}, lost |-> {"end"}]
  <2>1. t1 \in Thens /\ t2 \in Thens
    BY DEF Thens, Nexts
  <2>2. /\ Single("mysql", "service", 0, t1) \in Seq(Seq(PlainCalls))
        /\ Single("mysql", "info", 0, t2) \in Seq(Seq(PlainCalls))
        /\ Single("mysql", "info", 0, Decoded) \in Seq(Seq(PlainCalls))
    <3> HIDE DEF t1, t2
    <3> QED BY <2>1, Plain, Followings, SingleWork
  <2>3. <<"status", "databases">> \in Seq({"service", "info", "status", "databases"})
    OBVIOUS
  <2>4. InTurn("mysql", <<"status", "databases">>, ShownDecoded) \in Seq(Seq(PlainCalls))
    BY <2>3, Plain, Followings, InTurnWork
  <2>5. QED
    BY <2>2, <2>4, WorkAfterWork DEF MySQLSnapshot
<1>7. TorSnapshot \in Seq(Seq(PlainCalls))
  <2>1. Single("tor", "info", 0, Absent) \in Seq(Seq(PlainCalls))
    BY Plain, Followings, SingleWork
  <2>2. <<"status", "configtest", "hidden-services">>
          \in Seq({"info", "status", "configtest", "hidden-services"})
    OBVIOUS
  <2>3. InTurn("tor", <<"status", "configtest", "hidden-services">>, Decoded)
          \in Seq(Seq(PlainCalls))
    BY <2>2, Plain, Followings, InTurnWork
  <2>4. QED
    BY <2>1, <2>3, WorkAfterWork DEF TorSnapshot
<1>8. Fail2banSnapshot \in Seq(Seq(PlainCalls))
  <2>1. /\ Single("fail2ban", "info", 0, Absent) \in Seq(Seq(PlainCalls))
        /\ Single("fail2ban", "status", 0, Decoded) \in Seq(Seq(PlainCalls))
        /\ Single("fail2ban", "configtest", 0, MayEnd) \in Seq(Seq(PlainCalls))
        /\ Single("fail2ban", "jail", 1, Decoded) \in Seq(Seq(PlainCalls))
    BY Plain, Followings, SingleWork
  <2>2. QED
    BY <2>1, WorkAfterWork DEF Fail2banSnapshot
<1>9. QED
  BY <1>1, <1>2, <1>3, <1>4, <1>5, <1>6, <1>7, <1>8

-----------------------------------------------------------------------------
(* The routes. *)

\* What is left to "action" is a lasting change.
LEMMA DelegatedLast == Delegated \subseteq Lasting
BY DEF Delegated, Lasting

\* A page of a module, or of every signed-in user, that sends plain calls is sound.
LEMMA PlainPage ==
    ASSUME NEW name, NEW gate \in {"module", "session"}, NEW m, NEW lv \in SUBSET Levels,
           NEW w \in Seq(Seq(PlainCalls))
    PROVE  RouteSound(Route(name, gate, m, lv, FALSE, w))
<1> DEFINE r == Route(name, gate, m, lv, FALSE, w)
<1>1. /\ r.gate = gate /\ r.module = m /\ r.levels = lv /\ r.form = FALSE /\ r.late = FALSE
      /\ r.work = w
  BY DEF Route
<1> HIDE DEF r
<1>2. ASSUME NEW a \in DOMAIN w, NEW k \in DOMAIN w[a]
      PROVE  CallSound(r, w[a][k])
  <2>1. w[a][k] \in PlainCalls
    OBVIOUS
  <2>2. PICK c \in PlainCalls : c = w[a][k]
    BY <2>1
  <2>3. CallSound(r, c)
    BY <1>1, DelegatedLast DEF CallSound, PlainCalls, Required, Needed, Changing, Listed
  <2>4. QED
    BY <2>2, <2>3
<1>3. w \in Seq(Seq(KnownCalls))
  BY DEF PlainCalls
<1>4. RouteSound(r)
  BY <1>1, <1>2, <1>3 DEF RouteSound
<1>5. QED
  BY <1>4 DEF r

\* A page of root that changes nothing is sound.
LEMMA ReadPage ==
    ASSUME NEW name, NEW w \in Seq(Seq(ReadCalls))
    PROVE  RouteSound(RootPage(name, w))
<1> DEFINE r == RootPage(name, w)
<1>1. /\ r.gate = "root" /\ r.module = "-" /\ r.levels = Levels /\ r.form = FALSE
      /\ r.late = FALSE /\ r.work = w
  BY DEF Route, RootPage
<1> HIDE DEF r
<1>2. ASSUME NEW a \in DOMAIN w, NEW k \in DOMAIN w[a]
      PROVE  CallSound(r, w[a][k])
  <2>1. w[a][k] \in ReadCalls
    OBVIOUS
  <2>2. PICK c \in ReadCalls : c = w[a][k]
    BY <2>1
  <2>3. CallSound(r, c)
    BY <1>1 DEF CallSound, ReadCalls
  <2>4. QED
    BY <2>2, <2>3
<1>3. w \in Seq(Seq(KnownCalls))
  BY DEF ReadCalls
<1>4. RouteSound(r)
  BY <1>1, <1>2, <1>3 DEF RouteSound
<1>5. QED
  BY <1>4 DEF r

\* What makes a form sound.
LEMMA FormSound ==
    ASSUME NEW r, NEW w \in Seq(Seq(KnownCalls)), r.work = w, r.form = TRUE, r.late = FALSE,
           r.gate \in {"module", "session", "root"}, r.levels \subseteq Levels,
           \A a \in DOMAIN w : /\ Len(w[a]) = 1
                               /\ \A k \in DOMAIN w[a] : CallSound(r, w[a][k])
                               /\ a < Len(w) => ~Changing(w[a][1])
    PROVE  RouteSound(r)
BY DEF RouteSound

\* A form of one call, whose failure is the form's, is sound if the call is.
LEMMA FormOfOne ==
    ASSUME NEW name, NEW gate \in {"module", "session", "root"}, NEW m, NEW lv \in SUBSET Levels,
           NEW c \in StrictCalls, NEW r, r = Route(name, gate, m, lv, TRUE, <<<<c>>>>),
           gate = "module" => lv \subseteq Required(c),
           Listed(c, Lasting) \/ Listed(c, Operating) => gate = "module",
           Listed(c, Reserved) => gate = "root" \/ r \in Preferences
    PROVE  RouteSound(r)
<1>1. /\ r.gate = gate /\ r.module = m /\ r.levels = lv /\ r.form = TRUE /\ r.late = FALSE
      /\ r.work = <<<<c>>>>
  BY DEF Route
<1>2. CallSound(r, c)
  BY <1>1 DEF CallSound, StrictCalls
<1>3. c \in KnownCalls
  BY DEF StrictCalls
<1>4. PICK s : s = <<c>>
  OBVIOUS
<1>5. s \in Seq(KnownCalls) /\ Len(s) = 1 /\ s[1] = c
  BY <1>3, <1>4
<1>6. r.work = <<s>>
  BY <1>1, <1>4
<1>7. PICK w : w = <<s>>
  OBVIOUS
<1>8. w \in Seq(Seq(KnownCalls)) /\ Len(w) = 1 /\ w[1] = s
  BY <1>5, <1>7
<1>9. ASSUME NEW a \in DOMAIN w
      PROVE  /\ Len(w[a]) = 1 /\ ~(a < Len(w))
             /\ \A k \in DOMAIN w[a] : CallSound(r, w[a][k])
  <2>1. a = 1
    BY <1>8
  <2>2. \A k \in DOMAIN s : k = 1
    BY <1>5
  <2>3. QED
    <3>1. w[a] = s /\ ~(a < Len(w))
      BY <1>8, <2>1
    <3>2. \A k \in DOMAIN s : s[k] = c
      BY <1>5, <2>2
    <3>3. QED
      BY <1>2, <1>5, <3>1, <3>2
<1>10. QED
  BY <1>1, <1>6, <1>7, <1>8, <1>9 DEF RouteSound

\* Checked and Decoded make the failure of a call that of the form.
LEMMA StrictCall ==
    ASSUME NEW d, NEW x, NEW n \in Nat, NEW t \in {Checked, Decoded},
           \/ <<d, <<x, n>>>> \in Domains
           \/ d = "certbot" /\ x = "issue"
           \/ d = "store" /\ x \in {"read", "write"}
    PROVE  Call(d, x, n, t) \in StrictCalls
<1>1. /\ t \in Thens /\ t.refused = {"error"} /\ t.lost = {"error"}
      /\ t.ok \subseteq {"on", "error"}
  BY Followings DEF Checked, Decoded
<1>2. d \in DomainNames /\ x \in CommandNames
  <2>1. ASSUME NEW e, NEW y, NEW i, <<e, <<y, i>>>> \in Domains
        PROVE  e \in DomainNames /\ y \in CommandNames
    <3>1. PICK z \in Domains : z = <<e, <<y, i>>>>
      BY <2>1
    <3>2. z[1] = e /\ z[2][1] = y
      BY <3>1
    <3>3. QED
      BY <3>2 DEF DomainNames, CommandNames
  <2>2. <<"certbot", <<"issue", 3>>>> \in Domains
    BY DEF Domains, certbotArguments, Takes
  <2>3. CASE <<d, <<x, n>>>> \in Domains
    BY <2>1, <2>3
  <2>4. CASE d = "certbot" /\ x = "issue"
    BY <2>1, <2>2, <2>4
  <2>5. CASE d = "store" /\ x \in {"read", "write"}
    BY <2>5 DEF DomainNames, CommandNames
  <2>6. QED
    BY <2>3, <2>4, <2>5
<1>3. QED
  BY <1>1, <1>2 DEF StrictCalls, KnownCalls, Call, Understands

\* A command that a form of a module may send: its domain takes it, and it needs a level
\* that the form asks for.
Permitted(lv, d, x, n) ==
    /\ lv \subseteq Levels
    /\ \/ <<d, <<x, n>>>> \in Domains
       \/ d = "certbot" /\ x = "issue"
    /\ <<d, x>> \notin Reserved
    /\ <<d, x>> \in Lasting \ Delegated => lv \subseteq Modify
    /\ <<d, x>> \in Operating \cup Delegated => lv \subseteq Operate

\* A form of a module that sends such a command is sound.
LEMMA PermittedForm ==
    ASSUME NEW m, m # "-", NEW lv, NEW action, NEW d, NEW x, NEW n \in Nat,
           NEW t \in {Checked, Decoded}, Permitted(lv, d, x, n)
    PROVE  RouteSound(ModuleForm(m, lv, action, Single(d, x, n, t)))
<1>1. PICK c : c = Call(d, x, n, t)
  OBVIOUS
<1>2. c \in StrictCalls
  BY <1>1, StrictCall DEF Permitted
<1>3. c.domain = d /\ c.command = x
  BY <1>1 DEF Call
<1>4. lv \subseteq Required(c) /\ ~Listed(c, Reserved) /\ lv \in SUBSET Levels
  BY <1>3 DEF Permitted, Required, Needed, Listed
<1>5. PICK r : r = ModuleForm(m, lv, action, Single(d, x, n, t))
  OBVIOUS
<1>6. r = Route(action, "module", m, lv, TRUE, <<<<c>>>>)
  BY <1>1, <1>5 DEF ModuleForm, Single
<1>7. RouteSound(r)
  BY <1>2, <1>4, <1>6, FormOfOne
<1>8. QED
  BY <1>5, <1>7

\* A form of root may send what belongs to no module.
LEMMA PermittedRootForm ==
    ASSUME NEW name, NEW d, NEW x, NEW n \in Nat, NEW t \in {Checked, Decoded},
           \/ <<d, <<x, n>>>> \in Domains
           \/ d = "store" /\ x \in {"read", "write"},
           <<d, x>> \notin Lasting, <<d, x>> \notin Operating
    PROVE  RouteSound(RootForm(name, Single(d, x, n, t)))
<1>1. PICK c : c = Call(d, x, n, t)
  OBVIOUS
<1>2. c \in StrictCalls
  BY <1>1, StrictCall
<1>3. c.domain = d /\ c.command = x
  BY <1>1 DEF Call
<1>4. ~Listed(c, Lasting) /\ ~Listed(c, Operating)
  BY <1>3 DEF Listed
<1>5. PICK r : r = RootForm(name, Single(d, x, n, t))
  OBVIOUS
<1>6. r = Route(name, "root", "-", Levels, TRUE, <<<<c>>>>)
  BY <1>1, <1>5 DEF RootForm, Single
<1>7. RouteSound(r)
  BY <1>2, <1>4, <1>6, FormOfOne
<1>8. QED
  BY <1>5, <1>7

\* A form may do the work of one form after that of another that changes nothing.
LEMMA FormAfterForm ==
    ASSUME NEW name, NEW gate \in {"module", "root"}, NEW m, NEW lv, NEW v, NEW w,
           RouteSound(Route(name, gate, m, lv, TRUE, v)),
           RouteSound(Route(name, gate, m, lv, TRUE, w)),
           \A a \in DOMAIN v : ~Changing(v[a][1])
    PROVE  RouteSound(Route(name, gate, m, lv, TRUE, v \o w))
<1>1. PICK p : p = Route(name, gate, m, lv, TRUE, v)
  OBVIOUS
<1>2. PICK q : q = Route(name, gate, m, lv, TRUE, w)
  OBVIOUS
<1>3. PICK r : r = Route(name, gate, m, lv, TRUE, v \o w)
  OBVIOUS
<1>4. /\ p.gate = gate /\ p.module = m /\ p.levels = lv /\ p.form = TRUE /\ p.work = v
      /\ q.gate = gate /\ q.module = m /\ q.levels = lv /\ q.form = TRUE /\ q.work = w
      /\ r.gate = gate /\ r.module = m /\ r.levels = lv /\ r.form = TRUE /\ r.work = v \o w
      /\ r.late = FALSE
  BY <1>1, <1>2, <1>3 DEF Route
<1>5. p \notin Preferences /\ q \notin Preferences
  <2>1. changeTheme.gate = "session" /\ changeLanguage.gate = "session"
    BY DEF changeTheme, changeLanguage, SessionForm, Route
  <2>2. QED
    BY <1>4, <2>1 DEF Preferences
<1>6. RouteSound(p) /\ RouteSound(q)
  BY <1>1, <1>2
<1>7. ASSUME NEW c
      PROVE  CallSound(p, c) \/ CallSound(q, c) => CallSound(r, c)
  BY <1>4, <1>5 DEF CallSound
<1>8. v \in Seq(Seq(KnownCalls)) /\ w \in Seq(Seq(KnownCalls))
  BY <1>4, <1>6 DEF RouteSound
<1>9. PICK u \in Seq(Seq(KnownCalls)) : u = v \o w
  BY <1>8, WorkAfterWork
<1>10. Len(u) = Len(v) + Len(w) /\ Len(v) \in Nat /\ Len(w) \in Nat
  BY <1>8, <1>9
<1>11. ASSUME NEW a \in DOMAIN u
       PROVE  /\ Len(u[a]) = 1
              /\ \A k \in DOMAIN u[a] : CallSound(r, u[a][k])
              /\ a < Len(u) => ~Changing(u[a][1])
  <2>1. a \in 1..(Len(v) + Len(w))
    BY <1>10
  <2>2. CASE a <= Len(v)
    <3>1. a \in DOMAIN v /\ u[a] = v[a]
      BY <1>8, <1>9, <2>1, <2>2
    <3>2. Len(v[a]) = 1 /\ \A k \in DOMAIN v[a] : CallSound(p, v[a][k])
      BY <1>4, <1>6, <3>1 DEF RouteSound
    <3>3. QED
      BY <1>7, <3>1, <3>2
  <2>3. CASE a > Len(v)
    <3>1. PICK b \in Int : b = a - Len(v)
      BY <1>10, <2>1
    <3>2. b \in DOMAIN w /\ u[a] = w[b] /\ (a < Len(u) => b < Len(w))
      BY <1>8, <1>9, <1>10, <2>1, <2>3, <3>1
    <3>3. /\ Len(w[b]) = 1 /\ \A k \in DOMAIN w[b] : CallSound(q, w[b][k])
          /\ b < Len(w) => ~Changing(w[b][1])
      BY <1>4, <1>6, <3>2 DEF RouteSound
    <3>4. QED
      BY <1>7, <3>2, <3>3
  <2>4. QED
    BY <1>10, <2>1, <2>2, <2>3
<1>12. /\ r.gate \in {"module", "session", "root"} /\ r.levels \subseteq Levels
  BY <1>4, <1>6 DEF RouteSound
<1>13. r.work = u
  BY <1>4, <1>9
<1>14. r.form = TRUE /\ r.late = FALSE
  BY <1>4
<1>15. RouteSound(r)
  BY <1>11, <1>12, <1>13, <1>14, FormSound
<1>16. QED
  BY <1>3, <1>15

\* The pages of every signed-in user and of the modules.
LEMMA PagesSound ==
    /\ RouteSound(dashboard) /\ RouteSound(dashboardResources)
    /\ RouteSound(dashboardSupervision) /\ RouteSound(updatesSummary)
    /\ RouteSound(mysqlMetrics) /\ RouteSound(navigationMenu)
    /\ RouteSound(about) /\ RouteSound(processes) /\ RouteSound(storage)
    /\ RouteSound(services) /\ RouteSound(network) /\ RouteSound(logs) /\ RouteSound(php)
    /\ RouteSound(mysql) /\ RouteSound(tor) /\ RouteSound(apache) /\ RouteSound(fail2ban)
    /\ RouteSound(firewall) /\ RouteSound(cron) /\ RouteSound(certbot) /\ RouteSound(updates)
    /\ RouteSound(apacheSite) /\ RouteSound(cronResult) /\ RouteSound(certbotResult)
<1>0. Modify \in SUBSET Levels /\ Operate \in SUBSET Levels /\ Levels \in SUBSET Levels
  BY DEF Modify, Operate, Levels
<1>1. ASSUME NEW name, NEW w \in Seq(Seq(PlainCalls))
      PROVE  RouteSound(SessionPage(name, w))
  BY PlainPage DEF SessionPage
<1>2. ASSUME NEW m, m # "-", NEW w \in Seq(Seq(PlainCalls))
      PROVE  RouteSound(Page(m, w))
  BY <1>2, PlainPage DEF Page
<1>3. /\ RouteSound(dashboard) /\ RouteSound(dashboardResources)
      /\ RouteSound(dashboardSupervision) /\ RouteSound(updatesSummary)
      /\ RouteSound(mysqlMetrics) /\ RouteSound(navigationMenu)
  <2>1. RouteSound(updatesSummary) /\ RouteSound(mysqlMetrics)
    BY <1>0, PageWorks, PlainPage DEF updatesSummary, mysqlMetrics
  <2>2. QED
    BY <1>1, <2>1, PageWorks
       DEF dashboard, dashboardResources, dashboardSupervision, navigationMenu
<1>4. <<>> \in Seq(Seq(PlainCalls))
  OBVIOUS
<1>5. /\ RouteSound(about) /\ RouteSound(processes) /\ RouteSound(storage)
      /\ RouteSound(services) /\ RouteSound(network) /\ RouteSound(logs) /\ RouteSound(php)
      /\ RouteSound(mysql) /\ RouteSound(tor) /\ RouteSound(apache) /\ RouteSound(fail2ban)
      /\ RouteSound(firewall) /\ RouteSound(cron) /\ RouteSound(certbot) /\ RouteSound(updates)
  BY <1>2, <1>4, PageWorks
     DEF about, processes, storage, services, network, logs, php, mysql, tor, apache, fail2ban,
         firewall, cron, certbot, updates
<1>6. RouteSound(apacheSite) /\ RouteSound(cronResult) /\ RouteSound(certbotResult)
  BY <1>0, PageWorks, PlainPage DEF apacheSite, cronResult, certbotResult
<1>7. QED
  BY <1>3, <1>5, <1>6

\* The job of an update is a page as well, read before the checks.
LEMMA JobSound == RouteSound(updatesJob)
<1>1. PICK w \in Seq(Seq(PlainCalls)) : w = UpdatesJob
  BY PageWorks
<1>2. Len(w) = 1
  BY <1>1 DEF UpdatesJob, Single
<1>3. PICK r : r = updatesJob
  OBVIOUS
<1>4. /\ r.gate = "module" /\ r.module = "updates" /\ r.levels = Levels /\ r.form = FALSE
      /\ r.late = TRUE /\ r.work = w
  BY <1>1, <1>3 DEF updatesJob, Page, Route
<1>5. ASSUME NEW a \in DOMAIN w, NEW k \in DOMAIN w[a]
      PROVE  CallSound(r, w[a][k])
  <2>1. PICK c \in PlainCalls : c = w[a][k]
    OBVIOUS
  <2>2. CallSound(r, c)
    BY <1>4, DelegatedLast DEF CallSound, PlainCalls, Required, Needed, Changing, Listed
  <2>3. QED
    BY <2>1, <2>2
<1>6. w \in Seq(Seq(KnownCalls))
  BY DEF PlainCalls
<1>7. RouteSound(r)
  <2>1. \A a \in DOMAIN r.work : \A k \in DOMAIN r.work[a] : CallSound(r, r.work[a][k])
    BY <1>4, <1>5
  <2>2. ~r.form /\ r.form \in BOOLEAN /\ r.late \in BOOLEAN /\ Len(r.work) > 0
    <3>1. Len(r.work) = 1 /\ r.form = FALSE /\ r.late = TRUE
      BY <1>2, <1>4, Zenon
    <3>2. ~r.form /\ r.form \in BOOLEAN /\ r.late \in BOOLEAN
      BY <3>1, Zenon
    <3>3. QED
      BY <3>1, <3>2
  <2>3. r.work \in Seq(Seq(KnownCalls))
    BY <1>4, <1>6
  <2>4. r.gate = "module" /\ r.module = "updates" /\ r.levels = Levels
    BY <1>4
  <2>5. QED
    BY <2>1, <2>2, <2>3, <2>4 DEF RouteSound
<1>8. QED
  BY <1>3, <1>7

\* The forms of the modules ask for the level their command needs.
LEMMA ModuleFormsSound ==
    /\ RouteSound(restartService) /\ RouteSound(restartPHP) /\ RouteSound(restartMySQL)
    /\ RouteSound(cronBackupCreate) /\ RouteSound(startUpdates) /\ RouteSound(refreshComposer)
    /\ \A r \in torAction \cup apacheAction \cup fail2banAction : RouteSound(r)
    /\ \A r \in firewallAction : RouteSound(r)
    /\ \A r \in cronAction \cup cronBackupAction \cup certbotAction : RouteSound(r)
<1>1. /\ Permitted(Operate, "services", "restart", 1) /\ Permitted(Operate, "php", "restart", 1)
      /\ Permitted(Operate, "mysql", "restart", 0)
      /\ \A a \in {"reload", "restart"} : Permitted(Operate, "tor", a, 0)
  BY DEF Permitted, Operate, Modify, Levels, Domains, servicesArguments, phpArguments, mysqlArguments,
         torArguments, Takes, Lasting, Operating, Reserved, Consulting, Delegated
<1>2. /\ \A a \in {"reload", "restart"} : Permitted(Operate, "apache", a, 0)
      /\ \A a \in {"create", "update", "enable", "disable", "delete"} :
            Permitted(Modify, "apache", a, 1)
      /\ \A n \in {3, 23} : Permitted(Modify, "certbot", "issue", n)
  BY DEF Permitted, Operate, Modify, Levels, Domains, apacheArguments, Takes, Lasting, Operating,
         Reserved, Consulting, Delegated
<1>3. /\ \A a \in {"reload", "restart"} : Permitted(Operate, "fail2ban", a, 0)
      /\ \A a \in {"ban", "unban"} : Permitted(Modify, "fail2ban", a, 2)
      /\ \A a \in {"reload", "enable", "disable"} : Permitted(Operate, "firewall", a, 0)
      /\ Permitted(Modify, "firewall", "add", 4) /\ Permitted(Modify, "firewall", "delete", 3)
      /\ Permitted(Modify, "firewall", "delete-check", 1)
  BY DEF Permitted, Operate, Modify, Levels, Domains, fail2banArguments, firewallArguments, Takes,
         Lasting, Operating, Reserved, Consulting, Delegated
<1>4. /\ Permitted(Operate, "cron", "run", 2) /\ Permitted(Modify, "cron", "create", 3)
      /\ Permitted(Modify, "cron", "update", 4)
      /\ \A a \in {"suspend", "resume", "delete"} : Permitted(Modify, "cron", a, 2)
      /\ Permitted(Modify, "cron", "backup-create", 12)
      /\ Permitted(Operate, "cron", "backup-run", 1)
      /\ Permitted(Modify, "cron", "backup-delete", 1)
  BY DEF Permitted, Operate, Modify, Levels, Domains, cronDomainArguments, Takes, Lasting,
         Operating, Reserved, Consulting, Delegated
<1>5. /\ \A a \in {"renew-test", "renew"} : Permitted(Operate, "certbot", a, 0)
      /\ \A a \in {"delete", "reinstall", "renew-replace"} : Permitted(Operate, "certbot", a, 1)
      /\ \A n \in {2, 3, 23} : Permitted(Operate, "certbot", "issue", n)
      /\ Permitted(Modify, "updates", "upgrade-start", 0)
      /\ Permitted(Modify, "updates", "composer-refresh", 0)
  BY DEF Permitted, Operate, Modify, Levels, Domains, certbotArguments, updatesArguments, Takes,
         Lasting, Operating, Reserved, Consulting, Delegated
<1>6. /\ RouteSound(restartService) /\ RouteSound(restartPHP) /\ RouteSound(restartMySQL)
      /\ RouteSound(cronBackupCreate) /\ RouteSound(startUpdates) /\ RouteSound(refreshComposer)
  BY <1>1, <1>4, <1>5, PermittedForm
     DEF restartService, restartPHP, restartMySQL, cronBackupCreate, startUpdates,
         refreshComposer, RestartService, RestartPHP, RestartMySQL, CronBackupCreate,
         StartUpgrade, RefreshComposer
<1>7. \A r \in torAction \cup apacheAction \cup fail2banAction : RouteSound(r)
  BY <1>1, <1>2, <1>3, PermittedForm
     DEF torAction, apacheAction, fail2banAction, TorAction, ApacheAction, ApacheSiteAction,
         CertbotStart, Fail2banAction
<1>8. \A r \in cronAction \cup cronBackupAction \cup certbotAction : RouteSound(r)
  <2>1. /\ CronAction("run") = Single("cron", "run", 2, Decoded)
        /\ CronAction("create") = Single("cron", "create", 3, Checked)
        /\ CronAction("update") = Single("cron", "update", 4, Checked)
        /\ \A a \in {"suspend", "resume", "delete"} : CronAction(a) = Single("cron", a, 2, Checked)
    BY DEF CronAction, CronArguments
  <2>2. \A r \in cronAction : RouteSound(r)
    BY <1>4, <2>1, PermittedForm DEF cronAction
  <2>3. \A r \in cronBackupAction : RouteSound(r)
    BY <1>4, PermittedForm DEF cronBackupAction, CronBackupRun, CronBackupDelete
  <2>4. \A r \in certbotAction : RouteSound(r)
    BY <1>5, PermittedForm DEF certbotAction, CertbotStart
  <2>5. QED
    BY <2>2, <2>3, <2>4
<1>9. \A r \in firewallAction : RouteSound(r)
  <2>1. /\ \A a \in {"reload", "enable", "disable"} :
              RouteSound(ModuleForm("firewall", Operate, a, FirewallCommand(a)))
        /\ RouteSound(ModuleForm("firewall", Modify, "add", FirewallAdd))
    BY <1>3, PermittedForm DEF FirewallCommand, FirewallAdd
  <2>2. PICK v : v = Single("firewall", "delete-check", 1, Decoded)
    OBVIOUS
  <2>3. PICK w : w = Single("firewall", "delete", 3, Checked)
    OBVIOUS
  <2>4. /\ RouteSound(Route("delete", "module", "firewall", Modify, TRUE, v))
        /\ RouteSound(Route("delete", "module", "firewall", Modify, TRUE, w))
    BY <1>3, <2>2, <2>3, PermittedForm DEF ModuleForm
  <2>5. \A a \in DOMAIN v : ~Changing(v[a][1])
    <3>1. PICK c \in PlainCalls : c = Call("firewall", "delete-check", 1, Decoded)
      BY Plain, Followings
    <3>2. ~Changing(c)
      BY DEF PlainCalls, Changing, Listed
    <3>3. PICK s : s = <<c>>
      OBVIOUS
    <3>4. s[1] = c /\ v = <<s>>
      BY <2>2, <3>1, <3>3 DEF Single
    <3>5. QED
      BY <3>2, <3>4
  <2>6. RouteSound(ModuleForm("firewall", Modify, "delete", FirewallDelete))
    BY <2>2, <2>3, <2>4, <2>5, FormAfterForm DEF ModuleForm, FirewallDelete
  <2>7. QED
    BY <2>1, <2>6 DEF firewallAction
<1>10. QED
  BY <1>6, <1>7, <1>8, <1>9

\* The pages of root read what is reserved, and change nothing.
LEMMA RootPagesSound ==
    /\ RouteSound(modules) /\ RouteSound(users) /\ RouteSound(userAccessLog)
    /\ RouteSound(newUser) /\ RouteSound(editUser) /\ RouteSound(settings)
    /\ RouteSound(configuration) /\ RouteSound(compareConfigurationSnapshots)
    /\ RouteSound(configurationSnapshot) /\ RouteSound(exportConfigurationSnapshot)
<1>1. PlainCalls \subseteq ReadCalls
  BY DEF PlainCalls, ReadCalls, Changing, Listed
<1>2. ASSUME NEW d, NEW x, NEW n \in Nat, NEW t \in {Checked, Decoded},
             <<d, <<x, n>>>> \in Domains, <<d, x>> \in Consulting,
             <<d, x>> \notin Lasting, <<d, x>> \notin Operating
      PROVE  Single(d, x, n, t) \in Seq(Seq(ReadCalls))
  <2>1. PICK c : c = Call(d, x, n, t)
    OBVIOUS
  <2>2. c \in KnownCalls
    BY <1>2, <2>1, StrictCall DEF StrictCalls
  <2>3. c.domain = d /\ c.command = x
    BY <2>1 DEF Call
  <2>4. c \in ReadCalls
    BY <1>2, <2>2, <2>3 DEF ReadCalls, Changing, Listed
  <2>5. QED
    BY <2>1, <2>4, SingleWork
<1>3. /\ Single("admin-access", "status", 0, Decoded) \in Seq(Seq(ReadCalls))
      /\ Single("configuration", "inventory", 0, Checked) \in Seq(Seq(ReadCalls))
      /\ Single("configuration", "snapshots", 0, Checked) \in Seq(Seq(ReadCalls))
      /\ Single("configuration", "snapshot-compare", 2, Checked) \in Seq(Seq(ReadCalls))
      /\ Single("configuration", "snapshot", 1, Checked) \in Seq(Seq(ReadCalls))
      /\ Single("configuration", "snapshot-export", 1, Checked) \in Seq(Seq(ReadCalls))
  <2> DEFINE Consulted(d, x, n) == /\ <<d, <<x, n>>>> \in Domains /\ <<d, x>> \in Consulting
                                   /\ <<d, x>> \notin Lasting /\ <<d, x>> \notin Operating
  <2>1. Consulted("admin-access", "status", 0)
    BY DEF Domains, adminAccessArguments, Takes, Lasting, Operating, Consulting
  <2>2. /\ Consulted("configuration", "inventory", 0) /\ Consulted("configuration", "snapshots", 0)
        /\ Consulted("configuration", "snapshot-compare", 2)
        /\ Consulted("configuration", "snapshot", 1)
        /\ Consulted("configuration", "snapshot-export", 1)
    BY DEF Domains, configurationArguments, Takes, Lasting, Operating, Consulting
  <2>3. ASSUME NEW d, NEW x, NEW n \in Nat, NEW t \in {Checked, Decoded}, Consulted(d, x, n)
        PROVE  Single(d, x, n, t) \in Seq(Seq(ReadCalls))
    BY <1>2, <2>3
  <2> HIDE DEF Consulted
  <2>4. QED
    BY <2>1, <2>2, <2>3
<1>4. /\ StoreRead \in Seq(Seq(ReadCalls))
      /\ Single("store", "read", 0, Decoded) \in Seq(Seq(ReadCalls))
      /\ Single("store", "read", 0, Shown) \in Seq(Seq(ReadCalls))
      /\ Single("logs", "list", 0, Shown) \in Seq(Seq(ReadCalls))
  BY <1>1, Plain, Followings, SingleWork DEF StoreRead
<1>5. RouteSound(modules) /\ RouteSound(users) /\ RouteSound(newUser)
  BY <1>4, ReadPage DEF modules, users, newUser
<1>6. RouteSound(userAccessLog)
  <2>1. StoreRead \o StoreRead \in Seq(Seq(ReadCalls))
    BY <1>4, WorkAfterWork
  <2>2. QED
    BY <2>1, ReadPage DEF userAccessLog
<1>7. RouteSound(editUser)
  <2>1. Single("store", "read", 0, Decoded) \o StoreRead \o Single("store", "read", 0, Shown)
          \in Seq(Seq(ReadCalls))
    BY <1>4, WorkAfterWork
  <2>2. QED
    BY <2>1, ReadPage DEF editUser
<1>8. RouteSound(settings)
  <2>1. StoreRead \o StoreRead \o Single("logs", "list", 0, Shown) \o AdminAccess
          \in Seq(Seq(ReadCalls))
    BY <1>3, <1>4, WorkAfterWork DEF AdminAccess
  <2>2. QED
    BY <2>1, ReadPage DEF settings
<1>9. RouteSound(configuration)
  <2>1. ConfigurationCall("inventory", 0) \o ConfigurationCall("snapshots", 0)
          \in Seq(Seq(ReadCalls))
    BY <1>3, WorkAfterWork DEF ConfigurationCall
  <2>2. QED
    BY <2>1, ReadPage DEF configuration
<1>10. /\ RouteSound(compareConfigurationSnapshots)
       /\ RouteSound(configurationSnapshot) /\ RouteSound(exportConfigurationSnapshot)
  BY <1>3, ReadPage
     DEF ConfigurationCall, compareConfigurationSnapshots, configurationSnapshot,
         exportConfigurationSnapshot
<1>11. QED
  BY <1>5, <1>6, <1>7, <1>8, <1>9, <1>10

\* The forms of root.
LEMMA RootFormsSound ==
    /\ RouteSound(rebootServer) /\ RouteSound(createCategory) /\ RouteSound(navigationAction)
    /\ RouteSound(reorderNavigation) /\ RouteSound(createUser) /\ RouteSound(updateUser)
    /\ RouteSound(resetUserPassword) /\ RouteSound(deleteUser) /\ RouteSound(updateSettings)
    /\ RouteSound(updateSMTPSettings) /\ RouteSound(updateAdminAccess)
    /\ RouteSound(backupDatabase) /\ RouteSound(importConfigurationSnapshot)
    /\ \A r \in configurationPost : RouteSound(r)
<1> DEFINE Rooted(d, x, n) == /\ \/ <<d, <<x, n>>>> \in Domains
                                 \/ d = "store" /\ x \in {"read", "write"}
                              /\ <<d, x>> \notin Lasting /\ <<d, x>> \notin Operating
<1>1. /\ Rooted("store", "read", 0) /\ Rooted("store", "write", 0)
  BY DEF Lasting, Operating
<1>2. /\ Rooted("updates", "reboot", 1) /\ Rooted("logs", "list", 0) /\ Rooted("admin-access", "update", 1)
  BY DEF Domains, updatesArguments, logsArguments, adminAccessArguments, Takes, Lasting, Operating
<1>3. /\ Rooted("configuration", "snapshot-create", 1)
      /\ Rooted("configuration", "snapshot-name", 2)
      /\ Rooted("configuration", "snapshot-delete", 2)
      /\ Rooted("configuration", "snapshot-import", 2)
  BY DEF Domains, configurationArguments, Takes, Lasting, Operating
<1>4. ASSUME NEW name, NEW d, NEW x, NEW n \in Nat, NEW t \in {Checked, Decoded}, Rooted(d, x, n)
      PROVE  RouteSound(RootForm(name, Single(d, x, n, t)))
  BY <1>4, PermittedRootForm
<1> HIDE DEF Rooted
<1>5. /\ RouteSound(rebootServer) /\ RouteSound(createCategory) /\ RouteSound(navigationAction)
      /\ RouteSound(reorderNavigation) /\ RouteSound(updateUser)
      /\ RouteSound(resetUserPassword) /\ RouteSound(deleteUser)
      /\ RouteSound(updateSMTPSettings) /\ RouteSound(updateAdminAccess)
      /\ RouteSound(backupDatabase) /\ RouteSound(importConfigurationSnapshot)
  BY <1>1, <1>2, <1>3, <1>4
     DEF rebootServer, createCategory, navigationAction, reorderNavigation, updateUser,
         resetUserPassword, deleteUser, updateSMTPSettings, updateAdminAccess, backupDatabase,
         importConfigurationSnapshot, Reboot, StoreWrite, StoreRead, UpdateAdminAccess,
         ConfigurationCall
<1>6. \A r \in configurationPost : RouteSound(r)
  <2>1. /\ RouteSound(RootForm("snapshot-create", ConfigurationCall("snapshot-create", 1)))
        /\ RouteSound(RootForm("snapshot-name", ConfigurationCall("snapshot-name", 2)))
        /\ RouteSound(RootForm("snapshot-delete", ConfigurationCall("snapshot-delete", 2)))
    BY <1>3, <1>4 DEF ConfigurationCall
  <2>2. QED
    BY <2>1 DEF configurationPost
<1>7. ASSUME NEW d, NEW x, NEW t \in {Checked, Decoded}, Call(d, x, 0, t) \in PlainCalls
      PROVE  \A a \in DOMAIN Single(d, x, 0, t) : ~Changing(Single(d, x, 0, t)[a][1])
  <2>1. PICK c \in PlainCalls : c = Call(d, x, 0, t)
    BY <1>7
  <2>2. ~Changing(c)
    BY DEF PlainCalls, Changing, Listed
  <2>3. PICK s : s = <<c>>
    OBVIOUS
  <2>4. s[1] = c /\ Single(d, x, 0, t) = <<s>>
    BY <2>1, <2>3 DEF Single
  <2>5. QED
    BY <2>2, <2>4
<1>8. RouteSound(updateSettings)
  <2>1. PICK v : v = LogSources
    OBVIOUS
  <2>2. PICK w : w = StoreWrite
    OBVIOUS
  <2>3. \A a \in DOMAIN v : ~Changing(v[a][1])
    BY <1>7, <2>1, Plain, Followings DEF LogSources
  <2>4. /\ RouteSound(Route("update settings", "root", "-", Levels, TRUE, v))
        /\ RouteSound(Route("update settings", "root", "-", Levels, TRUE, w))
    BY <1>1, <1>2, <1>4, <2>1, <2>2 DEF RootForm, LogSources, StoreWrite
  <2>5. QED
    BY <2>1, <2>2, <2>3, <2>4, FormAfterForm DEF updateSettings, RootForm
<1>9. RouteSound(createUser)
  <2>1. PICK u : u = StoreRead
    OBVIOUS
  <2>2. PICK v : v = Single("store", "read", 0, Decoded)
    OBVIOUS
  <2>3. PICK w : w = StoreWrite
    OBVIOUS
  <2>4. /\ \A a \in DOMAIN u : ~Changing(u[a][1])
        /\ \A a \in DOMAIN v : ~Changing(v[a][1])
    BY <1>7, <2>1, <2>2, Plain, Followings DEF StoreRead
  <2>5. /\ RouteSound(Route("create user", "root", "-", Levels, TRUE, u))
        /\ RouteSound(Route("create user", "root", "-", Levels, TRUE, v))
        /\ RouteSound(Route("create user", "root", "-", Levels, TRUE, w))
    BY <1>1, <1>4, <2>1, <2>2, <2>3 DEF RootForm, StoreRead, StoreWrite
  <2>6. RouteSound(Route("create user", "root", "-", Levels, TRUE, u \o v))
    BY <2>4, <2>5, FormAfterForm
  <2>7. u \in Seq(Seq(PlainCalls)) /\ v \in Seq(Seq(PlainCalls)) /\ Len(u) = 1 /\ Len(v) = 1
    <3>1. Len(u) = 1 /\ Len(v) = 1
      BY <2>1, <2>2 DEF StoreRead, Single
    <3>2. QED
      BY <2>1, <2>2, <3>1, Plain, Followings, SingleWork DEF StoreRead
  <2>8. \A a \in DOMAIN (u \o v) : ~Changing((u \o v)[a][1])
    <3>1. PICK p \in Seq(Seq(PlainCalls)) : p = u \o v
      BY <2>7, WorkAfterWork
    <3>2. Len(p) = 2 /\ p[1] = u[1] /\ p[2] = v[1]
      BY <2>7, <3>1, ConcatProperties
    <3>3. \A a \in DOMAIN p : a = 1 \/ a = 2
      BY <3>2
    <3>4. ~Changing(u[1][1]) /\ ~Changing(v[1][1])
      BY <2>4, <2>7
    <3>5. QED
      BY <3>1, <3>2, <3>3, <3>4
  <2>9. RouteSound(Route("create user", "root", "-", Levels, TRUE, u \o v \o w))
    BY <2>5, <2>6, <2>8, FormAfterForm
  <2>10. QED
    BY <2>1, <2>2, <2>3, <2>9 DEF createUser, RootForm
<1>10. QED
  BY <1>5, <1>6, <1>8, <1>9

\* The two forms with which every user writes: his theme and his language.
LEMMA PreferencesSound == RouteSound(changeTheme) /\ RouteSound(changeLanguage)
<1>1. PICK c \in StrictCalls : c = Call("store", "write", 0, Checked)
  BY StrictCall
<1>2. ~Listed(c, Lasting) /\ ~Listed(c, Operating)
  BY <1>1 DEF Call, Listed, Lasting, Operating
<1>3. ASSUME NEW name, NEW r \in Preferences, r = SessionForm(name, StoreWrite)
      PROVE  RouteSound(r)
  <2>1. r = Route(name, "session", "-", Levels, TRUE, <<<<c>>>>)
    BY <1>1, <1>3 DEF SessionForm, StoreWrite, Single
  <2>2. QED
    BY <1>2, <2>1, FormOfOne
<1>4. QED
  BY <1>3 DEF Preferences, changeTheme, changeLanguage

\* Every route the web application registers is sound.
THEOREM RoutesSound == \A r \in Routes : RouteSound(r)
BY PagesSound, JobSound, ModuleFormsSound, RootPagesSound, RootFormsSound, PreferencesSound
   DEF Routes

-----------------------------------------------------------------------------
(* The invariant. *)

\* What is used of the route of a request.
LEMMA RouteFacts ==
    ASSUME GatewayInv, ~At("idle")
    PROVE  route \in Routes /\ RouteSound(route) /\ route.module = module
BY RoutesSound DEF GatewayInv, TypeOK, ShapeInv, RoutesOf

\* What holds of an account is what a request may remember.
LEMMA FactsHeld ==
    ASSUME level \in Grants
    PROVE  Facts \subseteq Held
BY DEF Facts, Held, PermissionForModule, Grants, Levels

\* No request, no call.
LEMMA InitGateway == ASSUME Init PROVE GatewayInv
<1>1. request = Idle /\ calls = <<>> /\ session = None
  BY DEF Init
<1>2. Idle \in RequestRecord /\ Idle.step = "idle" /\ Idle.result = "none" /\ Idle.alive = FALSE
  BY DEF Idle, RequestRecord, Held
<1>3. level \in Grants /\ enabled \in BOOLEAN
  BY DEF Init, Grants, Levels
<1>4. DOMAIN calls = {}
  BY <1>1
<1>5. request \in RequestRecord /\ At("idle") /\ ~request.alive /\ request.result = "none"
  BY <1>1, <1>2 DEF At
<1>6. TypeOK
  <2>1. request.held = {}
    BY <1>1 DEF Idle
  <2>2. QED
    BY <1>1, <1>3, <1>4, <1>5, <2>1 DEF Init, TypeOK, At
<1>7. ShapeInv
  BY <1>1, <1>5 DEF ShapeInv, At
<1>8. RightsInv /\ CallInv /\ FormInv
  BY <1>4, <1>5 DEF RightsInv, CallInv, FormInv, At
<1>9. QED
  BY <1>6, <1>7, <1>8 DEF GatewayInv

\* A step that changes the account or the session, and that the request witnesses.
LEMMA WitnessedStep ==
    ASSUME GatewayInv, NEW b \in BOOLEAN, Witness(b), UNCHANGED <<kind, module>>,
           status' \in {"active", "suspended", "gone"}, kind = "root" => status' = "active",
           version' \in Nat, version' >= version, level' \in Grants, enabled' \in BOOLEAN,
           session' # None => session' \in Sessions /\ session'.version <= version',
           b => session' = session
    PROVE  GatewayInv'
<1>1. calls' = calls
  BY DEF Witness
<1>2. Facts' \subseteq Held
  BY DEF Facts, Held, PermissionForModule, Grants, Levels
<1>3. CASE At("idle")
  <2>1. request' = request
    BY <1>3 DEF Witness
  <2>2. request.alive = FALSE
    BY <1>3 DEF GatewayInv, TypeOK, Idle
  <2>3. TypeOK'
    BY <1>1, <2>1, <1>3 DEF GatewayInv, TypeOK, At, route, Idle
  <2>4. ShapeInv'
    BY <1>1, <2>1, <2>2, <1>3 DEF GatewayInv, ShapeInv, At
  <2>5. QED
    BY <1>1, <1>3, <2>1, <2>3, <2>4
       DEF GatewayInv, TypeOK, RightsInv, CallInv, FormInv, At
<1>4. CASE ~At("idle")
  <2>1. request' = [request EXCEPT !.held = @ \cup Facts', !.alive = @ /\ b]
    BY <1>4 DEF Witness
  <2>2. request \in RequestRecord
    BY DEF GatewayInv, ShapeInv
  <2>3. /\ request'.step = request.step /\ request'.route = request.route
        /\ request'.at = request.at /\ request'.version = request.version
        /\ request'.token = request.token /\ request'.result = request.result
        /\ request'.held = request.held \cup Facts' /\ request'.alive = (request.alive /\ b)
    BY <2>1, <2>2 DEF RequestRecord
  <2>4. request' \in RequestRecord
    BY <1>2, <2>1, <2>2 DEF RequestRecord
  <2>5. TypeOK'
    BY <1>1, <1>2, <1>4, <2>2, <2>3 DEF GatewayInv, TypeOK, At, route, RequestRecord, Held
  <2>6. ShapeInv'
    BY <1>1, <1>4, <2>3, <2>4 DEF GatewayInv, ShapeInv, At, route
  <2>7. RightsInv'
    <3>1. Facts' \subseteq request'.held /\ request.held \subseteq request'.held
      BY <2>3
    <3>2. At("user") => /\ request.version <= version'
                        /\ request.version = version' => "session" \in request.held
      BY <2>2 DEF GatewayInv, TypeOK, RightsInv, RequestRecord
    <3>3. QED
      BY <2>3, <3>1, <3>2 DEF GatewayInv, RightsInv, At, route
  <2>8. CallInv'
    BY <1>1, <2>3 DEF GatewayInv, CallInv, route
  <2>9. FormInv'
    BY <1>1, <1>4, <2>3 DEF GatewayInv, FormInv, route, At
  <2>10. QED
    BY <2>5, <2>6, <2>7, <2>8, <2>9 DEF GatewayInv
<1>5. QED
  BY <1>3, <1>4

\* The steps of root and of the browser.
LEMMA RightsStep ==
    ASSUME GatewayInv, Administration \/ Browser
    PROVE  GatewayInv'
<1> USE DEF GatewayInv, TypeOK, ShapeInv
<1>1. session # None => session \in Sessions /\ session.version <= version
  OBVIOUS
<1>2. "none" \in Grants /\ version \in Nat
  BY DEF Grants
<1>3. CASE UpdateAdminUser
  <2>1. level' \in Grants
    BY <1>2, <1>3 DEF UpdateAdminUser
  <2>2. version' \in Nat /\ version' >= version
    BY <1>2, <1>3 DEF UpdateAdminUser
  <2>3. session # None => session.version <= version'
    BY <1>1, <1>2, <1>3 DEF UpdateAdminUser, Sessions
  <2>4. QED
    BY <1>1, <1>3, <2>1, <2>2, <2>3, WitnessedStep DEF UpdateAdminUser
<1>4. CASE ResetAdminPassword
  <2>1. version' \in Nat /\ version' >= version
    BY <1>2, <1>4 DEF ResetAdminPassword
  <2>2. session # None => session.version <= version'
    BY <1>1, <1>2, <1>4 DEF ResetAdminPassword, Sessions
  <2>3. QED
    BY <1>1, <1>4, <2>1, <2>2, WitnessedStep DEF ResetAdminPassword
<1>5. CASE DeleteAdminUser
  <2>1. version' \in Nat /\ version' >= version
    BY <1>2, <1>5 DEF DeleteAdminUser
  <2>2. QED
    BY <1>1, <1>2, <1>5, <2>1, WitnessedStep DEF DeleteAdminUser
<1>6. CASE ToggleModule
  <2>1. version' \in Nat /\ version' >= version
    BY <1>2, <1>6 DEF ToggleModule
  <2>2. QED
    BY <1>1, <1>6, <2>1, WitnessedStep DEF ToggleModule
<1>7. CASE Login
  <2>1. session' \in Sessions /\ session'.version = version /\ version' = version
    BY <1>2, <1>7 DEF Login, account, Sessions
  <2>2. version' >= version /\ session'.version <= version'
    BY <1>2, <2>1
  <2>3. QED
    BY <1>7, <2>1, <2>2, WitnessedStep DEF Login, account
<1>8. CASE CompleteLogin
  <2>1. session' \in Sessions /\ session'.version = version /\ version' = version
    BY <1>2, <1>8 DEF CompleteLogin, account, Sessions
  <2>2. version' >= version /\ session'.version <= version'
    BY <1>2, <2>1
  <2>3. QED
    BY <1>8, <2>1, <2>2, WitnessedStep DEF CompleteLogin, account
<1>9. CASE ChangePassword
  <2>1. session' \in Sessions /\ session'.version = version + 1 /\ version' = version + 1
    BY <1>2, <1>9 DEF ChangePassword, Sessions
  <2>2. version' >= version /\ session'.version <= version' /\ version' \in Nat
    BY <1>2, <2>1
  <2>3. QED
    BY <1>9, <2>1, <2>2, WitnessedStep DEF ChangePassword
<1>10. CASE SessionEnds
  <2>1. version' >= version
    BY <1>2, <1>10 DEF SessionEnds, account
  <2>2. QED
    BY <1>10, <2>1, WitnessedStep DEF SessionEnds, account
<1>11. QED
  BY <1>3, <1>4, <1>5, <1>6, <1>7, <1>8, <1>9, <1>10 DEF Administration, Browser

\* An answer: after it only Close follows. A form's success needs that of its calls.
LEMMA AnswerStep ==
    ASSUME GatewayInv, ~At("idle"), NEW result \in {"done", "error", "denied"}, Answer(result),
           UNCHANGED <<account, calls>>, session' = session \/ session' = None,
           result = "done" /\ route.form => \A i \in DOMAIN calls : calls[i].state = "ok"
    PROVE  GatewayInv'
<1>1. request \in RequestRecord /\ request' = [request EXCEPT !.step = "answered", !.result = result]
  BY DEF GatewayInv, ShapeInv, Answer
<1>2. /\ request'.step = "answered" /\ request'.route = request.route
      /\ request'.at = request.at /\ request'.token = request.token
      /\ request'.result = result /\ request'.held = request.held
  BY <1>1 DEF RequestRecord
<1>3. request' \in RequestRecord
  BY <1>1 DEF RequestRecord
<1>4. /\ kind' = kind /\ module' = module /\ status' = status /\ version' = version
      /\ level' = level /\ enabled' = enabled /\ calls' = calls
  BY DEF account
<1>5. Facts' \subseteq Facts
  BY <1>4 DEF Facts, PermissionForModule
<1>6. TypeOK'
  BY <1>2, <1>4 DEF GatewayInv, TypeOK, At, route
<1>7. ShapeInv'
  BY <1>2, <1>3, <1>4 DEF GatewayInv, ShapeInv, At, route
<1>8. RightsInv'
  BY <1>2, <1>4, <1>5 DEF GatewayInv, RightsInv, At, route
<1>9. CallInv'
  BY <1>2, <1>4 DEF GatewayInv, CallInv, route
<1>10. FormInv'
  BY <1>2, <1>4 DEF GatewayInv, FormInv, route, At
<1>11. QED
  BY <1>6, <1>7, <1>8, <1>9, <1>10 DEF GatewayInv

\* What becomes of the calls of a request: one that has ended stays as it is.
LEMMA CallStep ==
    ASSUME GatewayInv, UNCHANGED <<account, session, request>>, calls' \in Seq(Sends),
           DOMAIN calls' = DOMAIN calls,
           \A i \in DOMAIN calls :
               /\ calls'[i].at = calls[i].at /\ calls'[i].k = calls[i].k
               /\ calls'[i].held = calls[i].held
               /\ calls[i].state \in Ends => calls'[i].state = calls[i].state
               /\ calls'[i].state = "new" => calls'[i].starts = 0
    PROVE  GatewayInv'
<1>1. /\ kind' = kind /\ module' = module /\ status' = status /\ version' = version
      /\ level' = level /\ enabled' = enabled /\ session' = session /\ request' = request
  BY DEF account
<1>2. \A i \in DOMAIN calls' : calls'[i] \in Sends
  OBVIOUS
<1>3. calls = <<>> => calls' = <<>>
  OBVIOUS
<1>4. TypeOK'
  BY <1>1, <1>2, <1>3 DEF GatewayInv, TypeOK, At, route, Sends
<1>5. ShapeInv'
  BY <1>1 DEF GatewayInv, ShapeInv, At, route
<1>6. RightsInv'
  BY <1>1 DEF GatewayInv, RightsInv, At, route, Facts, PermissionForModule
<1>7. CallInv'
  BY <1>1 DEF GatewayInv, CallInv, route
<1>8. FormInv'
  BY <1>1, <1>3 DEF GatewayInv, FormInv, route, At, Ends
<1>9. QED
  BY <1>4, <1>5, <1>6, <1>7, <1>8 DEF GatewayInv

\* One call goes on.
LEMMA OneCallStep ==
    ASSUME GatewayInv, UNCHANGED <<account, session, request>>, NEW i \in DOMAIN calls,
           NEW c \in Sends, calls' = [calls EXCEPT ![i] = c], calls[i].state \notin Ends,
           c.at = calls[i].at, c.k = calls[i].k, c.held = calls[i].held,
           c.state = "new" => c.starts = 0
    PROVE  GatewayInv'
<1>1. calls \in Seq(Sends)
  BY DEF GatewayInv, ShapeInv
<1>2. calls' \in Seq(Sends) /\ DOMAIN calls' = DOMAIN calls
  BY <1>1
<1>3. \A j \in DOMAIN calls : calls'[j] = IF j = i THEN c ELSE calls[j]
  BY <1>1
<1>4. \A j \in DOMAIN calls : calls[j].state = "new" => calls[j].starts = 0
  BY DEF GatewayInv, CallInv
<1>5. QED
  BY <1>2, <1>3, <1>4, CallStep

\* The steps of the client and of the daemon.
LEMMA SocketStep ==
    ASSUME GatewayInv, Client \/ Daemon
    PROVE  GatewayInv'
<1>1. calls \in Seq(Sends) /\ \A i \in DOMAIN calls : calls[i].state = "new" => calls[i].starts = 0
  BY DEF GatewayInv, ShapeInv, CallInv
<1>2. ASSUME NEW i \in DOMAIN calls, calls[i].state = "new", NEW e \in {"running", "ok", "refused"},
             UNCHANGED <<account, session, request>>,
             calls' = [calls EXCEPT ![i].state = e, ![i].starts = @ + 1]
      PROVE  GatewayInv'
  <2>1. PICK d \in Sends : d = calls[i] /\ d.starts = 0
    BY <1>1, <1>2
  <2>2. PICK c : c = [d EXCEPT !.state = e, !.starts = @ + 1]
    OBVIOUS
  <2>3. /\ c \in Sends /\ c.at = calls[i].at /\ c.k = calls[i].k /\ c.held = calls[i].held
        /\ c.state = e
    <3>1. c.starts = 1
      BY <2>1, <2>2 DEF Sends
    <3>2. /\ c.at = d.at /\ c.k = d.k /\ c.held = d.held /\ c.state = e
          /\ c = [at |-> d.at, k |-> d.k, state |-> e, starts |-> c.starts, held |-> d.held]
      BY <2>2 DEF Sends
    <3>3. e \in {"new", "running"} \cup Ends /\ 1 \in 0..1
      BY DEF Ends
    <3>4. d.at \in Nat /\ d.k \in Nat /\ d.held \in SUBSET Held
      BY DEF Sends
    <3>5. c \in Sends
      BY <3>1, <3>2, <3>3, <3>4 DEF Sends
    <3>6. QED
      BY <2>1, <3>2, <3>5
  <2>4. calls' = [calls EXCEPT ![i] = c]
    BY <1>1, <1>2, <2>1, <2>2
  <2>5. QED
    BY <1>2, <2>3, <2>4, OneCallStep DEF Ends
<1>3. ASSUME NEW i \in DOMAIN calls, calls[i].state \in {"new", "running"}, NEW e \in Ends,
             UNCHANGED <<account, session, request>>,
             calls' = [calls EXCEPT ![i].state = e]
      PROVE  GatewayInv'
  <2>1. PICK c : c = [calls[i] EXCEPT !.state = e]
    OBVIOUS
  <2>2. calls[i] \in Sends
    BY <1>1, <1>3
  <2>3. /\ c \in Sends /\ c.at = calls[i].at /\ c.k = calls[i].k /\ c.held = calls[i].held
        /\ c.state = e
    BY <2>1, <2>2 DEF Sends
  <2>4. calls' = [calls EXCEPT ![i] = c]
    BY <1>1, <1>3, <2>1, <2>2
  <2>5. QED
    BY <1>3, <2>3, <2>4, OneCallStep DEF Ends
<1>4. CASE Client
  <2>1. PICK i \in DOMAIN calls : Store(i) \/ Connect(i) \/ Lost(i)
    BY <1>4 DEF Client
  <2>2. CASE Store(i)
    BY <1>2, <2>2 DEF Store
  <2>3. CASE Connect(i)
    BY <1>2, <1>3, <2>3 DEF Connect, Ends
  <2>4. CASE Lost(i)
    BY <1>3, <2>4 DEF Lost, Ends
  <2>5. QED
    BY <2>1, <2>2, <2>3, <2>4
<1>5. CASE DaemonStop
  <2>1. ASSUME NEW i \in DOMAIN calls
        PROVE  /\ calls'[i] \in Sends
               /\ calls'[i].at = calls[i].at /\ calls'[i].k = calls[i].k
               /\ calls'[i].held = calls[i].held
               /\ calls[i].state \in Ends => calls'[i].state = calls[i].state
               /\ calls'[i].state = "new" => calls'[i].starts = 0
    <3>1. calls[i] \in Sends
      BY <1>1
    <3>2. CASE calls[i].state = "running"
      <4>1. calls'[i] = [calls[i] EXCEPT !.state = "lost"]
        BY <1>5, <3>2 DEF DaemonStop
      <4>2. QED
        BY <3>1, <3>2, <4>1 DEF Sends, Ends
    <3>3. CASE calls[i].state # "running"
      <4>1. calls'[i] = calls[i]
        BY <1>5, <3>3 DEF DaemonStop
      <4>2. QED
        BY <1>1, <3>1, <4>1
    <3>4. QED
      BY <3>2, <3>3
  <2>2. calls' \in Seq(Sends) /\ DOMAIN calls' = DOMAIN calls
    <3>1. calls' \in [1..Len(calls) -> Sends] /\ Len(calls) \in Nat /\ DOMAIN calls' = DOMAIN calls
      BY <1>1, <1>5, <2>1 DEF DaemonStop
    <3>2. QED
      BY <3>1, SeqDef
  <2>3. UNCHANGED <<account, session, request>>
    BY <1>5 DEF DaemonStop
  <2>4. QED
    BY <2>1, <2>2, <2>3, CallStep
<1>6. CASE \E i \in DOMAIN calls : handleConnection(i)
  BY <1>3, <1>6 DEF handleConnection, Ends
<1>7. QED
  BY <1>4, <1>5, <1>6 DEF Daemon

\* What it takes for a handler to go on to a step, with the version it has read, at a
\* batch of its work.
MayGoOn(next, ver, at) ==
    /\ next \in {"session", "user", "gate", "form", "call", "wait", "peek"}
    /\ ver \in Nat /\ at \in Nat \ {0}
    /\ next = "peek" => route.late
    /\ next = "user" => ver <= version /\ (ver = version => "session" \in request.held)
    /\ next \in {"gate", "form", "call", "wait"} /\ ~route.late =>
         {"session", "account"} \subseteq request.held
    /\ next \in {"form", "call", "wait"} /\ ~route.late =>
         /\ route.gate = "module" => request.held \cap route.levels # {}
         /\ route.gate = "root" => kind = "root"
    /\ next \in {"call", "wait"} /\ ~route.late => (route.form => request.token)
    /\ next = "call" => at \in DOMAIN route.work
    /\ route.form =>
         /\ next \in {"session", "user", "gate", "form"} => calls = <<>>
         /\ \A i \in DOMAIN calls : /\ calls[i].at <= at
                                    /\ next = "call" => calls[i].at < at
                                    /\ calls[i].at < at => calls[i].state = "ok"

\* It is enough for the invariant.
LEMMA HandlerGoesOn ==
    ASSUME GatewayInv, ~At("idle"), ~At("answered"), UNCHANGED <<account, session, calls>>,
           NEW next, NEW ver, NEW at, MayGoOn(next, ver, at),
           request' = [request EXCEPT !.step = next, !.version = ver, !.at = at]
    PROVE  GatewayInv'
<1>1. request \in RequestRecord /\ request.result = "none"
  BY DEF GatewayInv, ShapeInv, TypeOK, At
<1>2. /\ request'.step = next /\ request'.version = ver /\ request'.at = at
      /\ request'.route = request.route /\ request'.alive = request.alive
      /\ request'.token = request.token /\ request'.held = request.held
      /\ request'.result = "none"
  BY <1>1 DEF RequestRecord
<1>3. request' \in RequestRecord
  BY <1>1 DEF RequestRecord, MayGoOn
<1>4. /\ kind' = kind /\ module' = module /\ status' = status /\ version' = version
      /\ level' = level /\ enabled' = enabled /\ calls' = calls /\ session' = session
  BY DEF account
<1>5. Facts' = Facts
  BY <1>4 DEF Facts, PermissionForModule
<1>6. TypeOK'
  BY <1>2, <1>4 DEF GatewayInv, TypeOK, At, route, MayGoOn
<1>7. ShapeInv'
  BY <1>2, <1>3, <1>4 DEF GatewayInv, ShapeInv, At, route, MayGoOn
<1>8. RightsInv'
  BY <1>2, <1>4, <1>5 DEF GatewayInv, RightsInv, At, route, MayGoOn
<1>9. CallInv'
  BY <1>2, <1>4 DEF GatewayInv, CallInv, route
<1>10. FormInv'
  BY <1>2, <1>4 DEF GatewayInv, FormInv, route, At, MayGoOn
<1>11. QED
  BY <1>6, <1>7, <1>8, <1>9, <1>10 DEF GatewayInv

\* A request arrives, and finds no calls of another.
LEMMA ArriveStep == ASSUME GatewayInv, Arrive PROVE GatewayInv'
<1>1. PICK r \in RoutesOf[module], tok \in BOOLEAN :
        request' = [Idle EXCEPT !.step = IF r.late THEN "call" ELSE "session",
                                !.route = r, !.alive = session # None, !.token = tok,
                                !.held = Facts]
  BY DEF Arrive
<1>2. /\ kind' = kind /\ module' = module /\ status' = status /\ version' = version
      /\ level' = level /\ enabled' = enabled /\ calls' = calls /\ session' = session
  BY DEF Arrive, account
<1>3. r \in Routes /\ RouteSound(r) /\ r.module = module
  BY RoutesSound DEF GatewayInv, TypeOK, RoutesOf
<1>4. calls = <<>> /\ DOMAIN calls = {}
  BY DEF GatewayInv, TypeOK, Arrive
<1>5. Facts \subseteq Held
  BY FactsHeld DEF GatewayInv, TypeOK
<1>6. PICK next \in {"call", "session"} : next = IF r.late THEN "call" ELSE "session"
  OBVIOUS
<1>7. PICK alive \in BOOLEAN : alive <=> session # None
  OBVIOUS
<1>8. request' = [step |-> next, route |-> r, at |-> 1, version |-> 0, alive |-> alive,
                  token |-> tok, held |-> Facts, result |-> "none"]
  BY <1>1, <1>6, <1>7 DEF Idle
<1>9. request' \in RequestRecord
  BY <1>3, <1>5, <1>8 DEF RequestRecord
<1>10. /\ request'.step = next /\ request'.version = 0 /\ request'.at = 1
       /\ request'.route = r /\ request'.alive = alive
       /\ request'.token = tok /\ request'.held = Facts /\ request'.result = "none"
  BY <1>8
<1>11. Facts' = Facts
  BY <1>2 DEF Facts, PermissionForModule
<1>12. next = "call" => r.late /\ 1 \in DOMAIN r.work
  BY <1>3, <1>6 DEF RouteSound
<1>13. TypeOK'
  BY <1>2, <1>3, <1>4, <1>5, <1>10, <1>12 DEF GatewayInv, TypeOK, At, route, Held
<1>14. ShapeInv'
  BY <1>2, <1>7, <1>9, <1>10 DEF GatewayInv, ShapeInv, At, route
<1>15. RightsInv'
  BY <1>2, <1>10, <1>11, <1>12 DEF RightsInv, At, route
<1>16. CallInv' /\ FormInv'
  BY <1>2, <1>4, <1>10 DEF CallInv, FormInv, At, route
<1>17. QED
  BY <1>13, <1>14, <1>15, <1>16 DEF GatewayInv

\* The checks: the session, the account, the permission and the form.
LEMMA CheckStep ==
    ASSUME GatewayInv, Peek \/ Session \/ User \/ Gate \/ Form
    PROVE  GatewayInv'
<1>1. /\ request \in RequestRecord /\ request.at \in Nat \ {0} /\ request.version \in Nat
      /\ version \in Nat
  BY DEF GatewayInv, ShapeInv, RequestRecord, TypeOK
<1>2. ~At("idle") /\ ~At("answered")
  BY DEF Peek, Session, User, Gate, Form, At
<1>3. route \in Routes /\ RouteSound(route)
  BY <1>2, RouteFacts
<1>4. Facts \subseteq request.held
  BY <1>2 DEF GatewayInv, RightsInv
<1>5. ASSUME NEW next, Step(next)
      PROVE  request' = [request EXCEPT !.step = next, !.version = request.version,
                                        !.at = request.at]
  BY <1>1, <1>5 DEF Step, RequestRecord
<1>6. request.step \in {"session", "user", "gate", "form"} /\ route.form => calls = <<>>
  BY <1>2 DEF GatewayInv, FormInv
<1>7. CASE Peek
  <2>1. At("peek") /\ UNCHANGED <<account, session, calls>>
    BY <1>7 DEF Peek
  <2>2. CASE request.alive /\ Step("session")
    <3>1. route.late /\ ~route.form
      BY <1>3, <2>1 DEF GatewayInv, ShapeInv, RouteSound
    <3>2. MayGoOn("session", request.version, request.at)
      BY <1>1, <3>1 DEF MayGoOn
    <3>3. QED
      BY <1>2, <1>5, <2>1, <2>2, <3>2, HandlerGoesOn
  <2>3. CASE Answer("done") \/ Answer("error")
    <3>1. ~route.form
      BY <1>3, <2>1 DEF GatewayInv, ShapeInv, RouteSound
    <3>2. QED
      BY <1>2, <2>1, <2>3, <3>1, AnswerStep
  <2>4. QED
    BY <1>7, <2>2, <2>3 DEF Peek
<1>8. CASE Session
  <2>1. At("session") /\ UNCHANGED <<account, calls>>
    BY <1>8 DEF Session
  <2>2. CASE request.alive /\ session.complete
    <3>1. /\ request' = [request EXCEPT !.step = "user", !.version = session.version]
          /\ UNCHANGED session
      BY <1>8, <2>2 DEF Session
    <3>2. session # None /\ session \in Sessions /\ session.version <= version
      BY <1>2, <2>2 DEF GatewayInv, TypeOK, ShapeInv
    <3>3. session.version \in Nat
      BY <3>2 DEF Sessions
    <3>4. session.version = version => "session" \in request.held
      BY <1>4, <2>2, <3>2 DEF Facts
    <3>5. request' = [request EXCEPT !.step = "user", !.version = session.version,
                                     !.at = request.at]
      BY <1>1, <3>1 DEF RequestRecord
    <3>6. route.form => calls = <<>>
      BY <1>6, <2>1 DEF At
    <3>7. MayGoOn("user", session.version, request.at)
      BY <1>1, <3>2, <3>3, <3>4, <3>6 DEF MayGoOn
    <3>8. QED
      BY <1>2, <2>1, <3>1, <3>5, <3>7, HandlerGoesOn
  <2>3. CASE ~(request.alive /\ session.complete)
    BY <1>2, <1>8, <2>1, <2>3, AnswerStep DEF Session
  <2>4. QED
    BY <2>2, <2>3
<1>9. CASE User
  <2>1. At("user") /\ UNCHANGED <<account, calls>>
    BY <1>9 DEF User
  <2>2. CASE status = "active" /\ version = request.version /\ Step("gate") /\ UNCHANGED session
    <3>1. {"session", "account"} \subseteq request.held
      BY <1>4, <2>1, <2>2 DEF GatewayInv, RightsInv, Facts
    <3>2. route.form => calls = <<>>
      BY <1>6, <2>1 DEF At
    <3>3. MayGoOn("gate", request.version, request.at)
      BY <1>1, <3>1, <3>2 DEF MayGoOn
    <3>4. QED
      BY <1>2, <1>5, <2>1, <2>2, <3>3, HandlerGoesOn
  <2>3. CASE \/ Answer("error") /\ UNCHANGED session
             \/ Answer("denied") /\ session' = IF request.alive THEN None ELSE session
    BY <1>2, <2>1, <2>3, AnswerStep
  <2>4. QED
    BY <1>9, <2>2, <2>3 DEF User
<1>10. CASE Gate
  <2>1. At("gate") /\ UNCHANGED <<account, session, calls>>
    BY <1>10 DEF Gate
  <2>2. CASE Granted /\ Step("form")
    <3>1. ~route.late => {"session", "account"} \subseteq request.held
      BY <2>1 DEF GatewayInv, RightsInv, At
    <3>2. PermissionForModule \subseteq request.held
      BY <1>4 DEF Facts
    <3>3. /\ route.gate = "module" => request.held \cap route.levels # {}
          /\ route.gate = "root" => kind = "root"
      BY <2>2, <3>2 DEF Granted
    <3>4. route.form => calls = <<>>
      BY <1>6, <2>1 DEF At
    <3>5. MayGoOn("form", request.version, request.at)
      BY <1>1, <3>1, <3>3, <3>4 DEF MayGoOn
    <3>6. QED
      BY <1>2, <1>5, <2>1, <2>2, <3>5, HandlerGoesOn
  <2>3. CASE Answer("denied") \/ Answer("error")
    BY <1>2, <2>1, <2>3, AnswerStep
  <2>4. QED
    BY <1>10, <2>2, <2>3 DEF Gate
<1>11. CASE Form
  <2>1. At("form") /\ UNCHANGED <<account, session, calls>>
    BY <1>11 DEF Form
  <2>2. CASE (route.form => request.alive /\ request.token) /\ Answer("done")
    <3>1. route.form => calls = <<>>
      BY <1>6, <2>1 DEF At
    <3>2. QED
      BY <1>2, <2>1, <2>2, <3>1, AnswerStep
  <2>3. CASE /\ route.form => request.alive /\ request.token
             /\ ~(request.at > Len(route.work)) /\ Step("call")
    <3>1. request.at \in DOMAIN route.work
      BY <1>1, <1>3, <2>3 DEF RouteSound
    <3>2. ~route.late =>
            /\ {"session", "account"} \subseteq request.held
            /\ route.gate = "module" => request.held \cap route.levels # {}
            /\ route.gate = "root" => kind = "root"
      BY <2>1 DEF GatewayInv, RightsInv, At
    <3>3. route.form => calls = <<>>
      BY <1>6, <2>1 DEF At
    <3>4. MayGoOn("call", request.version, request.at)
      BY <1>1, <2>3, <3>1, <3>2, <3>3 DEF MayGoOn
    <3>5. QED
      BY <1>2, <1>5, <2>1, <2>3, <3>4, HandlerGoesOn
  <2>4. CASE Answer("denied") \/ Answer("error")
    BY <1>2, <2>1, <2>4, AnswerStep
  <2>5. QED
    BY <1>11, <2>2, <2>3, <2>4 DEF Form
<1>12. QED
  BY <1>7, <1>8, <1>9, <1>10, <1>11

\* A batch is sent under the rights the request has shown.
LEMMA DispatchStep == ASSUME GatewayInv, Dispatch PROVE GatewayInv'
<1>1. /\ request \in RequestRecord /\ calls \in Seq(Sends) /\ request.result = "none"
      /\ At("call") /\ ~At("idle") /\ request.at \in DOMAIN route.work
  BY DEF GatewayInv, ShapeInv, TypeOK, Dispatch, At
<1>2. RouteSound(route)
  BY <1>1, RouteFacts
<1>3. PICK W \in Seq(KnownCalls) : W = route.work[request.at]
  BY <1>1, <1>2 DEF RouteSound
<1>4. PICK batch : batch = [k \in DOMAIN W |-> Sent(k)]
  OBVIOUS
<1>5. ASSUME NEW k \in DOMAIN W
      PROVE  Sent(k) \in Sends
  BY <1>1, <1>3 DEF Sent, Sends, RequestRecord
<1>6. batch \in Seq(Sends) /\ DOMAIN batch = DOMAIN W /\ Len(batch) = Len(W)
  <2>1. batch \in [1..Len(W) -> Sends] /\ Len(W) \in Nat
    BY <1>4, <1>5
  <2>2. batch \in Seq(Sends)
    BY <2>1, SeqDef
  <2>3. QED
    BY <2>1, <2>2
<1>7. calls' = calls \o batch
  BY <1>3, <1>4 DEF Dispatch
<1>8. /\ calls' \in Seq(Sends) /\ Len(calls) \in Nat /\ Len(W) \in Nat
      /\ Len(calls') = Len(calls) + Len(W)
  BY <1>1, <1>6, <1>7, ConcatProperties
<1>9. ASSUME NEW i \in DOMAIN calls'
      PROVE  \/ i \in DOMAIN calls /\ calls'[i] = calls[i]
             \/ \E k \in DOMAIN W : i = Len(calls) + k /\ calls'[i] = Sent(k)
  <2>1. i \in 1..(Len(calls) + Len(W))
    BY <1>8
  <2>2. CASE i <= Len(calls)
    BY <1>1, <1>6, <1>7, <2>1, <2>2, ConcatProperties
  <2>3. CASE i > Len(calls)
    <3>1. PICK k \in DOMAIN W : i = Len(calls) + k
      <4>1. i - Len(calls) \in 1..Len(W) /\ i = Len(calls) + (i - Len(calls))
        BY <1>8, <2>1, <2>3
      <4>2. QED
        BY <1>3, <4>1
    <3>2. k \in Nat /\ i - Len(calls) = k
      BY <1>3, <1>8, <3>1
    <3>3. calls'[i] = batch[k]
      BY <1>1, <1>6, <1>7, <1>8, <2>1, <2>3, <3>2, ConcatProperties
    <3>4. calls'[i] = Sent(k)
      BY <1>4, <3>1, <3>3
    <3>5. QED
      BY <3>1, <3>4
  <2>4. QED
    BY <1>8, <2>1, <2>2, <2>3
<1>10. ASSUME NEW k \in DOMAIN W
       PROVE  /\ Sent(k).at = request.at /\ Sent(k).k = k /\ Sent(k).state = "new"
              /\ Sent(k).starts = 0 /\ Sent(k).held = request.held
  BY DEF Sent
<1>11. request' = [request EXCEPT !.step = "wait"]
  BY DEF Dispatch, Step
<1>12. /\ request'.step = "wait" /\ request'.at = request.at /\ request'.route = request.route
       /\ request'.alive = request.alive /\ request'.token = request.token
       /\ request'.held = request.held /\ request'.result = "none"
  BY <1>1, <1>11 DEF RequestRecord
<1>13. request' \in RequestRecord
  BY <1>1, <1>11 DEF RequestRecord
<1>14. /\ kind' = kind /\ module' = module /\ status' = status /\ version' = version
       /\ level' = level /\ enabled' = enabled /\ session' = session
  BY DEF Dispatch, account
<1>15. Facts' = Facts
  BY <1>14 DEF Facts, PermissionForModule
<1>16. TypeOK'
  <2>1. \A i \in DOMAIN calls' : calls'[i] \in Sends
    BY <1>8
  <2>2. \A i \in DOMAIN calls' : /\ calls'[i].state \in {"new", "running"} \cup Ends
                                 /\ calls'[i].starts \in Nat
    BY <2>1 DEF Sends
  <2>3. QED
    BY <1>1, <1>12, <1>14, <2>2 DEF GatewayInv, TypeOK, At, route
<1>17. ShapeInv'
  BY <1>1, <1>8, <1>12, <1>13, <1>14 DEF GatewayInv, ShapeInv, At, route
<1>18. RightsInv'
  BY <1>1, <1>12, <1>14, <1>15 DEF GatewayInv, RightsInv, At, route
<1>19. CallInv'
  <2>1. ~route.late =>
          /\ {"session", "account"} \subseteq request.held
          /\ route.gate = "module" => request.held \cap route.levels # {}
          /\ route.gate = "root" => kind = "root"
          /\ route.form => request.token
    BY <1>1 DEF GatewayInv, RightsInv, At
  <2>2. route' = route
    BY <1>12 DEF route
  <2>3. ASSUME NEW i \in DOMAIN calls'
        PROVE  /\ calls'[i].at \in DOMAIN route.work
               /\ calls'[i].k \in DOMAIN route.work[calls'[i].at]
               /\ calls'[i].state = "new" => calls'[i].starts = 0
               /\ ~route.late =>
                    /\ {"session", "account"} \subseteq calls'[i].held
                    /\ route.gate = "module" => calls'[i].held \cap route.levels # {}
                    /\ route.gate = "root" => kind = "root"
                    /\ route.form => request.token
    <3>1. CASE i \in DOMAIN calls /\ calls'[i] = calls[i]
      BY <3>1 DEF GatewayInv, CallInv
    <3>2. CASE \E k \in DOMAIN W : i = Len(calls) + k /\ calls'[i] = Sent(k)
      BY <1>1, <1>3, <1>10, <2>1, <3>2
    <3>3. QED
      BY <1>9, <3>1, <3>2
  <2>4. QED
    BY <1>12, <1>14, <2>2, <2>3 DEF CallInv
<1>20. FormInv'
  <2>1. SUFFICES ASSUME route.form
                 PROVE  FormInv'
    BY <1>12 DEF FormInv, route, At
  <2>2. Len(W) = 1
    BY <1>1, <1>2, <1>3, <2>1 DEF RouteSound
  <2>3. /\ \A i, j \in DOMAIN calls : calls[i].at = calls[j].at => i = j
        /\ \A i \in DOMAIN calls : calls[i].at < request.at /\ calls[i].state = "ok"
    BY <1>1, <2>1 DEF GatewayInv, FormInv
  <2>4. request.at \in Nat
    BY <1>1 DEF RequestRecord
  <2>5. ASSUME NEW i \in DOMAIN calls'
        PROVE  \/ i \in DOMAIN calls /\ calls'[i] = calls[i]
               \/ i = Len(calls) + 1 /\ calls'[i].at = request.at
    <3>1. \A k \in DOMAIN W : k = 1
      BY <1>3, <2>2
    <3>2. QED
      BY <1>9, <1>10, <3>1
  <2>6. \A i, j \in DOMAIN calls' : calls'[i].at = calls'[j].at => i = j
    BY <2>3, <2>4, <2>5
  <2>7. \A i \in DOMAIN calls' : /\ calls'[i].at <= request.at
                                 /\ calls'[i].at < request.at => calls'[i].state = "ok"
    <3>1. \A i \in DOMAIN calls : calls[i] \in Sends
      BY <1>1
    <3>2. \A i \in DOMAIN calls : calls[i].at \in Nat
      BY <3>1 DEF Sends
    <3>3. QED
      BY <2>3, <2>4, <2>5, <3>2
  <2>8. QED
    BY <1>12, <2>6, <2>7 DEF FormInv, At
<1>21. QED
  BY <1>16, <1>17, <1>18, <1>19, <1>20 DEF GatewayInv

\* The client function goes to a batch of the route's work, or to its end.
LEMMA GotoStep ==
    ASSUME GatewayInv, At("wait"), UNCHANGED <<account, session, calls>>, NEW at \in Nat \ {0},
           Goto(at),
           route.form => \A i \in DOMAIN calls : calls[i].state = "ok" /\ calls[i].at < at
    PROVE  GatewayInv'
<1>1. /\ request \in RequestRecord /\ request.version \in Nat /\ calls \in Seq(Sends)
      /\ ~At("idle") /\ ~At("answered")
  BY DEF GatewayInv, ShapeInv, RequestRecord, At
<1>2. RouteSound(route)
  BY <1>1, RouteFacts
<1>3. ~route.late =>
        /\ {"session", "account"} \subseteq request.held
        /\ route.gate = "module" => request.held \cap route.levels # {}
        /\ route.gate = "root" => kind = "root"
        /\ route.form => request.token
  BY DEF GatewayInv, RightsInv, At
<1>4. \A i \in DOMAIN calls : calls[i].at \in Nat
  <2>1. \A i \in DOMAIN calls : calls[i] \in Sends
    BY <1>1
  <2>2. QED
    BY <2>1 DEF Sends
<1>5. CASE at <= Len(route.work)
  <2>1. request' = [request EXCEPT !.step = "call", !.version = request.version, !.at = at]
    BY <1>1, <1>5 DEF Goto, RequestRecord
  <2>2. at \in DOMAIN route.work
    BY <1>2, <1>5 DEF RouteSound
  <2>3. MayGoOn("call", request.version, at)
    BY <1>1, <1>3, <1>4, <2>2 DEF MayGoOn
  <2>4. QED
    BY <1>1, <2>1, <2>3, HandlerGoesOn
<1>6. CASE ~(at <= Len(route.work)) /\ route.late
  <2>1. request' = [request EXCEPT !.step = "peek", !.version = request.version, !.at = at]
    BY <1>1, <1>6 DEF Goto, RequestRecord
  <2>2. ~route.form
    BY <1>2, <1>6 DEF RouteSound
  <2>3. MayGoOn("peek", request.version, at)
    BY <1>1, <1>6, <2>2 DEF MayGoOn
  <2>4. QED
    BY <1>1, <2>1, <2>3, HandlerGoesOn
<1>7. CASE ~(at <= Len(route.work)) /\ ~route.late
  <2>1. Answer("done")
    BY <1>7 DEF Goto
  <2>2. QED
    BY <1>1, <2>1, AnswerStep
<1>8. QED
  BY <1>5, <1>6, <1>7

\* A form goes on only when its call was answered with success.
LEMMA FollowStep == ASSUME GatewayInv, Follow PROVE GatewayInv'
<1>1. /\ request \in RequestRecord /\ request.at \in Nat \ {0} /\ calls \in Seq(Sends)
      /\ At("wait") /\ ~At("idle") /\ UNCHANGED <<account, session, calls>>
  BY DEF GatewayInv, ShapeInv, RequestRecord, Follow, At
<1>2. RouteSound(route)
  BY <1>1, RouteFacts
<1>3. PICK i \in Batch : \E n \in CallOf(i).then[calls[i].state] :
        \/ n = "on" /\ Goto(request.at + 1)
        \/ n = "skip" /\ Goto(request.at + 2)
        \/ n = "end" /\ Goto(Len(route.work) + 1)
        \/ n = "error" /\ Answer("error")
  BY DEF Follow
<1>4. PICK next \in CallOf(i).then[calls[i].state] :
        \/ next = "on" /\ Goto(request.at + 1)
        \/ next = "skip" /\ Goto(request.at + 2)
        \/ next = "end" /\ Goto(Len(route.work) + 1)
        \/ next = "error" /\ Answer("error")
  BY <1>3
<1>5. i \in DOMAIN calls /\ calls[i].at = request.at /\ calls[i].state \in Ends
  BY <1>3 DEF Batch, Follow
<1>6. Len(route.work) \in Nat
  BY <1>2 DEF RouteSound
<1>7. route.form /\ next # "error" =>
        next = "on" /\ \A j \in DOMAIN calls : calls[j].state = "ok" /\ calls[j].at < request.at + 1
  <2>1. SUFFICES ASSUME route.form, next # "error"
                 PROVE  /\ next = "on"
                        /\ \A j \in DOMAIN calls : /\ calls[j].state = "ok"
                                                   /\ calls[j].at < request.at + 1
    OBVIOUS
  <2>2. PICK c \in StrictCalls : c = CallOf(i)
    <3>1. /\ calls[i].at \in DOMAIN route.work
          /\ calls[i].k \in DOMAIN route.work[calls[i].at]
      BY <1>5 DEF GatewayInv, CallInv
    <3>2. CallSound(route, CallOf(i))
      BY <1>2, <3>1 DEF RouteSound, CallOf
    <3>3. QED
      BY <2>1, <3>2 DEF CallSound
  <2>3. next \in c.then[calls[i].state]
    BY <1>4, <2>2
  <2>4. /\ c.then["refused"] = {"error"} /\ c.then["lost"] = {"error"}
        /\ c.then["ok"] \subseteq {"on", "error"}
    BY DEF StrictCalls
  <2>5. calls[i].state = "ok" /\ next = "on"
    BY <1>5, <2>1, <2>3, <2>4 DEF Ends
  <2>6. ASSUME NEW j \in DOMAIN calls
        PROVE  calls[j].state = "ok" /\ calls[j].at < request.at + 1
    <3>1. /\ calls[j].at <= request.at
          /\ calls[j].at < request.at => calls[j].state = "ok"
          /\ calls[j].at = calls[i].at => j = i
      BY <1>1, <1>5, <2>1 DEF GatewayInv, FormInv
    <3>2. calls[j] \in Sends
      BY <1>1
    <3>3. calls[j].at \in Nat
      BY <3>2 DEF Sends
    <3>4. QED
      BY <1>1, <1>5, <2>5, <3>1, <3>3
  <2>7. QED
    BY <2>5, <2>6
<1>8. CASE next = "on" /\ Goto(request.at + 1)
  BY <1>1, <1>7, <1>8, GotoStep
<1>9. CASE next = "skip" /\ Goto(request.at + 2)
  BY <1>1, <1>7, <1>9, GotoStep
<1>10. CASE next = "end" /\ Goto(Len(route.work) + 1)
  BY <1>1, <1>6, <1>7, <1>10, GotoStep
<1>11. CASE next = "error" /\ Answer("error")
  <2>1. ~At("answered")
    BY <1>1 DEF At
  <2>2. QED
    BY <1>1, <1>11, <2>1, AnswerStep
<1>12. QED
  BY <1>4, <1>8, <1>9, <1>10, <1>11

\* Nothing of a request that is over is left.
LEMMA CloseStep == ASSUME GatewayInv, Close PROVE GatewayInv'
<1>1. request' = Idle /\ calls' = <<>>
  BY DEF Close
<1>2. /\ kind' = kind /\ module' = module /\ status' = status /\ version' = version
      /\ level' = level /\ enabled' = enabled /\ session' = session
  BY DEF Close, account
<1>3. /\ Idle \in RequestRecord /\ Idle.step = "idle" /\ Idle.result = "none" /\ Idle.alive = FALSE
      /\ Idle.held = {}
  BY DEF Idle, RequestRecord, Held
<1>4. DOMAIN calls' = {}
  BY <1>1
<1>5. /\ request' \in RequestRecord /\ request'.step = "idle" /\ ~request'.alive
      /\ request'.result = "none" /\ request'.held = {}
  BY <1>1, <1>3
<1>6. TypeOK'
  BY <1>1, <1>2, <1>4, <1>5 DEF GatewayInv, TypeOK, At
<1>7. ShapeInv'
  BY <1>1, <1>2, <1>5 DEF GatewayInv, ShapeInv, At
<1>8. RightsInv' /\ CallInv' /\ FormInv'
  BY <1>4, <1>5 DEF RightsInv, CallInv, FormInv, At
<1>9. QED
  BY <1>6, <1>7, <1>8 DEF GatewayInv

\* Every step keeps the invariant.
LEMMA NextGateway == GatewayInv /\ [Next]_vars => GatewayInv'
<1> SUFFICES ASSUME GatewayInv, [Next]_vars PROVE GatewayInv'
  OBVIOUS
<1>1. CASE Handler
  BY <1>1, ArriveStep, CheckStep, DispatchStep, FollowStep, CloseStep DEF Handler
<1>2. CASE Client \/ Daemon
  BY <1>2, SocketStep
<1>3. CASE Administration \/ Browser
  BY <1>3, RightsStep
<1>4. CASE UNCHANGED vars
  <2>1. /\ kind' = kind /\ module' = module /\ status' = status /\ version' = version
        /\ level' = level /\ enabled' = enabled /\ session' = session /\ request' = request
        /\ calls' = calls
    BY <1>4 DEF vars
  <2>2. TypeOK' /\ ShapeInv'
    BY <2>1 DEF GatewayInv, TypeOK, ShapeInv, At, route
  <2>3. RightsInv'
    BY <2>1 DEF GatewayInv, RightsInv, At, route, Facts, PermissionForModule
  <2>4. CallInv' /\ FormInv'
    BY <2>1 DEF GatewayInv, CallInv, FormInv, At, route
  <2>5. QED
    BY <2>2, <2>3, <2>4 DEF GatewayInv
<1>5. QED
  BY <1>1, <1>2, <1>3, <1>4 DEF Next

\* GatewayInv holds always.
THEOREM GatewayInvariance == Spec => []GatewayInv
BY InitGateway, NextGateway, PTL DEF Spec

\* The types, and that a request leaves nothing for the next: Close forgets the calls.
THEOREM GatewayTypeCorrect == Spec => []TypeOK
<1>1. GatewayInv => TypeOK
  BY DEF GatewayInv
<1>2. QED
  BY <1>1, GatewayInvariance, PTL

\* What is used of a call that was sent: it is one of the route's work.
LEMMA SentCall ==
    ASSUME GatewayInv, NEW i \in DOMAIN calls
    PROVE  /\ ~At("idle") /\ RouteSound(route)
           /\ calls[i].at \in DOMAIN route.work
           /\ calls[i].k \in DOMAIN route.work[calls[i].at]
           /\ CallSound(route, CallOf(i))
<1>1. ~At("idle")
  BY DEF GatewayInv, TypeOK
<1>2. RouteSound(route)
  BY <1>1, RouteFacts
<1>3. /\ calls[i].at \in DOMAIN route.work /\ calls[i].k \in DOMAIN route.work[calls[i].at]
  BY DEF GatewayInv, CallInv
<1>4. CallSound(route, CallOf(i))
  BY <1>2, <1>3 DEF RouteSound, CallOf
<1>5. QED
  BY <1>1, <1>2, <1>3, <1>4

\* Every call of a handler but updatesJob's rests on a current session and an active account,
\* and where modulePermission is asked on a level that the command requires, true at some
\* moment of its request; what changes the server takes such a level or root, and the token
\* of a form (authenticatedUser, modulePermission, rootUser, validForm). The levels are those
\* of the documentation but for the commands in Delegated.
THEOREM WorkIsAuthorised == Spec => []AuthorisedWork
<1>1. GatewayInv => AuthorisedWork
  <2> SUFFICES ASSUME GatewayInv, ~At("idle"), ~route.late, NEW i \in DOMAIN calls
               PROVE  /\ {"session", "account"} \subseteq calls[i].held
                      /\ route.gate = "module" => calls[i].held \cap Required(CallOf(i)) # {}
                      /\ Listed(CallOf(i), Lasting) \/ Listed(CallOf(i), Operating) =>
                           route.gate = "module"
                      /\ Listed(CallOf(i), Reserved) => kind = "root" \/ route \in Preferences
                      /\ Changing(CallOf(i)) => request.token
    BY DEF AuthorisedWork
  <2>1. RouteSound(route) /\ CallSound(route, CallOf(i))
    BY SentCall
  <2>2. /\ {"session", "account"} \subseteq calls[i].held
        /\ route.gate = "module" => calls[i].held \cap route.levels # {}
        /\ route.gate = "root" => kind = "root"
        /\ route.form => request.token
    BY DEF GatewayInv, CallInv
  <2>3. QED
    BY <2>1, <2>2 DEF CallSound
<1>2. QED
  BY <1>1, GatewayInvariance, PTL

\* Every call names a command its domain has, with a number of arguments it takes; issue
\* alone passes on as many values as the form holds.
THEOREM CallsAreUnderstood == Spec => []Understood
<1>1. GatewayInv => Understood
  BY SentCall DEF Understood, CallSound, KnownCalls
<1>2. QED
  BY <1>1, GatewayInvariance, PTL

\* A command that changes something is sent only after the success of every earlier call
\* of the request, as Firewall.Delete does with its check.
THEOREM ChangesAreVerified == Spec => []Verified
<1>1. GatewayInv => Verified
  <2> SUFFICES ASSUME GatewayInv, NEW i \in DOMAIN calls, NEW j \in DOMAIN calls,
                      calls[i].at < calls[j].at, Changing(CallOf(j))
               PROVE  calls[i].state = "ok"
    BY DEF Verified
  <2>1. ~At("idle") /\ route.form
    BY SentCall DEF CallSound
  <2>2. /\ calls[j].at <= request.at
        /\ calls[i].at < request.at => calls[i].state = "ok"
    BY <2>1 DEF GatewayInv, FormInv
  <2>3. calls[i] \in Sends /\ calls[j] \in Sends /\ request \in RequestRecord
    BY DEF GatewayInv, ShapeInv
  <2>4. calls[i].at \in Nat /\ calls[j].at \in Nat /\ request.at \in Nat
    BY <2>3 DEF Sends, RequestRecord
  <2>5. QED
    BY <2>2, <2>4
<1>2. QED
  BY <1>1, GatewayInvariance, PTL

\* A form that is answered with success had each of its calls answered with success.
THEOREM SuccessIsDone == Spec => []SuccessIsReal
<1>1. GatewayInv => SuccessIsReal
  BY DEF GatewayInv, FormInv, SuccessIsReal, TypeOK, Idle, At
<1>2. QED
  BY <1>1, GatewayInvariance, PTL

\* No call of a request is sent again, as connect repeats the dialling and never the
\* command, and no two calls of a request change something.
THEOREM ChangesRunOnce == Spec => []RunsOnce
<1>1. ASSUME GatewayInv PROVE RunsOnce
  <2>1. ASSUME NEW i \in DOMAIN calls
        PROVE  calls[i].starts <= 1
    <3>1. calls[i] \in Sends
      BY <1>1 DEF GatewayInv, ShapeInv
    <3>2. calls[i].starts \in 0..1
      BY <3>1 DEF Sends
    <3>3. QED
      BY <3>2
  <2>2. ASSUME NEW i \in DOMAIN calls, Changing(CallOf(i))
        PROVE  ~At("idle") /\ route.form /\ calls[i].at = Len(route.work)
    <3>1. /\ ~At("idle") /\ RouteSound(route) /\ calls[i].at \in DOMAIN route.work
          /\ calls[i].k \in DOMAIN route.work[calls[i].at]
          /\ CallSound(route, CallOf(i))
      BY <1>1, SentCall
    <3>2. route.form
      BY <2>2, <3>1 DEF CallSound
    <3>3. /\ Len(route.work[calls[i].at]) = 1
          /\ calls[i].at < Len(route.work) => ~Changing(route.work[calls[i].at][1])
          /\ route.work \in Seq(Seq(KnownCalls))
      BY <3>1, <3>2 DEF RouteSound
    <3>4. route.work[calls[i].at] \in Seq(KnownCalls)
      BY <3>1, <3>3
    <3>5. calls[i].k = 1
      BY <3>1, <3>3, <3>4
    <3>6. ~(calls[i].at < Len(route.work))
      BY <2>2, <3>3, <3>5 DEF CallOf
    <3>7. calls[i].at = Len(route.work)
      BY <3>1, <3>3, <3>6
    <3>8. QED
      BY <3>1, <3>2, <3>7
  <2>3. ASSUME NEW i \in DOMAIN calls, NEW j \in DOMAIN calls, Changing(CallOf(i)),
               Changing(CallOf(j))
        PROVE  i = j
    BY <1>1, <2>2, <2>3 DEF GatewayInv, FormInv
  <2>4. QED
    BY <2>1, <2>3 DEF RunsOnce
<1>2. QED
  BY <1>1, GatewayInvariance, PTL

=============================================================================
