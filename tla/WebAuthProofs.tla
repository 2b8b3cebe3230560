---------------------------- MODULE WebAuthProofs ----------------------------
(***************************************************************************)
(* Proofs about WebAuth, for any number of accounts, sessions and          *)
(* concurrent requests.                                                    *)
(*                                                                         *)
(* The argument: a row only changes in ways that keep its meaning          *)
(* (StillTrue) or raise auth_version, so what a session or a request       *)
(* proved about a version stays true of that version for ever; a handler   *)
(* only rotates into a session that is sound for the version it read or    *)
(* wrote.                                                                  *)
(***************************************************************************)
EXTENDS WebAuthRestore, WebAuthAccess, TLAPS

\* Every account that exists or existed only moves forward.
UsersStep ==
    /\ created \subseteq created'
    /\ \A u \in created : users'[u] # None =>
          users[u] # None /\ StillTrue(users[u], users'[u])

\* Each session is kept, ended, anonymous, or the one a request was to issue.
SessionsStep ==
    \A id \in Ids : sessions'[id] # None =>
        \/ sessions'[id] = sessions[id]
        \/ sessions'[id] = Anonymous
        \/ \E r \in Requests : /\ requests[r] # None
                               /\ requests[r].step = "rotate"
                               /\ sessions'[id] = requests[r].session

\* The row of an existing account.
LEMMA RowTyped ==
    ASSUME TypeOK, NEW u \in Users, users[u] # None
    PROVE  users[u] \in Row /\ users[u].authVersion \in Nat
BY DEF TypeOK, Row

\* What a request under way holds.
LEMMA RequestTyped ==
    ASSUME TypeOK, NEW r \in Requests, requests[r] # None
    PROVE  /\ requests[r] \in Request
           /\ requests[r].session \in Session
           /\ requests[r].session.authVersion \in Nat
           /\ requests[r].row # None => requests[r].row \in Row /\ requests[r].row.authVersion \in Nat
BY DEF TypeOK, Request, Session, Row

\* StillTrue is reflexive and transitive.
LEMMA StillTrueRefl == ASSUME NEW a \in Row PROVE StillTrue(a, a)
BY DEF StillTrue, Row

\* Transitivity.
LEMMA StillTrueTrans ==
    ASSUME NEW a \in Row, NEW b \in Row, NEW c \in Row,
           StillTrue(a, b), StillTrue(b, c)
    PROVE  StillTrue(a, c)
<1>1. a.authVersion \in Nat /\ b.authVersion \in Nat /\ c.authVersion \in Nat
  BY DEF Row
<1>2. b # None /\ c # None
  BY NoneAssumption
<1>3. QED BY <1>1, <1>2 DEF StillTrue

\* What a session proved of a row it still proves of a later one.
LEMMA SoundForLater ==
    ASSUME NEW s \in Session, NEW a \in Row, NEW b \in Row,
           a.totpEnabled => a.totpSecret # None,
           SoundFor(s, a), StillTrue(a, b)
    PROVE  SoundFor(s, b)
<1>1. a.authVersion \in Nat /\ b.authVersion \in Nat /\ s.authVersion \in Nat
  BY DEF Row, Session
<1>2. a # None /\ b # None
  BY NoneAssumption
<1>3. s.authVersion <= b.authVersion
  BY <1>1, <1>2 DEF SoundFor, StillTrue
<1>4. ASSUME s.authVersion = b.authVersion
      PROVE  a.authVersion = b.authVersion
  BY <1>1, <1>2, <1>4 DEF SoundFor, StillTrue
<1>5. QED BY <1>2, <1>3, <1>4 DEF SoundFor, StillTrue

\* A sound session stays sound when the users table moves forward.
LEMMA SoundLater ==
    ASSUME TypeOK, TypeOK', UsersStep, NEW s \in Session, Sound(s)
    PROVE  Sound(s)'
<1> SUFFICES ASSUME s.state # "anonymous"
             PROVE  s.user \in created' /\ SoundFor(s, users'[s.user])
  BY DEF Sound
<1>1. s.user \in created /\ SoundFor(s, users[s.user])
  BY DEF Sound
<1>2. s.user \in Users /\ s.user \in created'
  BY <1>1 DEF TypeOK, UsersStep
<1>3. CASE users'[s.user] = None
  BY <1>2, <1>3 DEF SoundFor
<1>4. CASE users'[s.user] # None
  <2>1. users[s.user] # None /\ StillTrue(users[s.user], users'[s.user])
    BY <1>1, <1>4 DEF UsersStep
  <2>2. users[s.user] \in Row /\ users'[s.user] \in Row
        /\ (users[s.user].totpEnabled => users[s.user].totpSecret # None)
    BY <1>2, <1>4, <2>1 DEF TypeOK
  <2>3. QED BY <1>1, <1>2, <2>1, <2>2, SoundForLater
<1>5. QED BY <1>3, <1>4

\* A request that takes no step stays sound while others do.
LEMMA SoundRequestLater ==
    ASSUME IInv, TypeOK', UsersStep, NEW r \in Requests, requests[r] # None,
           requests'[r] = requests[r]
    PROVE  SoundRequest(requests[r])'
<1> DEFINE q == requests[r]
           u == q.session.user
<1>1. q \in Request /\ q.session \in Session /\ SoundRequest(q) /\ TypeOK
  BY RequestTyped DEF IInv
<1>2. Sound(q.session)'
  BY <1>1, SoundLater DEF SoundRequest
<1>3. ASSUME q.step = "checked"
      PROVE  StillTrue(q.row, users'[u])
  <2>1. /\ q.row # None /\ StillTrue(q.row, users[u])
        /\ u \in Users /\ q.session.state # "anonymous"
    BY <1>1, <1>3 DEF SoundRequest
  <2>2. q.row \in Row /\ u \in created
    BY <1>1, <2>1, RequestTyped DEF SoundRequest, Sound
  <2>3. CASE users'[u] = None
    BY <2>3 DEF StillTrue
  <2>4. CASE users'[u] # None
    <3>1. users[u] # None /\ StillTrue(users[u], users'[u])
      BY <2>2, <2>4 DEF UsersStep
    <3>2. users[u] \in Row /\ users'[u] \in Row
      BY <2>1, <2>4, <3>1, <1>1 DEF TypeOK
    <3>3. QED BY <2>1, <2>2, <3>1, <3>2, StillTrueTrans
  <2>5. QED BY <2>3, <2>4
<1> HIDE DEF q, u
<1>4. SoundRequest(q)
  BY <1>1
<1>5. requests'[r] = q
  BY DEF q
<1>6. QED BY <1>2, <1>3, <1>4, <1>5 DEF SoundRequest, q, u

\* What each action has to show, the type invariant aside.
StepOK ==
    /\ UsersStep
    /\ \A u \in Users : users'[u] # None => u \in created'
    /\ SessionsStep
    /\ \A r \in Requests : requests'[r] # None =>
          requests'[r] = requests[r] \/ SoundRequest(requests[r])'

\* ... and that it suffices.
LEMMA StepPreserves == ASSUME IInv, TypeOK', StepOK PROVE IInv'
<1>1. ASSUME NEW s \in Session, Sound(s)
      PROVE  Sound(s)'
  BY <1>1, SoundLater DEF IInv, StepOK
<1>2. ASSUME NEW id \in Ids, sessions'[id] # None
      PROVE  /\ Sound(sessions[id])'
             /\ (sessions[id].state # "anonymous" <=> sessions[id].user \in Users)'
  <2>1. CASE sessions'[id] = Anonymous
    BY <2>1, NoneAssumption DEF Anonymous, Sound
  <2>2. CASE sessions'[id] = sessions[id]
    <3>1. sessions[id] \in Session /\ Sound(sessions[id])
          /\ (sessions[id].state # "anonymous" <=> sessions[id].user \in Users)
      BY <1>2, <2>2 DEF IInv, TypeOK
    <3>2. QED BY <1>1, <2>2, <3>1 DEF Sound
  <2>3. ASSUME NEW r \in Requests, requests[r] # None, requests[r].step = "rotate",
               sessions'[id] = requests[r].session
        PROVE  /\ Sound(sessions[id])'
               /\ (sessions[id].state # "anonymous" <=> sessions[id].user \in Users)'
    <3>1. requests[r].session \in Session
      BY <2>3, RequestTyped DEF IInv
    <3>2. Sound(requests[r].session)
          /\ (requests[r].session.state # "anonymous" <=> requests[r].session.user \in Users)
      BY <2>3 DEF IInv, SoundRequest
    <3>3. QED BY <1>1, <2>3, <3>1, <3>2 DEF Sound
  <2>4. QED BY <1>2, <2>1, <2>2, <2>3 DEF StepOK, SessionsStep
<1>3. ASSUME NEW r \in Requests, requests'[r] # None
      PROVE  SoundRequest(requests[r])'
  BY <1>3, SoundRequestLater DEF StepOK
<1>4. QED BY <1>2, <1>3 DEF IInv, StepOK

\* Nothing happens to the users table.
LEMMA UsersUnchanged == ASSUME IInv, UNCHANGED <<users, created>>
                        PROVE  /\ UsersStep
                               /\ \A u \in Users : users'[u] # None => u \in created'
<1>1. \A u \in Users : users[u] # None => StillTrue(users[u], users[u])
  BY StillTrueRefl DEF IInv, TypeOK
<1>2. QED BY <1>1 DEF UsersStep, IInv, TypeOK

-----------------------------------------------------------------------------
(* One lemma per action. *)

\* A request ends and a session may end with it.
LEMMA EndStep ==
    ASSUME IInv, UNCHANGED <<users, created>>, NEW r \in Requests, NEW id \in Ids,
           requests' \in {requests, Finished(r)},
           sessions' \in {sessions, Destroyed(id)}
    PROVE  IInv'
<1>1. TypeOK'
  BY DEF IInv, TypeOK, Finished, Destroyed
<1>2. SessionsStep
  BY DEF SessionsStep, Destroyed, IInv, TypeOK
<1>3. \A q \in Requests : requests'[q] # None => requests'[q] = requests[q]
  BY DEF Finished, IInv, TypeOK
<1>4. QED BY <1>1, <1>2, <1>3, UsersUnchanged, StepPreserves DEF StepOK

\* A session ends by itself.
LEMMA EndSessionStep ==
    ASSUME IInv, NEW id \in Ids, sessions' = Destroyed(id),
           UNCHANGED <<users, created, requests>>
    PROVE  IInv'
<1>1. TypeOK'
  BY DEF IInv, TypeOK, Destroyed
<1>2. SessionsStep
  BY DEF SessionsStep, Destroyed, IInv, TypeOK
<1>3. QED BY <1>1, <1>2, UsersUnchanged, StepPreserves DEF StepOK

\* GET /login adds an anonymous session.
LEMMA LoginPageStep == ASSUME IInv, NEW id \in Ids, LoginPage(id) PROVE IInv'
<1>1. Anonymous \in Session
  BY DEF Anonymous, Session, States
<1>2. TypeOK'
  BY <1>1 DEF IInv, TypeOK, LoginPage
<1>3. SessionsStep
  BY DEF SessionsStep, LoginPage, IInv, TypeOK
<1>4. QED BY <1>2, <1>3, UsersUnchanged, StepPreserves DEF StepOK, LoginPage

\* Rotate issues the session the request holds, which is sound.
LEMMA RotateStep ==
    ASSUME IInv, NEW r \in Requests, NEW id \in Ids, Rotate(r, id)
    PROVE  IInv'
<1> DEFINE q == requests[r]
<1>1. q # None /\ q.step = "rotate" /\ q.id \in Ids /\ q.session \in Session
      /\ sessions' = [Destroyed(q.id) EXCEPT ![id] = q.session]
      /\ requests' = Finished(r) /\ UNCHANGED <<users, created>>
  BY RequestTyped DEF Rotate, IInv, TypeOK, Request
<1> HIDE DEF q
<1>2. TypeOK'
  BY <1>1 DEF IInv, TypeOK, Finished, Destroyed
<1>3. SessionsStep
  <2> SUFFICES ASSUME NEW i \in Ids, sessions'[i] # None
               PROVE  sessions'[i] = sessions[i] \/ sessions'[i] = q.session
    BY <1>1 DEF SessionsStep, q
  <2>1. QED BY <1>1 DEF IInv, TypeOK, Destroyed
<1>4. \A p \in Requests : requests'[p] # None => requests'[p] = requests[p]
  BY <1>1 DEF Finished, IInv, TypeOK
<1>5. QED BY <1>1, <1>2, <1>3, <1>4, UsersUnchanged, StepPreserves DEF StepOK

\* A request moves on to the record q and nothing else happens.
LEMMA RequestStep ==
    ASSUME IInv, NEW r \in Requests, NEW q \in Request,
           requests' = [requests EXCEPT ![r] = q],
           UNCHANGED <<users, created, sessions>>, SoundRequest(q)
    PROVE  IInv'
<1>1. TypeOK'
  BY DEF IInv, TypeOK
<1>2. SessionsStep
  BY DEF SessionsStep
<1>3. SoundRequest(requests[r])'
  <2>1. requests'[r] = q
    BY DEF IInv, TypeOK
  <2>2. QED BY <2>1 DEF SoundRequest, Sound
<1>4. \A p \in Requests : p # r => requests'[p] = requests[p]
  BY DEF IInv, TypeOK
<1>5. QED BY <1>1, <1>2, <1>3, <1>4, UsersUnchanged, StepPreserves DEF StepOK

\* A handler reads a session, which is sound.
LEMMA StartStep ==
    ASSUME IInv, NEW r \in Requests, NEW kind \in Kinds, NEW id \in Ids,
           Start(r, kind, id)
    PROVE  IInv'
<1> DEFINE q == [kind |-> kind, step |-> "session", id |-> id,
                 session |-> sessions[id], row |-> None]
<1>1. sessions[id] # None /\ sessions[id] \in Session
      /\ sessions[id].state \in SessionStates(kind)
  BY DEF Start, IInv, TypeOK
<1>2. q \in Request
  BY <1>1 DEF Request
<1>3. kind # "login" => sessions[id].state # "anonymous"
  BY <1>1 DEF SessionStates
<1>4. SoundRequest(q)
  BY <1>1, <1>3 DEF SoundRequest, IInv
<1>5. QED BY <1>2, <1>4, RequestStep DEF Start

\* The session after a correct password is sound for the row that was read.
LEMMA AuthenticateStep ==
    ASSUME IInv, NEW r \in Requests, NEW u \in Users, Authenticate(r, u)
    PROVE  IInv'
<1> DEFINE row == users[u]
           s == [state |-> nextState(row), user |-> u,
                 authVersion |-> row.authVersion,
                 password |-> row.password, code |-> None]
           q == [requests[r] EXCEPT !.step = "rotate", !.session = s]
<1>1. /\ requests[r] # None /\ requests[r] \in Request /\ row # None /\ row \in Row
      /\ requests[r].kind = "login"
      /\ u \in created
      /\ row.totpEnabled => row.totpSecret # None
  BY DEF Authenticate, IInv, TypeOK
<1>2. nextState(row) \in States /\ nextState(row) # "anonymous"
  BY DEF nextState, States
<1>3. s \in Session
  BY <1>1, <1>2 DEF Session, Row
<1>4. q \in Request
  BY <1>1, <1>3 DEF Request
<1>5. requests' = [requests EXCEPT ![r] = q] /\ UNCHANGED <<users, created, sessions>>
  BY DEF Authenticate, IInv, TypeOK
<1>6. SoundFor(s, row)
  BY <1>1 DEF SoundFor, nextState, Row
<1>7. q.step = "rotate" /\ q.session = s /\ q.kind = "login"
  BY <1>1, <1>4 DEF Request
<1>8. Sound(s) /\ s.user = u /\ s.state # "anonymous"
  BY <1>1, <1>2, <1>6 DEF Sound
<1> HIDE DEF q, s
<1>9. SoundRequest(q)
  BY <1>7, <1>8 DEF SoundRequest
<1>10. QED BY <1>4, <1>5, <1>9, RequestStep

\* What a handler past its session read knows of its user.
LEMMA ReadUser ==
    ASSUME IInv, NEW r \in Requests, requests[r] # None, requests[r].kind # "login"
    PROVE  /\ requests[r] \in Request
           /\ requests[r].session \in Session
           /\ requests[r].session.user \in Users
           /\ requests[r].session.state # "anonymous"
           /\ requests[r].session.user \in created
           /\ SoundFor(requests[r].session, users[requests[r].session.user])
<1>1. requests[r] \in Request /\ requests[r].session \in Session
  BY RequestTyped DEF IInv
<1>2. SoundRequest(requests[r])
  BY DEF IInv
<1>3. QED BY <1>1, <1>2 DEF SoundRequest, Sound

\* The session after a correct code is sound for the row that was read.
LEMMA VerifyCodeStep == ASSUME IInv, NEW r \in Requests, VerifyCode(r) PROVE IInv'
<1> DEFINE request == requests[r]
           row == users[request.session.user]
           s == [request.session EXCEPT !.state = afterCode(row), !.code = row.totpSecret]
           q == [request EXCEPT !.step = "rotate", !.session = s]
<1>1. /\ request # None /\ request.kind = "challenge"
      /\ Current(request.session, row)
      /\ requests' = [requests EXCEPT ![r].step = "rotate", ![r].session = s]
      /\ UNCHANGED <<users, created, sessions>>
  BY DEF VerifyCode
<1>2. /\ request \in Request /\ request.session \in Session
      /\ request.session.user \in Users /\ request.session.user \in created
      /\ SoundFor(request.session, row)
  BY <1>1, ReadUser
<1>3. row \in Row /\ row # None /\ row.authVersion = request.session.authVersion
  BY <1>1, <1>2 DEF Current, IInv, TypeOK
<1>4. s \in Session /\ s.state # "anonymous"
  BY <1>2, <1>3 DEF Session, Row, afterCode, States
<1>5. q \in Request /\ q.step = "rotate" /\ q.session = s /\ q.kind = "challenge"
  BY <1>1, <1>2, <1>4 DEF Request
<1>6. requests' = [requests EXCEPT ![r] = q]
  BY <1>1 DEF IInv, TypeOK
<1>7. SoundFor(s, row)
  BY <1>2, <1>3 DEF SoundFor, afterCode, Row, Session
<1>8. s.user = request.session.user
  BY <1>2 DEF Session
<1> HIDE DEF q, s
<1>9. Sound(s)
  BY <1>2, <1>7, <1>8 DEF Sound
<1>10. SoundRequest(q)
  BY <1>2, <1>4, <1>5, <1>8, <1>9 DEF SoundRequest
<1>11. QED BY <1>1, <1>5, <1>6, <1>10, RequestStep

\* The row that was read is true of itself.
LEMMA CheckUserStep == ASSUME IInv, NEW r \in Requests, CheckUser(r) PROVE IInv'
<1> DEFINE request == requests[r]
           row == users[request.session.user]
           q == [request EXCEPT !.step = "checked", !.row = row]
<1>1. /\ request # None /\ request.kind \notin {"login", "challenge"}
      /\ request.step = "session"
      /\ Current(request.session, row) /\ Form(request.kind, row)
      /\ requests' = [requests EXCEPT ![r].step = "checked", ![r].row = row]
      /\ UNCHANGED <<users, created, sessions>>
  BY DEF CheckUser
<1>2. request \in Request /\ request.session.user \in Users
  BY <1>1, ReadUser
<1>3. row \in Row /\ row # None /\ row.authVersion = request.session.authVersion
  BY <1>1, <1>2 DEF Current, IInv, TypeOK
<1>4. /\ q \in Request /\ q.step = "checked" /\ q.row = row
      /\ q.session = request.session /\ q.kind = request.kind
  BY <1>1, <1>2, <1>3 DEF Request
<1>5. requests' = [requests EXCEPT ![r] = q]
  BY <1>1 DEF IInv, TypeOK
<1>6. StillTrue(row, row) /\ SoundRequest(request)
  BY <1>1, <1>3, StillTrueRefl DEF IInv
<1> HIDE DEF q
<1>7. SoundRequest(q)
  BY <1>1, <1>3, <1>4, <1>6 DEF SoundRequest, Form
<1>8. QED BY <1>1, <1>4, <1>5, <1>7, RequestStep

\* One account's row is replaced by one of the same meaning or a later version.
LEMMA RowStep ==
    ASSUME IInv, NEW u \in Users, users[u] # None, NEW new \in Row,
           new.totpEnabled => new.totpSecret # None,
           StillTrue(users[u], new),
           users' = [users EXCEPT ![u] = new], UNCHANGED created
    PROVE  /\ UsersStep
           /\ \A v \in Users : users'[v] # None => v \in created'
           /\ users' \in [Users -> Row \cup {None}]
           /\ \A v \in Users : users'[v] # None /\ users'[v].totpEnabled
                                  => users'[v].totpSecret # None
<1>1. \A v \in Users : users'[v] = IF v = u THEN new ELSE users[v]
  BY DEF IInv, TypeOK
<1>2. \A v \in Users : users[v] # None => StillTrue(users[v], users[v])
  BY StillTrueRefl DEF IInv, TypeOK
<1>3. UsersStep
  BY <1>1, <1>2 DEF UsersStep, IInv, TypeOK
<1>4. \A v \in Users : users'[v] # None => v \in created'
  BY <1>1 DEF IInv
<1>5. \A v \in Users : users'[v] # None /\ users'[v].totpEnabled
                          => users'[v].totpSecret # None
  BY <1>1 DEF IInv, TypeOK
<1>6. QED BY <1>3, <1>4, <1>5 DEF IInv, TypeOK

\* ... by an administrator: sessions and requests do not change.
LEMMA AdministratorStep ==
    ASSUME IInv, NEW u \in Users, users[u] # None, NEW new \in Row,
           new.totpEnabled => new.totpSecret # None,
           StillTrue(users[u], new),
           users' = [users EXCEPT ![u] = new],
           UNCHANGED <<created, sessions, requests>>
    PROVE  IInv'
<1>1. TypeOK'
  BY RowStep DEF IInv, TypeOK
<1>2. SessionsStep
  BY DEF SessionsStep
<1>3. QED BY <1>1, <1>2, RowStep, StepPreserves DEF StepOK

\* ... by the handler of request r, which moves on to the record q.
LEMMA HandlerStep ==
    ASSUME IInv, NEW r \in Requests, NEW u \in Users, users[u] # None, NEW new \in Row,
           new.totpEnabled => new.totpSecret # None,
           StillTrue(users[u], new),
           users' = [users EXCEPT ![u] = new],
           UNCHANGED <<created, sessions>>,
           NEW q \in Request,
           requests' = [requests EXCEPT ![r] = q],
           UsersStep => SoundRequest(q)'
    PROVE  IInv'
<1>1. UsersStep /\ (\A v \in Users : users'[v] # None => v \in created')
  BY RowStep
<1>2. TypeOK'
  BY RowStep DEF IInv, TypeOK
<1>3. SessionsStep
  BY DEF SessionsStep
<1>4. requests'[r] = q /\ \A p \in Requests : p # r => requests'[p] = requests[p]
  BY DEF IInv, TypeOK
<1>5. SoundRequest(requests[r])'
  BY <1>1, <1>4 DEF SoundRequest, Sound
<1>6. QED BY <1>1, <1>2, <1>3, <1>4, <1>5, StepPreserves DEF StepOK

\* PrepareTOTP changes the secret of an account that has none enabled.
LEMMA PrepareTOTPStep ==
    ASSUME IInv, NEW r \in Requests, NEW secret \in Secrets, PrepareTOTP(r, secret)
    PROVE  IInv'
<1> DEFINE request == requests[r]
           u == request.session.user
<1> PICK new : new = [users[u] EXCEPT !.totpSecret = IF @ = None THEN secret ELSE @]
  OBVIOUS
<1> PICK q : q = [request EXCEPT !.row = new]
  OBVIOUS
<1>1. /\ request # None /\ request.kind \in {"enrollment", "account_setup"}
      /\ request.step = "checked"
      /\ Unchanged(request)
      /\ ~users[u].totpEnabled
      /\ users' = [users EXCEPT ![u] = new]
      /\ requests' = [requests EXCEPT ![r].row = new]
      /\ UNCHANGED <<created, sessions>>
  BY DEF PrepareTOTP
<1>2. /\ request \in Request /\ request.session \in Session
      /\ u \in Users /\ u \in created
  BY <1>1, ReadUser
<1>3. /\ users[u] \in Row /\ users[u] # None
      /\ users[u].authVersion = request.row.authVersion
  BY <1>1, <1>2 DEF Unchanged, Current, IInv, TypeOK
<1>4. /\ new \in Row /\ new # None /\ ~new.totpEnabled
      /\ new.authVersion = users[u].authVersion
      /\ StillTrue(users[u], new) /\ StillTrue(new, new)
  <2>1. new \in Row
    BY <1>3 DEF Row
  <2>2. ~new.totpEnabled /\ StillTrue(users[u], new)
        /\ new.authVersion = users[u].authVersion
    BY <1>1, <1>3 DEF Row, StillTrue
  <2>3. QED BY <2>1, <2>2, StillTrueRefl, NoneAssumption
<1>5. /\ q \in Request /\ q.row = new /\ q.kind = request.kind /\ q.step = "checked"
      /\ q.session = request.session
  BY <1>1, <1>2, <1>4 DEF Request
<1>6. requests' = [requests EXCEPT ![r] = q] /\ users'[u] = new
  BY <1>1, <1>2 DEF IInv, TypeOK
<1>7. ASSUME UsersStep PROVE SoundRequest(q)'
  <2>1. SoundRequest(request)
    BY <1>1 DEF IInv
  <2>2. TypeOK /\ TypeOK'
    <3>1. /\ users' \in [Users -> Row \cup {None}]
          /\ \A v \in Users : users'[v] # None /\ users'[v].totpEnabled
                                 => users'[v].totpSecret # None
      BY <1>1, <1>2, <1>3, <1>4, RowStep
    <3>2. requests' \in [Requests -> Request \cup {None}]
      BY <1>5, <1>6 DEF IInv, TypeOK
    <3>3. TypeOK /\ UNCHANGED <<created, sessions>>
      BY <1>1 DEF IInv
    <3> HIDE DEF request, u
    <3>4. QED BY <3>1, <3>2, <3>3 DEF TypeOK
  <2>3. Sound(q.session) /\ q.session \in Session
    BY <1>2, <1>5, <2>1 DEF SoundRequest
  <2>4. Sound(q.session)'
    BY <1>7, <2>2, <2>3, SoundLater
  <2>5. QED BY <1>1, <1>3, <1>4, <1>5, <1>6, <2>1, <2>4 DEF SoundRequest
<1>8. QED BY <1>1, <1>2, <1>3, <1>4, <1>5, <1>6, <1>7, HandlerStep

\* The UPDATEs raise the version, so they keep what was true of older ones.
LEMMA UpdatedRow ==
    ASSUME NEW kind \in Kinds, NEW row \in Row, NEW password \in Passwords,
           kind \in {"enrollment", "account_enable"} => row.totpSecret # None,
           row.totpEnabled => row.totpSecret # None
    PROVE  /\ Updated(kind, row, password) \in Row
           /\ Updated(kind, row, password).authVersion = row.authVersion + 1
           /\ Updated(kind, row, password).totpEnabled =>
                 Updated(kind, row, password).totpSecret # None
           /\ StillTrue(row, Updated(kind, row, password))
<1> DEFINE new == Updated(kind, row, password)
<1>1. row.authVersion \in Nat
  BY DEF Row
<1>2. /\ new \in Row /\ new.authVersion = row.authVersion + 1
      /\ new.totpEnabled => new.totpSecret # None
  <2> DEFINE bumped == [row EXCEPT !.authVersion = @ + 1]
  <2>1. /\ bumped \in Row
        /\ bumped.authVersion = row.authVersion + 1
        /\ bumped.totpSecret = row.totpSecret
        /\ bumped.totpEnabled = row.totpEnabled
    BY <1>1 DEF Row
  <2>2. CASE kind = "password"
    <3>1. new = [bumped EXCEPT !.password = password, !.mustChangePassword = FALSE]
      BY <2>2 DEF Updated
    <3> HIDE DEF bumped
    <3>2. QED BY <2>1, <3>1 DEF Row
  <2>3. CASE kind \in {"enrollment", "account_enable"}
    <3>1. new = [bumped EXCEPT !.totpEnabled = TRUE]
      BY <2>3 DEF Updated
    <3> HIDE DEF bumped
    <3>2. QED BY <2>1, <2>3, <3>1 DEF Row
  <2>4. CASE kind \notin {"password", "enrollment", "account_enable"}
    <3>1. new = [bumped EXCEPT !.totpSecret = None, !.totpEnabled = FALSE]
      BY <2>4 DEF Updated
    <3> HIDE DEF bumped
    <3>2. QED BY <2>1, <3>1 DEF Row
  <2>5. QED BY <2>2, <2>3, <2>4
<1>3. StillTrue(row, new)
  <2> HIDE DEF new
  <2>1. QED BY <1>1, <1>2 DEF StillTrue
<1>4. QED BY <1>2, <1>3

\* The session that is issued after an UPDATE is sound for the new row.
LEMMA ReissuedSound ==
    ASSUME NEW request \in Request, request.session \in Session,
           NEW row \in Row, NEW password \in Passwords,
           request.kind \in {"password", "enrollment", "account_enable", "account_disable"},
           request.session.state \in SessionStates(request.kind),
           row.totpEnabled => row.totpSecret # None,
           row.authVersion = request.session.authVersion,
           SoundFor(request.session, row)
    PROVE  LET new == Updated(request.kind, row, password)
           IN  SoundFor(Reissued(request, new), new)
<1> DEFINE s == request.session
           new == Updated(request.kind, row, password)
           t == Reissued(request, new)
<1> SUFFICES SoundFor(t, new)
  OBVIOUS
<1>1. /\ row # None /\ row.authVersion \in Nat /\ s.password = row.password
      /\ s.state = "authenticated" => ~row.mustChangePassword
      /\ s.state \in {"authenticated", "password_change"} /\ row.totpEnabled
            => s.code = row.totpSecret
  BY NoneAssumption DEF SoundFor, Row
<1>2. t.authVersion = new.authVersion
  BY DEF Reissued, Session
<1>3. CASE request.kind = "password"
  <2>1. new = [[row EXCEPT !.authVersion = @ + 1] EXCEPT !.password = password,
                                                         !.mustChangePassword = FALSE]
    BY <1>3 DEF Updated
  <2>2. t.password = new.password /\ t.code = s.code /\ t.state = "authenticated"
    BY <1>3 DEF Reissued, Session
  <2>3. s.state \in {"authenticated", "password_change"}
    BY <1>3 DEF SessionStates
  <2>4. /\ new.totpEnabled = row.totpEnabled /\ new.totpSecret = row.totpSecret
        /\ new.mustChangePassword = FALSE /\ new.authVersion \in Nat
    BY <1>1, <2>1 DEF Row
  <2> HIDE DEF new, t
  <2>5. QED BY <1>1, <1>2, <2>2, <2>3, <2>4 DEF SoundFor
<1>4. CASE request.kind \in {"enrollment", "account_enable"}
  <2>1. new = [[row EXCEPT !.authVersion = @ + 1] EXCEPT !.totpEnabled = TRUE]
    BY <1>4 DEF Updated
  <2>2. /\ t.password = s.password /\ t.code = new.totpSecret
        /\ t.state = IF request.kind = "enrollment" THEN afterCode(new)
                     ELSE "authenticated"
    BY <1>4 DEF Reissued, Session
  <2>3. request.kind = "account_enable" => s.state = "authenticated"
    BY DEF SessionStates
  <2>4. /\ new.password = row.password /\ new.authVersion \in Nat
        /\ new.mustChangePassword = row.mustChangePassword
    BY <1>1, <2>1 DEF Row
  <2> HIDE DEF new, t
  <2>5. QED BY <1>1, <1>2, <1>4, <2>2, <2>3, <2>4 DEF SoundFor, afterCode
<1>5. CASE request.kind = "account_disable"
  <2>1. new = [[row EXCEPT !.authVersion = @ + 1] EXCEPT !.totpSecret = None,
                                                         !.totpEnabled = FALSE]
    BY <1>5 DEF Updated
  <2>2. t.password = s.password /\ t.state = "authenticated"
    BY <1>5 DEF Reissued, Session
  <2>3. s.state = "authenticated"
    BY <1>5 DEF SessionStates
  <2>4. /\ new.password = row.password /\ new.authVersion \in Nat
        /\ new.mustChangePassword = row.mustChangePassword /\ new.totpEnabled = FALSE
    BY <1>1, <2>1 DEF Row
  <2> HIDE DEF new, t
  <2>5. QED BY <1>1, <1>2, <2>2, <2>3, <2>4 DEF SoundFor
<1>6. QED BY <1>3, <1>4, <1>5

\* The session to be issued after an UPDATE is well formed.
LEMMA ReissuedTyped ==
    ASSUME NEW request \in Request, request.session \in Session,
           request.session.user \in Users, NEW row \in Row
    PROVE  /\ Reissued(request, row) \in Session
           /\ Reissued(request, row).state # "anonymous"
           /\ Reissued(request, row).user = request.session.user
BY DEF Reissued, Session, Row, States, afterCode

\* ChangePassword, EnableTOTP and DisableTOTP.
LEMMA UpdateUserStep ==
    ASSUME IInv, NEW r \in Requests, NEW password \in Passwords, UpdateUser(r, password)
    PROVE  IInv'
<1> DEFINE request == requests[r]
           u == request.session.user
<1> PICK new : new = Updated(request.kind, users[u], password)
  OBVIOUS
<1> PICK q : q = [request EXCEPT !.step = "rotate", !.session = Reissued(request, new)]
  OBVIOUS
<1>1. /\ request # None /\ Updating(request) /\ Updatable(request)
      /\ users' = [users EXCEPT ![u] = new]
      /\ requests' = [requests EXCEPT ![r].step = "rotate",
                                      ![r].session = Reissued(request, new)]
      /\ UNCHANGED <<created, sessions>>
  BY DEF UpdateUser
<1>2. request.kind \in {"password", "enrollment", "account_enable", "account_disable"}
      /\ request.step = "checked" /\ request.kind \in Kinds
  BY <1>1 DEF Updating, Kinds
<1>3. /\ request \in Request /\ request.session \in Session
      /\ u \in Users /\ u \in created /\ SoundFor(request.session, users[u])
      /\ request.session.state \in SessionStates(request.kind)
      /\ request.row # None /\ request.row.authVersion = request.session.authVersion
  BY <1>1, <1>2, ReadUser DEF IInv, SoundRequest
<1>4. /\ users[u] \in Row /\ users[u] # None
      /\ users[u].authVersion = request.session.authVersion
      /\ users[u].totpEnabled => users[u].totpSecret # None
  BY <1>1, <1>3 DEF Updatable, Unchanged, Current, IInv, TypeOK
<1>5. request.kind \in {"enrollment", "account_enable"} => users[u].totpSecret # None
  BY <1>1, <1>2 DEF Updatable, Updating, IInv, SoundRequest
<1>6. /\ new \in Row /\ StillTrue(users[u], new)
      /\ new.totpEnabled => new.totpSecret # None
  BY <1>2, <1>4, <1>5, UpdatedRow
<1>7. SoundFor(Reissued(request, new), new)
  BY <1>2, <1>3, <1>4, ReissuedSound
<1>8. /\ Reissued(request, new) \in Session
      /\ Reissued(request, new).state # "anonymous"
      /\ Reissued(request, new).user = u
  BY <1>3, <1>6, ReissuedTyped
<1>9. /\ q \in Request /\ q.step = "rotate" /\ q.session = Reissued(request, new)
      /\ q.kind = request.kind
  BY <1>3, <1>8 DEF Request
<1>10. requests' = [requests EXCEPT ![r] = q] /\ users'[u] = new
  BY <1>1, <1>3 DEF IInv, TypeOK
<1>11. Sound(q.session)'
  BY <1>1, <1>3, <1>7, <1>8, <1>9, <1>10 DEF Sound
<1>12. SoundRequest(q)'
  BY <1>3, <1>8, <1>9, <1>11 DEF SoundRequest
<1>13. QED BY <1>1, <1>3, <1>4, <1>6, <1>9, <1>10, <1>12, HandlerStep

\* A new account has no session yet.
LEMMA CreateUserStep ==
    ASSUME IInv, NEW u \in Users, NEW password \in Passwords, NEW required \in BOOLEAN,
           CreateUser(u, password, required)
    PROVE  IInv'
<1> PICK new : new = [status |-> "active", password |-> password,
                      mustChangePassword |-> u \notin Roots, authVersion |-> 1,
                      twoFactorRequired |-> required, totpSecret |-> None,
                      totpEnabled |-> FALSE]
  OBVIOUS
<1>1. new \in Row /\ ~new.totpEnabled
  BY DEF Row
<1>2. /\ u \notin created /\ created' = created \cup {u}
      /\ users' = [users EXCEPT ![u] = new] /\ UNCHANGED <<sessions, requests>>
  BY DEF CreateUser
<1>3. \A v \in Users : users'[v] = IF v = u THEN new ELSE users[v]
  BY <1>2 DEF IInv, TypeOK
<1>4. TypeOK'
  <2>1. \A v \in Users : users'[v] # None /\ users'[v].totpEnabled
                            => users'[v].totpSecret # None
    BY <1>1, <1>3 DEF IInv, TypeOK
  <2>2. QED BY <1>1, <1>2, <2>1 DEF IInv, TypeOK
<1>5. UsersStep
  <2>1. \A v \in Users : users[v] # None => StillTrue(users[v], users[v])
    BY StillTrueRefl DEF IInv, TypeOK
  <2>2. QED BY <1>2, <1>3, <2>1 DEF UsersStep, IInv, TypeOK
<1>6. \A v \in Users : users'[v] # None => v \in created'
  BY <1>2, <1>3 DEF IInv
<1>7. QED BY <1>2, <1>4, <1>5, <1>6, StepPreserves DEF StepOK, SessionsStep

\* The rows the administrator's statements write are rows.
LEMMA WrittenByUpdate ==
    ASSUME NEW row \in Row, NEW status \in {"active", "suspended"},
           NEW required \in BOOLEAN, NEW secret \in Secrets \cup {None},
           NEW enabled \in BOOLEAN, NEW version \in Nat
    PROVE  [row EXCEPT !.status = status, !.twoFactorRequired = required,
                       !.totpSecret = secret, !.totpEnabled = enabled,
                       !.authVersion = version] \in Row
BY DEF Row

\* ... of a password reset.
LEMMA WrittenByReset ==
    ASSUME NEW row \in Row, NEW password \in Passwords, NEW mustChange \in BOOLEAN,
           NEW version \in Nat
    PROVE  [row EXCEPT !.password = password, !.mustChangePassword = mustChange,
                       !.authVersion = version] \in Row
BY DEF Row

\* ... of the recovery command.
LEMMA WrittenByDisable ==
    ASSUME NEW row \in Row, NEW version \in Nat
    PROVE  [row EXCEPT !.twoFactorRequired = FALSE, !.totpSecret = None,
                       !.totpEnabled = FALSE, !.authVersion = version] \in Row
BY DEF Row

\* An account is edited; a reset of its second factor raises the version.
LEMMA UpdateAdminUserStep ==
    ASSUME IInv, NEW u \in Users, NEW status \in {"active", "suspended"},
           NEW required \in BOOLEAN, NEW resetTOTP \in BOOLEAN,
           UpdateAdminUser(u, status, required, resetTOTP)
    PROVE  IInv'
<1>0. PICK new : new = [users[u] EXCEPT
                         !.status = status,
                         !.twoFactorRequired = required,
                         !.totpSecret = IF resetTOTP THEN None ELSE @,
                         !.totpEnabled = IF resetTOTP THEN FALSE ELSE @,
                         !.authVersion = IF resetTOTP THEN @ + 1 ELSE @]
  OBVIOUS
<1>1. users[u] \in Row /\ users[u] # None /\ (users[u].totpEnabled => users[u].totpSecret # None)
  BY DEF UpdateAdminUser, Exists, IInv, TypeOK
<1>2. new \in Row /\ (new.totpEnabled => new.totpSecret # None) /\ StillTrue(users[u], new)
  <2> DEFINE row == users[u]
  <2>1. row \in Row /\ row.authVersion \in Nat
    BY <1>1 DEF Row
  <2>2. new \in Row
    <3> DEFINE version == IF resetTOTP THEN row.authVersion + 1 ELSE row.authVersion
               secret == IF resetTOTP THEN None ELSE row.totpSecret
               enabled == IF resetTOTP THEN FALSE ELSE row.totpEnabled
    <3>1. version \in Nat /\ secret \in Secrets \cup {None} /\ enabled \in BOOLEAN
      <4>1. row.totpSecret \in Secrets \cup {None} /\ row.totpEnabled \in BOOLEAN
        BY <2>1 DEF Row
      <4>2. row.authVersion + 1 \in Nat
        BY <2>1
      <4>3. CASE resetTOTP
        BY <4>2, <4>3
      <4>4. CASE ~resetTOTP
        BY <2>1, <4>1, <4>4
      <4>5. QED BY <4>3, <4>4
    <3>2. new = [row EXCEPT !.status = status, !.twoFactorRequired = required,
                            !.totpSecret = secret, !.totpEnabled = enabled,
                            !.authVersion = version]
      BY <1>0
    <3> HIDE DEF version, secret, enabled, row
    <3>3. QED BY <2>1, <3>1, <3>2, WrittenByUpdate, Zenon
  <2>3. /\ new.authVersion = IF resetTOTP THEN users[u].authVersion + 1
                             ELSE users[u].authVersion
        /\ new.totpSecret = IF resetTOTP THEN None ELSE users[u].totpSecret
        /\ new.totpEnabled = IF resetTOTP THEN FALSE ELSE users[u].totpEnabled
        /\ new.password = users[u].password
        /\ new.mustChangePassword = users[u].mustChangePassword
    BY <1>0, <1>1 DEF Row
  <2>4. CASE resetTOTP
    <3>1. ~new.totpEnabled
      BY <2>3, <2>4
    <3>2. new.authVersion = users[u].authVersion + 1
      BY <2>3, <2>4
    <3>3. QED BY <2>1, <2>2, <3>1, <3>2 DEF StillTrue
  <2>5. CASE ~resetTOTP
    BY <1>1, <2>1, <2>2, <2>3, <2>5 DEF StillTrue
  <2>6. QED BY <2>4, <2>5
<1>3. users' = [users EXCEPT ![u] = new] /\ UNCHANGED <<created, sessions, requests>>
  BY <1>0 DEF UpdateAdminUser, IInv, TypeOK
<1>4. QED BY <1>1, <1>2, <1>3, AdministratorStep

\* A reset raises the version.
LEMMA ResetPasswordStep ==
    ASSUME IInv, NEW u \in Users, NEW password \in Passwords, ResetPassword(u, password)
    PROVE  IInv'
<1>0. PICK new : new = [users[u] EXCEPT !.password = password,
                                      !.mustChangePassword = u \notin Roots,
                                      !.authVersion = @ + 1]
  OBVIOUS
<1>1. users[u] \in Row /\ users[u] # None /\ (users[u].totpEnabled => users[u].totpSecret # None)
  BY DEF ResetPassword, Exists, IInv, TypeOK
<1>2. new \in Row /\ (new.totpEnabled => new.totpSecret # None) /\ StillTrue(users[u], new)
  <2> DEFINE row == users[u]
  <2>1. row \in Row /\ row.authVersion \in Nat
    BY <1>1 DEF Row
  <2>2. new \in Row
    <3> DEFINE version == row.authVersion + 1
               mustChange == u \notin Roots
    <3>1. version \in Nat /\ mustChange \in BOOLEAN
      BY <2>1
    <3>2. new = [row EXCEPT !.password = password, !.mustChangePassword = mustChange,
                            !.authVersion = version]
      BY <1>0
    <3> HIDE DEF version, mustChange, row
    <3>3. QED BY <2>1, <3>1, <3>2, WrittenByReset, Zenon
  <2>3. /\ new.authVersion = users[u].authVersion + 1
        /\ new.totpSecret = users[u].totpSecret
        /\ new.totpEnabled = users[u].totpEnabled
    BY <1>0, <1>1 DEF Row
  <2>4. QED BY <1>1, <2>1, <2>2, <2>3 DEF StillTrue
<1>3. users' = [users EXCEPT ![u] = new] /\ UNCHANGED <<created, sessions, requests>>
  BY <1>0 DEF ResetPassword, IInv, TypeOK
<1>4. QED BY <1>1, <1>2, <1>3, AdministratorStep

\* The recovery command raises the version.
LEMMA DisableRootTwoFactorStep ==
    ASSUME IInv, NEW u \in Users, DisableRootTwoFactor(u)
    PROVE  IInv'
<1>0. PICK new : new = [users[u] EXCEPT !.twoFactorRequired = FALSE,
                                      !.totpSecret = None,
                                      !.totpEnabled = FALSE,
                                      !.authVersion = @ + 1]
  OBVIOUS
<1>1. users[u] \in Row /\ users[u] # None
  BY DEF DisableRootTwoFactor, Exists, IInv, TypeOK
<1>2. new \in Row /\ (new.totpEnabled => new.totpSecret # None) /\ StillTrue(users[u], new)
  <2> DEFINE row == users[u]
  <2>1. row \in Row /\ row.authVersion \in Nat
    BY <1>1 DEF Row
  <2>2. new \in Row
    <3> DEFINE version == row.authVersion + 1
    <3>1. version \in Nat /\ None \in Secrets \cup {None}
      BY <2>1
    <3>2. new = [row EXCEPT !.twoFactorRequired = FALSE, !.totpSecret = None,
                            !.totpEnabled = FALSE, !.authVersion = version]
      BY <1>0
    <3> HIDE DEF version, row
    <3>3. QED BY <2>1, <3>1, <3>2, WrittenByDisable, Zenon
  <2>3. new.authVersion = users[u].authVersion + 1 /\ ~new.totpEnabled
    BY <1>0, <1>1 DEF Row
  <2>4. QED BY <2>1, <2>2, <2>3 DEF StillTrue
<1>3. users' = [users EXCEPT ![u] = new] /\ UNCHANGED <<created, sessions, requests>>
  BY <1>0 DEF DisableRootTwoFactor, IInv, TypeOK
<1>4. QED BY <1>1, <1>2, <1>3, AdministratorStep

\* A deleted account accepts no session.
LEMMA DeleteAdminUserStep ==
    ASSUME IInv, NEW u \in Users, DeleteAdminUser(u)
    PROVE  IInv'
<1>1. users' = [users EXCEPT ![u] = None] /\ UNCHANGED <<created, sessions, requests>>
  BY DEF DeleteAdminUser
<1>2. \A v \in Users : users'[v] # None => users'[v] = users[v]
  BY <1>1 DEF IInv, TypeOK
<1>3. TypeOK'
  <2>1. \A v \in Users : users'[v] # None /\ users'[v].totpEnabled
                            => users'[v].totpSecret # None
    BY <1>2 DEF IInv, TypeOK
  <2>2. QED BY <1>1, <2>1 DEF IInv, TypeOK
<1>4. UsersStep
  <2>1. \A v \in Users : users[v] # None => StillTrue(users[v], users[v])
    BY StillTrueRefl DEF IInv, TypeOK
  <2>2. QED BY <1>1, <1>2, <2>1 DEF UsersStep, IInv, TypeOK
<1>5. \A v \in Users : users'[v] # None => v \in created'
  BY <1>1, <1>2 DEF IInv
<1>6. QED BY <1>1, <1>3, <1>4, <1>5, StepPreserves DEF StepOK, SessionsStep

-----------------------------------------------------------------------------
\* The initial state satisfies the inductive invariant.
LEMMA InitInv == ASSUME Init PROVE IInv
BY DEF Init, IInv, TypeOK

\* Every step preserves it.
LEMMA NextInv == ASSUME IInv, [Next]_vars PROVE IInv'
<1>1. CASE UNCHANGED vars
  BY <1>1 DEF vars, IInv, TypeOK, Sound, SoundRequest
<1>2. CASE Administration
  BY <1>2, CreateUserStep, UpdateAdminUserStep, ResetPasswordStep,
     DeleteAdminUserStep, DisableRootTwoFactorStep DEF Administration
<1>3. CASE Handlers
  <2>1. ASSUME NEW id \in Ids, SessionEnds(id) PROVE IInv'
    BY <2>1, EndSessionStep DEF SessionEnds
  <2>2. ASSUME NEW kind \in Kinds, NEW id \in Ids, StartRefused(kind, id) PROVE IInv'
    BY <2>2, EndSessionStep DEF StartRefused
  <2>3. ASSUME NEW r \in Requests, requests[r] # None, UNCHANGED <<users, created>>,
               requests' = Finished(r),
               sessions' \in {sessions, Destroyed(requests[r].id)}
        PROVE  IInv'
    <3>1. requests[r].id \in Ids
      BY <2>3 DEF IInv, TypeOK, Request
    <3>2. QED BY <2>3, <3>1, EndStep
  <2>4. ASSUME NEW r \in Requests,
               Abandon(r) \/ CheckUserFails(r) \/ PrepareTOTPFails(r) \/ UpdateUserFails(r)
        PROVE  IInv'
    BY <2>3, <2>4 DEF Abandon, CheckUserFails, PrepareTOTPFails, UpdateUserFails
  <2>5. QED
    BY <1>3, <2>1, <2>2, <2>4, LoginPageStep, StartStep, VerifyCodeStep, CheckUserStep,
       AuthenticateStep, PrepareTOTPStep, UpdateUserStep, RotateStep DEF Handlers
<1>4. QED BY <1>1, <1>2, <1>3 DEF Next

\* The inductive invariant holds in every reachable state.
THEOREM Invariance == Spec => []IInv
BY InitInv, NextInv, PTL DEF Spec

\* An enabled second factor always has a secret, and every session and request
\* is well formed.
THEOREM TypeCorrect == Spec => []TypeOK
<1>1. IInv => TypeOK
  BY DEF IInv
<1>2. QED BY <1>1, Invariance, PTL

\* What the invariant says of a session that authenticatedUser accepts.
LEMMA AcceptedSound ==
    ASSUME IInv, NEW id \in AcceptedSessions
    PROVE  /\ sessions[id].password = RowOf(id).password
           /\ ~RowOf(id).mustChangePassword
           /\ RowOf(id).totpEnabled => sessions[id].code = RowOf(id).totpSecret
<1>1. /\ id \in Ids /\ sessions[id] # None /\ sessions[id].state = "authenticated"
      /\ RowOf(id) # None /\ RowOf(id).authVersion = sessions[id].authVersion
  BY DEF AcceptedSessions, Accepted, Current, RowOf
<1>2. SoundFor(sessions[id], RowOf(id))
  BY <1>1 DEF IInv, Sound, RowOf
<1>3. QED BY <1>1, <1>2 DEF SoundFor

\* However logins, password changes, resets and recovery commands interleave,
\* an accepted session has proved the password the account has now.
THEOREM PasswordIsCurrent == Spec => []CurrentPassword
<1>1. IInv => CurrentPassword
  BY AcceptedSound DEF CurrentPassword
<1>2. QED BY <1>1, Invariance, PTL

\* ... and a code of its current second factor.
THEOREM SecondFactorIsPassed == Spec => []SecondFactorPassed
<1>1. IInv => SecondFactorPassed
  BY AcceptedSound DEF SecondFactorPassed
<1>2. QED BY <1>1, Invariance, PTL

\* ... and owes no password change.
THEOREM PasswordChangeIsEnforced == Spec => []PasswordChangeEnforced
<1>1. IInv => PasswordChangeEnforced
  BY AcceptedSound DEF PasswordChangeEnforced
<1>2. QED BY <1>1, Invariance, PTL

\* A step that changes the credentials of an account raises its version, and
\* issues no session.
RaisesVersion(u) ==
    /\ sessions' = sessions
    /\ users'[u].authVersion = users[u].authVersion + 1

\* One account's row is replaced and the sessions stay.
LEMMA ReplacedRow ==
    ASSUME IInv, NEW v \in Users, NEW new, users' = [users EXCEPT ![v] = new],
           sessions' = sessions,
           users[v] # None =>
             \/ new.authVersion = users[v].authVersion + 1
             \/ new = None
             \/ new.password = users[v].password /\ new.totpEnabled = users[v].totpEnabled,
           NEW u \in Users, CredentialsChange(u)
    PROVE  RaisesVersion(u)
<1>1. u = v /\ users'[u] = new
  BY DEF CredentialsChange, IInv, TypeOK
<1>2. users[u] # None /\ new # None
  BY <1>1 DEF CredentialsChange
<1>3. ~(new.password = users[v].password /\ new.totpEnabled = users[v].totpEnabled)
  BY <1>1 DEF CredentialsChange
<1>4. QED BY <1>1, <1>2, <1>3 DEF RaisesVersion

\* Only the statements that raise the version change credentials.
LEMMA ChangeRaisesVersion ==
    ASSUME IInv, Next, NEW u \in Users, CredentialsChange(u)
    PROVE  RaisesVersion(u)
<1>1. users' # users
  BY DEF CredentialsChange
<1>2. ASSUME NEW r \in Requests, NEW secret \in Secrets, PrepareTOTP(r, secret)
      PROVE  RaisesVersion(u)
  <2> DEFINE v == requests[r].session.user
             new == [users[v] EXCEPT !.totpSecret = IF @ = None THEN secret ELSE @]
  <2>1. /\ v \in Users /\ users' = [users EXCEPT ![v] = new] /\ sessions' = sessions
        /\ users[v] # None
    BY <1>2, ReadUser DEF PrepareTOTP, Unchanged, Current
  <2>2. users[v] \in Row
    BY <2>1 DEF IInv, TypeOK
  <2>3. new.password = users[v].password /\ new.totpEnabled = users[v].totpEnabled
    BY <2>2 DEF Row
  <2> HIDE DEF v, new
  <2>4. QED BY <2>1, <2>3, ReplacedRow
<1>3. ASSUME NEW r \in Requests, NEW password \in Passwords, UpdateUser(r, password)
      PROVE  RaisesVersion(u)
  <2> DEFINE q == requests[r]
             v == q.session.user
             new == Updated(q.kind, users[v], password)
  <2>1. /\ q # None /\ Updating(q) /\ Updatable(q)
        /\ users' = [users EXCEPT ![v] = new] /\ sessions' = sessions
    BY <1>3 DEF UpdateUser
  <2>2. q.kind \in Kinds /\ q.kind # "login"
    BY <2>1 DEF Updating, Kinds
  <2>3. v \in Users /\ users[v] # None
    BY <2>1, <2>2, ReadUser DEF Updatable, Unchanged, Current
  <2>4. users[v] \in Row /\ (users[v].totpEnabled => users[v].totpSecret # None)
    BY <2>3 DEF IInv, TypeOK
  <2>5. q.kind \in {"enrollment", "account_enable"} => users[v].totpSecret # None
    BY <2>1 DEF Updatable, Updating, IInv, SoundRequest
  <2>6. new.authVersion = users[v].authVersion + 1
    BY <2>2, <2>4, <2>5, UpdatedRow
  <2> HIDE DEF q, v, new
  <2>7. QED BY <2>1, <2>3, <2>6, ReplacedRow
<1>4. ASSUME NEW v \in Users, NEW password \in Passwords, NEW required \in BOOLEAN,
             CreateUser(v, password, required)
      PROVE  RaisesVersion(u)
  BY <1>4 DEF CreateUser, CredentialsChange, IInv, TypeOK
<1>5. ASSUME NEW v \in Users, NEW status \in {"active", "suspended"},
             NEW required \in BOOLEAN, NEW resetTOTP \in BOOLEAN,
             UpdateAdminUser(v, status, required, resetTOTP)
      PROVE  RaisesVersion(u)
  <2> DEFINE new == [users[v] EXCEPT
                       !.status = status,
                       !.twoFactorRequired = required,
                       !.totpSecret = IF resetTOTP THEN None ELSE @,
                       !.totpEnabled = IF resetTOTP THEN FALSE ELSE @,
                       !.authVersion = IF resetTOTP THEN @ + 1 ELSE @]
  <2>1. users[v] \in Row /\ sessions' = sessions
    BY <1>5 DEF UpdateAdminUser, Exists, IInv, TypeOK
  <2>2. users' = [users EXCEPT ![v] = new]
    BY <1>5 DEF UpdateAdminUser, IInv, TypeOK
  <2>3. /\ new.authVersion = IF resetTOTP THEN users[v].authVersion + 1
                             ELSE users[v].authVersion
        /\ new.totpEnabled = IF resetTOTP THEN FALSE ELSE users[v].totpEnabled
        /\ new.password = users[v].password
    BY <2>1 DEF Row
  <2>4. \/ new.authVersion = users[v].authVersion + 1
        \/ new.password = users[v].password /\ new.totpEnabled = users[v].totpEnabled
    <3>1. CASE resetTOTP
      BY <2>3, <3>1
    <3>2. CASE ~resetTOTP
      BY <2>3, <3>2
    <3>3. QED BY <3>1, <3>2
  <2> HIDE DEF new
  <2>5. QED BY <2>1, <2>2, <2>4, ReplacedRow
<1>6. ASSUME NEW v \in Users, NEW password \in Passwords, ResetPassword(v, password)
      PROVE  RaisesVersion(u)
  <2> DEFINE new == [users[v] EXCEPT !.password = password,
                                     !.mustChangePassword = v \notin Roots,
                                     !.authVersion = @ + 1]
  <2>1. users[v] \in Row /\ sessions' = sessions /\ users' = [users EXCEPT ![v] = new]
    BY <1>6 DEF ResetPassword, Exists, IInv, TypeOK
  <2>2. new.authVersion = users[v].authVersion + 1
    BY <2>1 DEF Row
  <2> HIDE DEF new
  <2>3. QED BY <2>1, <2>2, ReplacedRow
<1>7. ASSUME NEW v \in Users, DeleteAdminUser(v)
      PROVE  RaisesVersion(u)
  BY <1>7, ReplacedRow DEF DeleteAdminUser
<1>8. ASSUME NEW v \in Users, DisableRootTwoFactor(v)
      PROVE  RaisesVersion(u)
  <2> DEFINE new == [users[v] EXCEPT !.twoFactorRequired = FALSE,
                                     !.totpSecret = None,
                                     !.totpEnabled = FALSE,
                                     !.authVersion = @ + 1]
  <2>1. users[v] \in Row /\ sessions' = sessions /\ users' = [users EXCEPT ![v] = new]
    BY <1>8 DEF DisableRootTwoFactor, Exists, IInv, TypeOK
  <2>2. new.authVersion = users[v].authVersion + 1
    BY <2>1 DEF Row
  <2> HIDE DEF new
  <2>3. QED BY <2>1, <2>2, ReplacedRow
<1>9. CASE Administration
  BY <1>4, <1>5, <1>6, <1>7, <1>8, <1>9 DEF Administration
<1>10. CASE Handlers
  BY <1>1, <1>2, <1>3, <1>10
     DEF Handlers, LoginPage, SessionEnds, Start, StartRefused, Abandon, VerifyCode,
         CheckUser, CheckUserFails, PrepareTOTPFails, UpdateUserFails, Authenticate, Rotate
<1>11. QED BY <1>9, <1>10 DEF Next

\* A step that changes an account's password or takes away its second factor
\* leaves no accepted session of that account: every session issued before
\* carries an older auth_version.
THEOREM CredentialChangeIsFinal == Spec => CredentialChangeEndsSessions
<1>1. ASSUME IInv, [Next]_vars, NEW u \in Users, CredentialsChange(u)
      PROVE  NoneAccepted(u)'
  <2>1. Next
    BY <1>1 DEF CredentialsChange, vars
  <2>2. RaisesVersion(u)
    BY <1>1, <2>1, ChangeRaisesVersion
  <2>3. SUFFICES ASSUME NEW id \in Ids, Accepted(sessions[id])', sessions'[id].user = u
                 PROVE  FALSE
    BY DEF NoneAccepted, AcceptedSessions
  <2>4. /\ sessions[id] # None /\ sessions[id].user = u
        /\ sessions[id].state = "authenticated"
        /\ users'[u].authVersion = sessions[id].authVersion
    BY <2>2, <2>3 DEF Accepted, Current, RaisesVersion
  <2>5. users[u] # None /\ SoundFor(sessions[id], users[u])
    BY <1>1, <2>4 DEF IInv, Sound, CredentialsChange
  <2>6. sessions[id].authVersion \in Nat /\ users[u].authVersion \in Nat
    BY <1>1, <2>4, <2>5, RowTyped DEF IInv, TypeOK, Session
  <2>7. QED BY <2>2, <2>4, <2>5, <2>6 DEF SoundFor, RaisesVersion
<1>2. IInv /\ [Next]_vars => [\A u \in Users : CredentialsChange(u) => NoneAccepted(u)']_vars
  BY <1>1
<1>3. QED BY <1>2, Invariance, PTL DEF Spec, CredentialChangeEndsSessions

-----------------------------------------------------------------------------
(* WebAuth implements AccountAccess. *)

\* The owner of a session is what it bears.
LEMMA BearerIs ==
    ASSUME NEW s, NEW rows
    PROVE  Worth(s, rows).bearer = IF s = None THEN None ELSE s.user
BY DEF Worth

\* A row of the same version and second factor leaves a session its worth.
LEMMA WorthKept ==
    ASSUME NEW s, NEW A, NEW B,
           s # None /\ s.user # None =>
             /\ A[s.user] = None <=> B[s.user] = None
             /\ A[s.user] # None => /\ A[s.user].authVersion = B[s.user].authVersion
                                    /\ A[s.user].totpEnabled = B[s.user].totpEnabled
    PROVE  Worth(s, A) = Worth(s, B)
<1>1. CASE s = None \/ s.user = None
  BY <1>1 DEF Worth
<1>2. CASE s # None /\ s.user # None /\ A[s.user] = None
  BY <1>2 DEF Worth
<1>3. CASE s # None /\ s.user # None /\ A[s.user] # None
  <2>1. Proved(s, A[s.user]) = Proved(s, B[s.user])
    BY <1>3 DEF Proved
  <2>2. QED BY <1>3, <2>1 DEF Worth
<1>4. QED BY <1>1, <1>2, <1>3

\* A session of another version, or of no account, is void.
LEMMA WorthLost ==
    ASSUME NEW s, NEW rows, s # None, s.user # None,
           rows[s.user] = None \/ rows[s.user].authVersion # s.authVersion
    PROVE  Worth(s, rows) = Access!Void(s.user)
BY DEF Worth, Access!Void

\* What an account asks for is a credential.
LEMMA AskedTyped ==
    ASSUME NEW row \in Row
    PROVE  AskedBy(row) \in Asked
<1>1. row # None
  BY NoneAssumption
<1>2. QED BY <1>1 DEF AskedBy, Asked, Row

\* A sound session is worth what AccountAccess may give: admitted, it has proved all that
\* the account asks for.
LEMMA SoundIsIssued ==
    ASSUME IInv, NEW s \in Session, Sound(s), s.state # "anonymous" <=> s.user \in Users
    PROVE  Worth(s, users) \in Access!Issued
<1>1. s # None /\ s.user \in Users \cup {None}
  BY NoneAssumption DEF Session
<1>2. CASE s.user = None
  BY <1>1, <1>2 DEF Worth, Access!Issued, Access!Pending
<1>3. CASE s.user \in Users /\ (users[s.user] = None \/ users[s.user].authVersion # s.authVersion)
  BY <1>1, <1>3, WorthLost, NoneAssumption DEF Access!Issued
<1>4. CASE /\ s.user \in Users /\ users[s.user] # None
           /\ users[s.user].authVersion = s.authVersion /\ s.state # "authenticated"
  <2>1. Worth(s, users) = Access!Pending(s.user)
    BY <1>1, <1>4, NoneAssumption DEF Worth, Access!Pending
  <2>2. QED BY <1>4, <2>1 DEF Access!Issued
<1>5. CASE /\ s.user \in Users /\ users[s.user] # None
           /\ users[s.user].authVersion = s.authVersion /\ s.state = "authenticated"
  <2> DEFINE row == users[s.user]
  <2>1. row \in Row
    BY <1>5 DEF IInv, TypeOK
  <2>2. /\ s.password = row.password /\ ~row.mustChangePassword
        /\ row.totpEnabled => s.code = row.totpSecret
    BY <1>5 DEF Sound, SoundFor
  <2>3. row.mustChangePassword = FALSE
    BY <2>1, <2>2 DEF Row
  <2>4. Proved(s, row) = AskedBy(row)
    BY <1>5, <2>2, <2>3 DEF Proved, AskedBy
  <2>5. AskedBy(row) \in Asked /\ ~AskedBy(row).owes
    BY <1>5, <2>1, <2>2, AskedTyped DEF AskedBy
  <2>6. Requirement[s.user] = AskedBy(row)
    BY <1>5 DEF Requirement
  <2>7. Worth(s, users) = Access!Admitted(s.user, Requirement[s.user])
    BY <1>1, <1>5, <2>4, <2>6, NoneAssumption DEF Worth, Access!Admitted
  <2>8. QED BY <1>5, <2>5, <2>6, <2>7 DEF Access!Issued
<1>6. QED BY <1>1, <1>2, <1>3, <1>4, <1>5

\* A session is given out, or ended.
LEMMA GivesAccess ==
    ASSUME IInv, NEW id \in Ids, NEW old \in Ids, NEW s \in Session, users' = users,
           sessions[id] = None,
           sessions' = [[sessions EXCEPT ![old] = None] EXCEPT ![id] = s],
           Sound(s), s.state # "anonymous" <=> s.user \in Users
    PROVE  Access!Give(id, old)
<1>1. Requirement' = Requirement
  BY DEF Requirement
<1>2. Standing[id] = Access!NoAccess
  BY DEF Standing, Worth, Access!NoAccess
<1>3. Worth(s, users) \in Access!Issued
  BY SoundIsIssued
<1>4. sessions \in [Ids -> Session \cup {None}]
  BY DEF IInv, TypeOK
<1>5. ASSUME NEW i \in Ids
      PROVE  Worth(sessions[i], users)' = IF i = id THEN Worth(s, users)
                                          ELSE IF i = old THEN Access!NoAccess ELSE Standing[i]
  <2>1. CASE i = id
    <3>1. sessions'[i] = s
      BY <1>4, <2>1
    <3>2. QED BY <2>1, <3>1
  <2>2. CASE i # id /\ i = old
    <3>1. sessions'[i] = None
      BY <1>4, <2>2
    <3>2. QED BY <2>2, <3>1 DEF Worth, Access!NoAccess
  <2>3. CASE i # id /\ i # old
    <3>1. sessions'[i] = sessions[i]
      BY <1>4, <2>3
    <3>2. QED BY <2>3, <3>1 DEF Standing
  <2>4. QED BY <2>1, <2>2, <2>3
<1>6. Standing' = [i \in Ids |-> IF i = id THEN Worth(s, users)
                                 ELSE IF i = old THEN Access!NoAccess ELSE Standing[i]]
  BY <1>5 DEF Standing
<1>7. QED BY <1>1, <1>2, <1>3, <1>6 DEF Access!Give

\* A session ends.
LEMMA WithdrawsAccess ==
    ASSUME IInv, NEW id \in Ids, users' = users, sessions' = [sessions EXCEPT ![id] = None]
    PROVE  Access!Withdraw(id)
<1>1. Requirement' = Requirement
  BY DEF Requirement
<1>2. sessions \in [Ids -> Session \cup {None}]
  BY DEF IInv, TypeOK
<1>3. ASSUME NEW i \in Ids
      PROVE  Worth(sessions[i], users)' = IF i = id THEN Access!NoAccess ELSE Standing[i]
  <2>1. CASE i = id
    <3>1. sessions'[i] = None
      BY <1>2, <2>1
    <3>2. QED BY <2>1, <3>1 DEF Worth, Access!NoAccess
  <2>2. CASE i # id
    <3>1. sessions'[i] = sessions[i]
      BY <1>2, <2>2
    <3>2. QED BY <2>2, <3>1 DEF Standing
  <2>3. QED BY <2>1, <2>2
<1>4. Standing' = [Standing EXCEPT ![id] = Access!NoAccess]
  BY <1>3 DEF Standing
<1>5. QED BY <1>1, <1>4 DEF Access!Withdraw

\* Nothing that matters changes.
LEMMA KeepsAccess ==
    ASSUME users' = users, sessions' = sessions
    PROVE  Standing' = Standing /\ Requirement' = Requirement
BY DEF Standing, Requirement

\* What a session of an existing or past account is sound for.
LEMMA SessionOfAccount ==
    ASSUME IInv, NEW id \in Ids, sessions[id] # None, sessions[id].user # None
    PROVE  /\ sessions[id].user \in Users /\ sessions[id].user \in created
           /\ sessions[id].authVersion \in Nat
           /\ SoundFor(sessions[id], users[sessions[id].user])
<1>1. sessions[id] \in Session
  BY DEF IInv, TypeOK
<1>2. sessions[id].user \in Users
  BY <1>1 DEF Session
<1>3. sessions[id].state # "anonymous"
  BY <1>2 DEF IInv
<1>4. QED BY <1>1, <1>2, <1>3 DEF IInv, Sound, Session

\* A row changes in what no session depends on.
LEMMA RowKeepsAccess ==
    ASSUME IInv, NEW v \in Users, NEW new \in Row, users' = [users EXCEPT ![v] = new],
           sessions' = sessions, users[v] # None,
           new.authVersion = users[v].authVersion, new.password = users[v].password,
           new.mustChangePassword = users[v].mustChangePassword,
           new.totpEnabled = users[v].totpEnabled,
           new.totpEnabled => new.totpSecret = users[v].totpSecret
    PROVE  Standing' = Standing /\ Requirement' = Requirement
<1>1. users \in [Users -> Row \cup {None}] /\ new # None
  BY NoneAssumption DEF IInv, TypeOK
<1>2. ASSUME NEW i \in Ids PROVE Worth(sessions[i], users)' = Worth(sessions[i], users)
  <2>1. Worth(sessions[i], users') = Worth(sessions[i], users)
    <3>1. sessions[i] # None /\ sessions[i].user # None =>
             /\ users[sessions[i].user] = None <=> users'[sessions[i].user] = None
             /\ users[sessions[i].user] # None =>
                  /\ users[sessions[i].user].authVersion = users'[sessions[i].user].authVersion
                  /\ users[sessions[i].user].totpEnabled = users'[sessions[i].user].totpEnabled
      BY <1>1, SessionOfAccount
    <3>2. QED BY <3>1, WorthKept
  <2>2. QED BY <2>1
<1>3. AskedBy(new) = AskedBy(users[v])
  BY <1>1 DEF AskedBy
<1>4. ASSUME NEW u \in Users PROVE AskedBy(users[u])' = AskedBy(users[u])
  <2>1. CASE u = v
    BY <1>1, <1>3, <2>1
  <2>2. CASE u # v
    <3>1. users'[u] = users[u]
      BY <1>1, <2>2
    <3>2. QED BY <3>1
  <2>3. QED BY <2>1, <2>2
<1>5. QED BY <1>2, <1>4 DEF Standing, Requirement

\* What an account asks for, after a row was written.
LEMMA RowWritten ==
    ASSUME IInv, NEW v \in Users, NEW new \in Row \cup {None}, users' = [users EXCEPT ![v] = new]
    PROVE  /\ \E c \in Asked \cup {None} : /\ Requirement' = [Requirement EXCEPT ![v] = c]
                                           /\ new # None => c \in Asked
           /\ Requirement[v] = None <=> users[v] = None
<1>1. users \in [Users -> Row \cup {None}]
  BY DEF IInv, TypeOK
<1>2. AskedBy(new) \in Asked \cup {None} /\ (new # None => AskedBy(new) \in Asked)
  BY AskedTyped DEF AskedBy
<1>3. ASSUME NEW u \in Users
      PROVE  AskedBy(users[u])' = IF u = v THEN AskedBy(new) ELSE AskedBy(users[u])
  <2>1. users'[u] = IF u = v THEN new ELSE users[u]
    BY <1>1
  <2>2. AskedBy(users'[u]) = IF u = v THEN AskedBy(new) ELSE AskedBy(users[u])
    BY <2>1
  <2>3. QED BY <2>2
<1>4. Requirement' = [Requirement EXCEPT ![v] = AskedBy(new)]
  BY <1>3 DEF Requirement
<1>5. Requirement[v] = AskedBy(users[v])
  BY DEF Requirement
<1>6. users[v] # None => AskedBy(users[v]) \in Asked
  BY <1>1, AskedTyped
<1>7. Requirement[v] = None <=> users[v] = None
  BY <1>5, <1>6, AskedAssumption DEF AskedBy
<1>8. QED BY <1>2, <1>4, <1>7

\* A row is written under a new version, or goes: the sessions of its account are void.
LEMMA RowRenewsAccess ==
    ASSUME IInv, NEW v \in Users, NEW new \in Row \cup {None}, users' = [users EXCEPT ![v] = new],
           sessions' = sessions, users[v] # None,
           new = None \/ new.authVersion = users[v].authVersion + 1
    PROVE  Access!Renew(v)
<1>1. users \in [Users -> Row \cup {None}] /\ v # None
  BY NoneAssumption DEF IInv, TypeOK
<1>2. users[v].authVersion \in Nat
  BY RowTyped DEF IInv
<1>3. users'[v] = new
  BY <1>1
<1>4. ASSUME NEW i \in Ids
      PROVE  Worth(sessions[i], users') =
               IF Standing[i].bearer = v THEN Access!Void(v) ELSE Standing[i]
  <2>1. Standing[i] = Worth(sessions[i], users)
    BY DEF Standing
  <2>2. Standing[i].bearer = IF sessions[i] = None THEN None ELSE sessions[i].user
    BY <2>1, BearerIs
  <2>3. CASE sessions[i] # None /\ sessions[i].user = v
    <3>1. sessions[i].authVersion \in Nat /\ sessions[i].authVersion <= users[v].authVersion
      BY <1>1, <2>3, SessionOfAccount DEF SoundFor
    <3>2. users'[v] = None \/ users'[v].authVersion # sessions[i].authVersion
      BY <1>2, <1>3, <3>1
    <3>3. Worth(sessions[i], users') = Access!Void(v)
      BY <1>1, <2>3, <3>2, WorthLost
    <3>4. QED BY <2>2, <2>3, <3>3
  <2>4. CASE ~(sessions[i] # None /\ sessions[i].user = v)
    <3>1. sessions[i] # None /\ sessions[i].user # None =>
             users'[sessions[i].user] = users[sessions[i].user]
      BY <1>1, <2>4, SessionOfAccount
    <3>2. Worth(sessions[i], users') = Worth(sessions[i], users)
      BY <3>1, WorthKept
    <3>3. QED BY <1>1, <2>1, <2>2, <2>4, <3>2
  <2>5. QED BY <2>3, <2>4
<1>5. Standing' = [i \in Ids |-> IF Standing[i].bearer = v THEN Access!Void(v) ELSE Standing[i]]
  BY <1>4 DEF Standing
<1>6. QED BY <1>5, RowWritten DEF Access!Renew

\* A new account has no session yet.
LEMMA RowOpensAccess ==
    ASSUME IInv, NEW v \in Users, NEW new \in Row, users' = [users EXCEPT ![v] = new],
           sessions' = sessions, v \notin created
    PROVE  Access!Open(v)
<1>1. users \in [Users -> Row \cup {None}] /\ v # None /\ new # None /\ users[v] = None
  BY NoneAssumption DEF IInv, TypeOK
<1>2. ASSUME NEW i \in Ids PROVE Standing[i].bearer # v
  <2>1. Standing[i].bearer = IF sessions[i] = None THEN None ELSE sessions[i].user
    BY BearerIs DEF Standing
  <2>2. QED BY <1>1, <2>1, SessionOfAccount
<1>3. ASSUME NEW i \in Ids PROVE Worth(sessions[i], users') = Worth(sessions[i], users)
  <2>1. sessions[i] # None /\ sessions[i].user # None =>
           users'[sessions[i].user] = users[sessions[i].user]
    BY <1>1, SessionOfAccount
  <2>2. QED BY <2>1, WorthKept
<1>4. Standing' = Standing
  BY <1>3 DEF Standing
<1>5. QED BY <1>1, <1>2, <1>4, RowWritten DEF Access!Open

\* A step of a handler.
LEMMA HandlersAccess ==
    ASSUME IInv, Handlers
    PROVE  [Access!AccessNext]_<<Requirement, Standing>>
<1> USE DEF Access!AccessNext
<1>1. ASSUME NEW id \in Ids, LoginPage(id) PROVE Access!AccessNext
  <2>1. Anonymous \in Session /\ Sound(Anonymous) /\ Anonymous.state = "anonymous"
        /\ Anonymous.user = None
    BY DEF Anonymous, Session, States, Sound
  <2>2. sessions \in [Ids -> Session \cup {None}]
    BY DEF IInv, TypeOK
  <2>3. sessions' = [[sessions EXCEPT ![id] = None] EXCEPT ![id] = Anonymous]
    BY <1>1, <2>2 DEF LoginPage
  <2>4. Access!Give(id, id)
    BY <1>1, <2>1, <2>3, GivesAccess, NoneAssumption DEF LoginPage, Fresh
  <2>5. QED BY <2>4
<1>2. ASSUME NEW r \in Requests, NEW id \in Ids, Rotate(r, id) PROVE Access!AccessNext
  <2> DEFINE q == requests[r]
  <2>1. /\ q # None /\ q.step = "rotate" /\ q.id \in Ids /\ q.session \in Session
        /\ sessions' = [[sessions EXCEPT ![q.id] = None] EXCEPT ![id] = q.session]
        /\ users' = users /\ sessions[id] = None
    BY <1>2, RequestTyped DEF Rotate, IInv, TypeOK, Request, Destroyed, Fresh
  <2>2. SoundRequest(q)
    BY <2>1 DEF IInv
  <2>3. Sound(q.session) /\ q.session.user \in Users /\ q.session.state # "anonymous"
    BY <2>1, <2>2 DEF SoundRequest
  <2> HIDE DEF q
  <2>4. Access!Give(id, q.id)
    BY <2>1, <2>3, GivesAccess
  <2>5. QED BY <2>1, <2>4
<1>3. ASSUME NEW id \in Ids, sessions' = Destroyed(id), users' = users PROVE Access!AccessNext
  BY <1>3, WithdrawsAccess DEF Destroyed
<1>4. ASSUME NEW r \in Requests, requests[r] # None PROVE requests[r].id \in Ids
  BY <1>4 DEF IInv, TypeOK, Request
<1>5. ASSUME sessions' = sessions, users' = users PROVE UNCHANGED <<Requirement, Standing>>
  BY <1>5, KeepsAccess
<1>6. ASSUME NEW r \in Requests, NEW secret \in Secrets, PrepareTOTP(r, secret)
      PROVE  UNCHANGED <<Requirement, Standing>>
  <2> DEFINE v == requests[r].session.user
             new == [users[v] EXCEPT !.totpSecret = IF @ = None THEN secret ELSE @]
  <2>1. /\ v \in Users /\ users' = [users EXCEPT ![v] = new] /\ sessions' = sessions
        /\ users[v] # None /\ ~users[v].totpEnabled
    BY <1>6, ReadUser DEF PrepareTOTP, Unchanged, Current
  <2>2. users[v] \in Row
    BY <2>1 DEF IInv, TypeOK
  <2>3. /\ new \in Row
        /\ new.authVersion = users[v].authVersion /\ new.password = users[v].password
        /\ new.mustChangePassword = users[v].mustChangePassword
        /\ new.totpEnabled = users[v].totpEnabled
    BY <2>2 DEF Row
  <2> HIDE DEF v, new
  <2>4. QED BY <2>1, <2>3, RowKeepsAccess
<1>7. ASSUME NEW r \in Requests, NEW password \in Passwords, UpdateUser(r, password)
      PROVE  Access!AccessNext
  <2> DEFINE q == requests[r]
             v == q.session.user
             new == Updated(q.kind, users[v], password)
  <2>1. /\ q # None /\ Updating(q) /\ Updatable(q)
        /\ users' = [users EXCEPT ![v] = new] /\ sessions' = sessions
    BY <1>7 DEF UpdateUser
  <2>2. q.kind \in Kinds /\ q.kind # "login"
    BY <2>1 DEF Updating, Kinds
  <2>3. v \in Users /\ users[v] # None
    BY <2>1, <2>2, ReadUser DEF Updatable, Unchanged, Current
  <2>4. users[v] \in Row /\ (users[v].totpEnabled => users[v].totpSecret # None)
    BY <2>3 DEF IInv, TypeOK
  <2>5. q.kind \in {"enrollment", "account_enable"} => users[v].totpSecret # None
    BY <2>1 DEF Updatable, Updating, IInv, SoundRequest
  <2>6. new \in Row /\ new.authVersion = users[v].authVersion + 1
    BY <2>2, <2>4, <2>5, UpdatedRow
  <2> HIDE DEF q, v, new
  <2>7. Access!Renew(v)
    BY <2>1, <2>3, <2>6, RowRenewsAccess
  <2>8. QED BY <2>3, <2>7
<1>8. ASSUME NEW id \in Ids, SessionEnds(id) PROVE Access!AccessNext
  BY <1>3, <1>8 DEF SessionEnds
<1>9. ASSUME NEW kind \in Kinds, NEW id \in Ids, StartRefused(kind, id) PROVE Access!AccessNext
  BY <1>3, <1>9 DEF StartRefused
<1>10. ASSUME NEW r \in Requests, CheckUserFails(r) PROVE Access!AccessNext
  BY <1>3, <1>4, <1>10 DEF CheckUserFails
<1>11. ASSUME NEW r \in Requests, PrepareTOTPFails(r)
       PROVE  [Access!AccessNext]_<<Requirement, Standing>>
  <2>1. requests[r].id \in Ids /\ users' = users
        /\ (sessions' = Destroyed(requests[r].id) \/ sessions' = sessions)
    BY <1>4, <1>11 DEF PrepareTOTPFails
  <2>2. QED BY <1>3, <1>5, <2>1
<1>12. ASSUME NEW r \in Requests, UpdateUserFails(r)
       PROVE  [Access!AccessNext]_<<Requirement, Standing>>
  <2>1. requests[r].id \in Ids /\ users' = users
        /\ (sessions' = Destroyed(requests[r].id) \/ sessions' = sessions)
    BY <1>4, <1>12 DEF UpdateUserFails
  <2>2. QED BY <1>3, <1>5, <2>1
<1>13. CASE \/ \E r \in Requests, kind \in Kinds, id \in Ids : Start(r, kind, id)
            \/ \E r \in Requests : Abandon(r) \/ VerifyCode(r) \/ CheckUser(r)
            \/ \E r \in Requests, u \in Users : Authenticate(r, u)
  <2>1. sessions' = sessions /\ users' = users
    BY <1>13, Zenon DEF Start, Abandon, VerifyCode, CheckUser, Authenticate
  <2>2. QED BY <1>5, <2>1
<1> HIDE DEF Access!AccessNext
<1>14. QED
  BY <1>1, <1>2, <1>6, <1>7, <1>8, <1>9, <1>10, <1>11, <1>12, <1>13 DEF Handlers

\* A step of the administrator or of a recovery command.
LEMMA AdministrationAccess ==
    ASSUME IInv, IInv', Administration
    PROVE  [Access!AccessNext]_<<Requirement, Standing>>
<1> USE DEF Access!AccessNext
<1>1. ASSUME NEW v \in Users, NEW password \in Passwords, NEW required \in BOOLEAN,
             CreateUser(v, password, required)
      PROVE  Access!AccessNext
  <2> DEFINE new == [status |-> "active", password |-> password,
                     mustChangePassword |-> v \notin Roots, authVersion |-> 1,
                     twoFactorRequired |-> required, totpSecret |-> None,
                     totpEnabled |-> FALSE]
  <2>1. new \in Row
    BY DEF Row
  <2>2. users' = [users EXCEPT ![v] = new] /\ sessions' = sessions /\ v \notin created
    BY <1>1 DEF CreateUser
  <2> HIDE DEF new
  <2>3. Access!Open(v)
    BY <2>1, <2>2, RowOpensAccess
  <2>4. QED BY <2>3
<1>2. ASSUME NEW v \in Users, NEW status \in {"active", "suspended"},
             NEW required \in BOOLEAN, NEW resetTOTP \in BOOLEAN,
             UpdateAdminUser(v, status, required, resetTOTP)
      PROVE  [Access!AccessNext]_<<Requirement, Standing>>
  <2> DEFINE new == [users[v] EXCEPT
                       !.status = status,
                       !.twoFactorRequired = required,
                       !.totpSecret = IF resetTOTP THEN None ELSE @,
                       !.totpEnabled = IF resetTOTP THEN FALSE ELSE @,
                       !.authVersion = IF resetTOTP THEN @ + 1 ELSE @]
  <2>1. users[v] \in Row /\ users[v] # None /\ sessions' = sessions
    BY <1>2 DEF UpdateAdminUser, Exists, IInv, TypeOK
  <2>2. users' = [users EXCEPT ![v] = new]
    BY <1>2 DEF UpdateAdminUser, IInv, TypeOK
  <2>3. CASE resetTOTP
    <3>1. new.authVersion = users[v].authVersion + 1
      BY <2>1, <2>3 DEF Row
    <3> HIDE DEF new
    <3>2. new \in Row \cup {None}
      BY <2>2 DEF IInv, TypeOK
    <3>3. Access!Renew(v)
      BY <2>1, <2>2, <3>1, <3>2, RowRenewsAccess
    <3>4. QED BY <3>3
  <2>4. CASE ~resetTOTP
    <3>1. /\ new \in Row
          /\ new.authVersion = users[v].authVersion /\ new.password = users[v].password
          /\ new.mustChangePassword = users[v].mustChangePassword
          /\ new.totpEnabled = users[v].totpEnabled /\ new.totpSecret = users[v].totpSecret
      BY <2>1, <2>4 DEF Row
    <3> HIDE DEF new
    <3>2. QED BY <2>1, <2>2, <3>1, RowKeepsAccess
  <2>5. QED BY <2>3, <2>4
<1>3. ASSUME NEW v \in Users, NEW password \in Passwords, ResetPassword(v, password)
      PROVE  Access!AccessNext
  <2> DEFINE new == [users[v] EXCEPT !.password = password,
                                     !.mustChangePassword = v \notin Roots,
                                     !.authVersion = @ + 1]
  <2>1. /\ users[v] \in Row /\ users[v] # None /\ sessions' = sessions
        /\ users' = [users EXCEPT ![v] = new]
    BY <1>3 DEF ResetPassword, Exists, IInv, TypeOK
  <2>2. new.authVersion = users[v].authVersion + 1
    BY <2>1 DEF Row
  <2> HIDE DEF new
  <2>3. new \in Row \cup {None}
    BY <2>1 DEF IInv, TypeOK
  <2>4. Access!Renew(v)
    BY <2>1, <2>2, <2>3, RowRenewsAccess
  <2>5. QED BY <2>4
<1>4. ASSUME NEW v \in Users, DeleteAdminUser(v) PROVE Access!AccessNext
  <2>1. Access!Renew(v)
    BY <1>4, RowRenewsAccess DEF DeleteAdminUser, Exists
  <2>2. QED BY <2>1
<1>5. ASSUME NEW v \in Users, DisableRootTwoFactor(v) PROVE Access!AccessNext
  <2> DEFINE new == [users[v] EXCEPT !.twoFactorRequired = FALSE,
                                     !.totpSecret = None,
                                     !.totpEnabled = FALSE,
                                     !.authVersion = @ + 1]
  <2>1. /\ users[v] \in Row /\ users[v] # None /\ sessions' = sessions
        /\ users' = [users EXCEPT ![v] = new]
    BY <1>5 DEF DisableRootTwoFactor, Exists, IInv, TypeOK
  <2>2. new.authVersion = users[v].authVersion + 1
    BY <2>1 DEF Row
  <2> HIDE DEF new
  <2>3. new \in Row \cup {None}
    BY <2>1 DEF IInv, TypeOK
  <2>4. Access!Renew(v)
    BY <2>1, <2>2, <2>3, RowRenewsAccess
  <2>5. QED BY <2>4
<1> HIDE DEF Access!AccessNext
<1>6. QED BY <1>1, <1>2, <1>3, <1>4, <1>5 DEF Administration

\* Without accounts and sessions nobody has access.
LEMMA InitAccess == Init => Access!AccessInit
<1> SUFFICES ASSUME Init PROVE Access!AccessInit
  OBVIOUS
<1>1. Requirement = [u \in Users |-> None]
  BY DEF Init, Requirement, AskedBy
<1>2. Standing = [id \in Ids |-> Access!NoAccess]
  BY DEF Init, Standing, Worth, Access!NoAccess
<1>3. QED BY <1>1, <1>2 DEF Access!AccessInit

\* The handlers implement AccountAccess: for any number of accounts, sessions and
\* overlapping requests, access to an account is given on a proof of all that it asks for
\* at that moment, never given to a session that had less, and lost by every session of
\* the account, and by no other, when what it asks for is renewed or it goes.
THEOREM AccessIsImplemented == Spec => ImplementsAccess
<1>1. IInv /\ [Next]_vars => [Access!AccessNext]_<<Requirement, Standing>>
  <2>1. ASSUME IInv, UNCHANGED vars PROVE UNCHANGED <<Requirement, Standing>>
    BY <2>1, KeepsAccess DEF vars
  <2>2. QED BY <2>1, NextInv, HandlersAccess, AdministrationAccess DEF Next
<1>2. QED
  BY <1>1, InitAccess, Invariance, PTL
     DEF Spec, ImplementsAccess, Access!AccessSpec, Access!accessVars

-----------------------------------------------------------------------------
(* WebAuthRestore: the handlers next to a restoration of the database. *)

\* What the handlers and the administrator keep whatever the content is.
ShapeInv ==
    /\ TypeOK
    /\ \A u \in Users : users[u] # None => u \in created
    /\ \A id \in Ids : sessions[id] # None => ShapedSession(sessions[id])
    /\ \A r \in Requests : requests[r] # None => ShapedRequest(requests[r])

\* No root account goes or is suspended.
RootKept ==
    \A u \in Roots : users[u] # None => users'[u] # None /\ users'[u].status = users[u].status

\* A step that leaves the users table alone.
LEMMA ShapeStep ==
    ASSUME ShapeInv, UNCHANGED <<users, created>>,
           sessions' \in [Ids -> Session \cup {None}],
           requests' \in [Requests -> Request \cup {None}],
           \A id \in Ids : sessions'[id] # None =>
              sessions'[id] = sessions[id] \/ ShapedSession(sessions'[id]),
           \A r \in Requests : requests'[r] # None =>
              requests'[r] = requests[r] \/ ShapedRequest(requests'[r])
    PROVE  ShapeInv' /\ RootKept
<1>1. TypeOK'
  BY DEF ShapeInv, TypeOK
<1>2. \A id \in Ids : sessions'[id] # None => ShapedSession(sessions'[id])
  BY DEF ShapeInv
<1>3. \A r \in Requests : requests'[r] # None => ShapedRequest(requests'[r])
  BY DEF ShapeInv
<1>4. QED BY <1>1, <1>2, <1>3 DEF ShapeInv, RootKept

\* A step that writes one row.
LEMMA ShapeRow ==
    ASSUME ShapeInv, NEW u \in Users, users[u] # None, NEW new \in Row,
           new.totpEnabled => new.totpSecret # None,
           u \in Roots => new.status = users[u].status,
           users' = [users EXCEPT ![u] = new], UNCHANGED <<created, sessions>>,
           requests' \in [Requests -> Request \cup {None}],
           \A r \in Requests : requests'[r] # None =>
              requests'[r] = requests[r] \/ ShapedRequest(requests'[r])
    PROVE  ShapeInv' /\ RootKept
<1>1. \A v \in Users : users'[v] = IF v = u THEN new ELSE users[v]
  BY DEF ShapeInv, TypeOK
<1>2. \A v \in Users : users'[v] # None /\ users'[v].totpEnabled => users'[v].totpSecret # None
  BY <1>1 DEF ShapeInv, TypeOK
<1>3. TypeOK'
  BY <1>2 DEF ShapeInv, TypeOK
<1>4. \A r \in Requests : requests'[r] # None => ShapedRequest(requests'[r])
  BY DEF ShapeInv
<1>5. RootKept
  BY <1>1, NoneAssumption, RootAssumption DEF RootKept
<1>6. QED BY <1>1, <1>3, <1>4, <1>5 DEF ShapeInv

\* What a handler other than login has read.
LEMMA ShapedUser ==
    ASSUME ShapeInv, NEW r \in Requests, requests[r] # None
    PROVE  /\ requests[r] \in Request /\ requests[r].session \in Session
           /\ requests[r].id \in Ids /\ ShapedRequest(requests[r])
           /\ requests[r].kind # "login" => requests[r].session.user \in Users
BY RequestTyped DEF ShapeInv, ShapedRequest, Request

\* A handler moves on to the record q and nothing else happens.
LEMMA ShapeMove ==
    ASSUME ShapeInv, NEW r \in Requests, NEW q \in Request, ShapedRequest(q),
           requests' = [requests EXCEPT ![r] = q], UNCHANGED <<users, created, sessions>>
    PROVE  ShapeInv' /\ RootKept
<1>1. \A p \in Requests : requests'[p] = IF p = r THEN q ELSE requests[p]
  BY DEF ShapeInv, TypeOK
<1>2. QED BY <1>1, ShapeStep DEF ShapeInv, TypeOK

\* The steps of the handlers that write no row.
LEMMA ShapeHandlers ==
    ASSUME ShapeInv, Handlers,
           \A r \in Requests : /\ \A secret \in Secrets : ~PrepareTOTP(r, secret)
                               /\ \A password \in Passwords : ~UpdateUser(r, password)
    PROVE  ShapeInv' /\ RootKept
<1> USE DEF RootKept
<1>1. ASSUME NEW id \in Ids, LoginPage(id)
      PROVE  ShapeInv' /\ RootKept
  <2>1. Anonymous \in Session /\ ShapedSession(Anonymous)
    BY DEF Anonymous, Session, States, ShapedSession
  <2>2. sessions' = [sessions EXCEPT ![id] = Anonymous] /\ UNCHANGED <<users, created, requests>>
    BY <1>1 DEF LoginPage
  <2>3. QED BY <2>1, <2>2, ShapeStep DEF ShapeInv, TypeOK
<1>2. ASSUME NEW id \in Ids, sessions' = Destroyed(id), UNCHANGED <<users, created, requests>>
      PROVE  ShapeInv' /\ RootKept
  BY <1>2, ShapeStep DEF ShapeInv, TypeOK, Destroyed
<1>3. ASSUME NEW r \in Requests, requests[r] # None, UNCHANGED <<users, created>>,
             requests' = Finished(r), sessions' \in {sessions, Destroyed(requests[r].id)}
      PROVE  ShapeInv' /\ RootKept
  <2>1. requests[r].id \in Ids
    BY <1>3, ShapedUser
  <2>2. sessions' \in [Ids -> Session \cup {None}]
        /\ \A id \in Ids : sessions'[id] # None => sessions'[id] = sessions[id]
    BY <1>3, <2>1 DEF ShapeInv, TypeOK, Destroyed
  <2>3. requests' \in [Requests -> Request \cup {None}]
        /\ \A p \in Requests : requests'[p] # None => requests'[p] = requests[p]
    BY <1>3 DEF ShapeInv, TypeOK, Finished
  <2>4. QED BY <1>3, <2>2, <2>3, ShapeStep
<1>4. ASSUME NEW r \in Requests, NEW kind \in Kinds, NEW id \in Ids, Start(r, kind, id)
      PROVE  ShapeInv' /\ RootKept
  <2> PICK q : q = [kind |-> kind, step |-> "session", id |-> id,
                    session |-> sessions[id], row |-> None]
    OBVIOUS
  <2>1. sessions[id] # None /\ sessions[id] \in Session /\ ShapedSession(sessions[id])
        /\ sessions[id].state \in SessionStates(kind)
    BY <1>4 DEF Start, ShapeInv, TypeOK
  <2>2. kind # "login" => sessions[id].state # "anonymous"
    BY <2>1 DEF SessionStates
  <2>3. q \in Request /\ ShapedRequest(q)
    BY <2>1, <2>2 DEF Request, ShapedRequest, ShapedSession
  <2>4. QED BY <1>4, <2>3, ShapeMove DEF Start
<1>5. ASSUME NEW r \in Requests, NEW u \in Users, Authenticate(r, u)
      PROVE  ShapeInv' /\ RootKept
  <2> DEFINE row == users[u]
  <2> PICK s : s = [state |-> nextState(row), user |-> u, authVersion |-> row.authVersion,
                    password |-> row.password, code |-> None]
    OBVIOUS
  <2> PICK q : q = [requests[r] EXCEPT !.step = "rotate", !.session = s]
    OBVIOUS
  <2>1. requests[r] # None /\ row # None /\ row \in Row
        /\ requests' = [requests EXCEPT ![r].step = "rotate", ![r].session = s]
        /\ UNCHANGED <<users, created, sessions>>
    BY <1>5 DEF Authenticate, ShapeInv, TypeOK
  <2>2. requests[r] \in Request
    BY <2>1, ShapedUser
  <2>3. s \in Session /\ s.user = u
    BY <2>1 DEF Session, Row, nextState, States
  <2>4. q \in Request /\ q.step = "rotate" /\ q.session = s /\ q.kind = requests[r].kind
    BY <2>2, <2>3 DEF Request
  <2>5. ShapedRequest(q)
    BY <2>3, <2>4 DEF ShapedRequest, ShapedSession
  <2>6. requests' = [requests EXCEPT ![r] = q]
    BY <2>1 DEF ShapeInv, TypeOK
  <2>7. QED BY <2>1, <2>4, <2>5, <2>6, ShapeMove
<1>6. ASSUME NEW r \in Requests, VerifyCode(r)
      PROVE  ShapeInv' /\ RootKept
  <2> DEFINE row == users[requests[r].session.user]
  <2> PICK s : s = [requests[r].session EXCEPT !.state = afterCode(row), !.code = row.totpSecret]
    OBVIOUS
  <2> PICK q : q = [requests[r] EXCEPT !.step = "rotate", !.session = s]
    OBVIOUS
  <2>1. requests[r] # None /\ requests[r].kind = "challenge" /\ row # None
        /\ requests' = [requests EXCEPT ![r].step = "rotate", ![r].session = s]
        /\ UNCHANGED <<users, created, sessions>>
    BY <1>6 DEF VerifyCode, Current
  <2>2. requests[r] \in Request /\ requests[r].session \in Session
        /\ requests[r].session.user \in Users
    BY <2>1, ShapedUser
  <2>3. row \in Row
    BY <2>1, <2>2 DEF ShapeInv, TypeOK
  <2>4. s \in Session /\ s.user = requests[r].session.user
    BY <2>2, <2>3 DEF Session, Row, afterCode, States
  <2>5. q \in Request /\ q.step = "rotate" /\ q.session = s
    BY <2>2, <2>4 DEF Request
  <2>6. ShapedRequest(q)
    BY <2>2, <2>4, <2>5 DEF ShapedRequest, ShapedSession
  <2>7. requests' = [requests EXCEPT ![r] = q]
    BY <2>1 DEF ShapeInv, TypeOK
  <2>8. QED BY <2>1, <2>5, <2>6, <2>7, ShapeMove
<1>7. ASSUME NEW r \in Requests, CheckUser(r)
      PROVE  ShapeInv' /\ RootKept
  <2> DEFINE row == users[requests[r].session.user]
  <2> PICK q : q = [requests[r] EXCEPT !.step = "checked", !.row = row]
    OBVIOUS
  <2>1. requests[r] # None /\ requests[r].kind \notin {"login", "challenge"} /\ row # None
        /\ Form(requests[r].kind, row)
        /\ requests' = [requests EXCEPT ![r].step = "checked", ![r].row = row]
        /\ UNCHANGED <<users, created, sessions>>
    BY <1>7 DEF CheckUser, Current
  <2>2. requests[r] \in Request /\ ShapedRequest(requests[r])
        /\ requests[r].session.user \in Users
    BY <2>1, ShapedUser
  <2>3. row \in Row
    BY <2>1, <2>2 DEF ShapeInv, TypeOK
  <2>4. q \in Request /\ q.step = "checked" /\ q.session = requests[r].session
        /\ q.kind = requests[r].kind /\ q.row = row
    BY <2>2, <2>3 DEF Request
  <2>5. ShapedRequest(q)
    BY <2>1, <2>2, <2>4 DEF ShapedRequest, Form
  <2>6. requests' = [requests EXCEPT ![r] = q]
    BY <2>1 DEF ShapeInv, TypeOK
  <2>7. QED BY <2>1, <2>4, <2>5, <2>6, ShapeMove
<1>8. ASSUME NEW r \in Requests, NEW id \in Ids, Rotate(r, id)
      PROVE  ShapeInv' /\ RootKept
  <2> PICK s : s = requests[r].session
    OBVIOUS
  <2>1. requests[r] # None /\ requests' = Finished(r) /\ UNCHANGED <<users, created>>
        /\ sessions' = [Destroyed(requests[r].id) EXCEPT ![id] = s]
    BY <1>8 DEF Rotate
  <2>2. s \in Session /\ ShapedSession(s) /\ requests[r].id \in Ids
    BY <2>1, ShapedUser DEF ShapedRequest
  <2>3. sessions' \in [Ids -> Session \cup {None}]
        /\ \A i \in Ids : sessions'[i] # None => sessions'[i] = sessions[i] \/ sessions'[i] = s
    BY <2>1, <2>2 DEF ShapeInv, TypeOK, Destroyed
  <2>4. requests' \in [Requests -> Request \cup {None}]
        /\ \A p \in Requests : requests'[p] # None => requests'[p] = requests[p]
    BY <2>1 DEF ShapeInv, TypeOK, Finished
  <2>5. QED BY <2>1, <2>2, <2>3, <2>4, ShapeStep
<1>9. ASSUME NEW r \in Requests,
             Abandon(r) \/ CheckUserFails(r) \/ PrepareTOTPFails(r) \/ UpdateUserFails(r)
      PROVE  ShapeInv' /\ RootKept
  BY <1>3, <1>9 DEF Abandon, CheckUserFails, PrepareTOTPFails, UpdateUserFails
<1>10. ASSUME NEW id \in Ids, SessionEnds(id) \/ \E kind \in Kinds : StartRefused(kind, id)
       PROVE  ShapeInv' /\ RootKept
  BY <1>2, <1>10 DEF SessionEnds, StartRefused
<1>11. QED BY <1>1, <1>4, <1>5, <1>6, <1>7, <1>8, <1>9, <1>10 DEF Handlers

\* PrepareTOTP writes a row that differs in its secret only.
LEMMA ShapePrepare ==
    ASSUME ShapeInv, NEW r \in Requests, NEW secret \in Secrets, PrepareTOTP(r, secret)
    PROVE  ShapeInv' /\ RootKept
<1> DEFINE u == requests[r].session.user
<1> PICK new : new = [users[u] EXCEPT !.totpSecret = IF @ = None THEN secret ELSE @]
  OBVIOUS
<1> PICK q : q = [requests[r] EXCEPT !.row = new]
  OBVIOUS
<1>1. /\ requests[r] # None /\ requests[r].kind \in {"enrollment", "account_setup"}
      /\ users[u] # None /\ ~users[u].totpEnabled
      /\ users' = [users EXCEPT ![u] = new] /\ requests' = [requests EXCEPT ![r].row = new]
      /\ UNCHANGED <<created, sessions>>
  BY DEF PrepareTOTP, Unchanged, Current
<1>2. requests[r] \in Request /\ ShapedRequest(requests[r]) /\ u \in Users
  BY <1>1, ShapedUser
<1>3. users[u] \in Row
  BY <1>1, <1>2 DEF ShapeInv, TypeOK
<1>4. new \in Row /\ ~new.totpEnabled /\ new.status = users[u].status /\ new # None
  <2>1. new \in Row
    BY <1>3 DEF Row
  <2>2. ~new.totpEnabled /\ new.status = users[u].status
    BY <1>1, <1>3 DEF Row
  <2>3. QED BY <2>1, <2>2, NoneAssumption
<1>5. q \in Request /\ q.row = new /\ q.kind = requests[r].kind /\ q.step = requests[r].step
      /\ q.session = requests[r].session
  BY <1>2, <1>4 DEF Request
<1>6. ShapedRequest(q)
  BY <1>1, <1>2, <1>4, <1>5 DEF ShapedRequest
<1>7. requests' \in [Requests -> Request \cup {None}]
      /\ \A p \in Requests : requests'[p] = IF p = r THEN q ELSE requests[p]
  BY <1>1, <1>5 DEF ShapeInv, TypeOK
<1>8. QED BY <1>1, <1>2, <1>4, <1>6, <1>7, ShapeRow

\* The UPDATEs keep the status.
LEMMA UpdatedStatus ==
    ASSUME NEW kind, NEW row \in Row, NEW password \in Passwords
    PROVE  Updated(kind, row, password).status = row.status
<1> PICK bumped : bumped = [row EXCEPT !.authVersion = @ + 1]
  OBVIOUS
<1>1. row.authVersion \in Nat
  BY DEF Row
<1>2. bumped \in Row /\ bumped.status = row.status
  BY <1>1 DEF Row
<1>3. CASE kind = "password"
  <2>1. Updated(kind, row, password) = [bumped EXCEPT !.password = password, !.mustChangePassword = FALSE]
    BY <1>3 DEF Updated
  <2>2. QED BY <1>2, <2>1 DEF Row
<1>4. CASE kind \in {"enrollment", "account_enable"}
  <2>1. Updated(kind, row, password) = [bumped EXCEPT !.totpEnabled = TRUE]
    BY <1>4 DEF Updated
  <2>2. QED BY <1>2, <2>1 DEF Row
<1>5. CASE kind \notin {"password", "enrollment", "account_enable"}
  <2>1. Updated(kind, row, password) = [bumped EXCEPT !.totpSecret = None, !.totpEnabled = FALSE]
    BY <1>5 DEF Updated
  <2>2. QED BY <1>2, <2>1 DEF Row
<1>6. QED BY <1>3, <1>4, <1>5

\* ChangePassword, EnableTOTP and DisableTOTP.
LEMMA ShapeUpdate ==
    ASSUME ShapeInv, NEW r \in Requests, NEW password \in Passwords, UpdateUser(r, password)
    PROVE  ShapeInv' /\ RootKept
<1> DEFINE request == requests[r]
           u == request.session.user
<1> PICK new : new = Updated(request.kind, users[u], password)
  OBVIOUS
<1> PICK q : q = [request EXCEPT !.step = "rotate", !.session = Reissued(request, new)]
  OBVIOUS
<1>1. /\ request # None /\ Updating(request) /\ Updatable(request)
      /\ users' = [users EXCEPT ![u] = new]
      /\ requests' = [requests EXCEPT ![r].step = "rotate",
                                      ![r].session = Reissued(request, new)]
      /\ UNCHANGED <<created, sessions>>
  BY DEF UpdateUser
<1>2. request.kind \in {"password", "enrollment", "account_enable", "account_disable"}
      /\ request.step = "checked" /\ request.kind \in Kinds
  BY <1>1 DEF Updating, Kinds
<1>3. /\ request \in Request /\ request.session \in Session /\ u \in Users
      /\ ShapedRequest(request)
  BY <1>1, <1>2, ShapedUser
<1>4. /\ users[u] \in Row /\ users[u] # None
      /\ users[u].totpEnabled => users[u].totpSecret # None
  BY <1>1, <1>3 DEF Updatable, Unchanged, Current, ShapeInv, TypeOK
<1>5. request.kind \in {"enrollment", "account_enable"} => users[u].totpSecret # None
  BY <1>1, <1>2, <1>3 DEF Updatable, Updating, ShapedRequest
<1>6. /\ new \in Row /\ new.status = users[u].status
      /\ new.totpEnabled => new.totpSecret # None
  BY <1>2, <1>4, <1>5, UpdatedRow, UpdatedStatus
<1>7. Reissued(request, new) \in Session /\ Reissued(request, new).user = u
  BY <1>3, <1>6, ReissuedTyped
<1>8. q \in Request /\ q.step = "rotate" /\ q.session = Reissued(request, new)
  BY <1>3, <1>7 DEF Request
<1>9. ShapedRequest(q)
  BY <1>3, <1>7, <1>8 DEF ShapedRequest, ShapedSession
<1>10. requests' \in [Requests -> Request \cup {None}]
       /\ \A p \in Requests : requests'[p] = IF p = r THEN q ELSE requests[p]
  BY <1>1, <1>8 DEF ShapeInv, TypeOK
<1>11. QED BY <1>1, <1>3, <1>4, <1>6, <1>9, <1>10, ShapeRow

\* What the administrator and the recovery commands write keeps the trigger, and the status
\* of the root account.
LEMMA ShapeAdministration ==
    ASSUME ShapeInv, Administration
    PROVE  ShapeInv' /\ RootKept
<1>1. ASSUME NEW u \in Users, NEW password \in Passwords, NEW required \in BOOLEAN,
             CreateUser(u, password, required)
      PROVE  ShapeInv' /\ RootKept
  <2> PICK new : new = [status |-> "active", password |-> password,
                        mustChangePassword |-> u \notin Roots, authVersion |-> 1,
                        twoFactorRequired |-> required, totpSecret |-> None,
                        totpEnabled |-> FALSE]
    OBVIOUS
  <2>1. new \in Row /\ ~new.totpEnabled
    BY DEF Row
  <2>2. /\ u \notin created /\ created' = created \cup {u}
        /\ users' = [users EXCEPT ![u] = new] /\ UNCHANGED <<sessions, requests>>
    BY <1>1 DEF CreateUser
  <2>3. users[u] = None
    BY <2>2 DEF ShapeInv
  <2>4. \A v \in Users : users'[v] = IF v = u THEN new ELSE users[v]
    BY <2>2 DEF ShapeInv, TypeOK
  <2>5. TypeOK'
    <3>1. \A v \in Users : users'[v] # None /\ users'[v].totpEnabled => users'[v].totpSecret # None
      BY <2>1, <2>4 DEF ShapeInv, TypeOK
    <3>2. QED BY <2>1, <2>2, <3>1 DEF ShapeInv, TypeOK
  <2>6. \A v \in Users : users'[v] # None => v \in created'
    BY <2>2, <2>4 DEF ShapeInv
  <2>7. RootKept
    BY <2>3, <2>4, RootAssumption DEF RootKept
  <2>8. QED BY <2>2, <2>5, <2>6, <2>7 DEF ShapeInv
<1>2. ASSUME NEW u \in Users, DeleteAdminUser(u)
      PROVE  ShapeInv' /\ RootKept
  <2>1. u \notin Roots /\ users' = [users EXCEPT ![u] = None]
        /\ UNCHANGED <<created, sessions, requests>>
    BY <1>2 DEF DeleteAdminUser
  <2>2. \A v \in Users : users'[v] = IF v = u THEN None ELSE users[v]
    BY <2>1 DEF ShapeInv, TypeOK
  <2>3. TypeOK'
    <3>1. \A v \in Users : users'[v] # None /\ users'[v].totpEnabled => users'[v].totpSecret # None
      BY <2>2 DEF ShapeInv, TypeOK
    <3>2. QED BY <2>1, <3>1 DEF ShapeInv, TypeOK
  <2>4. RootKept
    BY <2>1, <2>2, RootAssumption DEF RootKept
  <2>5. QED BY <2>1, <2>2, <2>3, <2>4 DEF ShapeInv
\* the three that write a row of an account that exists
<1>3. ASSUME NEW u \in Users, users[u] # None, NEW new \in Row,
             new.totpEnabled => new.totpSecret # None,
             u \in Roots => new.status = users[u].status,
             users' = [users EXCEPT ![u] = new], UNCHANGED <<created, sessions, requests>>
      PROVE  ShapeInv' /\ RootKept
  BY <1>3, ShapeRow DEF ShapeInv, TypeOK
<1>4. ASSUME NEW u \in Users, NEW status \in {"active", "suspended"}, NEW required \in BOOLEAN,
             NEW resetTOTP \in BOOLEAN, UpdateAdminUser(u, status, required, resetTOTP)
      PROVE  ShapeInv' /\ RootKept
  <2>1. PICK row : row = users[u]
    OBVIOUS
  <2>2. PICK version : version = IF resetTOTP THEN row.authVersion + 1 ELSE row.authVersion
    OBVIOUS
  <2>3. PICK secret : secret = IF resetTOTP THEN None ELSE row.totpSecret
    OBVIOUS
  <2>4. PICK enabled : enabled = IF resetTOTP THEN FALSE ELSE row.totpEnabled
    OBVIOUS
  <2>5. PICK new : new = [row EXCEPT !.status = status, !.twoFactorRequired = required,
                                     !.totpSecret = secret, !.totpEnabled = enabled,
                                     !.authVersion = version]
    OBVIOUS
  <2>6. row \in Row /\ row # None /\ row.authVersion \in Nat
        /\ (row.totpEnabled => row.totpSecret # None)
    BY <1>4, <2>1, RowTyped DEF UpdateAdminUser, Exists, ShapeInv, TypeOK
  <2>7. row.totpSecret \in Secrets \cup {None} /\ row.totpEnabled \in BOOLEAN
    BY <2>6 DEF Row
  <2>8. version \in Nat
    BY <2>2, <2>6
  <2>9. secret \in Secrets \cup {None} /\ enabled \in BOOLEAN /\ (enabled => secret # None)
    <3>1. CASE resetTOTP
      BY <2>3, <2>4, <3>1
    <3>2. CASE ~resetTOTP
      BY <2>3, <2>4, <2>6, <2>7, <3>2
    <3>3. QED BY <3>1, <3>2
  <2>10. new \in Row
    BY <2>5, <2>6, <2>8, <2>9, WrittenByUpdate, Zenon
  <2>11. new.totpEnabled = enabled /\ new.totpSecret = secret
    BY <2>5, <2>6 DEF Row
  <2>12. u \notin Roots /\ users' = [users EXCEPT ![u] = new] /\ UNCHANGED <<created, sessions, requests>>
    BY <1>4, <2>1, <2>2, <2>3, <2>4, <2>5 DEF UpdateAdminUser, ShapeInv, TypeOK
  <2>13. QED BY <1>3, <2>1, <2>6, <2>9, <2>10, <2>11, <2>12
<1>5. ASSUME NEW u \in Users, NEW password \in Passwords, ResetPassword(u, password)
      PROVE  ShapeInv' /\ RootKept
  <2> PICK row : row = users[u]
    OBVIOUS
  <2>1. row \in Row /\ row # None /\ row.authVersion \in Nat
        /\ (row.totpEnabled => row.totpSecret # None)
    BY <1>5, RowTyped DEF ResetPassword, Exists, ShapeInv, TypeOK
  <2> PICK mustChange \in BOOLEAN : mustChange = (u \notin Roots)
    OBVIOUS
  <2> PICK version : version = row.authVersion + 1
    OBVIOUS
  <2> PICK new : new = [row EXCEPT !.password = password, !.mustChangePassword = mustChange,
                                   !.authVersion = version]
    OBVIOUS
  <2>2. version \in Nat
    BY <2>1
  <2>3. new \in Row
    BY <2>1, <2>2, WrittenByReset, Zenon
  <2>4. new.totpEnabled = row.totpEnabled /\ new.totpSecret = row.totpSecret /\ new.status = row.status
    BY <2>1 DEF Row
  <2>5. users' = [users EXCEPT ![u] = new] /\ UNCHANGED <<created, sessions, requests>>
    BY <1>5 DEF ResetPassword, ShapeInv, TypeOK
  <2>6. QED BY <1>3, <2>1, <2>3, <2>4, <2>5
<1>6. ASSUME NEW u \in Users, DisableRootTwoFactor(u)
      PROVE  ShapeInv' /\ RootKept
  <2> PICK row : row = users[u]
    OBVIOUS
  <2>1. row \in Row /\ row # None /\ row.authVersion \in Nat
    BY <1>6, RowTyped DEF DisableRootTwoFactor, Exists, ShapeInv, TypeOK
  <2> PICK version : version = row.authVersion + 1
    OBVIOUS
  <2> PICK new : new = [row EXCEPT !.twoFactorRequired = FALSE, !.totpSecret = None,
                                   !.totpEnabled = FALSE, !.authVersion = version]
    OBVIOUS
  <2>2. version \in Nat
    BY <2>1
  <2>3. new \in Row
    BY <2>1, <2>2, WrittenByDisable, Zenon
  <2>4. ~new.totpEnabled /\ new.status = row.status
    BY <2>1 DEF Row
  <2>5. users' = [users EXCEPT ![u] = new] /\ UNCHANGED <<created, sessions, requests>>
    BY <1>6 DEF DisableRootTwoFactor, ShapeInv, TypeOK
  <2>6. QED BY <1>3, <2>1, <2>3, <2>4, <2>5
<1>7. QED BY <1>1, <1>2, <1>4, <1>5, <1>6 DEF Administration

\* Every step of WebAuth keeps the shape and the root account, whatever the content.
LEMMA ShapeNext == ASSUME ShapeInv, Next PROVE ShapeInv' /\ RootKept
<1>1. CASE Administration
  BY <1>1, ShapeAdministration
<1>2. ASSUME NEW r \in Requests, NEW secret \in Secrets, PrepareTOTP(r, secret)
      PROVE  ShapeInv' /\ RootKept
  BY <1>2, ShapePrepare
<1>3. ASSUME NEW r \in Requests, NEW password \in Passwords, UpdateUser(r, password)
      PROVE  ShapeInv' /\ RootKept
  BY <1>3, ShapeUpdate
<1>4. CASE Handlers
  BY <1>2, <1>3, <1>4, ShapeHandlers
<1>5. QED BY <1>1, <1>4 DEF Next

\* The invariant of the restoration is the shape, and what contents have.
LEMMA RestoreInvParts ==
    RestoreInv <=>
        /\ ShapeInv
        /\ \A content \in backups : content \in Content /\ Consistent(content)
        /\ restores \in 0 .. MaxRestores
        /\ safety # None => safety \in Content
        /\ restore # None => /\ restore.id \in Ids /\ restore.content \in backups
                             /\ restore.step \in {"saved", "replaced", "invalidated"}
                             /\ validateBackup(restore.content)
BY DEF RestoreInv, RestoreTypeOK, ShapeInv

\* The content of the store is one that could be uploaded.
LEMMA DatabaseWhole ==
    ASSUME ShapeInv
    PROVE  Database \in Content /\ Consistent(Database)
BY DEF Database, Content, Consistent, ShapeInv, TypeOK

\* The invariant holds at the start.
LEMMA RestoreStart == RestoreInit => RestoreInv
<1> SUFFICES ASSUME RestoreInit PROVE RestoreInv
  OBVIOUS
<1>1. ShapeInv
  BY DEF RestoreInit, Init, ShapeInv, TypeOK
<1>2. FreshDatabase \in Content /\ Consistent(FreshDatabase)
  BY DEF FreshDatabase, Content, Consistent
<1>3. QED BY <1>1, <1>2, RestoreInvParts, RestoreBounds DEF RestoreInit

\* Every step keeps it, and keeps an active root account.
LEMMA RestoreStep ==
    ASSUME RestoreInv, [RestoreNext]_<<vars, restoreVars>>
    PROVE  RestoreInv' /\ (RootActive => RootActive')
<1>0. /\ ShapeInv
      /\ \A content \in backups : content \in Content /\ Consistent(content)
      /\ restores \in 0 .. MaxRestores
      /\ safety # None => safety \in Content
      /\ restore # None => /\ restore.id \in Ids /\ restore.content \in backups
                           /\ restore.step \in {"saved", "replaced", "invalidated"}
                           /\ validateBackup(restore.content)
  BY RestoreInvParts
<1> DEFINE New == /\ ShapeInv'
                  /\ \A content \in backups' : content \in Content /\ Consistent(content)
                  /\ restores' \in 0 .. MaxRestores
                  /\ safety' # None => safety' \in Content
                  /\ restore' # None =>
                        /\ restore'.id \in Ids /\ restore'.content \in backups'
                        /\ restore'.step \in {"saved", "replaced", "invalidated"}
                        /\ validateBackup(restore'.content)
<1>1. New => RestoreInv'
  BY DEF RestoreInv, RestoreTypeOK, ShapeInv, Consistent, validateBackup
<1>2. UNCHANGED users => (RootActive => RootActive')
  BY DEF RootActive
<1>3. UNCHANGED vars => ShapeInv'
  BY <1>0 DEF vars, ShapeInv, TypeOK
<1> SUFFICES New /\ (RootActive => RootActive')
  BY <1>1
<1>4. CASE Next /\ UNCHANGED restoreVars
  <2>1. ShapeInv' /\ RootKept
    BY <1>0, <1>4, ShapeNext
  <2>2. RootActive => RootActive'
    BY <2>1 DEF RootKept, RootActive
  <2>3. QED BY <1>0, <1>4, <2>1, <2>2 DEF restoreVars
<1>5. ASSUME NEW id \in Ids, BackupDatabase(id)
      PROVE  New /\ (RootActive => RootActive')
  <2>1. backups' = backups \cup {Database} /\ UNCHANGED <<vars, restore, safety, restores>>
    BY <1>5 DEF BackupDatabase
  <2>2. QED BY <1>0, <1>2, <1>3, <2>1, DatabaseWhole DEF vars
<1>6. ASSUME NEW id \in Ids, NEW content \in backups, SaveCurrent(id, content)
      PROVE  New /\ (RootActive => RootActive')
  <2>1. /\ restores < MaxRestores /\ validateBackup(content) /\ safety' = Database
        /\ restores' = restores + 1
        /\ restore' = [id |-> id, content |-> content, step |-> "saved"]
        /\ UNCHANGED <<vars, backups>>
    BY <1>6 DEF SaveCurrent
  <2>2. restores' \in 0 .. MaxRestores
    BY <1>0, <2>1, RestoreBounds
  <2>3. /\ restore'.id \in Ids /\ restore'.content = content /\ content \in backups'
        /\ restore'.step \in {"saved", "replaced", "invalidated"}
    BY <2>1
  <2>4. QED BY <1>0, <1>2, <1>3, <2>1, <2>2, <2>3, DatabaseWhole DEF vars
<1>7. CASE ReplaceContent
  <2>1. /\ restore # None /\ users' = restore.content.users /\ created' = restore.content.created
        /\ restore' = [restore EXCEPT !.step = "replaced"]
        /\ UNCHANGED <<sessions, requests, backups, safety, restores>>
    BY <1>7 DEF ReplaceContent
  <2>2. restore.content \in Content /\ Consistent(restore.content) /\ validateBackup(restore.content)
    BY <1>0, <2>1
  <2>3. ShapeInv'
    BY <1>0, <2>1, <2>2 DEF ShapeInv, TypeOK, Content, Consistent
  <2>4. RootActive'
    BY <2>1, <2>2 DEF RootActive, validateBackup
  <2>5. restore'.id = restore.id /\ restore'.content = restore.content
        /\ (restore'.step = "replaced" \/ restore'.step = restore.step)
    BY <2>1
  <2>6. QED BY <1>0, <2>1, <2>3, <2>4, <2>5
<1>8. CASE InvalidateRestored
  <2>1. /\ restore # None
        /\ users' = [u \in Users |->
              IF users[u] = None THEN None ELSE [users[u] EXCEPT !.authVersion = @ + 1]]
        /\ restore' = [restore EXCEPT !.step = "invalidated"]
        /\ UNCHANGED <<created, sessions, requests, backups, safety, restores>>
    BY <1>8 DEF InvalidateRestored
  <2>2. ASSUME NEW u \in Users, users[u] # None
        PROVE  /\ users'[u] \in Row /\ users'[u].status = users[u].status
               /\ users'[u].totpEnabled = users[u].totpEnabled
               /\ users'[u].totpSecret = users[u].totpSecret
    <3>1. users[u] \in Row /\ users[u].authVersion \in Nat
      BY <1>0, <2>2, RowTyped DEF ShapeInv
    <3>2. users'[u] = [users[u] EXCEPT !.authVersion = @ + 1]
      BY <2>1, <2>2
    <3>3. QED BY <3>1, <3>2 DEF Row
  <2>3. \A u \in Users : users[u] = None => users'[u] = None
    BY <2>1
  <2>4. users' \in [Users -> Row \cup {None}]
    <3>1. \A u \in Users : users'[u] \in Row \cup {None}
      BY <2>2, <2>3
    <3>2. DOMAIN users' = Users /\ users' = [u \in Users |-> users'[u]]
      BY <2>1
    <3>3. QED BY <3>1, <3>2
  <2>5. ShapeInv'
    BY <1>0, <2>1, <2>2, <2>3, <2>4 DEF ShapeInv, TypeOK
  <2>6. RootActive => RootActive'
    BY <2>2, NoneAssumption, RootAssumption DEF RootActive
  <2>7. restore'.id = restore.id /\ restore'.content = restore.content
        /\ (restore'.step = "invalidated" \/ restore'.step = restore.step)
    BY <2>1
  <2>8. QED BY <1>0, <2>1, <2>5, <2>6, <2>7
<1>9. CASE FinishRestore
  <2>1. restore # None /\ sessions' = Destroyed(restore.id) /\ restore' = None
        /\ UNCHANGED <<users, created, requests, backups, safety, restores>>
    BY <1>9 DEF FinishRestore
  <2>2. sessions' \in [Ids -> Session \cup {None}]
        /\ \A id \in Ids : sessions'[id] # None => sessions'[id] = sessions[id]
    BY <1>0, <2>1 DEF ShapeInv, TypeOK, Destroyed
  <2>3. ShapeInv'
    BY <1>0, <2>1, <2>2 DEF ShapeInv, TypeOK
  <2>4. QED BY <1>0, <1>2, <2>1, <2>3
<1>10. CASE RestoreFails
  BY <1>0, <1>2, <1>3, <1>10 DEF RestoreFails, vars
<1>11. CASE UNCHANGED <<vars, restoreVars>>
  BY <1>0, <1>2, <1>3, <1>11 DEF vars, restoreVars
<1>12. QED BY <1>4, <1>5, <1>6, <1>7, <1>8, <1>9, <1>10, <1>11 DEF RestoreNext

\* Uploaded contents, the safety copy, the restoration under way, and the rows, sessions and
\* requests next to it stay well formed; the AUTOINCREMENT counter covers every row.
THEOREM RestoreTypeCorrect == RestoreSpec => []RestoreTypeOK
<1>1. RestoreInv /\ [RestoreNext]_<<vars, restoreVars>> => RestoreInv'
  BY RestoreStep
<1>2. RestoreInv => RestoreTypeOK
  BY DEF RestoreInv
<1>3. QED BY <1>1, <1>2, RestoreStart, PTL DEF RestoreSpec

\* No step of a handler, of the administrator or of a restoration at any of its four
\* operations takes the last active root account away.
THEOREM RootIsKept == RestoreSpec => RootStaysActive
<1>1. RestoreInv /\ [RestoreNext]_<<vars, restoreVars>> =>
        RestoreInv' /\ [RootActive => RootActive']_<<vars, restoreVars>>
  BY RestoreStep
<1>2. QED BY <1>1, RestoreStart, PTL DEF RestoreSpec, RootStaysActive
=============================================================================
