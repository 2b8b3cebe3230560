---------------------------- MODULE WebAuthAccess ----------------------------
(***************************************************************************)
(* WebAuth implements AccountAccess: the version of a row, which a session  *)
(* carries along, is what makes a session void.                             *)
(***************************************************************************)
EXTENDS WebAuth

Asked == [password: Passwords, factor: Secrets \cup {None}, owes: BOOLEAN]

ASSUME AskedAssumption == None \notin Asked

\* What an account asks for: its password, and a code where the second factor is on.
AskedBy(row) ==
    IF row = None THEN None
    ELSE [password |-> row.password,
          factor |-> IF row.totpEnabled THEN row.totpSecret ELSE None,
          owes |-> row.mustChangePassword]

\* What was proved to obtain a session, of what the account asks for.
Proved(session, row) ==
    [password |-> session.password,
     factor |-> IF row.totpEnabled THEN session.code ELSE None,
     owes |-> FALSE]

\* What a session is worth against the row of its user.
Worth(session, rows) ==
    LET u == session.user IN
    IF session = None THEN [phase |-> "none", bearer |-> None, proof |-> None]
    ELSE IF u = None THEN [phase |-> "pending", bearer |-> None, proof |-> None]
    ELSE IF rows[u] = None THEN [phase |-> "void", bearer |-> u, proof |-> None]
    ELSE IF rows[u].authVersion # session.authVersion
      THEN [phase |-> "void", bearer |-> u, proof |-> None]
    ELSE IF session.state # "authenticated"
      THEN [phase |-> "pending", bearer |-> u, proof |-> None]
    ELSE [phase |-> "admitted", bearer |-> u, proof |-> Proved(session, rows[u])]

Requirement == [u \in Users |-> AskedBy(users[u])]

Standing == [id \in Ids |-> Worth(sessions[id], users)]

Access == INSTANCE AccountAccess WITH
    Tokens <- Ids, Accounts <- Users, Nobody <- None,
    Credentials <- Asked, Opening <- {c \in Asked : ~c.owes},
    credentials <- Requirement, access <- Standing

\* Handlers, administrator and recovery commands, in any interleaving, give and take
\* access to an account only as AccountAccess says.
ImplementsAccess == Access!AccessSpec
=============================================================================
