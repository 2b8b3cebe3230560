---------------------------- MODULE AccountAccess ----------------------------
(***************************************************************************)
(* What the login and account handlers promise, without requests, rows or  *)
(* versions: who may use a session, and on which proof.                    *)
(*                                                                         *)
(* A session is given out once, pending or admitted, and is never promoted: *)
(* each step of a login has a session of its own.  It is admitted only on   *)
(* a proof of all that its account asks for at that moment.  Whenever what  *)
(* the account asks for is renewed, and when the account goes, every        *)
(* session of the account is void, and no other is touched.  A void session *)
(* stays void.                                                              *)
(***************************************************************************)
CONSTANTS
    Tokens,       \* session identifiers
    Accounts,
    Credentials,  \* what an account can ask for
    Opening,      \* those that open the dashboard: no password change is owed
    Nobody

VARIABLES
    credentials,  \* what each account asks for now, Nobody where there is none
    access        \* what each session is worth

accessVars == <<credentials, access>>

NoAccess == [phase |-> "none", bearer |-> Nobody, proof |-> Nobody]
Pending(a) == [phase |-> "pending", bearer |-> a, proof |-> Nobody]
Void(a) == [phase |-> "void", bearer |-> a, proof |-> Nobody]
Admitted(a, proof) == [phase |-> "admitted", bearer |-> a, proof |-> proof]

AccessInit ==
    /\ credentials = [a \in Accounts |-> Nobody]
    /\ access = [t \in Tokens |-> NoAccess]

\* A login whose account was renewed meanwhile gets a session that is void already.
Issued ==
    {Pending(a) : a \in Accounts \cup {Nobody}}
    \cup {Void(a) : a \in Accounts}
    \cup {Admitted(a, credentials[a]) : a \in {b \in Accounts : credentials[b] \in Opening}}

\* A new session, which may take the place of another.
Give(t, old) ==
    /\ access[t] = NoAccess
    /\ \E new \in Issued :
          access' = [s \in Tokens |-> IF s = t THEN new
                                      ELSE IF s = old THEN NoAccess ELSE access[s]]
    /\ UNCHANGED credentials

Withdraw(t) ==
    /\ access' = [access EXCEPT ![t] = NoAccess]
    /\ UNCHANGED credentials

\* Nobody has a session of an account that is new.
Open(a) ==
    /\ credentials[a] = Nobody
    /\ \A t \in Tokens : access[t].bearer # a
    /\ \E c \in Credentials : credentials' = [credentials EXCEPT ![a] = c]
    /\ UNCHANGED access

\* A change, even to the same, or the end of the account.
Renew(a) ==
    /\ credentials[a] # Nobody
    /\ \E c \in Credentials \cup {Nobody} : credentials' = [credentials EXCEPT ![a] = c]
    /\ access' = [t \in Tokens |-> IF access[t].bearer = a THEN Void(a) ELSE access[t]]

AccessNext ==
    \/ \E t, old \in Tokens : Give(t, old)
    \/ \E t \in Tokens : Withdraw(t)
    \/ \E a \in Accounts : Open(a) \/ Renew(a)

AccessSpec == AccessInit /\ [][AccessNext]_accessVars
=============================================================================
