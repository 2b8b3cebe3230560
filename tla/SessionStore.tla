----------------------------- MODULE SessionStore -----------------------------
(***************************************************************************)
(* What the session manager promises to the handlers, without clock, file  *)
(* or capacity: the life of a session identifier.                          *)
(*                                                                         *)
(* An identifier is issued once, for one identity.  A live session may     *)
(* lapse at any time (a timeout, a restart, a failed write).  One that     *)
(* lapsed may come back, with the same identity, when the manager is       *)
(* loaded again, if the identity is a lasting one and it has not been      *)
(* forgotten.  One that was ended is forgotten, in the same step.          *)
(***************************************************************************)
CONSTANTS
    Tokens,      \* session identifiers
    Identities,  \* the state of a session and its owner
    Lasting,     \* identities that outlive a restart: the authenticated ones
    Nobody       \* no identity: fresh or forgotten

VARIABLES
    phase,       \* fresh, live, lapsed or ended
    holder       \* the identity of each identifier that is live or may be live again

storeVars == <<phase, holder>>

StoreInit ==
    /\ phase = [t \in Tokens |-> "fresh"]
    /\ holder = [t \in Tokens |-> Nobody]

Keeps(t) == phase'[t] = phase[t] /\ holder'[t] = holder[t]

Lapses(t) ==
    /\ phase[t] \in {"live", "lapsed"}
    /\ phase'[t] = "lapsed"
    /\ holder'[t] \in ({holder[t]} \cap Lasting) \cup {Nobody}

Returns(t) ==
    /\ phase[t] = "lapsed" /\ holder[t] # Nobody
    /\ phase'[t] = "live"
    /\ holder'[t] = holder[t]

\* Create or Rotate that failed may have left a record of the new session.
Starts(t) ==
    /\ phase[t] = "fresh"
    /\ \/ phase'[t] = "live" /\ holder'[t] \in Identities
       \/ phase'[t] = "lapsed" /\ holder'[t] \in Lasting \cup {Nobody}

Ends(t) ==
    /\ phase[t] = "live"
    /\ phase'[t] = "ended"
    /\ holder'[t] = Nobody

\* The others stay as they are or lapse.
OthersDrift(moved) == \A t \in Tokens \ moved : Keeps(t) \/ Lapses(t)

Issue(t) == Starts(t) /\ OthersDrift({t})

End(t) == Ends(t) /\ OthersDrift({t})

\* Rotate: the new session begins with the end of the old one.
Replace(t, n) == Ends(t) /\ Starts(n) /\ OthersDrift({t, n})

\* Sessions lapse; or the manager is loaded, and lapsed ones return.
Reopen == \A t \in Tokens : Keeps(t) \/ Lapses(t) \/ Returns(t)

StoreNext ==
    \/ \E t \in Tokens : Issue(t) \/ End(t)
    \/ \E t, n \in Tokens : Replace(t, n)
    \/ Reopen

StoreSpec == StoreInit /\ [][StoreNext]_storeVars
=============================================================================
