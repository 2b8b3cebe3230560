---------------------------- MODULE WebSessionStore ----------------------------
(***************************************************************************)
(* WebSession implements SessionStore: the file, its failed writes, the    *)
(* clock and the capacity are ways in which sessions lapse and return.     *)
(***************************************************************************)
EXTENDS WebSession

Phase ==
    [i \in Ids |->
        IF i \notin issued THEN "fresh"
        ELSE IF i \in revoked THEN "ended"
        ELSE IF sessions[i] # None THEN "live" ELSE "lapsed"]

Identity == [state: AllStates, owner: Owners \cup {None}]

ASSUME IdentityAssumption == None \notin Identity

Authenticated(owner) == [state |-> "authenticated", owner |-> owner]

\* The session in memory, or a record of it that some restart may read.
Holder ==
    [i \in Ids |->
        IF sessions[i] # None
          THEN [state |-> sessions[i].state, owner |-> sessions[i].owner]
        ELSE IF file.items[i] # None THEN Authenticated(file.items[i].owner)
        ELSE IF synced.items[i] # None THEN Authenticated(synced.items[i].owner)
        ELSE None]

Store == INSTANCE SessionStore WITH
    Tokens <- Ids, Nobody <- None, Identities <- Identity,
    Lasting <- {Authenticated(o) : o \in Owners},
    phase <- Phase, holder <- Holder

\* The session manager keeps the promise of SessionStore through every failed write,
\* restart and power loss.
ImplementsStore == Store!StoreSpec
=============================================================================
