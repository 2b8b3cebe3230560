------------------------------ MODULE WebSession ------------------------------
(***************************************************************************)
(* The session manager of aegisadmin-web (internal/websession): a mutex    *)
(* protected table of sessions and a file that holds the authenticated     *)
(* ones, so that they survive a restart of the web server.                 *)
(*                                                                         *)
(* Every method takes the mutex for its whole body, so a method is one     *)
(* action.  What is not atomic is the write of the file: persistLocked may *)
(* fail before the rename (the file keeps its old content) or after it     *)
(* (the file is new, the caller sees an error, and the new directory entry *)
(* may still be undone by a power loss).                                   *)
(*                                                                         *)
(* A session identifier is 32 random bytes: an identifier is never issued  *)
(* twice.  A (UserID, AuthVersion) pair is one value of Owners.            *)
(***************************************************************************)
EXTENDS Integers, FiniteSets

CONSTANTS
    Ids,              \* session identifiers
    Owners,           \* (UserID, AuthVersion) pairs
    None,             \* no session, no owner
    IdleTimeout, AbsoluteTimeout, PendingTimeout, MaximumSessions,
    Minute,           \* time.Minute: the least time between two rewrites by
                      \* Get, and the clock skew loadPersistent tolerates
    States,           \* the session states that callers ask for
    WriteResults,     \* the outcomes of persistLocked that the disk can produce
    MaxTime           \* bound: the clock stops here

AllStates == {"anonymous", "password_change", "two_factor_challenge",
              "two_factor_enrollment", "authenticated"}

Session == [state: AllStates, owner: Owners \cup {None},
            createdAt: Nat, lastSeenAt: Nat]

\* A record of the file: loadPersistent takes its state to be authenticated.
StoredSession == [owner: Owners, createdAt: Nat, lastSeenAt: Nat]

\* No file has been written yet (exists = FALSE) or one that holds items.
SessionFile == [exists: BOOLEAN, items: [Ids -> StoredSession \cup {None}]]

\* "unwritten": failed before the rename.  "unsynced": failed after it.
AllWriteResults == {"ok", "unwritten", "unsynced"}

ASSUME ConfigAssumption ==
    /\ IdleTimeout \in Nat \ {0}
    /\ AbsoluteTimeout \in Nat \ {0}
    /\ PendingTimeout \in Nat \ {0}
    /\ MaximumSessions \in Nat \ {0}
    /\ Minute \in Nat \ {0}
    /\ MaxTime \in Nat
    /\ States \subseteq AllStates
    /\ "ok" \in WriteResults /\ WriteResults \subseteq AllWriteResults

ASSUME IdsAssumption == IsFiniteSet(Ids)

ASSUME NoneAssumption ==
    None \notin Session /\ None \notin StoredSession /\ None \notin Owners

VARIABLES
    sessions,         \* Manager.sessions
    file,             \* what a reader of the persistence path sees
    synced,           \* what a power loss is sure to leave there
    lastPersistence,  \* Manager.lastPersistence
    now,              \* the wall clock
    issued,           \* history: every identifier createLocked ever returned
    revoked           \* history: live identifiers that Destroy or Rotate
                      \* ended, and said so to their caller

vars == <<sessions, file, synced, lastPersistence, now, issued, revoked>>

storage == <<file, synced, lastPersistence>>

-----------------------------------------------------------------------------
\* The zero time.Time of lastPersistence: older than any interval.
LongAgo == -Minute

NoFile == [exists |-> FALSE, items |-> [i \in Ids |-> None]]

Live(S) == {i \in Ids : S[i] # None}

\* Timeouts are compared with a strict inequality.
expired(s) ==
    \/ now - s.createdAt > IF s.state = "authenticated"
                             THEN AbsoluteTimeout ELSE PendingTimeout
    \/ now - s.lastSeenAt > IdleTimeout

\* The entry s of a table is one that Get would return.
usable(s) == s # None /\ ~expired(s)

\* Mutant: a session goes at the moment its idle time ends, not after it.
removeExpired_Early(S) ==
    [i \in Ids |-> IF usable(S[i]) /\ now - S[i].lastSeenAt < IdleTimeout
                     THEN S[i] ELSE None]

removeExpired(S) == [i \in Ids |-> IF usable(S[i]) THEN S[i] ELSE None]

Without(S, id) == [S EXCEPT ![id] = None]

\* Mutant: off by one at the capacity.
Full_OffByOne(S) == Cardinality(Live(S)) > MaximumSessions

Full(S) == Cardinality(Live(S)) >= MaximumSessions

\* The identity check of createLocked.
validIdentity(state, owner) == (state = "anonymous") <=> (owner = None)

createLocked(S, id, state, owner) ==
    [S EXCEPT ![id] = [state |-> state, owner |-> owner,
                       createdAt |-> now, lastSeenAt |-> now]]

\* The items persistLocked encodes: authenticated, unexpired sessions.
persistedItems(S) ==
    [i \in Ids |->
        IF usable(S[i]) /\ S[i].state = "authenticated"
          THEN [owner |-> S[i].owner, createdAt |-> S[i].createdAt,
                lastSeenAt |-> S[i].lastSeenAt]
          ELSE None]

\* Mutant: the directory is not synced.
persistLocked_NoDirectorySync(S, result) ==
    /\ file' = IF result = "unwritten" THEN file
               ELSE [exists |-> TRUE, items |-> persistedItems(S)]
    /\ synced' = synced
    /\ lastPersistence' = IF result = "ok" THEN now ELSE lastPersistence

\* Mutant: a write that failed counts as one.
persistLocked_StampedFirst(S, result) ==
    LET written == [exists |-> TRUE, items |-> persistedItems(S)] IN
    /\ file' = IF result = "unwritten" THEN file ELSE written
    /\ synced' = IF result = "ok" THEN written ELSE synced
    /\ lastPersistence' = now

\* Write, fsync, rename, fsync of the directory; lastPersistence is set last.
persistLocked(S, result) ==
    LET written == [exists |-> TRUE, items |-> persistedItems(S)] IN
    /\ file' = IF result = "unwritten" THEN file ELSE written
    /\ synced' = IF result = "ok" THEN written ELSE synced
    /\ lastPersistence' = IF result = "ok" THEN now ELSE lastPersistence

restored(item) ==
    [state |-> "authenticated", owner |-> item.owner,
     createdAt |-> item.createdAt, lastSeenAt |-> item.lastSeenAt]

loadedSessions(f) ==
    [i \in Ids |-> IF f.items[i] # None /\ ~expired(restored(f.items[i]))
                     THEN restored(f.items[i]) ELSE None]

validPersistentSession(item) ==
    /\ item.lastSeenAt >= item.createdAt
    /\ item.createdAt <= now + Minute
    /\ item.lastSeenAt <= now + Minute

\* loadPersistent accepts the file; otherwise the web server does not start.
Loadable(f) ==
    /\ Cardinality(Live(f.items)) <= MaximumSessions
    /\ \A i \in Live(f.items) : validPersistentSession(f.items[i])

-----------------------------------------------------------------------------
TypeOK ==
    /\ sessions \in [Ids -> Session \cup {None}]
    /\ file \in SessionFile
    /\ synced \in SessionFile
    /\ lastPersistence \in Int
    /\ now \in Nat
    /\ issued \subseteq Ids
    /\ revoked \subseteq Ids

Init ==
    /\ sessions = [i \in Ids |-> None]
    /\ file = NoFile
    /\ synced = NoFile
    /\ lastPersistence = LongAgo
    /\ now = 0
    /\ issued = {}
    /\ revoked = {}

Create(id, state, owner, result) ==
    LET kept == removeExpired(sessions)
        grown == createLocked(kept, id, state, owner)
    IN
    /\ id \notin issued
    /\ validIdentity(state, owner)
    /\ ~Full(kept)
    /\ issued' = issued \cup {id}
    /\ IF state = "authenticated"
         THEN /\ persistLocked(grown, result)
              /\ sessions' = IF result = "ok" THEN grown ELSE kept
         ELSE /\ result = "ok"
              /\ sessions' = grown
              /\ UNCHANGED storage
    /\ UNCHANGED <<now, revoked>>

\* ErrCapacity, or no random bytes: only the expired sessions go.
CreateRefused ==
    /\ sessions' = removeExpired(sessions)
    /\ UNCHANGED <<storage, now, issued, revoked>>

\* The caller holds an identifier it read earlier: it may be gone by now.
Rotate(id, new, state, owner, result) ==
    LET kept == removeExpired(Without(sessions, id))
        grown == createLocked(kept, new, state, owner)
        wasAuthenticated == sessions[id] # None /\ sessions[id].state = "authenticated"
    IN
    /\ id \in issued
    /\ new \notin issued
    /\ validIdentity(state, owner)
    /\ ~Full(kept)
    /\ issued' = issued \cup {new}
    /\ IF wasAuthenticated \/ state = "authenticated"
         THEN /\ persistLocked(grown, result)
              /\ sessions' = IF result = "ok" THEN grown
                             ELSE [kept EXCEPT ![id] = sessions[id]]
         ELSE /\ result = "ok"
              /\ sessions' = grown
              /\ UNCHANGED storage
    /\ revoked' = IF result = "ok" /\ sessions[id] # None
                    THEN revoked \cup {id} ELSE revoked
    /\ UNCHANGED now

\* Mutant: the capacity is checked while the previous session still counts.
RotateRefused_CheckedFirst(id) ==
    /\ id \in issued
    /\ Full(removeExpired(sessions))
    /\ sessions' = removeExpired(Without(sessions, id))
    /\ UNCHANGED <<storage, now, issued, revoked>>

\* ErrCapacity: the previous session is not put back.
RotateRefused(id) ==
    LET kept == removeExpired(Without(sessions, id)) IN
    /\ id \in issued
    /\ Full(kept)
    /\ sessions' = kept
    /\ UNCHANGED <<storage, now, issued, revoked>>

\* createLocked found no random bytes: the previous session is put back.
RotateWithoutEntropy(id) ==
    LET kept == removeExpired(Without(sessions, id)) IN
    /\ id \in issued
    /\ ~Full(kept)
    /\ sessions' = [kept EXCEPT ![id] = sessions[id]]
    /\ UNCHANGED <<storage, now, issued, revoked>>

GetMissing(id) ==
    /\ id \in issued
    /\ ~usable(sessions[id])
    /\ sessions' = Without(sessions, id)
    /\ UNCHANGED <<storage, now, issued, revoked>>

\* A write failure is ignored here.
GetFound(id, result) ==
    /\ id \in issued
    /\ usable(sessions[id])
    /\ sessions' = [sessions EXCEPT ![id].lastSeenAt = now]
    /\ IF /\ sessions[id].state = "authenticated"
          /\ now - lastPersistence >= Minute
         THEN persistLocked(sessions', result)
         ELSE result = "ok" /\ UNCHANGED storage
    /\ UNCHANGED <<now, issued, revoked>>

\* Mutant: only the table forgets the session.
Destroy_MemoryOnly(id, result) ==
    /\ id \in issued
    /\ result = "ok"
    /\ sessions' = Without(sessions, id)
    /\ revoked' = IF sessions[id] # None THEN revoked \cup {id} ELSE revoked
    /\ UNCHANGED <<storage, now, issued>>

Destroy(id, result) ==
    /\ id \in issued
    /\ IF sessions[id] # None /\ sessions[id].state = "authenticated"
         THEN /\ persistLocked(Without(sessions, id), result)
              /\ sessions' = IF result = "ok" THEN Without(sessions, id)
                             ELSE sessions
         ELSE /\ result = "ok"
              /\ sessions' = Without(sessions, id)
              /\ UNCHANGED storage
    /\ revoked' = IF result = "ok" /\ sessions[id] # None
                    THEN revoked \cup {id} ELSE revoked
    /\ UNCHANGED <<now, issued>>

\* NewPersistent over the content f of the persistence path.
Load(f) ==
    /\ Loadable(f)
    /\ sessions' = loadedSessions(f)
    /\ lastPersistence' = IF f.exists THEN now ELSE LongAgo

RestartProcess ==
    /\ Load(file)
    /\ UNCHANGED <<file, synced, now, issued, revoked>>

\* A rename that was not followed by a directory fsync may be undone.
PowerLoss ==
    \E f \in {file, synced} :
        /\ Load(f)
        /\ file' = f
        /\ synced' = f
        /\ UNCHANGED <<now, issued, revoked>>

Tick ==
    /\ now < MaxTime
    /\ now' = now + 1
    /\ UNCHANGED <<sessions, storage, issued, revoked>>

Next ==
    \/ \E id \in Ids, state \in States, owner \in Owners \cup {None},
          result \in WriteResults : Create(id, state, owner, result)
    \/ CreateRefused
    \/ \E id, new \in Ids, state \in States, owner \in Owners \cup {None},
          result \in WriteResults : Rotate(id, new, state, owner, result)
    \/ \E id \in Ids : RotateRefused(id) \/ RotateWithoutEntropy(id)
    \/ \E id \in Ids : GetMissing(id)
    \/ \E id \in Ids, result \in WriteResults :
          GetFound(id, result) \/ Destroy(id, result)
    \/ RestartProcess
    \/ PowerLoss
    \/ Tick

Spec == Init /\ [][Next]_vars

-----------------------------------------------------------------------------
\* A session that was live when Destroy (logout) or Rotate ended it, and whose
\* caller was told so, is never live again: not after a restart, not after a
\* power loss that undoes an unsynced rename, not after a later failed write.
RevokedStaysRevoked == \A id \in revoked : sessions[id] = None

\* The file left by any sequence of writes and failures is one loadPersistent
\* accepts (at most MaximumSessions records, coherent times): the web server
\* is never locked out of starting by its own session file.
RestartAccepted == Loadable(file) /\ Loadable(synced)

\* Rotate drops the previous session before it checks the capacity and does
\* not put it back on ErrCapacity; that path is never taken for a session that
\* is live, so a full table never logs a user out in the middle of a login.
LiveRotationNotRefused ==
    [][\A id \in Ids : RotateRefused(id) => sessions[id] = None]_vars

SameIdentities ==
    \A id \in Live(sessions) \cap Live(sessions') :
        /\ sessions'[id].state = sessions[id].state
        /\ sessions'[id].owner = sessions[id].owner
        /\ sessions'[id].createdAt = sessions[id].createdAt

\* An identifier keeps the state, owner and creation time it was issued with,
\* across file writes, restarts and power losses: privileges only change with
\* a new identifier, and a pending login is never restored as authenticated.
IdentityImmutable == [][SameIdentities]_vars

\* The usable logins whose record a step takes off the disk.
Lost ==
    {id \in Ids : /\ usable(sessions[id]) /\ sessions[id].state = "authenticated"
                  /\ file.items[id] # None /\ file'.items[id] = None}

\* The step is a logout or a rotation of the session id, done or failed.
Ends(id) ==
    \/ \E result \in WriteResults : Destroy(id, result)
    \/ \E new \in Ids, state \in States, owner \in Owners \cup {None},
          result \in WriteResults : Rotate(id, new, state, owner, result)

\* Each write replaces the records of all users.  However it fails, before or
\* after the rename, the only usable login it takes off the disk is the one that
\* Destroy or Rotate was called with: no Create and no Get costs anyone a record,
\* and no logout costs anyone else one.  A power loss takes no record that had
\* reached the disk for good.
OthersStayOnDisk ==
    [][\A id \in Lost : \/ Lost = {id} /\ Ends(id)
                        \/ PowerLoss /\ synced.items[id] = None]_vars

\* NewPersistent promises that authenticated sessions survive restarts of the web server,
\* and Get writes their use once a Minute at most.  What a restart may lose of a session
\* is only its use since the last write: any earlier use is in its record, whichever
\* writes failed.
OlderUsesOnDisk ==
    \A id \in Live(sessions) :
        file.items[id] # None /\ sessions[id].lastSeenAt < lastPersistence
            => file.items[id].lastSeenAt = sessions[id].lastSeenAt

-----------------------------------------------------------------------------
(* The inductive invariant behind the safety properties. *)

CoherentSession(s) ==
    s # None => /\ validIdentity(s.state, s.owner)
                /\ s.createdAt <= s.lastSeenAt
                /\ s.lastSeenAt <= now

CoherentItem(e) ==
    e # None => e.createdAt <= e.lastSeenAt /\ e.lastSeenAt <= now

\* A session in memory and its record in a file are of the same login.
SameLogin(s, e) ==
    s # None /\ e # None => /\ s.state = "authenticated"
                            /\ s.owner = e.owner
                            /\ s.createdAt = e.createdAt

SameItem(e, f) ==
    e # None /\ f # None => e.owner = f.owner /\ e.createdAt = f.createdAt

\* What holds of one identifier, in memory and in both contents of the disk.
IdInv(i) ==
    /\ CoherentSession(sessions[i])
    /\ CoherentItem(file.items[i])
    /\ CoherentItem(synced.items[i])
    /\ SameLogin(sessions[i], file.items[i])
    /\ SameLogin(sessions[i], synced.items[i])
    /\ SameItem(file.items[i], synced.items[i])
    /\ i \in revoked \/ i \notin issued =>
          sessions[i] = None /\ file.items[i] = None /\ synced.items[i] = None

CapacityInv ==
    /\ Cardinality(Live(sessions)) <= MaximumSessions
    /\ Cardinality(Live(file.items)) <= MaximumSessions
    /\ Cardinality(Live(synced.items)) <= MaximumSessions

IInv == TypeOK /\ revoked \subseteq issued /\ (\A i \in Ids : IdInv(i)) /\ CapacityInv

=============================================================================
