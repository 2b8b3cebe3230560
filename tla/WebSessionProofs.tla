--------------------------- MODULE WebSessionProofs ---------------------------
(***************************************************************************)
(* Proofs about WebSession, for every set of identifiers, every timeout    *)
(* and every capacity.                                                     *)
(*                                                                         *)
(* Every method of the manager builds a table from the current one by      *)
(* dropping sessions, touching one, or adding one under a fresh identifier *)
(* (Derived), and stores the current table or nothing.  TableStep shows    *)
(* once that such a step preserves the inductive invariant; the methods    *)
(* are then instances of it.                                               *)
(***************************************************************************)
EXTENDS WebSessionStore, FiniteSetTheorems, TLAPS

Table == [Ids -> Session \cup {None}]

written(T) == [exists |-> TRUE, items |-> persistedItems(T)]

\* T is made of sessions of the current table and of fresh ones.
Derived(T) ==
    /\ T \in Table
    /\ \A i \in Ids :
          \/ T[i] = None
          \/ /\ sessions[i] # None /\ T[i] # None
             /\ T[i].state = sessions[i].state
             /\ T[i].owner = sessions[i].owner
             /\ T[i].createdAt = sessions[i].createdAt
             /\ T[i].lastSeenAt \in {sessions[i].lastSeenAt, now}
          \/ i \notin issued /\ CoherentSession(T[i])

-----------------------------------------------------------------------------
\* Fewer live entries: the cardinality does not grow.
LEMMA LiveSubset ==
    ASSUME NEW S, NEW T, Live(S) \subseteq Live(T),
           Cardinality(Live(T)) <= MaximumSessions
    PROVE  Cardinality(Live(S)) <= MaximumSessions
<1>1. IsFiniteSet(Live(T))
  BY IdsAssumption, FS_Subset DEF Live
<1>2. Cardinality(Live(S)) <= Cardinality(Live(T))
  BY <1>1, FS_Subset
<1>3. Cardinality(Live(S)) \in Nat /\ Cardinality(Live(T)) \in Nat
  BY <1>1, FS_Subset, FS_CardinalityType
<1>4. QED BY <1>2, <1>3, ConfigAssumption

\* One more live entry than a table that is not full.
LEMMA LiveGrown ==
    ASSUME NEW S, NEW T, NEW id \in Ids, Live(S) \subseteq Live(T) \cup {id},
           ~Full(T)
    PROVE  Cardinality(Live(S)) <= MaximumSessions
<1>1. IsFiniteSet(Live(T)) /\ IsFiniteSet(Live(T) \cup {id})
  BY IdsAssumption, FS_Subset, FS_AddElement DEF Live
<1>2. Cardinality(Live(T)) \in Nat
  BY <1>1, FS_CardinalityType
<1>3. Cardinality(Live(T)) + 1 <= MaximumSessions
  BY <1>2, ConfigAssumption DEF Full
<1>4. Cardinality(Live(T) \cup {id}) <= Cardinality(Live(T)) + 1
  BY <1>1, <1>2, FS_AddElement
<1>5. Cardinality(Live(T) \cup {id}) \in Nat
  BY <1>1, FS_CardinalityType
<1>6. Cardinality(Live(S)) <= Cardinality(Live(T) \cup {id})
  BY <1>1, FS_Subset
<1>7. Cardinality(Live(S)) \in Nat
  BY <1>1, FS_Subset, FS_CardinalityType
<1>8. QED BY <1>2, <1>3, <1>4, <1>5, <1>6, <1>7, ConfigAssumption

\* What persistLocked writes of a coherent table.
LEMMA ItemsOf ==
    ASSUME NEW T \in Table, \A i \in Ids : CoherentSession(T[i])
    PROVE  /\ persistedItems(T) \in [Ids -> StoredSession \cup {None}]
           /\ \A i \in Ids : persistedItems(T)[i] # None =>
                 /\ T[i] # None
                 /\ T[i].state = "authenticated"
                 /\ persistedItems(T)[i].owner = T[i].owner
                 /\ persistedItems(T)[i].createdAt = T[i].createdAt
                 /\ persistedItems(T)[i].lastSeenAt = T[i].lastSeenAt
           /\ Live(persistedItems(T)) \subseteq Live(T)
<1>1. ASSUME NEW i \in Ids
      PROVE  /\ persistedItems(T)[i] \in StoredSession \cup {None}
             /\ persistedItems(T)[i] # None =>
                 /\ T[i] # None
                 /\ T[i].state = "authenticated"
                 /\ persistedItems(T)[i].owner = T[i].owner
                 /\ persistedItems(T)[i].createdAt = T[i].createdAt
                 /\ persistedItems(T)[i].lastSeenAt = T[i].lastSeenAt
  <2>1. CASE usable(T[i]) /\ T[i].state = "authenticated"
    <3>1. T[i] \in Session /\ T[i] # None
      BY <2>1 DEF Table, usable
    <3>2. T[i].owner \in Owners
      BY <2>1, <3>1 DEF CoherentSession, validIdentity, Session
    <3>3. persistedItems(T)[i] = [owner |-> T[i].owner, createdAt |-> T[i].createdAt,
                                  lastSeenAt |-> T[i].lastSeenAt]
      BY <2>1 DEF persistedItems
    <3>4. QED BY <2>1, <3>1, <3>2, <3>3 DEF StoredSession, Session
  <2>2. CASE ~(usable(T[i]) /\ T[i].state = "authenticated")
    BY <2>2 DEF persistedItems
  <2>3. QED BY <2>1, <2>2
<1>2. QED BY <1>1 DEF persistedItems, Live

\* A derived table and the contents of the disk are of the same logins.
LEMMA DerivedAgrees ==
    ASSUME IInv, NEW T, Derived(T), NEW i \in Ids
    PROVE  /\ CoherentSession(T[i])
           /\ SameLogin(T[i], file.items[i])
           /\ SameLogin(T[i], synced.items[i])
<1> USE DEF IInv, IdInv, CoherentSession, SameLogin
<1>1. CASE T[i] = None
  BY <1>1
<1>2. CASE /\ sessions[i] # None /\ T[i] # None
           /\ T[i].state = sessions[i].state
           /\ T[i].owner = sessions[i].owner
           /\ T[i].createdAt = sessions[i].createdAt
           /\ T[i].lastSeenAt \in {sessions[i].lastSeenAt, now}
  <2>1. sessions[i] \in Session
    BY <1>2 DEF TypeOK
  <2>2. QED BY <1>2, <2>1 DEF TypeOK, Session
<1>3. CASE i \notin issued /\ CoherentSession(T[i])
  BY <1>3
<1>4. QED BY <1>1, <1>2, <1>3 DEF Derived

\* A step that replaces the table by a derived one, writes at most one derived
\* table to the disk and revokes only what it leaves nowhere.
LEMMA TableStep ==
    ASSUME IInv, NEW T, Derived(T), Derived(sessions'),
           Cardinality(Live(T)) <= MaximumSessions,
           Cardinality(Live(sessions')) <= MaximumSessions,
           now' = now, lastPersistence' \in Int,
           issued \subseteq issued', issued' \subseteq Ids,
           \A i \in Ids \ issued : T[i] = None \/ sessions'[i] = None \/ T[i] = sessions'[i],
           \A i \in Ids : T[i] # None \/ sessions'[i] # None => i \in issued',
           file' = file \/ file' = written(T),
           synced' = synced \/ synced' = written(T),
           revoked' \subseteq issued', revoked \subseteq revoked',
           \A i \in revoked' \ revoked :
              sessions'[i] = None /\ file'.items[i] = None /\ synced'.items[i] = None
    PROVE  IInv' /\ SameIdentities
<1> DEFINE items == persistedItems(T)
<1>0. /\ T \in Table /\ sessions' \in Table
      /\ \A i \in Ids : CoherentSession(T[i]) /\ CoherentSession(sessions'[i])
  BY DerivedAgrees DEF Derived
<1>1. /\ items \in [Ids -> StoredSession \cup {None}]
      /\ \A i \in Ids : items[i] # None =>
             /\ T[i] # None
             /\ T[i].state = "authenticated"
             /\ items[i].owner = T[i].owner
             /\ items[i].createdAt = T[i].createdAt
             /\ items[i].lastSeenAt = T[i].lastSeenAt
      /\ Live(items) \subseteq Live(T)
  BY <1>0, ItemsOf
<1> HIDE DEF items
<1>2. file' = file \/ (file' = [exists |-> TRUE, items |-> items])
  BY DEF written, items
<1>3. synced' = synced \/ (synced' = [exists |-> TRUE, items |-> items])
  BY DEF written, items
<1>4. TypeOK'
  <2>1. [exists |-> TRUE, items |-> items] \in SessionFile
    BY <1>1 DEF SessionFile
  <2>2. file' \in SessionFile /\ synced' \in SessionFile
    BY <1>2, <1>3, <2>1 DEF IInv, TypeOK
  <2>3. QED BY <1>0, <2>2 DEF IInv, TypeOK, Table
<1>5. CapacityInv'
  <2>1. Cardinality(Live(items)) <= MaximumSessions
    BY <1>1, LiveSubset
  <2>2. file'.items = file.items \/ file'.items = items
    BY <1>2
  <2>3. synced'.items = synced.items \/ synced'.items = items
    BY <1>3
  <2>4. Cardinality(Live(file'.items)) <= MaximumSessions
    BY <2>1, <2>2 DEF IInv, CapacityInv
  <2>5. Cardinality(Live(synced'.items)) <= MaximumSessions
    BY <2>1, <2>3 DEF IInv, CapacityInv
  <2>6. QED BY <2>4, <2>5 DEF CapacityInv
<1>6. ASSUME NEW i \in Ids PROVE IdInv(i)'
  <2>1. file'.items[i] = file.items[i] \/ file'.items[i] = items[i]
    BY <1>2
  <2>2. synced'.items[i] = synced.items[i] \/ synced'.items[i] = items[i]
    BY <1>3
  <2>3. /\ SameLogin(T[i], file.items[i]) /\ SameLogin(T[i], synced.items[i])
        /\ SameLogin(sessions'[i], file.items[i])
        /\ SameLogin(sessions'[i], synced.items[i])
    BY DerivedAgrees
  <2>4. SameLogin(sessions'[i], T[i]) \/ T[i] = None \/ T[i].state # "authenticated"
    BY DEF Derived, SameLogin
  <2>5. IdInv(i)
    BY DEF IInv
  <2>6. CoherentItem(items[i])
    BY <1>0, <1>1 DEF CoherentSession, CoherentItem
  <2>7. SameLogin(sessions'[i], items[i])
    BY <1>1, <2>4 DEF SameLogin
  <2>8. SameItem(items[i], file.items[i]) /\ SameItem(items[i], synced.items[i])
    BY <1>1, <2>3 DEF SameLogin, SameItem
  <2>9. CoherentSession(sessions[i])' /\ CoherentItem(file.items[i])' /\ CoherentItem(synced.items[i])'
    <3>1. CoherentSession(sessions'[i])
      BY <1>0
    <3>2. QED BY <2>1, <2>2, <2>5, <2>6, <3>1 DEF IdInv, CoherentItem, CoherentSession
  <2>10. SameLogin(sessions[i], file.items[i])' /\ SameLogin(sessions[i], synced.items[i])'
    BY <2>1, <2>2, <2>3, <2>7 DEF SameLogin
  <2>11. SameItem(file.items[i], synced.items[i])'
    BY <2>1, <2>2, <2>5, <2>8 DEF SameItem, IdInv
  <2>12. ASSUME i \in revoked' \/ i \notin issued'
         PROVE  sessions'[i] = None /\ file'.items[i] = None /\ synced'.items[i] = None
    <3>1. CASE i \notin issued'
      BY <1>1, <2>1, <2>2, <2>5, <3>1 DEF IdInv
    <3>2. CASE i \in revoked
      <4>1. i \in issued /\ sessions[i] = None
        BY <3>2, <2>5 DEF IInv, IdInv
      <4>2. T[i] = None /\ sessions'[i] = None
        BY <4>1 DEF Derived
      <4>3. QED BY <1>1, <2>1, <2>2, <2>5, <3>2, <4>2 DEF IdInv
    <3>3. CASE i \in revoked' \ revoked
      BY <3>3
    <3>4. QED BY <2>12, <3>1, <3>2, <3>3
  <2>13. QED BY <2>9, <2>10, <2>11, <2>12 DEF IdInv
<1>7. SameIdentities
  BY DEF SameIdentities, Live, Derived, IInv, IdInv
<1>8. QED BY <1>4, <1>5, <1>6, <1>7 DEF IInv

-----------------------------------------------------------------------------
\* The tables the methods build are derived from the current one.
LEMMA DerivedKept ==
    ASSUME IInv, NEW T, Derived(T)
    PROVE  /\ Derived(removeExpired(T))
           /\ Live(removeExpired(T)) \subseteq Live(T)
<1>1. \A i \in Ids : removeExpired(T)[i] \in {T[i], None}
  BY DEF removeExpired
<1>2. removeExpired(T) \in Table
  BY <1>1 DEF removeExpired, Derived, Table
<1>3. QED BY <1>1, <1>2 DEF Derived, Live

\* Dropping one session and the expired ones gives a derived table.
LEMMA DerivedWithout ==
    ASSUME IInv, NEW id \in Ids
    PROVE  /\ Derived(sessions)
           /\ Derived(Without(sessions, id))
           /\ Live(Without(sessions, id)) \subseteq Live(sessions) \ {id}
           /\ Without(sessions, id)[id] = None
<1>1. sessions \in Table /\ Without(sessions, id) \in Table
  BY DEF IInv, TypeOK, Table, Without
<1>2. \A i \in Ids : Without(sessions, id)[i] = IF i = id THEN None ELSE sessions[i]
  BY <1>1 DEF Without, Table
<1>3. Derived(sessions)
  BY <1>1 DEF Derived
<1>4. QED BY <1>1, <1>2, <1>3 DEF Derived, Live

\* ... and so does adding a session under a fresh identifier.
LEMMA DerivedGrown ==
    ASSUME IInv, NEW T, Derived(T), NEW id \in Ids \ issued, NEW state \in States,
           NEW owner \in Owners \cup {None}, validIdentity(state, owner)
    PROVE  LET grown == createLocked(T, id, state, owner) IN
           /\ Derived(grown)
           /\ Live(grown) \subseteq Live(T) \cup {id}
           /\ grown[id] # None
           /\ \A i \in Ids \ {id} : grown[i] = T[i]
<1> DEFINE s == [state |-> state, owner |-> owner, createdAt |-> now, lastSeenAt |-> now]
           grown == createLocked(T, id, state, owner)
<1>1. s \in Session /\ s # None
  BY ConfigAssumption, NoneAssumption DEF Session, IInv, TypeOK
<1>2. CoherentSession(s)
  BY DEF CoherentSession, IInv, TypeOK
<1>3. grown \in Table /\ \A i \in Ids : grown[i] = IF i = id THEN s ELSE T[i]
  BY <1>1 DEF createLocked, Table, Derived
<1> HIDE DEF s, grown
<1>4. QED BY <1>1, <1>2, <1>3 DEF Derived, Live, grown

\* Putting the previous session back into a table that dropped it.
LEMMA DerivedPutBack ==
    ASSUME IInv, NEW T, Derived(T), NEW id \in Ids
    PROVE  LET back == [T EXCEPT ![id] = sessions[id]] IN
           /\ Derived(back)
           /\ \A i \in Ids \ {id} : back[i] = T[i]
           /\ back[id] = sessions[id]
<1> DEFINE back == [T EXCEPT ![id] = sessions[id]]
<1>1. back \in Table /\ \A i \in Ids : back[i] = IF i = id THEN sessions[id] ELSE T[i]
  BY DEF Table, Derived, IInv, TypeOK
<1> HIDE DEF back
<1>2. QED BY <1>1 DEF Derived, back

-----------------------------------------------------------------------------
(* One lemma per method. *)

\* Create, whatever the outcome of the write.
LEMMA CreateStep ==
    ASSUME IInv, NEW id \in Ids, NEW state \in States,
           NEW owner \in Owners \cup {None}, NEW result \in WriteResults,
           Create(id, state, owner, result)
    PROVE  IInv' /\ SameIdentities
<1> DEFINE kept == removeExpired(sessions)
           grown == createLocked(kept, id, state, owner)
<1>1. id \notin issued /\ validIdentity(state, owner) /\ ~Full(kept)
      /\ issued' = issued \cup {id} /\ now' = now /\ revoked' = revoked
  BY DEF Create
<1>2. Derived(kept) /\ Live(kept) \subseteq Live(sessions)
  BY DerivedWithout, DerivedKept
<1>3. /\ Derived(grown) /\ Live(grown) \subseteq Live(kept) \cup {id}
      /\ \A i \in Ids \ {id} : grown[i] = kept[i]
  BY <1>1, <1>2, DerivedGrown
<1>4. /\ Cardinality(Live(grown)) <= MaximumSessions
      /\ Cardinality(Live(kept)) <= MaximumSessions
  BY <1>1, <1>2, <1>3, LiveGrown, LiveSubset DEF IInv, CapacityInv
<1>5. kept[id] = None /\ \A i \in Ids : kept[i] # None => i \in issued
  BY <1>1, <1>2 DEF Live, IInv, IdInv
<1>6. sessions' = grown \/ sessions' = kept
  BY DEF Create
<1>7. file' \in {file, written(grown)} /\ synced' \in {synced, written(grown)}
  BY DEF Create, persistLocked, storage, written
<1>8. lastPersistence' \in Int
  BY DEF Create, persistLocked, storage, IInv, TypeOK
<1> HIDE DEF kept, grown
<1>9. QED
  <2>1. Derived(sessions') /\ Cardinality(Live(sessions')) <= MaximumSessions
    BY <1>2, <1>3, <1>4, <1>6
  <2>2. \A i \in Ids \ issued : grown[i] = None \/ sessions'[i] = None \/ grown[i] = sessions'[i]
    BY <1>5, <1>6
  <2>3. \A i \in Ids : grown[i] # None \/ sessions'[i] # None => i \in issued'
    BY <1>1, <1>3, <1>5, <1>6
  <2>4. issued \subseteq issued' /\ issued' \subseteq Ids /\ revoked' \subseteq issued'
        /\ revoked \subseteq revoked' /\ revoked' \ revoked = {}
    BY <1>1 DEF IInv, TypeOK
  <2>5. QED BY <1>1, <1>3, <1>4, <1>7, <1>8, <2>1, <2>2, <2>3, <2>4, TableStep

\* A method that leaves the disk alone and issues and revokes nothing.
LEMMA QuietStep ==
    ASSUME IInv, Derived(sessions'), Live(sessions') \subseteq Live(sessions),
           UNCHANGED <<storage, now, issued, revoked>>
    PROVE  IInv' /\ SameIdentities
<1>1. Cardinality(Live(sessions')) <= MaximumSessions
  BY LiveSubset DEF IInv, CapacityInv
<1>2. \A i \in Ids : sessions'[i] # None => i \in issued
  BY DEF Live, IInv, IdInv
<1>3. QED BY <1>1, <1>2, TableStep DEF IInv, TypeOK, storage

\* Create that finds the table full or no random bytes.
LEMMA CreateRefusedStep == IInv /\ CreateRefused => IInv' /\ SameIdentities
<1> SUFFICES ASSUME IInv, CreateRefused PROVE IInv' /\ SameIdentities
  OBVIOUS
<1>1. Derived(sessions)
  BY DEF Derived, IInv, TypeOK, Table
<1>2. QED BY <1>1, DerivedKept, QuietStep DEF CreateRefused

\* Rotate, whatever the outcome of the write, and if the session is gone.
LEMMA RotateStep ==
    ASSUME IInv, NEW id \in Ids, NEW new \in Ids, NEW state \in States,
           NEW owner \in Owners \cup {None}, NEW result \in WriteResults,
           Rotate(id, new, state, owner, result)
    PROVE  IInv' /\ SameIdentities
<1> DEFINE kept == removeExpired(Without(sessions, id))
           grown == createLocked(kept, new, state, owner)
           back == [kept EXCEPT ![id] = sessions[id]]
           wasAuthenticated == sessions[id] # None /\ sessions[id].state = "authenticated"
<1>1. id \in issued /\ new \notin issued /\ validIdentity(state, owner) /\ ~Full(kept)
      /\ issued' = issued \cup {new} /\ now' = now
  BY DEF Rotate
<1>2. Derived(kept) /\ Live(kept) \subseteq Live(sessions) \ {id}
  BY DerivedWithout, DerivedKept
<1>3. /\ Derived(grown) /\ Live(grown) \subseteq Live(kept) \cup {new}
      /\ \A i \in Ids \ {new} : grown[i] = kept[i]
  BY <1>1, <1>2, DerivedGrown
<1>4. /\ Derived(back)
      /\ \A i \in Ids \ {id} : back[i] = kept[i]
      /\ back[id] = sessions[id]
  BY <1>2, DerivedPutBack
<1>5. /\ Cardinality(Live(grown)) <= MaximumSessions
      /\ Cardinality(Live(back)) <= MaximumSessions
  <2>1. Live(back) \subseteq Live(sessions)
    BY <1>2, <1>4 DEF Live
  <2>2. QED BY <1>1, <1>3, <2>1, LiveGrown, LiveSubset DEF IInv, CapacityInv
<1>6. /\ kept[new] = None /\ back[new] = None /\ kept[id] = None /\ grown[id] = None
      /\ \A i \in Ids : kept[i] # None \/ back[i] # None => i \in issued
  BY <1>1, <1>2, <1>3, <1>4 DEF Live, IInv, IdInv
<1>7. sessions' = grown \/ (sessions' = back /\ result # "ok")
  BY DEF Rotate
<1>8. file' \in {file, written(grown)} /\ synced' \in {synced, written(grown)}
  BY DEF Rotate, persistLocked, storage, written
<1>9. lastPersistence' \in Int
  BY DEF Rotate, persistLocked, storage, IInv, TypeOK
<1>10. revoked' = IF result = "ok" /\ sessions[id] # None THEN revoked \cup {id} ELSE revoked
  BY DEF Rotate
<1>11. result = "ok" => \/ file' = written(grown) /\ synced' = written(grown)
                        \/ ~wasAuthenticated /\ file' = file /\ synced' = synced
  BY DEF Rotate, persistLocked, storage, written
<1>12. persistedItems(grown)[id] = None
  BY <1>6 DEF persistedItems, usable
<1> HIDE DEF kept, grown, back
<1>13. QED
  <2>1. Derived(sessions') /\ Cardinality(Live(sessions')) <= MaximumSessions
    BY <1>3, <1>4, <1>5, <1>7
  <2>2. \A i \in Ids \ issued : grown[i] = None \/ sessions'[i] = None \/ grown[i] = sessions'[i]
    BY <1>6, <1>7
  <2>3. \A i \in Ids : grown[i] # None \/ sessions'[i] # None => i \in issued'
    BY <1>1, <1>3, <1>6, <1>7
  <2>4. issued \subseteq issued' /\ issued' \subseteq Ids /\ revoked' \subseteq issued'
        /\ revoked \subseteq revoked'
    BY <1>1, <1>10 DEF IInv, TypeOK
  <2>5. ASSUME NEW i \in revoked' \ revoked
        PROVE  sessions'[i] = None /\ file'.items[i] = None /\ synced'.items[i] = None
    <3>1. i = id /\ result = "ok" /\ sessions[id] # None
      BY <1>10
    <3>2. sessions'[id] = None
      BY <1>6, <1>7, <3>1
    <3>3. CASE file' = written(grown) /\ synced' = written(grown)
      BY <1>12, <3>1, <3>2, <3>3 DEF written
    <3>4. CASE ~wasAuthenticated /\ file' = file /\ synced' = synced
      BY <3>1, <3>2, <3>4 DEF IInv, IdInv, SameLogin
    <3>5. QED BY <1>11, <3>1, <3>3, <3>4
  <2>6. QED BY <1>1, <1>3, <1>5, <1>8, <1>9, <2>1, <2>2, <2>3, <2>4, <2>5, TableStep

\* Rotate that finds the table full or no random bytes.
LEMMA RotateRefusedStep ==
    ASSUME IInv, NEW id \in Ids, RotateRefused(id) \/ RotateWithoutEntropy(id)
    PROVE  IInv' /\ SameIdentities
<1> DEFINE kept == removeExpired(Without(sessions, id))
<1>1. Derived(kept) /\ Live(kept) \subseteq Live(sessions) \ {id}
  BY DerivedWithout, DerivedKept
<1>2. /\ Derived([kept EXCEPT ![id] = sessions[id]])
      /\ Live([kept EXCEPT ![id] = sessions[id]]) \subseteq Live(sessions)
  BY <1>1, DerivedPutBack DEF Live
<1>3. QED BY <1>1, <1>2, QuietStep DEF RotateRefused, RotateWithoutEntropy

\* Get of a session that is gone or expired.
LEMMA GetMissingStep ==
    ASSUME IInv, NEW id \in Ids, GetMissing(id)
    PROVE  IInv' /\ SameIdentities
BY DerivedWithout, QuietStep DEF GetMissing

\* Get of a live session, with or without a rewrite of the file.
LEMMA GetFoundStep ==
    ASSUME IInv, NEW id \in Ids, NEW result \in WriteResults, GetFound(id, result)
    PROVE  IInv' /\ SameIdentities
<1>1. sessions[id] \in Session /\ sessions[id] # None
  BY DEF GetFound, usable, IInv, TypeOK
<1>2. \A i \in Ids : sessions'[i] =
          IF i = id THEN [sessions[id] EXCEPT !.lastSeenAt = now] ELSE sessions[i]
  BY DEF GetFound, IInv, TypeOK
<1>3. [sessions[id] EXCEPT !.lastSeenAt = now] \in Session
  BY <1>1 DEF Session, IInv, TypeOK
<1>4. sessions' \in Table
  BY <1>1, <1>3 DEF GetFound, IInv, TypeOK, Table
<1>5. /\ sessions'[id] # None
      /\ sessions'[id].state = sessions[id].state
      /\ sessions'[id].owner = sessions[id].owner
      /\ sessions'[id].createdAt = sessions[id].createdAt
      /\ sessions'[id].lastSeenAt = now
  BY <1>1, <1>2, <1>3, NoneAssumption DEF Session
<1>6. Derived(sessions') /\ Live(sessions') = Live(sessions)
  BY <1>1, <1>2, <1>4, <1>5 DEF Derived, Live
<1>7. \A i \in Ids : sessions'[i] # None => i \in issued
  BY <1>6 DEF Live, IInv, IdInv
<1>8. file' \in {file, written(sessions')} /\ synced' \in {synced, written(sessions')}
  BY DEF GetFound, persistLocked, storage, written
<1>9. lastPersistence' \in Int
  BY DEF GetFound, persistLocked, storage, IInv, TypeOK
<1>10. Cardinality(Live(sessions')) <= MaximumSessions
  BY <1>6 DEF IInv, CapacityInv
<1>11. now' = now /\ issued' = issued /\ revoked' = revoked /\ issued \subseteq Ids /\ revoked \subseteq issued
  BY DEF GetFound, IInv, TypeOK
<1>12. QED BY <1>6, <1>7, <1>8, <1>9, <1>10, <1>11, TableStep

\* Destroy, whatever the outcome of the write.
LEMMA DestroyStep ==
    ASSUME IInv, NEW id \in Ids, NEW result \in WriteResults, Destroy(id, result)
    PROVE  IInv' /\ SameIdentities
<1> DEFINE gone == Without(sessions, id)
           wasAuthenticated == sessions[id] # None /\ sessions[id].state = "authenticated"
<1>1. /\ Derived(sessions) /\ Derived(gone)
      /\ Live(gone) \subseteq Live(sessions) \ {id} /\ gone[id] = None
  BY DerivedWithout
<1>2. sessions' = gone \/ (sessions' = sessions /\ result # "ok")
  BY DEF Destroy
<1>3. file' \in {file, written(gone)} /\ synced' \in {synced, written(gone)}
  BY DEF Destroy, persistLocked, storage, written
<1>4. result = "ok" => \/ file' = written(gone) /\ synced' = written(gone)
                       \/ ~wasAuthenticated /\ file' = file /\ synced' = synced
  BY DEF Destroy, persistLocked, storage, written
<1>5. lastPersistence' \in Int
  BY DEF Destroy, persistLocked, storage, IInv, TypeOK
<1>6. /\ id \in issued /\ now' = now /\ issued' = issued
      /\ revoked' = IF result = "ok" /\ sessions[id] # None THEN revoked \cup {id} ELSE revoked
  BY DEF Destroy
<1>7. persistedItems(gone)[id] = None
  BY <1>1 DEF persistedItems, usable
<1> HIDE DEF gone
<1>8. /\ Cardinality(Live(gone)) <= MaximumSessions
      /\ Cardinality(Live(sessions')) <= MaximumSessions
  BY <1>1, <1>2, LiveSubset DEF IInv, CapacityInv
<1>9. \A i \in Ids : gone[i] # None \/ sessions'[i] # None => i \in issued'
  BY <1>1, <1>2, <1>6 DEF Live, IInv, IdInv
<1>10. \A i \in revoked' \ revoked :
          sessions'[i] = None /\ file'.items[i] = None /\ synced'.items[i] = None
  <2> SUFFICES ASSUME NEW i \in revoked' \ revoked
               PROVE  sessions'[i] = None /\ file'.items[i] = None /\ synced'.items[i] = None
    OBVIOUS
  <2>1. i = id /\ result = "ok" /\ sessions[id] # None
    BY <1>6
  <2>2. CASE file' = written(gone) /\ synced' = written(gone)
    BY <1>1, <1>2, <1>7, <2>1, <2>2 DEF written
  <2>3. CASE ~wasAuthenticated /\ file' = file /\ synced' = synced
    BY <1>1, <1>2, <2>1, <2>3 DEF IInv, IdInv, SameLogin
  <2>4. QED BY <1>4, <2>1, <2>2, <2>3
<1>11. issued' \subseteq Ids /\ revoked' \subseteq issued' /\ revoked \subseteq revoked'
  BY <1>6 DEF IInv, TypeOK
<1>12. \A i \in Ids \ issued : gone[i] = None \/ sessions'[i] = None \/ gone[i] = sessions'[i]
  BY <1>6, <1>9
<1>13. Derived(sessions')
  BY <1>1, <1>2
<1>14. QED BY <1>1, <1>3, <1>5, <1>6, <1>8, <1>9, <1>10, <1>11, <1>12, <1>13, TableStep

\* Loading either content of the disk, which then stays or replaces both.
LEMMA LoadStep ==
    ASSUME IInv, NEW f \in {file, synced}, Load(f),
           \/ file' = file /\ synced' = synced
           \/ file' = f /\ synced' = f,
           UNCHANGED <<now, issued, revoked>>
    PROVE  IInv' /\ SameIdentities
<1>1. ASSUME NEW i \in Ids
      PROVE  /\ sessions'[i] \in Session \cup {None}
             /\ sessions'[i] # None => f.items[i] # None /\ sessions'[i] = restored(f.items[i])
  <2>1. f.items[i] \in StoredSession \cup {None}
    BY DEF IInv, TypeOK, SessionFile
  <2>2. CASE f.items[i] # None /\ ~expired(restored(f.items[i]))
    <3>1. sessions'[i] = restored(f.items[i])
      BY <2>2 DEF Load, loadedSessions
    <3>2. restored(f.items[i]) \in [state: AllStates, owner: Owners \cup {None},
                                    createdAt: Nat, lastSeenAt: Nat]
      BY <2>1, <2>2 DEF restored, StoredSession, AllStates
    <3>3. QED BY <2>2, <3>1, <3>2 DEF Session
  <2>3. CASE ~(f.items[i] # None /\ ~expired(restored(f.items[i])))
    BY <2>3 DEF Load, loadedSessions
  <2>4. QED BY <2>2, <2>3
<1>2. TypeOK'
  <2>1. sessions' \in [Ids -> Session \cup {None}]
    BY <1>1 DEF Load, loadedSessions
  <2>2. lastPersistence' \in Int
    BY ConfigAssumption DEF Load, LongAgo, IInv, TypeOK
  <2>3. QED BY <2>1, <2>2 DEF IInv, TypeOK
<1>3. CapacityInv'
  <2>1. Live(sessions') \subseteq Live(f.items)
    BY <1>1 DEF Live
  <2>2. Cardinality(Live(f.items)) <= MaximumSessions
    BY DEF IInv, CapacityInv
  <2>3. Cardinality(Live(sessions')) <= MaximumSessions
    BY <2>1, <2>2, LiveSubset
  <2>4. QED BY <2>2, <2>3 DEF IInv, CapacityInv
<1>4. ASSUME NEW i \in Ids PROVE IdInv(i)'
  <2>1. IdInv(i)
    BY DEF IInv
  <2>2. CASE sessions'[i] = None
    BY <2>1, <2>2 DEF IdInv, CoherentSession, CoherentItem, SameLogin, SameItem
  <2>3. CASE sessions'[i] # None
    <3>1. f.items[i] # None /\ sessions'[i] = restored(f.items[i])
      BY <1>1, <2>3
    <3>2. f.items[i] \in StoredSession /\ f.items[i].owner \in Owners
      BY <3>1 DEF IInv, TypeOK, SessionFile, StoredSession
    <3>3. CoherentSession(sessions[i])'
      BY <2>1, <3>1, <3>2, NoneAssumption
      DEF IdInv, CoherentSession, CoherentItem, restored, validIdentity
    <3>4. QED BY <2>1, <3>1, <3>3
          DEF IdInv, CoherentItem, SameLogin, SameItem, restored
  <2>4. QED BY <2>2, <2>3
<1>5. ASSUME NEW i \in Ids, sessions[i] # None, sessions'[i] # None
      PROVE  /\ sessions'[i].state = sessions[i].state
             /\ sessions'[i].owner = sessions[i].owner
             /\ sessions'[i].createdAt = sessions[i].createdAt
  <2>1. f.items[i] # None /\ sessions'[i] = restored(f.items[i])
    BY <1>1, <1>5
  <2>2. SameLogin(sessions[i], f.items[i])
    BY DEF IInv, IdInv
  <2>3. QED BY <1>5, <2>1, <2>2 DEF SameLogin, restored
<1>6. SameIdentities
  BY <1>5 DEF SameIdentities, Live
<1>7. QED BY <1>2, <1>3, <1>4, <1>6 DEF IInv

\* Time passes.
LEMMA TickStep == IInv /\ Tick => IInv' /\ SameIdentities
<1> SUFFICES ASSUME IInv, Tick PROVE IInv' /\ SameIdentities
  OBVIOUS
<1>1. TypeOK' /\ CapacityInv' /\ now' = now + 1 /\ now \in Nat
  BY DEF IInv, TypeOK, CapacityInv, Tick, storage
<1>2. ASSUME NEW i \in Ids PROVE IdInv(i)'
  <2>1. /\ sessions[i] \in Session \cup {None}
        /\ file.items[i] \in StoredSession \cup {None}
        /\ synced.items[i] \in StoredSession \cup {None}
    BY DEF IInv, TypeOK, SessionFile
  <2>2. CoherentSession(sessions[i])'
    BY <1>1, <2>1 DEF IInv, IdInv, CoherentSession, Session, Tick
  <2>3. CoherentItem(file.items[i])' /\ CoherentItem(synced.items[i])'
    BY <1>1, <2>1 DEF IInv, IdInv, CoherentItem, StoredSession, Tick, storage
  <2>4. QED BY <2>2, <2>3 DEF IInv, IdInv, SameLogin, SameItem, Tick, storage
<1>3. SameIdentities
  BY DEF SameIdentities, Tick
<1>4. QED BY <1>1, <1>2, <1>3 DEF IInv, Tick

-----------------------------------------------------------------------------
\* The initial state satisfies the inductive invariant.
LEMMA InitInv == Init => IInv
<1> SUFFICES ASSUME Init PROVE IInv
  OBVIOUS
<1>1. NoFile.items = [i \in Ids |-> None]
  BY DEF NoFile
<1>2. NoFile \in SessionFile
  BY DEF NoFile, SessionFile
<1>3. TypeOK
  BY <1>2, ConfigAssumption DEF Init, TypeOK, LongAgo
<1>4. CapacityInv
  BY <1>1, FS_EmptySet, ConfigAssumption DEF Init, CapacityInv, Live
<1>5. ASSUME NEW i \in Ids PROVE IdInv(i)
  BY <1>1 DEF Init, IdInv, CoherentSession, CoherentItem, SameLogin, SameItem
<1>6. QED BY <1>3, <1>4, <1>5 DEF IInv, Init

\* Every step preserves it, and keeps the identity of live sessions.
LEMMA NextInv == IInv /\ [Next]_vars => IInv' /\ [SameIdentities]_vars
<1> SUFFICES ASSUME IInv, [Next]_vars PROVE IInv' /\ [SameIdentities]_vars
  OBVIOUS
<1>1. ASSUME NEW id \in Ids, NEW state \in States, NEW owner \in Owners \cup {None},
             NEW result \in WriteResults, Create(id, state, owner, result)
      PROVE  IInv' /\ SameIdentities
  BY <1>1, CreateStep
<1>2. CASE CreateRefused
  BY <1>2, CreateRefusedStep
<1>3. ASSUME NEW id \in Ids, NEW new \in Ids, NEW state \in States,
             NEW owner \in Owners \cup {None},
             NEW result \in WriteResults, Rotate(id, new, state, owner, result)
      PROVE  IInv' /\ SameIdentities
  BY <1>3, RotateStep
<1>4. ASSUME NEW id \in Ids, RotateRefused(id) \/ RotateWithoutEntropy(id)
      PROVE  IInv' /\ SameIdentities
  BY <1>4, RotateRefusedStep
<1>5. ASSUME NEW id \in Ids, GetMissing(id) PROVE IInv' /\ SameIdentities
  BY <1>5, GetMissingStep
<1>6. ASSUME NEW id \in Ids, NEW result \in WriteResults, GetFound(id, result)
      PROVE  IInv' /\ SameIdentities
  BY <1>6, GetFoundStep
<1>7. ASSUME NEW id \in Ids, NEW result \in WriteResults, Destroy(id, result)
      PROVE  IInv' /\ SameIdentities
  BY <1>7, DestroyStep
<1>8. CASE RestartProcess
  BY <1>8, LoadStep DEF RestartProcess
<1>9. CASE PowerLoss
  BY <1>9, LoadStep DEF PowerLoss
<1>10. CASE Tick
  BY <1>10, TickStep
<1>11. CASE UNCHANGED vars
  BY <1>11 DEF vars, IInv, TypeOK, CapacityInv, IdInv, CoherentSession, CoherentItem,
               SameLogin, SameItem
<1>12. QED
  BY <1>1, <1>2, <1>3, <1>4, <1>5, <1>6, <1>7, <1>8, <1>9, <1>10, <1>11 DEF Next

\* The inductive invariant holds in every reachable state of the session
\* manager, whatever its configuration and whichever writes fail.
THEOREM Invariance == Spec => []IInv
BY InitInv, NextInv, PTL DEF Spec

\* Type correctness of the manager's table, its file and its clock.
THEOREM TypeCorrect == Spec => []TypeOK
<1>1. IInv => TypeOK
  BY DEF IInv
<1>2. QED BY <1>1, Invariance, PTL

\* A session that logout (Destroy) or Rotate ended never comes back: neither a
\* restart nor a power loss finds it in what persistLocked left on the disk.
THEOREM RevocationIsFinal == Spec => []RevokedStaysRevoked
<1>1. IInv => RevokedStaysRevoked
  BY DEF IInv, IdInv, RevokedStaysRevoked, TypeOK
<1>2. QED BY <1>1, Invariance, PTL

\* Whatever writes failed before, loadPersistent accepts the session file.
THEOREM RestartIsAccepted == Spec => []RestartAccepted
<1>1. ASSUME IInv, NEW f \in {file, synced} PROVE Loadable(f)
  <2>1. ASSUME NEW i \in Live(f.items) PROVE validPersistentSession(f.items[i])
    <3>1. i \in Ids /\ f.items[i] # None
      BY DEF Live
    <3>2. f.items[i] \in StoredSession /\ now \in Nat
      BY <1>1, <3>1 DEF IInv, TypeOK, SessionFile
    <3>3. f.items[i].createdAt <= f.items[i].lastSeenAt /\ f.items[i].lastSeenAt <= now
      BY <1>1, <3>1 DEF IInv, IdInv, CoherentItem
    <3>4. QED BY <3>2, <3>3, ConfigAssumption DEF validPersistentSession, StoredSession
  <2>2. Cardinality(Live(f.items)) <= MaximumSessions
    BY <1>1 DEF IInv, CapacityInv
  <2>3. QED BY <2>1, <2>2 DEF Loadable
<1>2. IInv => RestartAccepted
  BY <1>1 DEF RestartAccepted
<1>3. QED BY <1>2, Invariance, PTL

\* No operation, restart or power loss changes the state, the owner or the
\* creation time behind an identifier.
THEOREM IdentityIsImmutable == Spec => IdentityImmutable
BY NextInv, Invariance, PTL DEF Spec, IdentityImmutable

\* ErrCapacity never costs a user the live session Rotate was called with.
THEOREM LiveRotationSucceeds == Spec => LiveRotationNotRefused
<1>1. ASSUME IInv, NEW id \in Ids, RotateRefused(id) PROVE sessions[id] = None
  <2> DEFINE kept == removeExpired(Without(sessions, id))
  <2>1. Live(kept) \subseteq Live(sessions) \ {id}
    BY <1>1, DerivedWithout, DerivedKept
  <2>2. SUFFICES ASSUME sessions[id] # None PROVE FALSE
    OBVIOUS
  <2>3. id \in Live(sessions) /\ IsFiniteSet(Live(sessions))
    BY <2>2, IdsAssumption, FS_Subset DEF Live
  <2>4. /\ Cardinality(Live(sessions) \ {id}) = Cardinality(Live(sessions)) - 1
        /\ IsFiniteSet(Live(sessions) \ {id})
    BY <2>3, FS_RemoveElement
  <2>5. Cardinality(Live(kept)) <= Cardinality(Live(sessions) \ {id})
    BY <2>1, <2>4, FS_Subset
  <2>6. /\ Cardinality(Live(sessions)) \in Nat /\ Cardinality(Live(kept)) \in Nat
        /\ Cardinality(Live(sessions)) <= MaximumSessions
    BY <1>1, <2>1, <2>3, <2>4, FS_Subset, FS_CardinalityType DEF IInv, CapacityInv
  <2>7. Cardinality(Live(kept)) >= MaximumSessions
    BY <1>1 DEF RotateRefused, Full
  <2> HIDE DEF kept
  <2>8. QED BY <2>4, <2>5, <2>6, <2>7, ConfigAssumption
<1>2. IInv /\ [Next]_vars => [\A id \in Ids : RotateRefused(id) => sessions[id] = None]_vars
  BY <1>1
<1>3. QED BY <1>2, Invariance, PTL DEF Spec, LiveRotationNotRefused

\* A table that keeps every usable session but id, once written, loses id only.
LEMMA WrittenLosesOne ==
    ASSUME IInv, NEW S, NEW id, NEW result \in WriteResults, persistLocked(S, result),
           \A i \in Ids \ {id} : usable(sessions[i]) => S[i] = sessions[i]
    PROVE  Lost \subseteq {id}
<1> SUFFICES ASSUME NEW i \in Lost, i # id PROVE FALSE
  OBVIOUS
<1>1. /\ i \in Ids /\ usable(sessions[i]) /\ sessions[i].state = "authenticated"
      /\ file.items[i] # None /\ file'.items[i] = None
  BY DEF Lost, Live
<1>2. file'.items = persistedItems(S)
  BY <1>1 DEF persistLocked
<1>3. S[i] = sessions[i]
  BY <1>1
<1>4. file'.items[i] = [owner |-> S[i].owner, createdAt |-> S[i].createdAt,
                        lastSeenAt |-> S[i].lastSeenAt]
  BY <1>1, <1>2, <1>3 DEF persistedItems
<1>5. file'.items[i] # None
  <2>1. sessions[i] \in Session /\ validIdentity(sessions[i].state, sessions[i].owner)
    BY <1>1 DEF IInv, IdInv, CoherentSession, TypeOK, usable
  <2>2. sessions[i].owner \in Owners
    BY <1>1, <2>1 DEF Session, validIdentity
  <2>3. file'.items[i] \in StoredSession
    BY <1>3, <1>4, <2>1, <2>2 DEF Session, StoredSession
  <2>4. QED BY <2>3, NoneAssumption
<1>6. QED BY <1>1, <1>5

\* A step that writes nothing loses nothing.
LEMMA UnwrittenLosesNone == file' = file => Lost = {}
BY DEF Lost

\* The only usable login that a step takes off the disk is the one its Destroy or Rotate
\* was called with, or one that a power loss finds not to have reached the disk.
THEOREM OthersAreKept == Spec => OthersStayOnDisk
<1> DEFINE Held(i) == \/ Lost = {i} /\ Ends(i)
                      \/ PowerLoss /\ synced.items[i] = None
<1> SUFFICES ASSUME IInv, [Next]_vars PROVE \A id \in Lost : Held(id)
  BY Invariance, PTL DEF Spec, OthersStayOnDisk
<1> SUFFICES ASSUME NEW x \in Lost PROVE Held(x)
  OBVIOUS
<1>0. /\ x \in Ids /\ usable(sessions[x]) /\ sessions[x].state = "authenticated"
      /\ file.items[x] # None /\ file'.items[x] = None
  BY DEF Lost
<1>1. ASSUME NEW id \in Ids, NEW state \in States, NEW owner \in Owners \cup {None},
             NEW result \in WriteResults, Create(id, state, owner, result)
      PROVE  FALSE
  <2> DEFINE grown == createLocked(removeExpired(sessions), id, state, owner)
  <2>1. \A i \in Ids \ {id} : usable(sessions[i]) => grown[i] = sessions[i]
    BY DEF createLocked, removeExpired
  <2>2. persistLocked(grown, result) \/ file' = file
    BY <1>1 DEF Create, storage
  <2> HIDE DEF grown
  <2>3. Lost \subseteq {id}
    BY <2>1, <2>2, WrittenLosesOne, UnwrittenLosesNone
  <2>4. sessions[id] = None
    BY <1>1 DEF Create, IInv, IdInv
  <2>5. QED BY <1>0, <2>3, <2>4 DEF usable
<1>2. ASSUME NEW id \in Ids, NEW new \in Ids, NEW state \in States,
             NEW owner \in Owners \cup {None}, NEW result \in WriteResults,
             Rotate(id, new, state, owner, result)
      PROVE  Held(x)
  <2> DEFINE grown == createLocked(removeExpired(Without(sessions, id)), new, state, owner)
  <2>1. new \notin issued /\ sessions \in [Ids -> Session \cup {None}] /\ sessions[new] = None
    BY <1>2 DEF Rotate, IInv, IdInv, TypeOK
  <2>2. \A i \in Ids \ {id} : usable(sessions[i]) => i # new
    BY <2>1 DEF usable
  <2>3. \A i \in Ids \ {id} : usable(sessions[i]) => grown[i] = sessions[i]
    BY <2>1, <2>2 DEF createLocked, removeExpired, Without
  <2>4. persistLocked(grown, result) \/ file' = file
    BY <1>2 DEF Rotate, storage
  <2> HIDE DEF grown
  <2>5. Lost \subseteq {id}
    BY <2>3, <2>4, WrittenLosesOne, UnwrittenLosesNone
  <2>6. Ends(id)
    BY <1>2 DEF Ends
  <2>7. x = id /\ Lost = {x}
    BY <2>5
  <2>8. QED BY <2>6, <2>7
<1>3. ASSUME NEW id \in Ids, NEW result \in WriteResults, GetFound(id, result)
      PROVE  FALSE
  <2> DEFINE seen == [sessions EXCEPT ![id].lastSeenAt = now]
  <2>1. \A i \in Ids \ {id} : usable(sessions[i]) => seen[i] = sessions[i]
    BY DEF IInv, TypeOK
  <2>2. persistLocked(seen, result) \/ file' = file
    BY <1>3 DEF GetFound, storage
  <2>3. /\ sessions[id] \in Session /\ sessions[id] # None /\ ~expired(sessions[id])
        /\ now \in Nat /\ sessions \in [Ids -> Session \cup {None}]
    BY <1>3 DEF GetFound, usable, IInv, TypeOK
  <2>4. /\ seen[id] \in Session /\ seen[id] # None
        /\ seen[id].state = sessions[id].state /\ seen[id].owner = sessions[id].owner
        /\ seen[id].createdAt = sessions[id].createdAt /\ seen[id].lastSeenAt = now
    BY <2>3, NoneAssumption DEF Session
  <2> HIDE DEF seen
  <2>5. Lost \subseteq {id}
    BY <2>1, <2>2, WrittenLosesOne, UnwrittenLosesNone
  <2>6. x = id /\ sessions[id].state = "authenticated"
    BY <1>0, <2>5
  <2>7. usable(seen[id])
    BY <2>3, <2>4, ConfigAssumption DEF usable, expired, Session
  <2>8. file'.items = persistedItems(seen)
    BY <1>0, <2>2 DEF persistLocked
  <2>9. file'.items[id] = [owner |-> seen[id].owner, createdAt |-> seen[id].createdAt,
                           lastSeenAt |-> seen[id].lastSeenAt]
    BY <2>4, <2>6, <2>7, <2>8 DEF persistedItems
  <2>10. seen[id].owner \in Owners
    BY <2>3, <2>4, <2>6 DEF IInv, IdInv, CoherentSession, validIdentity, Session
  <2>11. file'.items[id] \in StoredSession
    BY <2>4, <2>9, <2>10 DEF Session, StoredSession
  <2>12. QED BY <1>0, <2>6, <2>11, NoneAssumption
<1>4. ASSUME NEW id \in Ids, NEW result \in WriteResults, Destroy(id, result)
      PROVE  Held(x)
  <2> DEFINE rest == Without(sessions, id)
  <2>1. \A i \in Ids \ {id} : usable(sessions[i]) => rest[i] = sessions[i]
    BY DEF Without, IInv, TypeOK
  <2>2. persistLocked(rest, result) \/ file' = file
    BY <1>4 DEF Destroy, storage
  <2> HIDE DEF rest
  <2>3. Lost \subseteq {id}
    BY <2>1, <2>2, WrittenLosesOne, UnwrittenLosesNone
  <2>4. Ends(id)
    BY <1>4 DEF Ends
  <2>5. x = id /\ Lost = {x}
    BY <2>3
  <2>6. QED BY <2>4, <2>5
\* What is not in the file any more was not in what the disk is sure to keep.
<1>5. ASSUME PowerLoss PROVE Held(x)
  BY <1>0, <1>5 DEF PowerLoss
<1>6. ASSUME \/ CreateRefused
             \/ \E id \in Ids : RotateRefused(id) \/ RotateWithoutEntropy(id) \/ GetMissing(id)
             \/ RestartProcess
             \/ Tick
             \/ UNCHANGED vars
      PROVE  FALSE
  <2>1. file' = file
    BY <1>6 DEF CreateRefused, RotateRefused, RotateWithoutEntropy, GetMissing,
                RestartProcess, Tick, storage, vars
  <2>2. QED BY <2>1, UnwrittenLosesNone
<1> HIDE DEF Held
<1>7. QED BY <1>1, <1>2, <1>3, <1>4, <1>5, <1>6 DEF Next

-----------------------------------------------------------------------------
(* The manager implements the store of SessionStore. *)

\* Whoever a record on the disk is of is who the identifier is of.
LEMMA RecordIsHolders ==
    ASSUME IInv, NEW i \in Ids, NEW e \in {file.items[i], synced.items[i]}, e # None
    PROVE  /\ Holder[i] = Authenticated(e.owner)
           /\ e.owner \in Owners
           /\ Holder[i] # None
<1>1. e \in StoredSession
  BY DEF IInv, TypeOK, SessionFile
<1>2. e.owner \in Owners
  BY <1>1 DEF StoredSession
<1>3. IdInv(i)
  BY DEF IInv
<1>4. Holder[i] = Authenticated(e.owner)
  <2>1. CASE sessions[i] # None
    BY <1>3, <2>1 DEF IdInv, SameLogin, Authenticated, Holder
  <2>2. CASE sessions[i] = None
    BY <1>3, <2>2 DEF IdInv, SameItem, Holder
  <2>3. QED BY <2>1, <2>2
<1>5. Authenticated(e.owner) \in Identity
  BY <1>2 DEF Authenticated, Identity, AllStates
<1>6. QED BY <1>2, <1>4, <1>5, IdentityAssumption

\* A session that a step neither begins nor ends keeps its identity or lapses: where it is
\* no longer in memory the disk has no record of it but those it had.
LEMMA Drifts ==
    ASSUME IInv, IInv', NEW i \in Ids,
           i \in issued' <=> i \in issued, i \in revoked' <=> i \in revoked,
           \/ sessions'[i] = None
           \/ /\ sessions[i] # None
              /\ sessions'[i].state = sessions[i].state /\ sessions'[i].owner = sessions[i].owner,
           sessions'[i] = None =>
              /\ file'.items[i] \in {None, file.items[i], synced.items[i]}
              /\ synced'.items[i] \in {None, file.items[i], synced.items[i]}
    PROVE  Store!Keeps(i) \/ Store!Lapses(i)
<1> DEFINE h == Holder[i]
           k == Holder'[i]
<1>1. CASE sessions'[i] # None
  BY <1>1 DEF Store!Keeps, Phase, Holder
<1>2. CASE i \notin issued \/ i \in revoked
  <2>1. IdInv(i) /\ IdInv(i)'
    BY DEF IInv
  <2>2. /\ sessions[i] = None /\ file.items[i] = None /\ synced.items[i] = None
        /\ sessions'[i] = None /\ file'.items[i] = None /\ synced'.items[i] = None
    BY <1>2, <2>1 DEF IdInv
  <2>3. QED BY <1>2, <2>2 DEF Store!Keeps, Phase, Holder
<1>3. CASE sessions'[i] = None /\ i \in issued /\ i \notin revoked
  <2>1. Phase[i] \in {"live", "lapsed"} /\ Phase'[i] = "lapsed"
    BY <1>3 DEF Phase
  <2>2. k = None \/ \E e \in {file.items[i], synced.items[i]} : e # None /\ k = Authenticated(e.owner)
    BY <1>3 DEF Holder
  <2>3. k \in ({h} \cap {Authenticated(o) : o \in Owners}) \cup {None}
    BY <2>2, RecordIsHolders
  <2>4. QED BY <2>1, <2>3 DEF Store!Lapses
<1>4. QED BY <1>1, <1>2, <1>3

\* What a written table says of an identifier that it does not hold.
LEMMA WrittenAt ==
    ASSUME NEW T, NEW i \in Ids, T[i] = None
    PROVE  written(T).items[i] = None
BY DEF written, persistedItems, usable

\* A step of the table: those that are not moved drift.
LEMMA TableDrifts ==
    ASSUME IInv, IInv', SameIdentities, NEW i \in Ids, NEW T,
           i \in issued' <=> i \in issued, i \in revoked' <=> i \in revoked,
           sessions'[i] # None => sessions[i] # None,
           sessions'[i] = None => T[i] = None,
           file' \in {file, written(T)}, synced' \in {synced, written(T)}
    PROVE  Store!Keeps(i) \/ Store!Lapses(i)
<1>1. ASSUME sessions'[i] = None
      PROVE  /\ file'.items[i] \in {None, file.items[i], synced.items[i]}
             /\ synced'.items[i] \in {None, file.items[i], synced.items[i]}
  <2>1. written(T).items[i] = None
    BY <1>1, WrittenAt
  <2>2. QED BY <2>1
<1>2. ASSUME sessions'[i] # None
      PROVE  sessions'[i].state = sessions[i].state /\ sessions'[i].owner = sessions[i].owner
  BY <1>2 DEF SameIdentities, Live
<1>3. QED BY <1>1, <1>2, Drifts

\* An identifier that is issued begins a session, or leaves a record of it at most.
LEMMA Begins ==
    ASSUME IInv, IInv', NEW i \in Ids, i \notin issued, i \in issued', i \notin revoked'
    PROVE  Store!Starts(i)
<1>1. Phase[i] = "fresh"
  BY DEF Phase
<1>2. CASE sessions'[i] # None
  <2>1. sessions'[i] \in Session
    BY <1>2 DEF IInv, TypeOK
  <2>2. Holder'[i] \in Identity
    BY <1>2, <2>1 DEF Identity, Session, Holder
  <2>3. QED BY <1>1, <1>2, <2>2 DEF Store!Starts, Phase, Holder
<1>3. CASE sessions'[i] = None
  <2>1. file'.items[i] \in StoredSession \cup {None} /\ synced'.items[i] \in StoredSession \cup {None}
    BY DEF IInv, TypeOK, SessionFile
  <2>2. Holder'[i] \in {Authenticated(o) : o \in Owners} \cup {None}
    BY <1>3, <2>1 DEF StoredSession, Holder
  <2>3. QED BY <1>1, <1>3, <2>2 DEF Store!Starts, Phase, Holder
<1>4. QED BY <1>2, <1>3

\* A live session that is revoked ends.
LEMMA Finishes ==
    ASSUME IInv, IInv', NEW i \in Ids, sessions[i] # None, i \in issued', i \in revoked'
    PROVE  Store!Ends(i)
<1>1. IdInv(i) /\ IdInv(i)'
  BY DEF IInv
<1>2. i \in issued /\ i \notin revoked
  BY <1>1 DEF IdInv
<1>3. sessions'[i] = None /\ file'.items[i] = None /\ synced'.items[i] = None
  BY <1>1 DEF IdInv
<1>4. QED BY <1>2, <1>3 DEF Store!Ends, Phase, Holder

-----------------------------------------------------------------------------
(* The methods, as steps of the store. *)

\* Create issues one identifier, whatever the outcome of its write.
LEMMA CreateIssues ==
    ASSUME IInv, NEW id \in Ids, NEW state \in States,
           NEW owner \in Owners \cup {None}, NEW result \in WriteResults,
           Create(id, state, owner, result)
    PROVE  Store!Issue(id)
<1> DEFINE kept == removeExpired(sessions)
           grown == createLocked(kept, id, state, owner)
<1>1. IInv' /\ SameIdentities
  BY CreateStep
<1>2. id \notin issued /\ issued' = issued \cup {id} /\ revoked' = revoked
  BY DEF Create
<1>3. id \notin revoked
  BY <1>2 DEF IInv
<1>4. Store!Starts(id)
  BY <1>1, <1>2, <1>3, Begins
<1>5. file' \in {file, written(grown)} /\ synced' \in {synced, written(grown)}
  BY DEF Create, persistLocked, storage, written
<1>6. \A i \in Ids \ {id} : grown[i] = kept[i]
  BY DEF createLocked, removeExpired
<1>7. \A i \in Ids : kept[i] # None => sessions[i] # None
  BY DEF removeExpired
<1>8. sessions' = grown \/ sessions' = kept
  BY DEF Create
<1> HIDE DEF kept, grown
<1>9. ASSUME NEW i \in Ids \ {id} PROVE Store!Keeps(i) \/ Store!Lapses(i)
  <2>1. /\ i \in issued' <=> i \in issued
        /\ i \in revoked' <=> i \in revoked
        /\ sessions'[i] # None => sessions[i] # None
        /\ sessions'[i] = None => grown[i] = None
    BY <1>2, <1>6, <1>7, <1>8
  <2>2. QED BY <1>1, <1>5, <2>1, TableDrifts
<1>10. QED BY <1>4, <1>9 DEF Store!Issue, Store!OthersDrift

\* Rotate ends a live session with the beginning of the new one; where the write fails, or
\* the session was gone, it issues an identifier.
LEMMA RotateReplaces ==
    ASSUME IInv, NEW id \in Ids, NEW new \in Ids, NEW state \in States,
           NEW owner \in Owners \cup {None}, NEW result \in WriteResults,
           Rotate(id, new, state, owner, result)
    PROVE  Store!Replace(id, new) \/ Store!Issue(new)
<1> DEFINE kept == removeExpired(Without(sessions, id))
           grown == createLocked(kept, new, state, owner)
           back == [kept EXCEPT ![id] = sessions[id]]
<1>1. IInv' /\ SameIdentities
  BY RotateStep
<1>2. /\ id \in issued /\ new \notin issued /\ issued' = issued \cup {new}
      /\ revoked' = IF result = "ok" /\ sessions[id] # None THEN revoked \cup {id} ELSE revoked
  BY DEF Rotate
<1>3. new \notin revoked'
  BY <1>2 DEF IInv
<1>4. Store!Starts(new)
  BY <1>1, <1>2, <1>3, Begins
<1>5. file' \in {file, written(grown)} /\ synced' \in {synced, written(grown)}
  BY DEF Rotate, persistLocked, storage, written
<1>6. /\ \A i \in Ids \ {new} : grown[i] = kept[i]
      /\ \A i \in Ids : back[i] = IF i = id THEN sessions[id] ELSE kept[i]
  BY DEF createLocked, removeExpired
<1>7. \A i \in Ids : kept[i] # None => sessions[i] # None /\ i # id
  BY DEF removeExpired, Without, usable, IInv, TypeOK
<1>8. sessions' = grown \/ (sessions' = back /\ result # "ok")
  BY DEF Rotate
<1> HIDE DEF kept, grown, back
<1>9. ASSUME NEW i \in Ids \ {new}, i \in revoked' <=> i \in revoked
      PROVE  Store!Keeps(i) \/ Store!Lapses(i)
  <2>1. /\ i \in issued' <=> i \in issued
        /\ sessions'[i] # None => sessions[i] # None
        /\ sessions'[i] = None => grown[i] = None
    BY <1>2, <1>6, <1>7, <1>8
  <2>2. QED BY <1>1, <1>5, <1>9, <2>1, TableDrifts
<1>10. CASE result = "ok" /\ sessions[id] # None
  <2>1. Store!Ends(id)
    BY <1>1, <1>2, <1>10, Finishes
  <2>2. \A i \in Ids \ {id, new} : Store!Keeps(i) \/ Store!Lapses(i)
    BY <1>2, <1>9, <1>10
  <2>3. QED BY <1>4, <2>1, <2>2 DEF Store!Replace, Store!OthersDrift
<1>11. CASE ~(result = "ok" /\ sessions[id] # None)
  <2>1. \A i \in Ids \ {new} : Store!Keeps(i) \/ Store!Lapses(i)
    BY <1>2, <1>9, <1>11
  <2>2. QED BY <1>4, <2>1 DEF Store!Issue, Store!OthersDrift
<1>12. QED BY <1>10, <1>11

\* Destroy ends a live session, or changes nothing that matters.
LEMMA DestroyEnds ==
    ASSUME IInv, NEW id \in Ids, NEW result \in WriteResults, Destroy(id, result)
    PROVE  Store!End(id) \/ Store!Reopen
<1> DEFINE gone == Without(sessions, id)
<1>1. IInv' /\ SameIdentities
  BY DestroyStep
<1>2. /\ id \in issued /\ issued' = issued
      /\ revoked' = IF result = "ok" /\ sessions[id] # None THEN revoked \cup {id} ELSE revoked
  BY DEF Destroy
<1>3. file' \in {file, written(gone)} /\ synced' \in {synced, written(gone)}
  BY DEF Destroy, persistLocked, storage, written
<1>4. \A i \in Ids : gone[i] = IF i = id THEN None ELSE sessions[i]
  BY DEF Without, IInv, TypeOK
<1>5. sessions' = gone \/ sessions' = sessions
  BY DEF Destroy
<1> HIDE DEF gone
<1>6. ASSUME NEW i \in Ids, i \in revoked' <=> i \in revoked
      PROVE  Store!Keeps(i) \/ Store!Lapses(i)
  <2>1. /\ sessions'[i] # None => sessions[i] # None
        /\ sessions'[i] = None => gone[i] = None
    BY <1>4, <1>5
  <2>2. QED BY <1>1, <1>2, <1>3, <1>6, <2>1, TableDrifts
<1>7. CASE result = "ok" /\ sessions[id] # None
  <2>1. Store!Ends(id)
    BY <1>1, <1>2, <1>7, Finishes
  <2>2. \A i \in Ids \ {id} : Store!Keeps(i) \/ Store!Lapses(i)
    BY <1>2, <1>6, <1>7
  <2>3. QED BY <2>1, <2>2 DEF Store!End, Store!OthersDrift
<1>8. CASE ~(result = "ok" /\ sessions[id] # None)
  BY <1>2, <1>6, <1>8 DEF Store!Reopen
<1>9. QED BY <1>7, <1>8

\* Get, and what is refused, let sessions lapse at most; so does the clock.
LEMMA QuietDrifts ==
    ASSUME IInv,
           \/ CreateRefused
           \/ \E id \in Ids : RotateRefused(id) \/ RotateWithoutEntropy(id) \/ GetMissing(id)
           \/ \E id \in Ids, result \in WriteResults : GetFound(id, result)
           \/ Tick
    PROVE  Store!Reopen
<1>1. IInv' /\ SameIdentities
  BY CreateRefusedStep, RotateRefusedStep, GetMissingStep, GetFoundStep, TickStep
<1>2. issued' = issued /\ revoked' = revoked
  BY DEF CreateRefused, RotateRefused, RotateWithoutEntropy, GetMissing, GetFound, Tick
<1>3. file' \in {file, written(sessions')} /\ synced' \in {synced, written(sessions')}
  BY DEF CreateRefused, RotateRefused, RotateWithoutEntropy, GetMissing, GetFound, Tick,
         storage, persistLocked, written
<1>4. \A i \in Ids : sessions'[i] # None => sessions[i] # None
  <2>1. CASE CreateRefused
    BY <2>1 DEF CreateRefused, removeExpired
  <2>2. ASSUME NEW id \in Ids, RotateRefused(id) \/ RotateWithoutEntropy(id) \/ GetMissing(id)
        PROVE  \A i \in Ids : sessions'[i] # None => sessions[i] # None
    BY <2>2 DEF RotateRefused, RotateWithoutEntropy, GetMissing, removeExpired, Without, usable,
                IInv, TypeOK
  <2>3. ASSUME NEW id \in Ids, NEW result \in WriteResults, GetFound(id, result)
        PROVE  \A i \in Ids : sessions'[i] # None => sessions[i] # None
    BY <2>3 DEF GetFound, usable, IInv, TypeOK
  <2>4. CASE Tick
    BY <2>4 DEF Tick
  <2>5. QED BY <2>1, <2>2, <2>3, <2>4
<1>5. ASSUME NEW i \in Ids PROVE Store!Keeps(i) \/ Store!Lapses(i)
  BY <1>1, <1>2, <1>3, <1>4, TableDrifts
<1>6. QED BY <1>5 DEF Store!Reopen

\* A manager that is loaded: who has a record is back, with the identity of the record.
LEMMA LoadReopens ==
    ASSUME IInv, NEW f \in {file, synced}, Load(f),
           \/ file' = file /\ synced' = synced
           \/ file' = f /\ synced' = f,
           UNCHANGED <<now, issued, revoked>>
    PROVE  Store!Reopen
<1>1. IInv' /\ SameIdentities
  BY LoadStep
<1>2. SUFFICES ASSUME NEW i \in Ids
               PROVE  Store!Keeps(i) \/ Store!Lapses(i) \/ Store!Returns(i)
  BY DEF Store!Reopen
<1>3. IdInv(i) /\ IdInv(i)'
  BY <1>1 DEF IInv
<1>4. CASE sessions'[i] = None \/ sessions[i] # None
  <2>1. /\ file'.items[i] \in {None, file.items[i], synced.items[i]}
        /\ synced'.items[i] \in {None, file.items[i], synced.items[i]}
    OBVIOUS
  <2>2. ASSUME sessions'[i] # None
        PROVE  sessions'[i].state = sessions[i].state /\ sessions'[i].owner = sessions[i].owner
    BY <1>1, <1>4, <2>2 DEF SameIdentities, Live
  <2>3. QED BY <1>1, <1>4, <2>1, <2>2, Drifts
<1>5. CASE sessions'[i] # None /\ sessions[i] = None
  <2>1. f.items[i] # None /\ sessions'[i] = restored(f.items[i])
    BY <1>5 DEF Load, loadedSessions
  <2>2. Holder[i] = Authenticated(f.items[i].owner) /\ Holder[i] # None
    BY <2>1, RecordIsHolders
  <2>3. Holder'[i] = Authenticated(f.items[i].owner)
    BY <1>5, <2>1 DEF Holder, restored, Authenticated
  <2>4. i \in issued /\ i \notin revoked
    BY <1>3, <1>5 DEF IdInv
  <2>5. Phase[i] = "lapsed" /\ Phase'[i] = "live"
    BY <1>5, <2>4 DEF Phase
  <2>6. QED BY <2>2, <2>3, <2>5 DEF Store!Returns
<1>6. QED BY <1>4, <1>5

\* The first state of the manager is the first state of the store.
LEMMA InitStore == Init => Store!StoreInit
<1> SUFFICES ASSUME Init PROVE Store!StoreInit
  OBVIOUS
<1>1. Phase = [i \in Ids |-> "fresh"]
  BY DEF Init, Phase
<1>2. \A i \in Ids : sessions[i] = None /\ file.items[i] = None /\ synced.items[i] = None
  BY DEF Init, NoFile
<1>3. Holder = [i \in Ids |-> None]
  BY <1>2 DEF Holder
<1>4. QED BY <1>1, <1>3 DEF Store!StoreInit

\* Every step of the manager is a step of the store, or changes nothing of it.
LEMMA NextStore == IInv /\ [Next]_vars => [Store!StoreNext]_<<Phase, Holder>>
<1> SUFFICES ASSUME IInv, [Next]_vars PROVE [Store!StoreNext]_<<Phase, Holder>>
  OBVIOUS
<1>1. ASSUME NEW id \in Ids, NEW state \in States, NEW owner \in Owners \cup {None},
             NEW result \in WriteResults, Create(id, state, owner, result)
      PROVE  Store!StoreNext
  BY <1>1, CreateIssues DEF Store!StoreNext
<1>2. ASSUME NEW id \in Ids, NEW new \in Ids, NEW state \in States,
             NEW owner \in Owners \cup {None},
             NEW result \in WriteResults, Rotate(id, new, state, owner, result)
      PROVE  Store!StoreNext
  BY <1>2, RotateReplaces DEF Store!StoreNext
<1>3. ASSUME NEW id \in Ids, NEW result \in WriteResults, Destroy(id, result)
      PROVE  Store!StoreNext
  BY <1>3, DestroyEnds DEF Store!StoreNext
<1>4. CASE \/ CreateRefused
           \/ \E id \in Ids : RotateRefused(id) \/ RotateWithoutEntropy(id) \/ GetMissing(id)
           \/ \E id \in Ids, result \in WriteResults : GetFound(id, result)
           \/ Tick
  BY <1>4, QuietDrifts DEF Store!StoreNext
<1>5. CASE RestartProcess \/ PowerLoss
  BY <1>5, LoadReopens DEF RestartProcess, PowerLoss, Store!StoreNext
<1>6. CASE UNCHANGED vars
  BY <1>6 DEF vars, Phase, Holder
<1>7. QED BY <1>1, <1>2, <1>3, <1>4, <1>5, <1>6 DEF Next

\* The session manager implements the store: through failed writes, restarts, power
\* losses, timeouts and a full table, an identifier is issued once, for one identity, and
\* one whose end was reported is not live again.
THEOREM StoreIsImplemented == Spec => ImplementsStore
BY InitStore, NextStore, Invariance, PTL DEF Spec, ImplementsStore, Store!StoreSpec, Store!storeVars

-----------------------------------------------------------------------------
(* What a restart loses of a session. *)

\* OlderUsesOnDisk is inductive once the last write is known not to be in the future.
UsesInv == lastPersistence <= now /\ OlderUsesOnDisk

\* A step that touches sessions, and may write a table that agrees with the new one.
LEMMA UsesStep ==
    ASSUME IInv, UsesInv, NEW T, now' = now,
           \A i \in Ids : sessions'[i] # None =>
              \/ sessions'[i].lastSeenAt = now
              \/ sessions[i] # None /\ sessions'[i].lastSeenAt = sessions[i].lastSeenAt,
           \A i \in Ids : T[i] # None /\ sessions'[i] # None => T[i] = sessions'[i],
           \/ file' = file /\ lastPersistence' = lastPersistence
           \/ file' = written(T) /\ lastPersistence' \in {lastPersistence, now}
    PROVE  UsesInv'
<1>1. lastPersistence \in Int /\ now \in Int
  BY DEF IInv, TypeOK
<1>2. lastPersistence' <= now'
  BY <1>1 DEF UsesInv
<1>3. ASSUME NEW i \in Ids, sessions'[i] # None, file'.items[i] # None,
             sessions'[i].lastSeenAt < lastPersistence'
      PROVE  file'.items[i].lastSeenAt = sessions'[i].lastSeenAt
  <2>1. CASE file' = file /\ lastPersistence' = lastPersistence
    <3>1. sessions'[i].lastSeenAt # now
      BY <1>1, <1>3, <2>1 DEF UsesInv
    <3>2. sessions[i] # None /\ sessions'[i].lastSeenAt = sessions[i].lastSeenAt
      BY <1>3, <3>1
    <3>3. QED BY <1>3, <2>1, <3>2 DEF UsesInv, OlderUsesOnDisk, Live
  <2>2. CASE file' = written(T)
    <3>1. T[i] # None
      BY <1>3, <2>2, WrittenAt
    <3>2. T[i] = sessions'[i]
      BY <1>3, <3>1
    <3>3. file'.items[i].lastSeenAt = T[i].lastSeenAt
      BY <1>3, <2>2 DEF written, persistedItems
    <3>4. QED BY <3>2, <3>3
  <2>3. QED BY <2>1, <2>2
<1>4. QED BY <1>2, <1>3 DEF UsesInv, OlderUsesOnDisk, Live

\* persistLocked moves the time of the last write only with the file.
LEMMA WriteMoves ==
    ASSUME NEW T, NEW result, persistLocked(T, result)
    PROVE  \/ file' = file /\ lastPersistence' = lastPersistence
           \/ file' = written(T) /\ lastPersistence' \in {lastPersistence, now}
BY DEF persistLocked, written

\* Every step keeps the record of an earlier use.
LEMMA NextUses == IInv /\ UsesInv /\ [Next]_vars => UsesInv'
<1> SUFFICES ASSUME IInv, UsesInv, [Next]_vars PROVE UsesInv'
  OBVIOUS
<1>0. now \in Nat /\ lastPersistence \in Int /\ sessions \in [Ids -> Session \cup {None}]
  BY DEF IInv, TypeOK
<1>1. ASSUME NEW id \in Ids, NEW state \in States, NEW owner \in Owners \cup {None},
             NEW result \in WriteResults, Create(id, state, owner, result)
      PROVE  UsesInv'
  <2> DEFINE kept == removeExpired(sessions)
             grown == createLocked(kept, id, state, owner)
  <2>1. \A i \in Ids : kept[i] \in {None, sessions[i]}
    BY DEF removeExpired
  <2>2. sessions[id] = None
    BY <1>1 DEF Create, IInv, IdInv
  <2>3. grown[id].lastSeenAt = now /\ \A i \in Ids \ {id} : grown[i] = kept[i]
    BY DEF createLocked, removeExpired
  <2>4. sessions' = grown \/ sessions' = kept
    BY <1>1 DEF Create
  <2>5. \/ file' = file /\ lastPersistence' = lastPersistence
        \/ file' = written(grown) /\ lastPersistence' \in {lastPersistence, now}
    BY <1>1, WriteMoves DEF Create, storage
  <2>6. now' = now
    BY <1>1 DEF Create
  <2> HIDE DEF kept, grown
  <2>7. \A i \in Ids : sessions'[i] # None =>
              \/ sessions'[i].lastSeenAt = now
              \/ sessions[i] # None /\ sessions'[i].lastSeenAt = sessions[i].lastSeenAt
    BY <2>1, <2>3, <2>4
  <2>8. \A i \in Ids : grown[i] # None /\ sessions'[i] # None => grown[i] = sessions'[i]
    BY <2>1, <2>2, <2>3, <2>4
  <2>9. QED BY <2>5, <2>6, <2>7, <2>8, UsesStep
<1>2. ASSUME NEW id \in Ids, NEW new \in Ids, NEW state \in States,
             NEW owner \in Owners \cup {None}, NEW result \in WriteResults,
             Rotate(id, new, state, owner, result)
      PROVE  UsesInv'
  <2> DEFINE kept == removeExpired(Without(sessions, id))
             grown == createLocked(kept, new, state, owner)
             back == [kept EXCEPT ![id] = sessions[id]]
  <2>1. kept[id] = None /\ \A i \in Ids : kept[i] \in {None, sessions[i]}
    BY <1>0 DEF removeExpired, Without, usable
  <2>2. sessions[new] = None /\ id # new
    BY <1>2 DEF Rotate, IInv, IdInv
  <2>3. /\ grown[new].lastSeenAt = now /\ \A i \in Ids \ {new} : grown[i] = kept[i]
        /\ back[id] = sessions[id] /\ \A i \in Ids \ {id} : back[i] = kept[i]
    BY DEF createLocked, removeExpired
  <2>4. sessions' = grown \/ sessions' = back
    BY <1>2 DEF Rotate
  <2>5. \/ file' = file /\ lastPersistence' = lastPersistence
        \/ file' = written(grown) /\ lastPersistence' \in {lastPersistence, now}
    BY <1>2, WriteMoves DEF Rotate, storage
  <2>6. now' = now
    BY <1>2 DEF Rotate
  <2> HIDE DEF kept, grown, back
  <2>7. \A i \in Ids : sessions'[i] # None =>
              \/ sessions'[i].lastSeenAt = now
              \/ sessions[i] # None /\ sessions'[i].lastSeenAt = sessions[i].lastSeenAt
    BY <2>1, <2>2, <2>3, <2>4
  <2>8. \A i \in Ids : grown[i] # None /\ sessions'[i] # None => grown[i] = sessions'[i]
    BY <2>1, <2>2, <2>3, <2>4
  <2>9. QED BY <2>5, <2>6, <2>7, <2>8, UsesStep
<1>3. ASSUME NEW id \in Ids, NEW result \in WriteResults, GetFound(id, result)
      PROVE  UsesInv'
  <2>1. sessions[id] \in Session
    BY <1>0, <1>3 DEF GetFound, usable
  <2>2. \A i \in Ids : sessions'[i] =
           IF i = id THEN [sessions[id] EXCEPT !.lastSeenAt = now] ELSE sessions[i]
    BY <1>0, <1>3 DEF GetFound
  <2>3. sessions'[id].lastSeenAt = now
    BY <2>1, <2>2 DEF Session
  <2>4. \/ file' = file /\ lastPersistence' = lastPersistence
        \/ file' = written(sessions') /\ lastPersistence' \in {lastPersistence, now}
    BY <1>3, WriteMoves DEF GetFound, storage
  <2>5. now' = now
    BY <1>3 DEF GetFound
  <2>6. \A i \in Ids : sessions'[i] # None =>
              \/ sessions'[i].lastSeenAt = now
              \/ sessions[i] # None /\ sessions'[i].lastSeenAt = sessions[i].lastSeenAt
    BY <2>2, <2>3
  <2>7. QED BY <2>4, <2>5, <2>6, UsesStep
<1>4. ASSUME NEW id \in Ids, NEW result \in WriteResults, Destroy(id, result)
      PROVE  UsesInv'
  <2> DEFINE gone == Without(sessions, id)
  <2>1. \A i \in Ids : gone[i] \in {None, sessions[i]}
    BY <1>0 DEF Without
  <2>2. sessions' = gone \/ sessions' = sessions
    BY <1>4 DEF Destroy
  <2>3. \/ file' = file /\ lastPersistence' = lastPersistence
        \/ file' = written(gone) /\ lastPersistence' \in {lastPersistence, now}
    BY <1>4, WriteMoves DEF Destroy, storage
  <2>4. now' = now
    BY <1>4 DEF Destroy
  <2> HIDE DEF gone
  <2>5. QED BY <2>1, <2>2, <2>3, <2>4, UsesStep
<1>5. CASE \/ CreateRefused
           \/ \E id \in Ids : RotateRefused(id) \/ RotateWithoutEntropy(id) \/ GetMissing(id)
  <2>1. \A i \in Ids : sessions'[i] \in {None, sessions[i]}
    BY <1>0, <1>5 DEF CreateRefused, RotateRefused, RotateWithoutEntropy, GetMissing,
                      removeExpired, Without
  <2>2. now' = now /\ file' = file /\ lastPersistence' = lastPersistence
    BY <1>5 DEF CreateRefused, RotateRefused, RotateWithoutEntropy, GetMissing, storage
  <2>3. QED BY <2>1, <2>2, UsesStep
<1>6. CASE RestartProcess \/ PowerLoss
  <2>1. PICK f \in {file, synced} : Load(f) /\ file' = f /\ now' = now
    BY <1>6 DEF RestartProcess, PowerLoss
  <2>2. lastPersistence' <= now'
    BY <1>0, <2>1, ConfigAssumption DEF Load, LongAgo
  <2>3. \A i \in Ids : sessions'[i] # None => sessions'[i].lastSeenAt = file'.items[i].lastSeenAt
    BY <2>1 DEF Load, loadedSessions, restored
  <2>4. QED BY <2>2, <2>3 DEF UsesInv, OlderUsesOnDisk, Live
<1>7. CASE Tick
  BY <1>0, <1>7 DEF Tick, storage, UsesInv, OlderUsesOnDisk, Live
<1>8. CASE UNCHANGED vars
  BY <1>8 DEF vars, UsesInv, OlderUsesOnDisk, Live
<1>9. QED BY <1>1, <1>2, <1>3, <1>4, <1>5, <1>6, <1>7, <1>8 DEF Next

\* What a restart or a power loss loses of a session's activity is its use since the last
\* write at most, whichever writes of Get, Create, Rotate and Destroy failed before.
THEOREM OlderUsesAreKept == Spec => []OlderUsesOnDisk
<1>1. Init => UsesInv
  BY ConfigAssumption DEF Init, UsesInv, OlderUsesOnDisk, Live, LongAgo
<1>2. UsesInv => OlderUsesOnDisk
  BY DEF UsesInv
<1>3. QED BY <1>1, <1>2, NextUses, Invariance, PTL DEF Spec
=============================================================================
