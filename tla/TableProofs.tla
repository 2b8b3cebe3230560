----------------------------- MODULE TableProofs -----------------------------
(***************************************************************************)
(* Proofs about the tables that the daemon changes while others read them: *)
(* Firewall, for any finite set of rules and any number of actions under   *)
(* way, and CronTables, for any tasks, jobs and connections.               *)
(***************************************************************************)
EXTENDS Firewall, CronTasks, FiniteSetTheorems, SequenceTheorems, TLAPS

\* The place of a rule among those of a finite set, and that it tells them apart.
LEMMA Places ==
    ASSUME NEW S \in SUBSET Texts
    PROVE  /\ IsFiniteSet(S) /\ Cardinality(S) \in Nat
           /\ \A r \in S : NumberOf(S, r) \in 1 .. Cardinality(S)
           /\ \A a, b \in S : a < b => NumberOf(S, a) < NumberOf(S, b)
<1> DEFINE Below(r) == {x \in S : x < r}
<1>1. IsFiniteSet(S) /\ Cardinality(S) \in Nat /\ S \subseteq Nat
  BY TextsAssumption, FS_Subset, FS_CardinalityType
<1>2. \A r \in S : Below(r) \subseteq S /\ r \notin Below(r) /\ r \in S
  BY <1>1
<1>3. \A r \in S : IsFiniteSet(Below(r)) /\ Cardinality(Below(r)) \in Nat
                   /\ Cardinality(Below(r)) <= Cardinality(S)
                   /\ Cardinality(Below(r)) # Cardinality(S)
  BY <1>1, <1>2, FS_Subset, FS_CardinalityType
<1>4. ASSUME NEW a \in S, NEW b \in S, a < b
      PROVE  Cardinality(Below(a)) < Cardinality(Below(b))
  <2>0. a \in Nat /\ b \in Nat
    BY <1>1
  <2>a. Below(a) \subseteq Below(b)
    <3> SUFFICES ASSUME NEW x \in S, x < a PROVE x < b
      OBVIOUS
    <3>1. x \in Nat
      BY <1>1
    <3>2. QED BY <1>4, <2>0, <3>1
  <2>1. Below(a) \subseteq Below(b) /\ a \in Below(b) /\ a \notin Below(a)
    BY <1>4, <2>0, <2>a
  <2>2. Below(a) # Below(b)
    BY <2>1
  <2> HIDE DEF Below
  <2>3. Cardinality(Below(a)) <= Cardinality(Below(b)) /\ Cardinality(Below(a)) # Cardinality(Below(b))
    BY <1>3, <2>1, <2>2, FS_Subset
  <2>4. QED BY <1>3, <2>3
<1>5. \A r : NumberOf(S, r) = Cardinality(Below(r)) + 1
  BY DEF NumberOf
<1> HIDE DEF Below
<1>6. QED BY <1>1, <1>3, <1>4, <1>5

\* firewalldRules lists the rules of a set: each one once, in order.
LEMMA SortedRules ==
    ASSUME NEW S \in SUBSET Texts
    PROVE  /\ firewalldRules(S) \in Seq(Texts)
           /\ ToSet(firewalldRules(S)) = S
           /\ \A i, j \in DOMAIN firewalldRules(S) :
                 i < j => firewalldRules(S)[i] < firewalldRules(S)[j]
<1> DEFINE f == [r \in S |-> NumberOf(S, r)]
           n == Cardinality(S)
           q == firewalldRules(S)
<1>1. IsFiniteSet(S) /\ n \in Nat /\ S \subseteq Nat
  BY Places, TextsAssumption
<1>2. \A r \in S : f[r] = NumberOf(S, r) /\ f[r] \in 1 .. n
  BY Places
<1>3. \A a, b \in S : f[a] = f[b] => a = b
  <2> SUFFICES ASSUME NEW a \in S, NEW b \in S, a # b PROVE f[a] # f[b]
    OBVIOUS
  <2>1. a < b \/ b < a
    BY <1>1
  <2>2. f[a] < f[b] \/ f[b] < f[a]
    BY <2>1, <1>2, Places
  <2>3. f[a] \in Nat /\ f[b] \in Nat
    BY <1>2, <1>1
  <2>4. QED BY <2>2, <2>3
<1>4. f \in Injection(S, 1 .. n)
  BY <1>2, <1>3 DEF Injection, IsInjective
<1>5. IsFiniteSet(1 .. n) /\ Cardinality(1 .. n) = n
  BY <1>1, FS_Interval
<1>6. f \in Surjection(S, 1 .. n)
  <2> HIDE DEF f, n
  <2>1. n = Cardinality(S)
    BY DEF n
  <2>2. QED BY <1>4, <1>5, <2>1, FS_Injection
<1>7. \A i \in 1 .. n : \E r \in S : NumberOf(S, r) = i
  <2> SUFFICES ASSUME NEW i \in 1 .. n PROVE \E r \in S : f[r] = i
    BY <1>2
  <2> HIDE DEF f, n
  <2>1. QED BY <1>6 DEF Surjection
<1>8. DOMAIN q = 1 .. n /\ Len(q) = n /\ \A i \in 1 .. n : q[i] = CHOOSE r \in S : NumberOf(S, r) = i
  BY <1>1 DEF firewalldRules
<1>9. \A i \in 1 .. n : q[i] \in S /\ NumberOf(S, q[i]) = i
  BY <1>7, <1>8
<1>10. q \in Seq(Texts)
  <2>1. q \in [1 .. n -> Texts]
    BY <1>8, <1>9 DEF firewalldRules
  <2>2. QED BY <2>1, <1>1
<1> HIDE DEF q
<1>11. ToSet(q) = S
  <2>1. ToSet(q) \subseteq S
    BY <1>8, <1>9 DEF ToSet
  <2>2. ASSUME NEW r \in S PROVE r \in ToSet(q)
    <3>1. NumberOf(S, r) \in 1 .. n
      BY <1>2
    <3>2. q[NumberOf(S, r)] \in S /\ f[q[NumberOf(S, r)]] = f[r]
      BY <3>1, <1>9, <1>2
    <3>3. q[NumberOf(S, r)] = r
      BY <3>2, <1>3
    <3>4. QED BY <3>1, <3>3, <1>8 DEF ToSet
  <2>3. QED BY <2>1, <2>2
<1>12. ASSUME NEW i \in 1 .. n, NEW j \in 1 .. n, i < j PROVE q[i] < q[j]
  <2>1. q[i] \in S /\ q[j] \in S /\ NumberOf(S, q[i]) = i /\ NumberOf(S, q[j]) = j
    BY <1>9
  <2>4. q[i] \in Nat /\ q[j] \in Nat
    BY <2>1, <1>1
  <2>2. ~ q[j] < q[i]
    <3> SUFFICES ASSUME q[j] < q[i] PROVE FALSE
      OBVIOUS
    <3>1. NumberOf(S, q[j]) < NumberOf(S, q[i])
      BY <2>1, Places
    <3>2. QED BY <3>1, <2>1, <1>1, <1>12
  <2>3. q[i] # q[j]
    BY <2>1, <1>1, <1>12
  <2>5. QED BY <2>2, <2>3, <2>4
<1>13. QED BY <1>8, <1>10, <1>11, <1>12 DEF q

-----------------------------------------------------------------------------
\* A list of distinct rules; that of firewalld is sorted too.
Listed(q, sorted) ==
    /\ q \in Seq(Texts)
    /\ \A i, j \in DOMAIN q : i < j => q[i] # q[j] /\ (sorted => q[i] < q[j])

\* What firewalldRules makes is such a list.
LEMMA SortedListed ==
    ASSUME NEW S \in SUBSET Texts, NEW sorted \in BOOLEAN
    PROVE  Listed(firewalldRules(S), sorted)
<1>1. PICK q : q = firewalldRules(S)
  OBVIOUS
<1>2. q \in Seq(Texts) /\ \A i, j \in DOMAIN q : i < j => q[i] < q[j]
  BY <1>1, SortedRules
<1>3. \A i \in DOMAIN q : q[i] \in Nat
  BY <1>2, TextsAssumption, LenProperties, ElementOfSeq
<1>4. QED BY <1>1, <1>2, <1>3 DEF Listed

\* What RemoveAt leaves of a list.
LEMMA Removing ==
    ASSUME NEW S, NEW q \in Seq(S), NEW i \in DOMAIN q
    PROVE  /\ RemoveAt(q, i) \in Seq(S) /\ Len(RemoveAt(q, i)) = Len(q) - 1
           /\ \A k \in 1 .. Len(q) - 1 : RemoveAt(q, i)[k] = IF k < i THEN q[k] ELSE q[k + 1]
<1>1. Len(q) \in Nat /\ i \in 1 .. Len(q) /\ \A k \in 1 .. Len(q) : q[k] \in S
  BY LenProperties, ElementOfSeq
<1>2. PICK a, b : a = SubSeq(q, 1, i - 1) /\ b = SubSeq(q, i + 1, Len(q))
  OBVIOUS
<1>3. a \in Seq(S) /\ Len(a) = i - 1 /\ \A k \in 1 .. i - 1 : a[k] = q[k]
  <2>1. \A k \in 1 .. i - 1 : q[k] \in S
    BY <1>1
  <2>2. /\ SubSeq(q, 1, i - 1) \in Seq(S)
        /\ Len(SubSeq(q, 1, i - 1)) = IF 1 <= i - 1 THEN i - 1 - 1 + 1 ELSE 0
        /\ \A k \in 1 .. i - 1 - 1 + 1 : SubSeq(q, 1, i - 1)[k] = q[1 + k - 1]
    BY <2>1, <1>1, SubSeqProperties, 1 \in Int, i - 1 \in Int
  <2>3. QED BY <2>2, <1>1, <1>2
<1>4. b \in Seq(S) /\ Len(b) = Len(q) - i /\ \A k \in 1 .. Len(q) - i : b[k] = q[k + i]
  <2>1. \A k \in i + 1 .. Len(q) : q[k] \in S
    BY <1>1
  <2>2. /\ SubSeq(q, i + 1, Len(q)) \in Seq(S)
        /\ Len(SubSeq(q, i + 1, Len(q))) = IF i + 1 <= Len(q) THEN Len(q) - (i + 1) + 1 ELSE 0
        /\ \A k \in 1 .. Len(q) - (i + 1) + 1 : SubSeq(q, i + 1, Len(q))[k] = q[(i + 1) + k - 1]
    BY <2>1, <1>1, SubSeqProperties, i + 1 \in Int, Len(q) \in Int
  <2>3. \A k \in 1 .. Len(q) - i : (i + 1) + k - 1 = k + i
    BY <1>1
  <2>4. QED BY <2>2, <2>3, <1>1, <1>2
<1>5. /\ a \o b \in Seq(S) /\ Len(a \o b) = Len(q) - 1
      /\ \A k \in 1 .. Len(q) - 1 : (a \o b)[k] = IF k <= i - 1 THEN a[k] ELSE b[k - (i - 1)]
  <2>1. /\ a \o b \in Seq(S) /\ Len(a \o b) = Len(a) + Len(b)
        /\ \A k \in 1 .. Len(a) + Len(b) : (a \o b)[k] = IF k <= Len(a) THEN a[k] ELSE b[k - Len(a)]
    BY <1>3, <1>4, ConcatProperties
  <2>2. Len(a) + Len(b) = Len(q) - 1
    BY <1>1, <1>3, <1>4
  <2>3. QED BY <2>1, <2>2, <1>3
<1>6. ASSUME NEW k \in 1 .. Len(q) - 1 PROVE (a \o b)[k] = IF k < i THEN q[k] ELSE q[k + 1]
  <2>1. CASE k < i
    BY <2>1, <1>1, <1>3, <1>5
  <2>2. CASE k >= i
    <3>1. k - (i - 1) \in 1 .. Len(q) - i /\ (k - (i - 1)) + i = k + 1
      BY <2>2, <1>1
    <3>2. (a \o b)[k] = b[k - (i - 1)]
      BY <2>2, <1>1, <1>5
    <3>3. b[k - (i - 1)] = q[k + 1]
      BY <3>1, <1>4
    <3>4. ~(k < i)
      BY <2>2, <1>1
    <3>5. QED BY <3>2, <3>3, <3>4
  <2>3. k \in Int /\ i \in Int
    BY <1>1
  <2>4. k < i \/ k >= i
    BY <2>3
  <2>5. QED BY <2>1, <2>2, <2>4
<1>7. QED BY <1>2, <1>5, <1>6 DEF RemoveAt

\* The list p is q with r at place i.
PutAt(p, q, i, r) ==
    /\ Len(p) = Len(q) + 1
    /\ \A k \in 1 .. Len(q) + 1 : p[k] = IF k < i THEN q[k] ELSE IF k = i THEN r ELSE q[k - 1]

\* What InsertAt makes of a list.
LEMMA Inserting ==
    ASSUME NEW S, NEW q \in Seq(S), NEW i \in 1 .. Len(q) + 1, NEW r \in S
    PROVE  InsertAt(q, i, r) \in Seq(S) /\ PutAt(InsertAt(q, i, r), q, i, r)
<1>1. Len(q) \in Nat /\ \A k \in 1 .. Len(q) : q[k] \in S
  BY LenProperties, ElementOfSeq
<1>2. PICK a, b, c : a = SubSeq(q, 1, i - 1) /\ b = SubSeq(q, i, Len(q)) /\ c = a \o <<r>>
  OBVIOUS
<1>3. a \in Seq(S) /\ Len(a) = i - 1 /\ \A k \in 1 .. i - 1 : a[k] = q[k]
  <2>1. \A k \in 1 .. i - 1 : q[k] \in S
    BY <1>1
  <2>2. /\ SubSeq(q, 1, i - 1) \in Seq(S)
        /\ Len(SubSeq(q, 1, i - 1)) = IF 1 <= i - 1 THEN i - 1 - 1 + 1 ELSE 0
        /\ \A k \in 1 .. i - 1 - 1 + 1 : SubSeq(q, 1, i - 1)[k] = q[1 + k - 1]
    BY <2>1, <1>1, SubSeqProperties, 1 \in Int, i - 1 \in Int
  <2>3. QED BY <2>2, <1>1, <1>2
<1>4. b \in Seq(S) /\ Len(b) = Len(q) + 1 - i /\ \A k \in 1 .. Len(q) + 1 - i : b[k] = q[k + i - 1]
  <2>1. \A k \in i .. Len(q) : q[k] \in S
    BY <1>1
  <2>2. /\ SubSeq(q, i, Len(q)) \in Seq(S)
        /\ Len(SubSeq(q, i, Len(q))) = IF i <= Len(q) THEN Len(q) - i + 1 ELSE 0
        /\ \A k \in 1 .. Len(q) - i + 1 : SubSeq(q, i, Len(q))[k] = q[i + k - 1]
    BY <2>1, <1>1, SubSeqProperties, i \in Int, Len(q) \in Int
  <2>3. \A k \in 1 .. Len(q) + 1 - i : i + k - 1 = k + i - 1
    BY <1>1
  <2>4. QED BY <2>2, <2>3, <1>1, <1>2
<1>5. c \in Seq(S) /\ Len(c) = i /\ \A k \in 1 .. i : c[k] = IF k < i THEN q[k] ELSE r
  <2>1. <<r>> \in Seq(S) /\ Len(<<r>>) = 1 /\ <<r>>[1] = r
    OBVIOUS
  <2>2. /\ a \o <<r>> \in Seq(S) /\ Len(a \o <<r>>) = Len(a) + Len(<<r>>)
        /\ \A k \in 1 .. Len(a) + Len(<<r>>) :
              (a \o <<r>>)[k] = IF k <= Len(a) THEN a[k] ELSE <<r>>[k - Len(a)]
    BY <2>1, <1>3, ConcatProperties
  <2>3. Len(a) + Len(<<r>>) = i
    BY <2>1, <1>1, <1>3
  <2>4. c \in Seq(S) /\ Len(c) = i /\ \A k \in 1 .. i : c[k] = IF k <= i - 1 THEN a[k] ELSE <<r>>[k - (i - 1)]
    BY <2>2, <2>3, <1>2, <1>3
  <2>5. ASSUME NEW k \in 1 .. i PROVE c[k] = IF k < i THEN q[k] ELSE r
    <3>1. CASE k < i
      BY <3>1, <2>4, <1>1, <1>3
    <3>2. CASE k = i
      <4>1. k - (i - 1) = 1 /\ ~(k <= i - 1)
        BY <3>2, <1>1
      <4>2. QED BY <4>1, <3>2, <2>4, <2>1, <1>1
    <3>3. QED BY <3>1, <3>2, <1>1
  <2>6. QED BY <2>4, <2>5
<1>6. /\ c \o b \in Seq(S) /\ Len(c \o b) = Len(q) + 1
      /\ \A k \in 1 .. Len(q) + 1 : (c \o b)[k] = IF k <= i THEN c[k] ELSE b[k - i]
  <2>1. /\ c \o b \in Seq(S) /\ Len(c \o b) = Len(c) + Len(b)
        /\ \A k \in 1 .. Len(c) + Len(b) : (c \o b)[k] = IF k <= Len(c) THEN c[k] ELSE b[k - Len(c)]
    BY <1>4, <1>5, ConcatProperties
  <2>2. Len(c) + Len(b) = Len(q) + 1
    BY <1>1, <1>4, <1>5
  <2>3. QED BY <2>1, <2>2, <1>5
<1>7. ASSUME NEW k \in 1 .. Len(q) + 1
      PROVE  (c \o b)[k] = IF k < i THEN q[k] ELSE IF k = i THEN r ELSE q[k - 1]
  <2>1. CASE k < i \/ k = i
    BY <2>1, <1>1, <1>5, <1>6
  <2>2. CASE k > i
    <3>1. k - i \in 1 .. Len(q) + 1 - i /\ (k - i) + i - 1 = k - 1
      BY <2>2, <1>1
    <3>2. (c \o b)[k] = b[k - i]
      BY <2>2, <1>1, <1>6
    <3>3. b[k - i] = q[k - 1]
      BY <3>1, <1>4
    <3>4. ~(k < i) /\ k # i
      BY <2>2, <1>1
    <3>5. QED BY <3>2, <3>3, <3>4
  <2>3. k \in Int /\ i \in Int
    BY <1>1
  <2>4. k < i \/ k = i \/ k > i
    BY <2>3
  <2>5. QED BY <2>1, <2>2, <2>4
<1>8. InsertAt(q, i, r) = c \o b
  BY <1>2 DEF InsertAt
<1>9. QED BY <1>6, <1>7, <1>8 DEF PutAt

\* Deleting a row takes its rule away, and leaves the others distinct and in order.
LEMMA RowRemoved ==
    ASSUME NEW q, NEW sorted \in BOOLEAN, Listed(q, sorted), NEW i \in DOMAIN q
    PROVE  Listed(RemoveAt(q, i), sorted) /\ q[i] \notin ToSet(RemoveAt(q, i))
<1>1. PICK p : p = RemoveAt(q, i)
  OBVIOUS
<1>2. q \in Seq(Texts) /\ Len(q) \in Nat /\ i \in 1 .. Len(q)
  BY DEF Listed
<1>3. p \in Seq(Texts) /\ Len(p) = Len(q) - 1 /\ DOMAIN p = 1 .. Len(q) - 1
      /\ \A k \in 1 .. Len(q) - 1 : p[k] = IF k < i THEN q[k] ELSE q[k + 1]
  <2>1. /\ RemoveAt(q, i) \in Seq(Texts) /\ Len(RemoveAt(q, i)) = Len(q) - 1
        /\ \A k \in 1 .. Len(q) - 1 : RemoveAt(q, i)[k] = IF k < i THEN q[k] ELSE q[k + 1]
    BY <1>2, Removing
  <2>2. QED BY <1>1, <2>1, LenProperties
<1>4. \A a, b \in 1 .. Len(q) : a < b => q[a] # q[b] /\ (sorted => q[a] < q[b])
  BY <1>2 DEF Listed
<1>5. ASSUME NEW a \in 1 .. Len(q) - 1, NEW b \in 1 .. Len(q) - 1, a < b
      PROVE  p[a] # p[b] /\ (sorted => p[a] < p[b])
  <2>1. PICK c \in 1 .. Len(q) : p[a] = q[c] /\ c = (IF a < i THEN a ELSE a + 1)
    BY <1>2, <1>3
  <2>2. PICK d \in 1 .. Len(q) : p[b] = q[d] /\ d = (IF b < i THEN b ELSE b + 1)
    BY <1>2, <1>3
  <2>3. c < d
    BY <2>1, <2>2, <1>2, <1>5
  <2>4. QED BY <2>1, <2>2, <2>3, <1>4
<1>6. ASSUME NEW k \in 1 .. Len(q) - 1 PROVE p[k] # q[i]
  <2>1. PICK c \in 1 .. Len(q) : p[k] = q[c] /\ (c < i \/ i < c)
    BY <1>2, <1>3
  <2>2. QED BY <2>1, <1>2, <1>4
<1>7. QED BY <1>1, <1>3, <1>5, <1>6 DEF Listed, ToSet

\* Inserting a rule that is not there leaves a list of distinct rules.
LEMMA RowInserted ==
    ASSUME NEW q, Listed(q, FALSE), NEW r \in Texts, r \notin ToSet(q), NEW i \in 1 .. Len(q) + 1
    PROVE  Listed(InsertAt(q, i, r), FALSE)
<1>1. PICK p : p = InsertAt(q, i, r)
  OBVIOUS
<1>2. q \in Seq(Texts) /\ Len(q) \in Nat /\ \A k \in 1 .. Len(q) : q[k] # r
  BY DEF Listed, ToSet
<1>3. p \in Seq(Texts) /\ Len(p) = Len(q) + 1 /\ DOMAIN p = 1 .. Len(q) + 1
      /\ \A k \in 1 .. Len(q) + 1 : p[k] = IF k < i THEN q[k] ELSE IF k = i THEN r ELSE q[k - 1]
  <2>1. /\ InsertAt(q, i, r) \in Seq(Texts) /\ Len(InsertAt(q, i, r)) = Len(q) + 1
        /\ \A k \in 1 .. Len(q) + 1 :
              InsertAt(q, i, r)[k] = IF k < i THEN q[k] ELSE IF k = i THEN r ELSE q[k - 1]
    BY <1>2, Inserting DEF PutAt
  <2>2. QED BY <1>1, <2>1, LenProperties
<1>4. \A a, b \in 1 .. Len(q) : a < b => q[a] # q[b]
  BY <1>2 DEF Listed
<1>5. ASSUME NEW a \in 1 .. Len(q) + 1, NEW b \in 1 .. Len(q) + 1, a < b
      PROVE  p[a] # p[b]
  <2>1. \/ a = i /\ p[a] = r
        \/ \E c \in 1 .. Len(q) : p[a] = q[c] /\ a # i /\ c = (IF a < i THEN a ELSE a - 1)
    BY <1>2, <1>3
  <2>2. \/ b = i /\ p[b] = r
        \/ \E d \in 1 .. Len(q) : p[b] = q[d] /\ b # i /\ d = (IF b < i THEN b ELSE b - 1)
    BY <1>2, <1>3
  <2>3. CASE a = i \/ b = i
    BY <2>1, <2>2, <2>3, <1>2, <1>5
  <2>4. CASE a # i /\ b # i
    <3>1. PICK c \in 1 .. Len(q) : p[a] = q[c] /\ c = (IF a < i THEN a ELSE a - 1)
      BY <2>1, <2>4
    <3>2. PICK d \in 1 .. Len(q) : p[b] = q[d] /\ d = (IF b < i THEN b ELSE b - 1)
      BY <2>2, <2>4
    <3>3. c < d
      BY <3>1, <3>2, <2>4, <1>2, <1>5
    <3>4. QED BY <3>1, <3>2, <3>3, <1>4
  <2>5. QED BY <2>3, <2>4
<1>6. QED BY <1>1, <1>3, <1>5 DEF Listed

-----------------------------------------------------------------------------
\* The parts of FwInv that an action under way cannot break by itself.
FwTable ==
    /\ firewalld \in BOOLEAN /\ on \in BOOLEAN
    /\ Listed(table, firewalld) /\ page \in Seq(Texts)
    /\ permanent \subseteq Texts
    /\ ~firewalld => permanent = {}
    /\ firewalld /\ ~on => table = <<>>

\* FwInv says no more than these parts.
LEMMA FwParts ==
    FwInv <=> /\ FwTable /\ acts \in [FwSlots -> Act] /\ \A s \in FwSlots : ActInv(acts[s])
              /\ ConfirmedIsRemoved /\ CompletedInForce
<1>1. FwTypeOK => FwTable
  BY DEF FwTypeOK, FwTable, Listed
<1>2. FwTable /\ acts \in [FwSlots -> Act] => FwTypeOK
  BY DEF FwTypeOK, FwTable, Listed, Act
<1>3. QED BY <1>1, <1>2 DEF FwInv

\* The same of the next state: what is to show of a step.
LEMMA FwGoal ==
    ASSUME FwTable', acts' \in [FwSlots -> Act], \A s \in FwSlots : ActInv(acts[s])',
           ConfirmedIsRemoved', CompletedInForce'
    PROVE  FwInv'
<1>1. FwTypeOK'
  BY DEF FwTypeOK, FwTable, Listed, Act
<1>2. QED BY <1>1 DEF FwInv

\* A slot without an action satisfies what is asked of one.
LEMMA Idle == NoAct \in Act /\ ActInv(NoAct) /\ ActInv(NoAct)'
BY DEF NoAct, Act, FwKinds, FwSteps, ActInv

\* Nothing is claimed of a step that neither removes nor completes.
LEMMA NothingClaimed ==
    ASSUME event' = NoEvent
    PROVE  ConfirmedIsRemoved' /\ CompletedInForce'
BY DEF NoEvent, ConfirmedIsRemoved, CompletedInForce

\* An action that goes on leaves the others as they are.
LEMMA Continues ==
    ASSUME FwInv, NEW s \in FwSlots, NEW op \in Act, ActInv(op), Continue(s, op),
           UNCHANGED <<firewalld, on, page>>
    PROVE  FwInv'
<1>1. FwTable /\ acts \in [FwSlots -> Act] /\ \A t \in FwSlots : ActInv(acts[t])
  BY FwParts
<1>2. FwTable'
  BY <1>1 DEF Continue, FwTable
<1>3. acts' = [acts EXCEPT ![s] = op] /\ acts' \in [FwSlots -> Act]
  BY <1>1 DEF Continue
<1>4. ASSUME NEW t \in FwSlots PROVE ActInv(acts[t])'
  <2>1. ActInv(acts'[t])
    BY <1>1, <1>3
  <2>2. QED BY <2>1 DEF Continue, ActInv
<1>5. ConfirmedIsRemoved' /\ CompletedInForce'
  BY NothingClaimed DEF Continue
<1>6. QED BY <1>2, <1>3, <1>4, <1>5, FwGoal

\* A change of the rules is seen by every other process that is running, so that what
\* it still believes is so.
LEMMA Changes ==
    ASSUME FwInv, NEW s \in FwSlots, NEW op \in Act, NEW rules, NEW kept,
           Change(s, op, rules, kept), UNCHANGED firewalld
    PROVE  /\ acts' \in [FwSlots -> Act] /\ acts'[s] = op
           /\ \A t \in FwSlots \ {s} : ActInv(acts[t])'
<1>1. acts \in [FwSlots -> Act] /\ \A t \in FwSlots : ActInv(acts[t])
  BY FwParts
<1>2. \A a \in Act : [a EXCEPT !.touched = TRUE] \in Act
  BY DEF Act
<1>3. acts' \in [FwSlots -> Act] /\ acts'[s] = op
  BY <1>1, <1>2 DEF Change
<1>4. ASSUME NEW t \in FwSlots \ {s} PROVE ActInv(acts[t])'
  <2>1. CASE acts'[t] = acts[t] /\ ~Executing(t)
    BY <2>1, <1>1 DEF ActInv, Executing
  <2>2. CASE acts'[t] = acts[t] /\ <<rules, kept>> = <<table, permanent>>
    <3>1. table' = table /\ permanent' = permanent
      BY <2>2 DEF Change
    <3>2. QED BY <3>1, <2>2, <1>1 DEF ActInv
  <2>3. CASE acts'[t] = [acts[t] EXCEPT !.touched = TRUE]
    <3>1. acts[t] \in Act /\ ActInv(acts[t])
      BY <1>1
    <3>2. acts'[t].touched = TRUE /\ acts'[t].step = acts[t].step /\ acts'[t].kind = acts[t].kind
          /\ acts'[t].print = acts[t].print
      BY <2>3, <3>1 DEF Act
    <3>3. QED BY <3>1, <3>2 DEF ActInv
  <2>4. QED BY <2>1, <2>2, <2>3 DEF Change
<1>5. QED BY <1>3, <1>4

\* The initial states.
LEMMA FwStarts == FwInit => FwInv
<1> SUFFICES ASSUME FwInit PROVE FwInv
  OBVIOUS
<1>1. PICK rules \in SUBSET Texts : table = firewalldRules(rules) /\ permanent = IF firewalld THEN rules ELSE {}
  BY DEF FwInit
<1>2. Listed(table, firewalld)
  BY <1>1, SortedListed DEF FwInit
<1>3. FwTable
  BY <1>1, <1>2 DEF FwInit, FwTable
<1>4. acts \in [FwSlots -> Act] /\ \A s \in FwSlots : ActInv(acts[s])
  BY Idle DEF FwInit
<1>5. ConfirmedIsRemoved /\ CompletedInForce
  BY DEF FwInit, NoEvent, ConfirmedIsRemoved, CompletedInForce
<1>6. QED BY <1>3, <1>4, <1>5, FwParts

-----------------------------------------------------------------------------
\* The text that rule answers is in force under that number.
LEMMA RuleInForce ==
    ASSUME FwInv, NEW n, rule(n) # NoRule
    PROVE  n \in DOMAIN table /\ rule(n) = table[n] /\ rule(n) \in Texts
<1>1. table \in Seq(Texts)
  BY FwParts DEF FwTable, Listed
<1>2. n \in DOMAIN table /\ rule(n) = table[n]
  BY DEF rule, Numbered
<1>3. QED BY <1>1, <1>2, LenProperties, ElementOfSeq

\* The page and the daemon's own steps keep the invariant.
LEMMA PageSteps ==
    ASSUME FwInv
    PROVE  /\ View => FwInv'
           /\ \A s \in FwSlots, n \in DOMAIN page : Click(s, n) => FwInv'
           /\ \A s \in FwSlots, kind \in FwKinds \ {"delete"}, rules \in SUBSET Texts :
                 Ask(s, kind, rules) => FwInv'
<1>1. FwTable /\ acts \in [FwSlots -> Act] /\ \A s \in FwSlots : ActInv(acts[s])
  BY FwParts
<1>2. ASSUME View PROVE FwInv'
  <2>1. Numbered \in Seq(Texts)
    BY <1>1 DEF FwTable, Listed, Numbered
  <2>2. FwTable'
    BY <1>1, <1>2, <2>1 DEF View, FwTable
  <2>3. acts' = acts /\ \A s \in FwSlots : ActInv(acts[s])'
    BY <1>1, <1>2 DEF View, ActInv
  <2>4. QED BY <1>1, <1>2, <2>2, <2>3, NothingClaimed, FwGoal DEF View
<1>3. ASSUME NEW s \in FwSlots, NEW n \in DOMAIN page, Click(s, n) PROVE FwInv'
  <2>1. PICK op : op = [NoAct EXCEPT !.kind = "delete", !.step = "check", !.number = n, !.shown = page[n]]
    OBVIOUS
  <2>2. n \in Nat /\ page[n] \in Texts
    BY <1>1, LenProperties, ElementOfSeq DEF FwTable
  <2>3. op \in Act /\ ActInv(op)
    BY <2>1, <2>2 DEF NoAct, Act, FwKinds, FwSteps, ActInv
  <2>4. QED BY <1>3, <2>1, <2>3, Continues DEF Click
<1>4. ASSUME NEW s \in FwSlots, NEW kind \in FwKinds \ {"delete"}, NEW rules \in SUBSET Texts,
             Ask(s, kind, rules)
      PROVE  FwInv'
  <2>1. PICK op : op = [NoAct EXCEPT !.kind = kind, !.step = "timer", !.rules = rules]
    OBVIOUS
  <2>2. op \in Act /\ ActInv(op)
    BY <2>1 DEF NoAct, Act, FwKinds, FwSteps, ActInv
  <2>3. QED BY <1>4, <2>1, <2>2, Continues DEF Ask
<1>5. QED BY <1>2, <1>3, <1>4

\* The comparisons of a deletion keep the invariant: each leaves the text that it
\* compared, and the last ones leave the number that it stands under.
LEMMA Comparisons ==
    ASSUME FwInv, NEW s \in FwSlots
    PROVE  DeleteCheck(s) \/ Delete(s) \/ FireProcess(s) \/ Verify(s) \/ Reread(s) => FwInv'
<1>1. PICK a : a = acts[s]
  OBVIOUS
<1>2. a \in Act /\ ActInv(a)
  BY <1>1, FwParts
<1>3. FwTable
  BY FwParts
<1>4. UNCHANGED <<firewalld, on, page>> /\ Continue(s, NoAct) => FwInv'
  BY Idle, Continues
<1>5. ASSUME DeleteCheck(s) PROVE FwInv'
  <2> SUFFICES ASSUME rule(a.number) # NoRule,
                      Continue(s, [a EXCEPT !.step = "confirm", !.print = rule(a.number)])
               PROVE  FwInv'
    BY <1>1, <1>4, <1>5 DEF DeleteCheck
  <2>1. PICK op : op = [a EXCEPT !.step = "confirm", !.print = rule(a.number)]
    OBVIOUS
  <2>2. rule(a.number) \in Texts
    BY RuleInForce
  <2>3. op \in Act /\ op.step = "confirm" /\ op.print # NoRule /\ op.kind = a.kind
    BY <1>2, <2>1, <2>2, TextsAssumption DEF Act, FwSteps
  <2>4. ActInv(op)
    BY <1>1, <1>2, <1>5, <2>3 DEF ActInv, DeleteCheck
  <2>5. QED BY <1>5, <2>1, <2>3, <2>4, Continues DEF DeleteCheck
<1>6. ASSUME Delete(s) PROVE FwInv'
  <2> SUFFICES ASSUME Continue(s, [a EXCEPT !.step = "timer"]) PROVE FwInv'
    BY <1>1, <1>4, <1>6 DEF Delete
  <2>1. PICK op : op = [a EXCEPT !.step = "timer"]
    OBVIOUS
  <2>2. op \in Act /\ op.step = "timer" /\ op.print = a.print /\ op.kind = a.kind
    BY <1>2, <2>1 DEF Act, FwSteps
  <2>3. ActInv(op)
    BY <1>1, <1>2, <1>6, <2>2 DEF ActInv, Delete
  <2>4. QED BY <1>6, <2>1, <2>2, <2>3, Continues DEF Delete
<1>7. ASSUME FireProcess(s) PROVE FwInv'
  <2>1. PICK op : op = [a EXCEPT !.step = IF a.kind = "delete" THEN "verify" ELSE "adding"]
    OBVIOUS
  <2>2. op \in Act /\ op.step = (IF a.kind = "delete" THEN "verify" ELSE "adding")
        /\ op.print = a.print /\ op.kind = a.kind
    BY <1>2, <2>1 DEF Act, FwSteps
  <2>3. ActInv(op)
    BY <1>1, <1>2, <1>7, <2>2 DEF ActInv, FireProcess
  <2>4. QED BY <1>1, <1>7, <2>1, <2>2, <2>3, Continues DEF FireProcess
<1>8. ASSUME Verify(s) PROVE FwInv'
  <2> SUFFICES ASSUME rule(a.number) = a.print,
                      Continue(s, [a EXCEPT !.step = IF firewalld THEN "reread" ELSE "remove"])
               PROVE  FwInv'
    BY <1>1, <1>4, <1>8 DEF Verify
  <2>1. PICK op : op = [a EXCEPT !.step = IF firewalld THEN "reread" ELSE "remove"]
    OBVIOUS
  <2>2. op \in Act /\ op.step = (IF firewalld THEN "reread" ELSE "remove")
        /\ op.print = a.print /\ op.kind = a.kind /\ op.number = a.number
    BY <1>2, <2>1 DEF Act, FwSteps
  <2>3. a.kind = "delete" /\ a.print # NoRule
    BY <1>1, <1>2, <1>8 DEF ActInv, Verify
  <2>4. a.number \in DOMAIN table /\ table[a.number] = a.print
    BY <2>3, RuleInForce
  <2>5. ActInv(op)
    BY <2>2, <2>3, <2>4 DEF ActInv
  <2>6. QED BY <1>8, <2>1, <2>2, <2>5, Continues DEF Verify
<1>9. ASSUME Reread(s) PROVE FwInv'
  <2> SUFFICES ASSUME rule(a.number) # NoRule,
                      Continue(s, [a EXCEPT !.step = "remove", !.rules = {rule(a.number)}])
               PROVE  FwInv'
    BY <1>1, <1>4, <1>9 DEF Reread
  <2>1. PICK op : op = [a EXCEPT !.step = "remove", !.rules = {rule(a.number)}]
    OBVIOUS
  <2>2. rule(a.number) \in Texts /\ rule(a.number) = table[a.number]
    BY RuleInForce
  <2>3. op \in Act /\ op.step = "remove" /\ op.rules = {table[a.number]}
        /\ op.print = a.print /\ op.kind = a.kind /\ op.touched = a.touched
    BY <1>2, <2>1, <2>2 DEF Act, FwSteps
  <2>4. /\ a.kind = "delete" /\ firewalld /\ a.print # NoRule
        /\ ~a.touched => table[a.number] = a.print
    BY <1>1, <1>2, <1>9 DEF ActInv, Reread
  <2>5. ActInv(op)
    BY <2>3, <2>4 DEF ActInv
  <2>6. QED BY <1>9, <2>1, <2>3, <2>5, Continues DEF Reread
<1>10. QED BY <1>5, <1>6, <1>7, <1>8, <1>9

\* What ufw may make of its list when a rule is added.
LEMMA InsertedListed ==
    ASSUME FwInv, ~firewalld, NEW new \in SUBSET Texts, NEW q \in Inserted(new)
    PROVE  Listed(q, FALSE)
<1>1. Listed(table, FALSE)
  BY FwParts DEF FwTable, Listed
<1>2. CASE q = table
  BY <1>1, <1>2
<1>3. ASSUME NEW r \in new \ ToSet(table), NEW i \in 1 .. Len(table) + 1, q = InsertAt(table, i, r)
      PROVE  Listed(q, FALSE)
  BY <1>1, <1>3, RowInserted
<1>4. QED BY <1>2, <1>3 DEF Inserted

\* systemd's own commands keep the invariant, and complete what they claim.
LEMMA ProgramSteps ==
    ASSUME FwInv, NEW s \in FwSlots, FireProgram(s)
    PROVE  FwInv'
<1>1. PICK a, state : /\ a = acts[s]
                      /\ state = IF a.kind = "enable" THEN TRUE ELSE IF a.kind = "disable" THEN FALSE ELSE on
  OBVIOUS
<1>2. a \in Act /\ ActInv(a) /\ FwTable /\ acts \in [FwSlots -> Act]
  BY <1>1, FwParts
<1>3. a.kind # "delete" /\ UNCHANGED <<firewalld, page>>
  BY <1>1 DEF FireProgram
<1>4. CASE Continue(s, NoAct) /\ UNCHANGED on
  BY <1>3, <1>4, Idle, Continues
<1>5. ASSUME on' = state, Happened(s, NoRule, TRUE, a.rules),
             NEW rules \in IF firewalld THEN {IF state THEN firewalldRules(permanent) ELSE <<>>}
                           ELSE Inserted(a.rules),
             a.rules \subseteq ToSet(rules), Change(s, NoAct, rules, permanent)
      PROVE  FwInv'
  <2>1. /\ acts' \in [FwSlots -> Act] /\ acts'[s] = NoAct
        /\ \A t \in FwSlots \ {s} : ActInv(acts[t])'
    BY <1>3, <1>5, Idle, Changes
  <2>2. \A t \in FwSlots : ActInv(acts[t])'
    BY <2>1, Idle DEF ActInv
  <2>3. table' = rules /\ permanent' = permanent
    BY <1>5 DEF Change
  <2>4. Listed(rules, firewalld)
    <3>1. CASE firewalld /\ rules = firewalldRules(permanent)
      BY <3>1, <1>2, SortedListed DEF FwTable
    <3>2. CASE rules = <<>>
      BY <3>2 DEF Listed
    <3>3. CASE ~firewalld /\ rules \in Inserted(a.rules)
      <4>1. a.rules \in SUBSET Texts
        BY <1>2 DEF Act
      <4>2. Listed(rules, FALSE)
        BY <3>3, <4>1, InsertedListed
      <4>3. QED BY <3>3, <4>2 DEF Listed
    <3>4. QED BY <1>5, <3>1, <3>2, <3>3
  <2>5. state \in BOOLEAN
    BY <1>1, <1>2 DEF FwTable
  <2>6. firewalld /\ ~state => rules = <<>>
    BY <1>5
  <2>7. FwTable'
    BY <1>2, <1>3, <1>5, <2>3, <2>4, <2>5, <2>6 DEF FwTable, Listed
  <2>8. event'.removed = NoRule /\ event'.kind = a.kind /\ event'.rules = a.rules
    BY <1>1, <1>5 DEF Happened
  <2>9. ConfirmedIsRemoved' /\ CompletedInForce'
    BY <1>3, <1>5, <2>3, <2>8 DEF ConfirmedIsRemoved, CompletedInForce
  <2>10. QED BY <2>1, <2>2, <2>7, <2>9, FwGoal
<1>6. QED BY <1>1, <1>4, <1>5 DEF FireProgram

\* The commands that change the rules keep the invariant: what they remove is what was
\* confirmed, and a completed action is in force.
LEMMA Commands ==
    ASSUME FwInv, NEW s \in FwSlots
    PROVE  RemoveNumber(s) \/ RemoveText(s) \/ AddText(s) \/ Apply(s) => FwInv'
<1>1. PICK a : a = acts[s]
  OBVIOUS
<1>2. a \in Act /\ ActInv(a) /\ FwTable
  BY <1>1, FwParts
<1>3. UNCHANGED <<firewalld, on, page>> /\ Continue(s, NoAct) => FwInv'
  BY Idle, Continues
<1>4. ASSUME NEW op \in Act, NEW rules, NEW kept, Change(s, op, rules, kept),
             UNCHANGED <<firewalld, on, page>>,
             Listed(rules, firewalld), kept \subseteq Texts, ~firewalld => kept = {},
             firewalld /\ ~on => rules = <<>>, ActInv(op)', ConfirmedIsRemoved', CompletedInForce'
      PROVE  FwInv'
  <2>1. /\ acts' \in [FwSlots -> Act] /\ acts'[s] = op
        /\ \A t \in FwSlots \ {s} : ActInv(acts[t])'
    BY <1>4, Changes
  <2>2. \A t \in FwSlots : ActInv(acts[t])'
    BY <1>4, <2>1 DEF ActInv
  <2>3. FwTable'
    BY <1>2, <1>4 DEF FwTable, Change, Listed
  <2>4. QED BY <1>4, <2>1, <2>2, <2>3, FwGoal
<1>5. ASSUME RemoveNumber(s) PROVE FwInv'
  <2> SUFFICES ASSUME a.number \in DOMAIN table,
                      Change(s, NoAct, RemoveAt(table, a.number), permanent),
                      Happened(s, table[a.number], TRUE, {})
               PROVE  FwInv'
    BY <1>1, <1>3, <1>5 DEF RemoveNumber
  <2>1. ~firewalld /\ a.kind = "delete" /\ (~a.touched => table[a.number] = a.print)
    BY <1>1, <1>2, <1>5 DEF ActInv, RemoveNumber
  <2>2. PICK rules : rules = RemoveAt(table, a.number)
    OBVIOUS
  <2>3. Listed(rules, firewalld) /\ table[a.number] \notin ToSet(rules)
    BY <1>2, <2>2, RowRemoved DEF FwTable
  <2>4. table' = rules /\ permanent' = {} /\ permanent = {}
    BY <1>2, <2>1, <2>2 DEF Change, FwTable
  <2>5. /\ event'.removed = table[a.number] /\ event'.print = a.print
        /\ event'.kind = "delete" /\ event'.touched = a.touched
    BY <1>1, <2>1 DEF Happened
  <2>6. ConfirmedIsRemoved' /\ CompletedInForce'
    BY <2>1, <2>3, <2>4, <2>5 DEF ConfirmedIsRemoved, CompletedInForce
  <2>7. QED BY <1>4, <1>5, <2>1, <2>2, <2>3, <2>4, <2>6, Idle DEF RemoveNumber
<1>6. ASSUME RemoveText(s) PROVE FwInv'
  <2> SUFFICES ASSUME on, Change(s, [a EXCEPT !.step = "apply"], table, permanent \ a.rules),
                      NEW r \in a.rules, Happened(s, r, FALSE, {})
               PROVE  FwInv'
    BY <1>1, <1>3, <1>6 DEF RemoveText
  <2>1. firewalld /\ a.kind = "delete" /\ a.print # NoRule /\ (~a.touched => a.rules = {a.print})
    BY <1>1, <1>2, <1>6 DEF ActInv, RemoveText
  <2>2. PICK op : op = [a EXCEPT !.step = "apply"]
    OBVIOUS
  <2>3. op \in Act /\ op.step = "apply" /\ op.kind = "delete" /\ op.print = a.print
        /\ op.touched = a.touched
    BY <1>2, <2>1, <2>2 DEF Act, FwSteps
  <2>4. permanent' = permanent \ a.rules /\ firewalld'
    BY <1>6, <2>1 DEF Change, RemoveText
  <2>5. ActInv(op)'
    BY <2>1, <2>3, <2>4 DEF ActInv
  <2>6. event'.removed = r /\ event'.print = a.print /\ event'.completed = FALSE
        /\ event'.touched = a.touched
    BY <1>1 DEF Happened
  <2>7. ConfirmedIsRemoved' /\ CompletedInForce'
    BY <2>1, <2>6 DEF ConfirmedIsRemoved, CompletedInForce
  <2>8. QED BY <1>2, <1>4, <1>6, <2>1, <2>2, <2>3, <2>5, <2>7 DEF RemoveText, FwTable
<1>7. ASSUME AddText(s) PROVE FwInv'
  <2>1. firewalld /\ a.kind = "add"
    BY <1>1, <1>2, <1>7 DEF ActInv, AddText
  <2>2. ASSUME on, NEW r \in a.rules \ permanent, Change(s, a, table, permanent \cup {r}),
               event' = NoEvent
        PROVE  FwInv'
    <3>1. ActInv(a)'
      BY <1>1, <1>2, <1>7 DEF ActInv, AddText
    <3>2. permanent \cup {r} \subseteq Texts
      BY <1>2 DEF FwTable, Act
    <3>3. QED BY <1>2, <1>4, <1>7, <2>1, <2>2, <3>1, <3>2, NothingClaimed DEF AddText, FwTable
  <2>3. ASSUME a.rules \subseteq permanent, Continue(s, [a EXCEPT !.step = "apply"]) PROVE FwInv'
    <3>1. PICK op : op = [a EXCEPT !.step = "apply"]
      OBVIOUS
    <3>2. op \in Act /\ op.step = "apply" /\ op.kind = "add" /\ op.rules = a.rules
      BY <1>2, <2>1, <3>1 DEF Act, FwSteps
    <3>3. ActInv(op)
      BY <2>1, <2>3, <3>2 DEF ActInv
    <3>4. QED BY <1>7, <2>3, <3>1, <3>2, <3>3, Continues DEF AddText
  <2>4. QED BY <1>1, <1>3, <1>7, <2>2, <2>3 DEF AddText
<1>8. ASSUME Apply(s) PROVE FwInv'
  <2> SUFFICES ASSUME on, Change(s, NoAct, firewalldRules(permanent), permanent),
                      Happened(s, NoRule, TRUE, a.rules)
               PROVE  FwInv'
    BY <1>1, <1>3, <1>8 DEF Apply
  <2>1. /\ firewalld
        /\ ~a.touched /\ a.kind = "delete" => a.print \notin permanent
        /\ ~a.touched /\ a.kind = "add" => a.rules \subseteq permanent
    BY <1>1, <1>2, <1>8 DEF ActInv, Apply
  <2>2. PICK rules : rules = firewalldRules(permanent)
    OBVIOUS
  <2>3. Listed(rules, firewalld) /\ ToSet(rules) = permanent
    BY <1>2, <2>2, SortedListed, SortedRules DEF FwTable
  <2>4. table' = rules /\ permanent' = permanent
    BY <2>2 DEF Change
  <2>5. /\ event'.removed = NoRule /\ event'.print = a.print /\ event'.rules = a.rules
        /\ event'.kind = a.kind /\ event'.touched = a.touched
    BY <1>1 DEF Happened
  <2>6. ConfirmedIsRemoved' /\ CompletedInForce'
    BY <2>1, <2>3, <2>4, <2>5 DEF ConfirmedIsRemoved, CompletedInForce
  <2>7. QED BY <1>2, <1>4, <1>8, <2>1, <2>2, <2>3, <2>6, Idle DEF Apply, FwTable
<1>9. QED BY <1>5, <1>6, <1>7, <1>8

\* Somebody at the console: every process that is running is touched.
LEMMA Console ==
    ASSUME FwInv, NEW r \in Texts, Outside(r)
    PROVE  FwInv'
<1>1. FwTable /\ acts \in [FwSlots -> Act] /\ \A t \in FwSlots : ActInv(acts[t])
  BY FwParts
<1>2. UNCHANGED <<firewalld, on, page>> /\ (firewalld => on) /\ event' = NoEvent
  BY DEF Outside
<1>3. Listed(table', firewalld)
  <2>1. CASE table' = table
    BY <1>1, <2>1 DEF FwTable
  <2>2. ASSUME NEW i \in DOMAIN table, table' = RemoveAt(table, i) PROVE Listed(table', firewalld)
    BY <1>1, <2>2, RowRemoved DEF FwTable
  <2>3. CASE firewalld /\ table' = firewalldRules(ToSet(table) \cup {r})
    <3>1. ToSet(table) \subseteq Texts
      BY <1>1, LenProperties, ElementOfSeq DEF FwTable, Listed, ToSet
    <3>2. QED BY <2>3, <3>1, SortedListed
  <2>4. CASE ~firewalld /\ table' \in Inserted({r})
    <3>1. Listed(table', FALSE)
      BY <2>4, InsertedListed
    <3>2. QED BY <2>4, <3>1 DEF Listed
  <2>5. QED BY <2>1, <2>2, <2>3, <2>4 DEF Outside
<1>4. permanent' \subseteq Texts /\ (~firewalld => permanent' = {})
  BY <1>1 DEF Outside, FwTable
<1>5. FwTable'
  BY <1>1, <1>2, <1>3, <1>4 DEF FwTable, Listed
<1>6. \A a \in Act : [a EXCEPT !.touched = TRUE] \in Act
  BY DEF Act
<1>7. acts' \in [FwSlots -> Act]
  BY <1>1, <1>6 DEF Outside
<1>8. ASSUME NEW t \in FwSlots PROVE ActInv(acts[t])'
  <2>1. CASE acts'[t] = acts[t] /\ ~Executing(t)
    BY <2>1, <1>1, <1>2 DEF ActInv, Executing
  <2>2. CASE acts'[t] = [acts[t] EXCEPT !.touched = TRUE]
    <3>1. acts[t] \in Act /\ ActInv(acts[t])
      BY <1>1
    <3>2. acts'[t].touched = TRUE /\ acts'[t].step = acts[t].step /\ acts'[t].kind = acts[t].kind
          /\ acts'[t].print = acts[t].print
      BY <2>2, <3>1 DEF Act
    <3>3. QED BY <3>1, <3>2, <1>2 DEF ActInv
  <2>3. QED BY <2>1, <2>2 DEF Outside
<1>9. QED BY <1>2, <1>5, <1>7, <1>8, NothingClaimed, FwGoal

-----------------------------------------------------------------------------
\* Every step of the firewall, its page and its console keeps the invariant, for any
\* finite set of rules and any set of actions under way.
THEOREM FwInvariance == FwSpec => []FwInv
<1>1. FwInv /\ [FwNext]_fwVars => FwInv'
  <2> SUFFICES ASSUME FwInv, [FwNext]_fwVars PROVE FwInv'
    OBVIOUS
  <2>1. CASE UNCHANGED fwVars
    BY <2>1 DEF fwVars, FwInv, FwTypeOK, ActInv, ConfirmedIsRemoved, CompletedInForce
  <2>2. CASE FwNext
    <3>1. ASSUME NEW s \in FwSlots, Processes(s) PROVE FwInv'
      BY <3>1, Comparisons, ProgramSteps, Commands DEF Processes
    <3>2. QED BY <2>2, <3>1, PageSteps, Console DEF FwNext
  <2>3. QED BY <2>1, <2>2
<1>2. QED BY <1>1, FwStarts, PTL DEF FwSpec

\* The rules are always listed once, those of firewalld in the order of their numbers.
THEOREM FwTypeCorrect == FwSpec => []FwTypeOK
<1>1. FwInv => FwTypeOK
  BY DEF FwInv
<1>2. QED BY <1>1, FwInvariance, PTL

\* A deletion removes the rule that was confirmed, unless the rules change between its
\* own last comparison and its removal.
THEOREM ConfirmedRulesAreRemoved == FwSpec => []ConfirmedIsRemoved
<1>1. FwInv => ConfirmedIsRemoved
  BY DEF FwInv
<1>2. QED BY <1>1, FwInvariance, PTL

\* An action that reports completion is in force.
THEOREM CompletedActionsAreInForce == FwSpec => []CompletedInForce
<1>1. FwInv => CompletedInForce
  BY DEF FwInv
<1>2. QED BY <1>1, FwInvariance, PTL

-----------------------------------------------------------------------------
(* CronTables: what the lines of a table say. *)

\* The kinds of line, and what each one holds.
LEMMA LineKinds ==
    ASSUME NEW l \in Lines
    PROVE  /\ l.kind \in {"active", "suspended", "job"}
           /\ l.kind = "active" => l.id \in TaskIds /\ l = ActiveMarker(l.id)
           /\ l.kind = "suspended" => l.id \in TaskIds /\ l.job \in JobLines
                                      /\ l = SuspendedMarker(l.id, l.job)
           /\ l.kind = "job" => l.id = NoTask /\ l.job \in JobLines
  BY DEF Lines, ActiveMarker, SuspendedMarker, JobLine

\* What a line of each kind is made of.
LEMMA LinesMade ==
    /\ \A id : ActiveMarker(id).kind = "active" /\ ActiveMarker(id).id = id
    /\ \A id, job : /\ SuspendedMarker(id, job).kind = "suspended"
                    /\ SuspendedMarker(id, job).id = id /\ SuspendedMarker(id, job).job = job
    /\ \A job : JobLine(job).kind = "job" /\ JobLine(job).id = NoTask /\ JobLine(job).job = job
    /\ \A id \in TaskIds : ActiveMarker(id) \in Lines
    /\ \A id \in TaskIds, job \in JobLines : SuspendedMarker(id, job) \in Lines
    /\ \A job \in JobLines : JobLine(job) \in Lines
<1>1. \A id : ActiveMarker(id).kind = "active" /\ ActiveMarker(id).id = id
  BY DEF ActiveMarker
<1>2. \A id, job : /\ SuspendedMarker(id, job).kind = "suspended"
                   /\ SuspendedMarker(id, job).id = id /\ SuspendedMarker(id, job).job = job
  BY DEF SuspendedMarker
<1>3. \A job : JobLine(job).kind = "job" /\ JobLine(job).id = NoTask /\ JobLine(job).job = job
  BY DEF JobLine
<1>4. /\ \A id \in TaskIds : ActiveMarker(id) \in Lines
      /\ \A id \in TaskIds, job \in JobLines : SuspendedMarker(id, job) \in Lines
      /\ \A job \in JobLines : JobLine(job) \in Lines
  BY DEF Lines
<1>5. QED BY <1>1, <1>2, <1>3, <1>4

\* A marker is found on a line.
LEMMA MarkedByLines ==
    \A lines, id : id \in Marked(lines) <=> id # NoTask /\ \E i \in DOMAIN lines : lines[i].id = id
  BY Zenon DEF Marked

\* A line says of a task that it has a job, and that it is enabled or not.
Says(lines, i, id, job, enabled) ==
    /\ lines[i].id = id
    /\ enabled => lines[i].kind = "active" /\ lines[i + 1].job = job
    /\ ~enabled => lines[i].kind = "suspended" /\ lines[i].job = job

\* What lines say of a task, line by line.
LEMMA SaidByLines ==
    ASSUME NEW lines \in Seq(Lines), Written(lines), NEW id \in TaskIds
    PROVE  /\ Said(lines, id) \subseteq JobLines \X BOOLEAN
           /\ \A job \in JobLines, enabled \in BOOLEAN :
                 <<job, enabled>> \in Said(lines, id) <=> \E i \in DOMAIN lines : Says(lines, i, id, job, enabled)
<1>1. /\ Len(lines) \in Nat /\ DOMAIN lines = 1 .. Len(lines)
      /\ \A i \in DOMAIN lines : lines[i] \in Lines
  BY LenProperties, ElementOfSeq
<1>2. \A i \in DOMAIN lines :
         lines[i].kind = "active" => i + 1 \in DOMAIN lines /\ lines[i + 1].kind = "job"
  BY DEF Written
<1>3. \A i \in DOMAIN lines :
         lines[i] = ActiveMarker(id) <=> lines[i].kind = "active" /\ lines[i].id = id
  BY <1>1, LineKinds, LinesMade
<1>4. \A i \in DOMAIN lines, job \in JobLines :
         lines[i] = SuspendedMarker(id, job)
            <=> lines[i].kind = "suspended" /\ lines[i].id = id /\ lines[i].job = job
  BY <1>1, LineKinds, LinesMade
<1>5. \A i \in DOMAIN lines : lines[i] = ActiveMarker(id) => lines[i + 1].job \in JobLines
  BY <1>1, <1>2, <1>3, LineKinds
<1>6. PICK A : A = {<<lines[i + 1].job, TRUE>> : i \in {j \in DOMAIN lines : lines[j] = ActiveMarker(id)}}
  OBVIOUS
<1>7. PICK K : K = {k \in JobLines : \E i \in DOMAIN lines : lines[i] = SuspendedMarker(id, k)}
  OBVIOUS
<1>8. PICK B : B = {<<job, FALSE>> : job \in K}
  OBVIOUS
<1>9. Said(lines, id) = A \cup B
  BY <1>6, <1>7, <1>8 DEF Said
<1>10. A \subseteq JobLines \X BOOLEAN /\ B \subseteq JobLines \X BOOLEAN
  <2>1. \A x \in A : \E job \in JobLines : x = <<job, TRUE>>
    BY <1>5, <1>6, Zenon
  <2>2. \A x \in B : \E job \in JobLines : x = <<job, FALSE>>
    BY <1>7, <1>8, Zenon
  <2>3. \A job \in JobLines, enabled \in BOOLEAN : <<job, enabled>> \in JobLines \X BOOLEAN
    OBVIOUS
  <2>4. QED BY <2>1, <2>2, <2>3, Zenon
<1>11. \A job \in JobLines : <<job, TRUE>> \notin B /\ <<job, FALSE>> \notin A
  BY <1>6, <1>8
<1>12. \A job \in JobLines :
          <<job, TRUE>> \in A <=> \E i \in DOMAIN lines : lines[i] = ActiveMarker(id) /\ lines[i + 1].job = job
  BY <1>6
<1>13. \A job \in JobLines :
          <<job, FALSE>> \in B <=> \E i \in DOMAIN lines : lines[i] = SuspendedMarker(id, job)
  BY <1>7, <1>8
<1>14. \A job \in JobLines :
          <<job, TRUE>> \in Said(lines, id) <=> \E i \in DOMAIN lines : Says(lines, i, id, job, TRUE)
  BY <1>9, <1>11, <1>12, <1>3 DEF Says
<1>15. \A job \in JobLines :
          <<job, FALSE>> \in Said(lines, id) <=> \E i \in DOMAIN lines : Says(lines, i, id, job, FALSE)
  BY <1>9, <1>11, <1>13, <1>4 DEF Says
<1>16. QED BY <1>9, <1>10, <1>14, <1>15

\* Two sets of answers that hold the same answers are the same.
LEMMA SameAnswers ==
    ASSUME NEW A \in SUBSET (JobLines \X BOOLEAN), NEW B \in SUBSET (JobLines \X BOOLEAN),
           \A job \in JobLines, enabled \in BOOLEAN : <<job, enabled>> \in A <=> <<job, enabled>> \in B
    PROVE  A = B
  OBVIOUS

\* Tables joined: they parse together, and say what each one says.
LEMMA Joined ==
    ASSUME NEW a \in Seq(Lines), NEW b \in Seq(Lines), Written(a), Written(b)
    PROVE  /\ a \o b \in Seq(Lines) /\ Written(a \o b)
           /\ Marked(a \o b) = Marked(a) \cup Marked(b)
           /\ \A id \in TaskIds : Said(a \o b, id) = Said(a, id) \cup Said(b, id)
<1>1. PICK c : c = a \o b
  OBVIOUS
<1>2. PICK m \in Nat, n \in Nat : m = Len(a) /\ n = Len(b)
  BY LenProperties
<1>3. DOMAIN a = 1 .. m /\ DOMAIN b = 1 .. n
  BY <1>2, LenProperties
<1>4. c \in Seq(Lines) /\ DOMAIN c = 1 .. m + n
      /\ \A i \in 1 .. m + n : c[i] = IF i <= m THEN a[i] ELSE b[i - m]
  BY <1>1, <1>2, ConcatProperties, LenProperties
<1>5. \A i \in 1 .. m : c[i] = a[i] /\ (a[i].kind = "active" => i + 1 \in 1 .. m /\ a[i + 1].kind = "job")
  <2>1. \A i \in 1 .. m : i \in 1 .. m + n /\ i <= m
    BY <1>2
  <2>2. \A i \in 1 .. m : a[i].kind = "active" => i + 1 \in 1 .. m /\ a[i + 1].kind = "job"
    BY <1>3 DEF Written
  <2>3. \A i \in 1 .. m : c[i] = a[i]
    BY <2>1, <1>4
  <2>4. QED BY <2>2, <2>3
<1>6. \A i \in 1 .. n : c[i + m] = b[i] /\ i + m \in 1 .. m + n
                        /\ (b[i].kind = "active" => i + 1 \in 1 .. n /\ b[i + 1].kind = "job")
  <2>1. \A i \in 1 .. n : i + m \in 1 .. m + n /\ ~ (i + m <= m) /\ (i + m) - m = i
    BY <1>2
  <2>2. \A i \in 1 .. n : b[i].kind = "active" => i + 1 \in 1 .. n /\ b[i + 1].kind = "job"
    BY <1>3 DEF Written
  <2>3. \A i \in 1 .. n : c[i + m] = b[i]
    <3> SUFFICES ASSUME NEW i \in 1 .. n PROVE c[i + m] = b[i]
      OBVIOUS
    <3>1. c[i + m] = b[(i + m) - m]
      BY <2>1, <1>4
    <3>2. QED BY <2>1, <3>1
  <2>4. QED BY <2>1, <2>2, <2>3
<1>7. \A i \in 1 .. m + n : i \in 1 .. m \/ \E j \in 1 .. n : i = j + m
  <2> SUFFICES ASSUME NEW i \in 1 .. m + n, i \notin 1 .. m PROVE i - m \in 1 .. n /\ i = (i - m) + m
    OBVIOUS
  <2>1. QED BY <1>2
<1>8. Written(c)
  <2> SUFFICES ASSUME NEW i \in 1 .. m + n, c[i].kind = "active"
               PROVE  i + 1 \in 1 .. m + n /\ c[i + 1].kind = "job"
    BY <1>4 DEF Written
  <2>1. CASE i \in 1 .. m
    BY <2>1, <1>2, <1>5
  <2>2. ASSUME NEW j \in 1 .. n, i = j + m PROVE i + 1 \in 1 .. m + n /\ c[i + 1].kind = "job"
    <3>1. j + 1 \in 1 .. n /\ b[j + 1].kind = "job"
      BY <2>2, <1>6
    <3>2. i + 1 = (j + 1) + m
      BY <2>2, <1>2
    <3>3. QED BY <3>1, <3>2, <1>6
  <2>3. QED BY <2>1, <2>2, <1>7
<1>9. Marked(c) = Marked(a) \cup Marked(b)
  <2>1. ASSUME NEW i \in 1 .. m + n
        PROVE  (\E j \in 1 .. m : c[i].id = a[j].id) \/ \E j \in 1 .. n : c[i].id = b[j].id
    <3>1. CASE i \in 1 .. m
      BY <3>1, <1>5
    <3>2. ASSUME NEW j \in 1 .. n, i = j + m PROVE c[i].id = b[j].id
      BY <3>2, <1>6
    <3>3. QED BY <3>1, <3>2, <1>7
  <2>2. \A i \in 1 .. m : \E j \in 1 .. m + n : c[j].id = a[i].id
    <3>1. \A i \in 1 .. m : i \in 1 .. m + n
      BY <1>2
    <3>2. QED BY <3>1, <1>5
  <2>3. \A i \in 1 .. n : \E j \in 1 .. m + n : c[j].id = b[i].id
    BY <1>6
  <2>4. \A x : x \in Marked(c) <=> x \in Marked(a) \/ x \in Marked(b)
    <3>1. DOMAIN c = 1 .. m + n
      BY <1>4
    <3>2. ASSUME NEW x, x \in Marked(c) PROVE x \in Marked(a) \/ x \in Marked(b)
      <4>1. PICK i \in 1 .. m + n : c[i].id = x
        BY <3>1, <3>2, MarkedByLines
      <4>2. x # NoTask
        BY <3>2, MarkedByLines
      <4>3. (\E j \in 1 .. m : x = a[j].id) \/ \E j \in 1 .. n : x = b[j].id
        BY <4>1, <2>1
      <4>4. QED BY <4>2, <4>3, <1>3, MarkedByLines
    <3>3. ASSUME NEW x, x \in Marked(a) PROVE x \in Marked(c)
      <4>1. PICK i \in 1 .. m : a[i].id = x
        BY <1>3, <3>3, MarkedByLines
      <4>2. x # NoTask
        BY <3>3, MarkedByLines
      <4>3. PICK j \in 1 .. m + n : c[j].id = x
        BY <4>1, <2>2
      <4>4. QED BY <3>1, <4>2, <4>3, MarkedByLines
    <3>4. ASSUME NEW x, x \in Marked(b) PROVE x \in Marked(c)
      <4>1. PICK i \in 1 .. n : b[i].id = x
        BY <1>3, <3>4, MarkedByLines
      <4>2. x # NoTask
        BY <3>4, MarkedByLines
      <4>3. PICK j \in 1 .. m + n : c[j].id = x
        BY <4>1, <2>3
      <4>4. QED BY <3>1, <4>2, <4>3, MarkedByLines
    <3>5. QED BY <3>2, <3>3, <3>4
  <2>5. QED BY <2>4
<1>10. ASSUME NEW id \in TaskIds PROVE Said(c, id) = Said(a, id) \cup Said(b, id)
  <2>1. \A i \in 1 .. m, job \in JobLines, enabled \in BOOLEAN :
           Says(c, i, id, job, enabled) <=> Says(a, i, id, job, enabled)
    BY <1>2, <1>5 DEF Says
  <2>2. \A i \in 1 .. n, job \in JobLines, enabled \in BOOLEAN :
           Says(c, i + m, id, job, enabled) <=> Says(b, i, id, job, enabled)
    <3> SUFFICES ASSUME NEW i \in 1 .. n, NEW job \in JobLines, NEW enabled \in BOOLEAN
                 PROVE  Says(c, i + m, id, job, enabled) <=> Says(b, i, id, job, enabled)
      OBVIOUS
    <3>1. c[i + m] = b[i]
      BY <1>6
    <3>2. b[i].kind = "active" => c[(i + m) + 1] = b[i + 1]
      <4>1. (i + m) + 1 = (i + 1) + m
        BY <1>2
      <4>2. QED BY <4>1, <1>6
    <3>3. QED BY <3>1, <3>2 DEF Says
  <2>3. \A job \in JobLines, enabled \in BOOLEAN :
           (\E i \in 1 .. m + n : Says(c, i, id, job, enabled))
              <=> \/ \E i \in 1 .. m : Says(a, i, id, job, enabled)
                  \/ \E i \in 1 .. n : Says(b, i, id, job, enabled)
    <3> SUFFICES ASSUME NEW job \in JobLines, NEW enabled \in BOOLEAN
                 PROVE  (\E i \in 1 .. m + n : Says(c, i, id, job, enabled))
                           <=> \/ \E i \in 1 .. m : Says(a, i, id, job, enabled)
                               \/ \E i \in 1 .. n : Says(b, i, id, job, enabled)
      OBVIOUS
    <3>1. \A i \in 1 .. m : i \in 1 .. m + n
      BY <1>2
    <3>2. ASSUME NEW i \in 1 .. m + n, Says(c, i, id, job, enabled)
          PROVE  \/ \E j \in 1 .. m : Says(a, j, id, job, enabled)
                 \/ \E j \in 1 .. n : Says(b, j, id, job, enabled)
      <4>1. CASE i \in 1 .. m
        BY <3>2, <4>1, <2>1
      <4>2. ASSUME NEW j \in 1 .. n, i = j + m PROVE Says(b, j, id, job, enabled)
        BY <3>2, <4>2, <2>2
      <4>3. QED BY <4>1, <4>2, <1>7
    <3>3. \A i \in 1 .. m : Says(a, i, id, job, enabled) => \E j \in 1 .. m + n : Says(c, j, id, job, enabled)
      BY <3>1, <2>1
    <3>4. \A i \in 1 .. n : Says(b, i, id, job, enabled) => \E j \in 1 .. m + n : Says(c, j, id, job, enabled)
      BY <1>6, <2>2
    <3>5. QED BY <3>2, <3>3, <3>4
  <2>4. /\ Said(c, id) \subseteq JobLines \X BOOLEAN
        /\ \A job \in JobLines, enabled \in BOOLEAN :
              <<job, enabled>> \in Said(c, id) <=> \E i \in 1 .. m + n : Says(c, i, id, job, enabled)
    BY <1>4, <1>8, SaidByLines
  <2>5. /\ Said(a, id) \subseteq JobLines \X BOOLEAN
        /\ \A job \in JobLines, enabled \in BOOLEAN :
              <<job, enabled>> \in Said(a, id) <=> \E i \in 1 .. m : Says(a, i, id, job, enabled)
    BY <1>3, SaidByLines
  <2>6. /\ Said(b, id) \subseteq JobLines \X BOOLEAN
        /\ \A job \in JobLines, enabled \in BOOLEAN :
              <<job, enabled>> \in Said(b, id) <=> \E i \in 1 .. n : Says(b, i, id, job, enabled)
    BY <1>3, SaidByLines
  <2>7. \A job \in JobLines, enabled \in BOOLEAN :
           <<job, enabled>> \in Said(c, id) <=> <<job, enabled>> \in Said(a, id) \cup Said(b, id)
    BY <2>3, <2>4, <2>5, <2>6
  <2>8. Said(a, id) \cup Said(b, id) \in SUBSET (JobLines \X BOOLEAN) /\ Said(c, id) \in SUBSET (JobLines \X BOOLEAN)
    BY <2>4, <2>5, <2>6
  <2>9. QED BY <2>7, <2>8, SameAnswers
<1>11. QED BY <1>1, <1>4, <1>8, <1>9, <1>10


\* The tables a and b are what the lines s .. e of a table are between.
Beside(lines, s, e, a, b) ==
    /\ a \in Seq(Lines) /\ b \in Seq(Lines) /\ Written(a) /\ Written(b)
    /\ \A id \in Marked(a) \cup Marked(b) :
          id \in Marked(lines) /\ \E i \in DOMAIN lines : i \notin s .. e /\ lines[i].id = id
    /\ \A id \in TaskIds, job \in JobLines, enabled \in BOOLEAN :
          <<job, enabled>> \in Said(lines, id)
             <=> \/ <<job, enabled>> \in Said(a, id) \/ <<job, enabled>> \in Said(b, id)
                 \/ \E i \in s .. e : Says(lines, i, id, job, enabled)

\* What is left of a table on both sides of the lines s .. e, where s does not follow a marker.
LEMMA Sides ==
    ASSUME NEW lines \in Seq(Lines), Written(lines),
           NEW s \in 1 .. Len(lines), NEW e \in s .. Len(lines),
           s > 1 => lines[s - 1].kind # "active",
           NEW a, a = SubSeq(lines, 1, s - 1), NEW b, b = SubSeq(lines, e + 1, Len(lines))
    PROVE  Beside(lines, s, e, a, b)
<1>1. PICK m \in Nat : m = Len(lines) /\ DOMAIN lines = 1 .. m
  BY LenProperties
<1>2. s \in Nat /\ e \in Nat /\ 1 <= s /\ s <= e /\ e <= m
  BY <1>1
<1>3. \A i \in 1 .. m : /\ lines[i] \in Lines
                        /\ lines[i].kind = "active" => i + 1 \in 1 .. m /\ lines[i + 1].kind = "job"
  BY <1>1, ElementOfSeq DEF Written
<1>4. a \in Seq(Lines) /\ DOMAIN a = 1 .. s - 1 /\ \A i \in 1 .. s - 1 : a[i] = lines[i]
  <2>1. \A k \in 1 .. s - 1 : lines[k] \in Lines
    BY <1>2, <1>3
  <2>2. /\ SubSeq(lines, 1, s - 1) \in Seq(Lines)
        /\ Len(SubSeq(lines, 1, s - 1)) = IF 1 <= s - 1 THEN s - 1 - 1 + 1 ELSE 0
        /\ \A k \in 1 .. s - 1 - 1 + 1 : SubSeq(lines, 1, s - 1)[k] = lines[1 + k - 1]
    BY <2>1, <1>2, SubSeqProperties, 1 \in Int, s - 1 \in Int
  <2>3. a \in Seq(Lines) /\ Len(a) = s - 1 /\ \A i \in 1 .. s - 1 : a[i] = lines[i]
    BY <2>2, <1>2
  <2>4. QED BY <2>3, LenProperties
<1>5. b \in Seq(Lines) /\ DOMAIN b = 1 .. m - e /\ \A i \in 1 .. m - e : b[i] = lines[i + e]
  <2>1. \A k \in e + 1 .. m : lines[k] \in Lines
    BY <1>2, <1>3
  <2>2. /\ SubSeq(lines, e + 1, m) \in Seq(Lines)
        /\ Len(SubSeq(lines, e + 1, m)) = IF e + 1 <= m THEN m - (e + 1) + 1 ELSE 0
        /\ \A k \in 1 .. m - (e + 1) + 1 : SubSeq(lines, e + 1, m)[k] = lines[(e + 1) + k - 1]
    BY <2>1, <1>2, SubSeqProperties, e + 1 \in Int, m \in Int
  <2>3. \A k \in 1 .. m - e : (e + 1) + k - 1 = k + e
    BY <1>2
  <2>4. b \in Seq(Lines) /\ Len(b) = m - e /\ \A i \in 1 .. m - e : b[i] = lines[i + e]
    <3>1. b = SubSeq(lines, e + 1, m)
      BY <1>1
    <3>2. b \in Seq(Lines) /\ Len(b) = m - e
      BY <2>2, <3>1, <1>2
    <3>3. m - (e + 1) + 1 = m - e
      BY <1>2
    <3>4. \A k \in 1 .. m - e : b[k] = lines[(e + 1) + k - 1]
      BY <2>2, <3>1, <3>3
    <3>5. QED BY <3>2, <3>4, <2>3
  <2>5. QED BY <2>4, LenProperties
<1>6. \A i \in 1 .. s - 1 : i \in 1 .. m /\ i \notin s .. e
  BY <1>2
<1>7. \A i \in 1 .. m - e : i + e \in 1 .. m /\ i + e \notin s .. e /\ (i + e) + 1 = (i + 1) + e
                            /\ (i + e + 1 \in 1 .. m => i + 1 \in 1 .. m - e)
  BY <1>2
<1>8. \A i \in 1 .. m : i \in 1 .. s - 1 \/ i \in s .. e \/ \E j \in 1 .. m - e : i = j + e
  <2> SUFFICES ASSUME NEW i \in 1 .. m, i \notin 1 .. s - 1, i \notin s .. e
               PROVE  i - e \in 1 .. m - e /\ i = (i - e) + e
    OBVIOUS
  <2>1. QED BY <1>2
<1>9. Written(a)
  <2> SUFFICES ASSUME NEW i \in 1 .. s - 1, a[i].kind = "active"
               PROVE  i + 1 \in 1 .. s - 1 /\ a[i + 1].kind = "job"
    BY <1>4 DEF Written
  <2>1. lines[i].kind = "active" /\ lines[i + 1].kind = "job"
    BY <1>3, <1>4, <1>6
  <2>2. i # s - 1
    <3>1. i = s - 1 => s > 1
      BY <1>2
    <3>2. QED BY <2>1, <3>1
  <2>3. i + 1 \in 1 .. s - 1
    BY <2>2, <1>2
  <2>4. QED BY <2>1, <2>3, <1>4
<1>10. Written(b)
  <2> SUFFICES ASSUME NEW i \in 1 .. m - e, b[i].kind = "active"
               PROVE  i + 1 \in 1 .. m - e /\ b[i + 1].kind = "job"
    BY <1>5 DEF Written
  <2>1. lines[i + e].kind = "active"
    BY <1>5
  <2>2. (i + e) + 1 \in 1 .. m /\ lines[(i + e) + 1].kind = "job"
    BY <2>1, <1>3, <1>7
  <2>3. i + 1 \in 1 .. m - e
    BY <2>2, <1>7
  <2>4. QED BY <2>2, <2>3, <1>5, <1>7
<1>11. \A id \in Marked(a) \cup Marked(b) :
          id \in Marked(lines) /\ \E i \in DOMAIN lines : i \notin s .. e /\ lines[i].id = id
  <2>1. ASSUME NEW id \in Marked(a)
        PROVE  id # NoTask /\ \E i \in 1 .. m : i \notin s .. e /\ lines[i].id = id
    <3>a. DOMAIN a = 1 .. s - 1
      BY <1>4
    <3>b. \E i \in DOMAIN a : a[i].id = id
      BY MarkedByLines, Zenon
    <3>1. PICK i \in 1 .. s - 1 : a[i].id = id
      BY <3>a, <3>b, Zenon
    <3>2. QED BY <3>1, <1>4, <1>6, MarkedByLines
  <2>2. ASSUME NEW id \in Marked(b)
        PROVE  id # NoTask /\ \E i \in 1 .. m : i \notin s .. e /\ lines[i].id = id
    <3>a. DOMAIN b = 1 .. m - e
      BY <1>5
    <3>b. \E i \in DOMAIN b : b[i].id = id
      BY MarkedByLines, Zenon
    <3>1. PICK i \in 1 .. m - e : b[i].id = id
      BY <3>a, <3>b, Zenon
    <3>2. i + e \in 1 .. m /\ i + e \notin s .. e /\ lines[i + e].id = id
      BY <3>1, <1>5, <1>7
    <3>3. QED BY <3>2, MarkedByLines
  <2>3. QED BY <2>1, <2>2, <1>1, MarkedByLines
<1>12. ASSUME NEW id \in TaskIds, NEW job \in JobLines, NEW enabled \in BOOLEAN
       PROVE  (\E i \in 1 .. m : Says(lines, i, id, job, enabled))
                 <=> \/ \E i \in 1 .. s - 1 : Says(a, i, id, job, enabled)
                     \/ \E i \in 1 .. m - e : Says(b, i, id, job, enabled)
                     \/ \E i \in s .. e : Says(lines, i, id, job, enabled)
  <2>1. ASSUME NEW i \in 1 .. s - 1 PROVE Says(lines, i, id, job, enabled) <=> Says(a, i, id, job, enabled)
    <3>1. a[i] = lines[i]
      BY <1>4
    <3>2. a[i].kind = "active" => i + 1 \in 1 .. s - 1
      BY <1>4, <1>9 DEF Written
    <3>3. a[i].kind = "active" => a[i + 1] = lines[i + 1]
      BY <3>2, <1>4
    <3>4. QED BY <3>1, <3>3 DEF Says
  <2>2. ASSUME NEW i \in 1 .. m - e PROVE Says(lines, i + e, id, job, enabled) <=> Says(b, i, id, job, enabled)
    <3>1. b[i] = lines[i + e]
      BY <1>5
    <3>2. b[i].kind = "active" => i + 1 \in 1 .. m - e
      BY <1>5, <1>10 DEF Written
    <3>3. b[i].kind = "active" => b[i + 1] = lines[(i + e) + 1]
      BY <3>2, <1>5, <1>7
    <3>4. QED BY <3>1, <3>3 DEF Says
  <2>3. ASSUME NEW i \in 1 .. m, Says(lines, i, id, job, enabled)
        PROVE  \/ \E j \in 1 .. s - 1 : Says(a, j, id, job, enabled)
               \/ \E j \in 1 .. m - e : Says(b, j, id, job, enabled)
               \/ \E j \in s .. e : Says(lines, j, id, job, enabled)
    <3>1. CASE i \in 1 .. s - 1
      BY <3>1, <2>1, <2>3
    <3>2. CASE i \in s .. e
      BY <3>2, <2>3
    <3>3. ASSUME NEW j \in 1 .. m - e, i = j + e PROVE Says(b, j, id, job, enabled)
      BY <3>3, <2>2, <2>3
    <3>4. QED BY <3>1, <3>2, <3>3, <1>8
  <2>4. ASSUME NEW i \in 1 .. s - 1, Says(a, i, id, job, enabled) PROVE \E j \in 1 .. m : Says(lines, j, id, job, enabled)
    BY <2>1, <2>4, <1>6
  <2>5. ASSUME NEW i \in 1 .. m - e, Says(b, i, id, job, enabled) PROVE \E j \in 1 .. m : Says(lines, j, id, job, enabled)
    BY <2>2, <2>5, <1>7
  <2>6. \A i \in s .. e : i \in 1 .. m
    BY <1>2
  <2>7. QED BY <2>3, <2>4, <2>5, <2>6
<1>13. ASSUME NEW id \in TaskIds, NEW job \in JobLines, NEW enabled \in BOOLEAN
       PROVE  /\ <<job, enabled>> \in Said(lines, id) <=> \E i \in 1 .. m : Says(lines, i, id, job, enabled)
              /\ <<job, enabled>> \in Said(a, id) <=> \E i \in 1 .. s - 1 : Says(a, i, id, job, enabled)
              /\ <<job, enabled>> \in Said(b, id) <=> \E i \in 1 .. m - e : Says(b, i, id, job, enabled)
  <2>1. <<job, enabled>> \in Said(lines, id) <=> \E i \in 1 .. m : Says(lines, i, id, job, enabled)
    BY <1>1, SaidByLines
  <2>2. <<job, enabled>> \in Said(a, id) <=> \E i \in 1 .. s - 1 : Says(a, i, id, job, enabled)
    BY <1>4, <1>9, SaidByLines
  <2>3. <<job, enabled>> \in Said(b, id) <=> \E i \in 1 .. m - e : Says(b, i, id, job, enabled)
    BY <1>5, <1>10, SaidByLines
  <2>4. QED BY <2>1, <2>2, <2>3
<1>14. \A id \in TaskIds, job \in JobLines, enabled \in BOOLEAN :
          <<job, enabled>> \in Said(lines, id)
             <=> \/ <<job, enabled>> \in Said(a, id) \/ <<job, enabled>> \in Said(b, id)
                 \/ \E i \in s .. e : Says(lines, i, id, job, enabled)
  BY <1>12, <1>13
<1>15. QED BY <1>4, <1>5, <1>9, <1>10, <1>11, <1>14 DEF Beside

\* The records of a table are of three sorts.
LEMMA RecordSorts ==
    ASSUME NEW lines, NEW r
    PROVE  r \in Records(lines) <=>
             \/ \E i \in DOMAIN lines :
                   /\ lines[i].kind = "active"
                   /\ r = [id |-> lines[i].id, job |-> lines[i + 1].job, start |-> i, end |-> i + 1,
                           enabled |-> TRUE, managed |-> TRUE]
             \/ \E i \in DOMAIN lines :
                   /\ lines[i].kind = "suspended"
                   /\ r = [id |-> lines[i].id, job |-> lines[i].job, start |-> i, end |-> i,
                           enabled |-> FALSE, managed |-> TRUE]
             \/ \E i \in Legacy(lines, Len(lines)) :
                   r = [id |-> LegacyId(lines, i), job |-> lines[i].job, start |-> i, end |-> i,
                        enabled |-> TRUE, managed |-> FALSE]
  BY Zenon DEF Records

\* The identifier of a task of the user is none that was drawn.
LEMMA LegacyIdentifiers ==
    ASSUME NEW lines \in Seq(Lines), NEW i \in Legacy(lines, Len(lines))
    PROVE  /\ i \in 1 .. Len(lines) /\ lines[i].kind = "job" /\ (i > 1 => lines[i - 1].kind # "active")
           /\ lines[i].job \in JobLines /\ LegacyId(lines, i) \notin TaskIds
<1>1. i \in 1 .. Len(lines) /\ lines[i].kind = "job" /\ (i > 1 => lines[i - 1].kind # "active")
  BY DEF Legacy
<1>2. lines[i].job \in JobLines
  BY <1>1, ElementOfSeq, LineKinds
<1>3. PICK S : S = {j \in Legacy(lines, i) : lines[j].job = lines[i].job}
  OBVIOUS
<1>4. S \subseteq 1 .. i
  BY <1>3 DEF Legacy
<1>5. i \in Int /\ IsFiniteSet(1 .. i)
  BY <1>1, FS_Interval, LenProperties, 1 \in Int
<1>6. Cardinality(S) \in Nat
  BY <1>4, <1>5, FS_Subset, FS_CardinalityType
<1>7. LegacyId(lines, i) = <<lines[i].job, Cardinality(S)>>
  BY <1>3 DEF LegacyId
<1>8. LegacyId(lines, i) \in JobLines \X Nat
  BY <1>2, <1>6, <1>7
<1>9. QED BY <1>1, <1>2, <1>8, CronAssumption

\* A record stands for lines that no marker precedes, which say of its task what it does and
\* nothing of another; that of a task of the user says nothing of a task that was drawn.
LEMMA RecordShape ==
    ASSUME NEW lines \in Seq(Lines), Written(lines), NEW r \in Records(lines)
    PROVE  /\ r.start \in 1 .. Len(lines) /\ r.end \in r.start .. Len(lines)
           /\ r.start > 1 => lines[r.start - 1].kind # "active"
           /\ r.job \in JobLines /\ r.enabled \in BOOLEAN /\ r.managed \in BOOLEAN
           /\ r.managed <=> r.id \in TaskIds
           /\ \A id \in TaskIds, job \in JobLines, enabled \in BOOLEAN :
                 (\E i \in r.start .. r.end : Says(lines, i, id, job, enabled))
                    <=> r.id = id /\ r.job = job /\ r.enabled = enabled
<1>1. PICK m \in Nat : m = Len(lines) /\ DOMAIN lines = 1 .. m
  BY LenProperties
<1>2. \A i \in 1 .. m : /\ lines[i] \in Lines
                        /\ lines[i].kind = "active" => i + 1 \in 1 .. m /\ lines[i + 1].kind = "job"
  BY <1>1, ElementOfSeq DEF Written
<1>3. \A i \in 1 .. m : lines[i].kind # "job" /\ i > 1 => lines[i - 1].kind # "active"
  <2> SUFFICES ASSUME NEW i \in 1 .. m, i > 1, lines[i - 1].kind = "active" PROVE lines[i].kind = "job"
    OBVIOUS
  <2>1. i - 1 \in 1 .. m /\ (i - 1) + 1 = i
    BY <1>1
  <2>2. QED BY <2>1, <1>2
<1>4. ASSUME NEW i \in 1 .. m, lines[i].kind = "active",
             r = [id |-> lines[i].id, job |-> lines[i + 1].job, start |-> i, end |-> i + 1,
                  enabled |-> TRUE, managed |-> TRUE]
      PROVE  /\ r.start \in 1 .. m /\ r.end \in r.start .. m
             /\ r.start > 1 => lines[r.start - 1].kind # "active"
             /\ r.job \in JobLines /\ r.enabled \in BOOLEAN /\ r.managed \in BOOLEAN
             /\ r.managed <=> r.id \in TaskIds
             /\ \A id \in TaskIds, job \in JobLines, enabled \in BOOLEAN :
                   (\E k \in r.start .. r.end : Says(lines, k, id, job, enabled))
                      <=> r.id = id /\ r.job = job /\ r.enabled = enabled
  <2>1. /\ r.id = lines[i].id /\ r.job = lines[i + 1].job /\ r.start = i /\ r.end = i + 1
        /\ r.enabled = TRUE /\ r.managed = TRUE
    BY <1>4
  <2>2. i + 1 \in 1 .. m /\ lines[i + 1].kind = "job" /\ lines[i + 1] \in Lines /\ lines[i].id \in TaskIds
    BY <1>2, <1>4, LineKinds
  <2>3. lines[i + 1].job \in JobLines
    BY <2>2, LineKinds
  <2>4. ASSUME NEW id \in TaskIds, NEW job \in JobLines, NEW enabled \in BOOLEAN
        PROVE  (\E k \in i .. i + 1 : Says(lines, k, id, job, enabled)) <=> r.id = id /\ r.job = job /\ r.enabled = enabled
    <3>1. Says(lines, i, id, job, enabled) <=> lines[i].id = id /\ lines[i + 1].job = job /\ enabled = TRUE
      BY <1>4 DEF Says
    <3>2. ~ Says(lines, i + 1, id, job, enabled)
      BY <2>2 DEF Says
    <3>3. \A k \in i .. i + 1 : k = i \/ k = i + 1
      BY <1>1
    <3>4. i \in i .. i + 1
      BY <1>1
    <3>5. QED BY <2>1, <3>1, <3>2, <3>3, <3>4
  <2>5. i + 1 \in i .. m
    BY <2>2, <1>1
  <2>6. i > 1 => lines[i - 1].kind # "active"
    BY <1>3, <1>4
  <2>7. \A id \in TaskIds, job \in JobLines, enabled \in BOOLEAN :
           (\E k \in r.start .. r.end : Says(lines, k, id, job, enabled))
              <=> r.id = id /\ r.job = job /\ r.enabled = enabled
    BY <2>1, <2>4, Zenon
  <2>8. r.managed <=> r.id \in TaskIds
    BY <2>1, <2>2
  <2>9. QED BY <2>1, <2>2, <2>3, <2>5, <2>6, <2>7, <2>8
<1>5. ASSUME NEW i \in 1 .. m, lines[i].kind = "suspended",
             r = [id |-> lines[i].id, job |-> lines[i].job, start |-> i, end |-> i,
                  enabled |-> FALSE, managed |-> TRUE]
      PROVE  /\ r.start \in 1 .. m /\ r.end \in r.start .. m
             /\ r.start > 1 => lines[r.start - 1].kind # "active"
             /\ r.job \in JobLines /\ r.enabled \in BOOLEAN /\ r.managed \in BOOLEAN
             /\ r.managed <=> r.id \in TaskIds
             /\ \A id \in TaskIds, job \in JobLines, enabled \in BOOLEAN :
                   (\E k \in r.start .. r.end : Says(lines, k, id, job, enabled))
                      <=> r.id = id /\ r.job = job /\ r.enabled = enabled
  <2>1. /\ r.id = lines[i].id /\ r.job = lines[i].job /\ r.start = i /\ r.end = i
        /\ r.enabled = FALSE /\ r.managed = TRUE
    BY <1>5
  <2>2. lines[i].id \in TaskIds /\ lines[i].job \in JobLines
    BY <1>2, <1>5, LineKinds
  <2>4. ASSUME NEW id \in TaskIds, NEW job \in JobLines, NEW enabled \in BOOLEAN
        PROVE  (\E k \in i .. i : Says(lines, k, id, job, enabled)) <=> r.id = id /\ r.job = job /\ r.enabled = enabled
    <3>1. Says(lines, i, id, job, enabled) <=> lines[i].id = id /\ lines[i].job = job /\ enabled = FALSE
      BY <1>5 DEF Says
    <3>3. i \in i .. i /\ \A k \in i .. i : k = i
      BY <1>1
    <3>5. QED BY <2>1, <3>1, <3>3
  <2>5. i \in i .. m
    BY <1>1
  <2>6. i > 1 => lines[i - 1].kind # "active"
    BY <1>3, <1>5
  <2>7. \A id \in TaskIds, job \in JobLines, enabled \in BOOLEAN :
           (\E k \in r.start .. r.end : Says(lines, k, id, job, enabled))
              <=> r.id = id /\ r.job = job /\ r.enabled = enabled
    BY <2>1, <2>4, Zenon
  <2>8. r.managed <=> r.id \in TaskIds
    BY <2>1, <2>2
  <2>9. QED BY <2>1, <2>2, <2>5, <2>6, <2>7, <2>8
<1>6. ASSUME NEW i \in Legacy(lines, Len(lines)),
             r = [id |-> LegacyId(lines, i), job |-> lines[i].job, start |-> i, end |-> i,
                  enabled |-> TRUE, managed |-> FALSE]
      PROVE  /\ r.start \in 1 .. m /\ r.end \in r.start .. m
             /\ r.start > 1 => lines[r.start - 1].kind # "active"
             /\ r.job \in JobLines /\ r.enabled \in BOOLEAN /\ r.managed \in BOOLEAN
             /\ r.managed <=> r.id \in TaskIds
             /\ \A id \in TaskIds, job \in JobLines, enabled \in BOOLEAN :
                   (\E k \in r.start .. r.end : Says(lines, k, id, job, enabled))
                      <=> r.id = id /\ r.job = job /\ r.enabled = enabled
  <2>1. /\ r.id = LegacyId(lines, i) /\ r.job = lines[i].job /\ r.start = i /\ r.end = i
        /\ r.enabled = TRUE /\ r.managed = FALSE
    BY <1>6
  <2>2. /\ i \in 1 .. m /\ lines[i].kind = "job" /\ (i > 1 => lines[i - 1].kind # "active")
        /\ lines[i].job \in JobLines /\ LegacyId(lines, i) \notin TaskIds
    BY <1>1, LegacyIdentifiers
  <2>4. ASSUME NEW id \in TaskIds, NEW job \in JobLines, NEW enabled \in BOOLEAN
        PROVE  (\E k \in i .. i : Says(lines, k, id, job, enabled)) <=> r.id = id /\ r.job = job /\ r.enabled = enabled
    <3>1. ~ Says(lines, i, id, job, enabled)
      BY <2>2 DEF Says
    <3>3. \A k \in i .. i : k = i
      BY <1>1, <2>2
    <3>4. r.id # id
      BY <2>1, <2>2
    <3>5. QED BY <3>1, <3>3, <3>4
  <2>5. i \in i .. m
    BY <1>1, <2>2
  <2>7. \A id \in TaskIds, job \in JobLines, enabled \in BOOLEAN :
           (\E k \in r.start .. r.end : Says(lines, k, id, job, enabled))
              <=> r.id = id /\ r.job = job /\ r.enabled = enabled
    BY <2>1, <2>4, Zenon
  <2>8. r.managed <=> r.id \in TaskIds
    <3>1. r.id \notin TaskIds
      BY <2>1, <2>2, Zenon
    <3>2. r.managed = FALSE
      BY <2>1
    <3>3. QED BY <3>1, <3>2
  <2>9. QED BY <2>1, <2>2, <2>5, <2>7, <2>8
<1>7. QED BY <1>1, <1>4, <1>5, <1>6, RecordSorts

\* A marker has its record.
LEMMA MarkerHasRecord ==
    ASSUME NEW lines \in Seq(Lines), Written(lines), NEW i \in DOMAIN lines, lines[i].id \in TaskIds
    PROVE  \E r \in Records(lines) : r.id = lines[i].id /\ r.start = i
<1>1. lines[i] \in Lines
  BY ElementOfSeq, LenProperties
<1>2. NoTask \notin TaskIds
  BY CronAssumption
<1>3. CASE lines[i].kind = "active"
  <2>1. PICK r : r = [id |-> lines[i].id, job |-> lines[i + 1].job, start |-> i, end |-> i + 1,
                      enabled |-> TRUE, managed |-> TRUE]
    OBVIOUS
  <2>2. r \in Records(lines)
    BY <2>1, <1>3, RecordSorts
  <2>3. r.id = lines[i].id /\ r.start = i
    BY <2>1
  <2>4. QED BY <2>2, <2>3
<1>4. CASE lines[i].kind = "suspended"
  <2>1. PICK r : r = [id |-> lines[i].id, job |-> lines[i].job, start |-> i, end |-> i,
                      enabled |-> FALSE, managed |-> TRUE]
    OBVIOUS
  <2>2. r \in Records(lines)
    BY <2>1, <1>4, RecordSorts
  <2>3. r.id = lines[i].id /\ r.start = i
    BY <2>1
  <2>4. QED BY <2>2, <2>3
<1>5. lines[i].kind \in {"active", "suspended", "job"} /\ (lines[i].kind = "job" => lines[i].id = NoTask)
  BY <1>1, LineKinds
<1>6. lines[i].kind # "job"
  BY <1>2, <1>5
<1>7. QED BY <1>3, <1>4, <1>5, <1>6

\* The records of a task that was drawn are what its markers say.
LEMMA RecordsSay ==
    ASSUME NEW lines \in Seq(Lines), Written(lines), NEW id \in TaskIds
    PROVE  {<<r.job, r.enabled>> : r \in {x \in Records(lines) : x.id = id}} = Said(lines, id)
<1>1. PICK A : A = {<<r.job, r.enabled>> : r \in {x \in Records(lines) : x.id = id}}
  OBVIOUS
<1>2. \A x \in A : \E r \in Records(lines) : r.id = id /\ x = <<r.job, r.enabled>>
  BY <1>1, Zenon
<1>3. \A r \in Records(lines) : r.id = id => <<r.job, r.enabled>> \in A
  BY <1>1, Zenon
<1>4. \A r \in Records(lines) : r.job \in JobLines /\ r.enabled \in BOOLEAN /\ r.start \in 1 .. Len(lines)
                                /\ r.end \in r.start .. Len(lines)
  BY RecordShape
<1>5. A \subseteq JobLines \X BOOLEAN
  BY <1>2, <1>4
<1>6. /\ Said(lines, id) \subseteq JobLines \X BOOLEAN
      /\ \A job \in JobLines, enabled \in BOOLEAN :
            <<job, enabled>> \in Said(lines, id) <=> \E i \in DOMAIN lines : Says(lines, i, id, job, enabled)
  BY SaidByLines
<1>7. DOMAIN lines = 1 .. Len(lines) /\ Len(lines) \in Nat
  BY LenProperties
<1>8. ASSUME NEW job \in JobLines, NEW enabled \in BOOLEAN, <<job, enabled>> \in A
      PROVE  <<job, enabled>> \in Said(lines, id)
  <2>1. PICK r \in Records(lines) : r.id = id /\ <<job, enabled>> = <<r.job, r.enabled>>
    BY <1>2, <1>8
  <2>2. r.job = job /\ r.enabled = enabled
    BY <2>1
  <2>3. PICK i \in r.start .. r.end : Says(lines, i, id, job, enabled)
    BY <2>1, <2>2, RecordShape
  <2>4. i \in DOMAIN lines
    BY <1>4, <1>7, <2>3
  <2>5. QED BY <1>6, <2>3, <2>4
<1>9. ASSUME NEW job \in JobLines, NEW enabled \in BOOLEAN, <<job, enabled>> \in Said(lines, id)
      PROVE  <<job, enabled>> \in A
  <2>1. PICK i \in DOMAIN lines : Says(lines, i, id, job, enabled)
    BY <1>6, <1>9
  <2>2. PICK r \in Records(lines) : r.id = id /\ r.start = i
    BY <2>1, MarkerHasRecord DEF Says
  <2>3. i \in r.start .. r.end
    BY <1>4, <1>7, <2>2
  <2>4. r.job = job /\ r.enabled = enabled
    BY <2>1, <2>2, <2>3, RecordShape
  <2>5. QED BY <1>3, <2>2, <2>4
<1>10. QED BY <1>1, <1>5, <1>6, <1>8, <1>9, SameAnswers

\* A table that has no marker of a task says nothing of it.
LEMMA Unmarked ==
    ASSUME NEW lines \in Seq(Lines), Written(lines), NEW id \in TaskIds, id \notin Marked(lines)
    PROVE  Said(lines, id) = {}
<1>1. id # NoTask
  BY CronAssumption
<1>2. \A i \in DOMAIN lines : lines[i].id # id
  BY <1>1, MarkedByLines
<1>3. \A job \in JobLines, enabled \in BOOLEAN : <<job, enabled>> \notin Said(lines, id)
  <2>1. \A i \in DOMAIN lines, job \in JobLines, enabled \in BOOLEAN : ~ Says(lines, i, id, job, enabled)
    BY <1>2 DEF Says
  <2>2. QED BY <2>1, SaidByLines
<1>4. Said(lines, id) \in SUBSET (JobLines \X BOOLEAN)
  BY SaidByLines
<1>5. QED BY <1>3, <1>4

\* An empty table says nothing.
LEMMA EmptyTable ==
    /\ <<>> \in Seq(Lines) /\ Written(<<>>) /\ Marked(<<>>) = {}
    /\ \A id \in TaskIds : Said(<<>>, id) = {}
<1>1. <<>> \in Seq(Lines) /\ DOMAIN <<>> = {}
  OBVIOUS
<1>2. Written(<<>>)
  BY <1>1 DEF Written
<1>3. Marked(<<>>) = {}
  BY <1>1, MarkedByLines
<1>4. QED BY <1>1, <1>2, <1>3, Unmarked

\* The lines of a task say what they were made to say of it, and nothing of another.
LEMMA RenderedSays ==
    ASSUME NEW id \in TaskIds, NEW job \in JobLines, NEW enabled \in BOOLEAN,
           NEW q, q = Rendered(id, job, enabled)
    PROVE  /\ q \in Seq(Lines) /\ Written(q) /\ Marked(q) = {id}
           /\ Said(q, id) = {<<job, enabled>>}
           /\ \A x \in TaskIds \ {id} : Said(q, x) = {}
<1>0. id # NoTask
  BY CronAssumption
<1>1. CASE enabled
  <2>1. PICK m, j : m = ActiveMarker(id) /\ j = JobLine(job)
    OBVIOUS
  <2>2. /\ m \in Lines /\ m.kind = "active" /\ m.id = id
        /\ j \in Lines /\ j.kind = "job" /\ j.id = NoTask /\ j.job = job
    BY <2>1, LinesMade
  <2>3. q = <<m, j>>
    BY <1>1, <2>1 DEF Rendered
  <2>4. q \in Seq(Lines) /\ DOMAIN q = 1 .. 2 /\ q[1] = m /\ q[2] = j
    BY <2>2, <2>3
  <2>5. DOMAIN q = {1, 2}
    BY <2>4
  <2>6. Written(q)
    BY <2>2, <2>4, <2>5 DEF Written
  <2>7. Marked(q) = {id}
    <3>1. \A x : x \in Marked(q) <=> x # NoTask /\ (q[1].id = x \/ q[2].id = x)
      BY <2>5, MarkedByLines
    <3>2. QED BY <1>0, <2>2, <2>4, <3>1
  <2>8. \A k \in JobLines, o \in BOOLEAN : <<k, o>> \in Said(q, id) <=> k = job /\ o = enabled
    <3>1. \A k \in JobLines, o \in BOOLEAN :
             (\E i \in DOMAIN q : Says(q, i, id, k, o)) <=> k = job /\ o = enabled
      <4>1. \A k \in JobLines, o \in BOOLEAN : Says(q, 1, id, k, o) <=> k = job /\ o = enabled
        <5>1. q[1].id = id /\ q[1].kind = "active" /\ q[1 + 1].job = job
          BY <2>2, <2>4
        <5>2. \A k \in JobLines : Says(q, 1, id, k, TRUE) <=> k = job
          BY <5>1 DEF Says
        <5>3. \A k \in JobLines : ~ Says(q, 1, id, k, FALSE)
          BY <5>1 DEF Says
        <5>4. enabled = TRUE
          BY <1>1
        <5>5. QED BY <5>2, <5>3, <5>4
      <4>2. \A k \in JobLines, o \in BOOLEAN : ~ Says(q, 2, id, k, o)
        BY <1>0, <2>2, <2>4 DEF Says
      <4>3. QED BY <4>1, <4>2, <2>5
    <3>2. QED BY <3>1, <2>4, <2>6, SaidByLines
  <2>9. QED BY <2>4, <2>6, <2>7, <2>8, SaidByLines, Unmarked
<1>2. CASE ~enabled
  <2>1. PICK m : m = SuspendedMarker(id, job)
    OBVIOUS
  <2>2. m \in Lines /\ m.kind = "suspended" /\ m.id = id /\ m.job = job
    BY <2>1, LinesMade
  <2>3. q = <<m>>
    BY <1>2, <2>1 DEF Rendered
  <2>4. q \in Seq(Lines) /\ DOMAIN q = 1 .. 1 /\ q[1] = m
    BY <2>2, <2>3
  <2>5. DOMAIN q = {1}
    BY <2>4
  <2>6. Written(q)
    BY <2>2, <2>4, <2>5 DEF Written
  <2>7. Marked(q) = {id}
    <3>1. \A x : x \in Marked(q) <=> x # NoTask /\ q[1].id = x
      BY <2>5, MarkedByLines
    <3>2. QED BY <1>0, <2>2, <2>4, <3>1
  <2>8. \A k \in JobLines, o \in BOOLEAN : <<k, o>> \in Said(q, id) <=> k = job /\ o = enabled
    <3>1. \A k \in JobLines, o \in BOOLEAN :
             (\E i \in DOMAIN q : Says(q, i, id, k, o)) <=> k = job /\ o = enabled
      <4>1. \A k \in JobLines, o \in BOOLEAN : Says(q, 1, id, k, o) <=> k = job /\ o = enabled
        BY <1>2, <2>2, <2>4 DEF Says
      <4>3. QED BY <4>1, <2>5
    <3>2. QED BY <3>1, <2>4, <2>6, SaidByLines
  <2>9. QED BY <2>4, <2>6, <2>7, <2>8, SaidByLines, Unmarked
<1>3. QED BY <1>1, <1>2

\* replace: where the record of a task was found, or a task of the user is adopted under an
\* identifier that no marker has, the new table says of that task what the new lines say, and
\* of every other one what the old table said.
LEMMA Replacing ==
    ASSUME NEW lines \in Seq(Lines), Written(lines), NEW target, NEW r \in findRecord(lines, target),
           NEW id \in TaskIds, r.managed => id = r.id, ~r.managed => id \notin Marked(lines),
           NEW q \in Seq(Lines), Written(q), Marked(q) \subseteq {id},
           NEW new, new = replace(lines, r.start, r.end, q)
    PROVE  /\ new \in Seq(Lines) /\ Written(new) /\ Marked(new) \subseteq Marked(lines) \cup {id}
           /\ Said(new, id) = Said(q, id)
           /\ \A x \in TaskIds \ {id} : Said(new, x) = Said(lines, x)
<1>1. r \in Records(lines) /\ \A x \in Records(lines) : (x.id = target) = (x = r)
  BY DEF findRecord
<1>2. /\ r.start \in 1 .. Len(lines) /\ r.end \in r.start .. Len(lines)
      /\ r.start > 1 => lines[r.start - 1].kind # "active"
      /\ r.job \in JobLines /\ r.enabled \in BOOLEAN /\ r.managed \in BOOLEAN
      /\ r.managed <=> r.id \in TaskIds
      /\ \A x \in TaskIds, job \in JobLines, enabled \in BOOLEAN :
            (\E i \in r.start .. r.end : Says(lines, i, x, job, enabled))
               <=> r.id = x /\ r.job = job /\ r.enabled = enabled
  BY <1>1, RecordShape
<1>3. PICK a, b : a = SubSeq(lines, 1, r.start - 1) /\ b = SubSeq(lines, r.end + 1, Len(lines))
  OBVIOUS
<1>4. /\ a \in Seq(Lines) /\ b \in Seq(Lines) /\ Written(a) /\ Written(b)
      /\ \A x \in Marked(a) \cup Marked(b) :
            x \in Marked(lines) /\ \E i \in DOMAIN lines : i \notin r.start .. r.end /\ lines[i].id = x
      /\ \A x \in TaskIds, job \in JobLines, enabled \in BOOLEAN :
            <<job, enabled>> \in Said(lines, x)
               <=> \/ <<job, enabled>> \in Said(a, x) \/ <<job, enabled>> \in Said(b, x)
                   \/ \E i \in r.start .. r.end : Says(lines, i, x, job, enabled)
  <2>1. Beside(lines, r.start, r.end, a, b)
    BY <1>2, <1>3, Sides
  <2>2. QED BY <2>1 DEF Beside
<1>5. id \notin Marked(a) \cup Marked(b)
  <2>1. CASE ~r.managed
    BY <2>1, <1>4
  <2>2. CASE r.managed
    <3> SUFFICES ASSUME id \in Marked(a) \cup Marked(b) PROVE FALSE
      OBVIOUS
    <3>1. PICK i \in DOMAIN lines : i \notin r.start .. r.end /\ lines[i].id = id
      BY <1>4
    <3>2. PICK x \in Records(lines) : x.id = id /\ x.start = i
      BY <3>1, MarkerHasRecord
    <3>3. r.id = target
      BY <1>1
    <3>4. x = r
      BY <1>1, <2>2, <3>2, <3>3
    <3>5. r.start \in r.start .. r.end
      BY <1>2, LenProperties
    <3>6. QED BY <3>1, <3>2, <3>4, <3>5
  <2>3. QED BY <2>1, <2>2
<1>6. PICK c : c = a \o q
  OBVIOUS
<1>7. /\ c \in Seq(Lines) /\ Written(c) /\ Marked(c) = Marked(a) \cup Marked(q)
      /\ \A x \in TaskIds : Said(c, x) = Said(a, x) \cup Said(q, x)
  BY <1>4, <1>6, Joined
<1>8. new = c \o b
  BY <1>3, <1>6 DEF replace
<1>9. /\ new \in Seq(Lines) /\ Written(new) /\ Marked(new) = Marked(c) \cup Marked(b)
      /\ \A x \in TaskIds : Said(new, x) = Said(c, x) \cup Said(b, x)
  BY <1>4, <1>7, <1>8, Joined
<1>10. Marked(new) \subseteq Marked(lines) \cup {id}
  BY <1>4, <1>7, <1>9
<1>11. Said(new, id) = Said(q, id)
  <2>1. Said(a, id) = {} /\ Said(b, id) = {}
    BY <1>4, <1>5, Unmarked
  <2>2. QED BY <2>1, <1>7, <1>9
<1>12. ASSUME NEW x \in TaskIds \ {id} PROVE Said(new, x) = Said(lines, x)
  <2>1. Said(q, x) = {}
    BY Unmarked
  <2>2. Said(new, x) = Said(a, x) \cup Said(b, x)
    BY <2>1, <1>7, <1>9
  <2>3. r.id # x
    BY <1>2
  <2>4. \A job \in JobLines, enabled \in BOOLEAN : ~ \E i \in r.start .. r.end : Says(lines, i, x, job, enabled)
    BY <2>3, <1>2
  <2>5. \A job \in JobLines, enabled \in BOOLEAN :
           <<job, enabled>> \in Said(lines, x) <=> <<job, enabled>> \in Said(new, x)
    BY <2>2, <2>4, <1>4
  <2>6. Said(lines, x) \in SUBSET (JobLines \X BOOLEAN) /\ Said(new, x) \in SUBSET (JobLines \X BOOLEAN)
    BY <1>9, SaidByLines
  <2>7. QED BY <2>5, <2>6, SameAnswers
<1>13. QED BY <1>9, <1>10, <1>11, <1>12

-----------------------------------------------------------------------------
(* CronTables: the commands. *)

\* What a command makes of a table that it read: the table to install differs from it in what
\* it says of one task only, and has no marker of another that was not there.
LEMMA Changing ==
    ASSUME NEW call \in CallRecord, Arguments(call.command, call.target, call.job),
           NEW lines \in Seq(Lines), Written(lines), Marked(lines) \subseteq drawn,
           NEW fresh \in (TaskIds \ drawn) \cup {NoTask},
           NEW c \in Changed(call, lines, fresh), c.id # NoTask
    PROVE  /\ c.id \in TaskIds /\ c.lines \in Seq(Lines) /\ c.then \subseteq JobLines \X BOOLEAN
           /\ Written(c.lines) /\ Marked(c.lines) \subseteq Marked(lines) \cup {c.id}
           /\ Said(c.lines, c.id) = c.then
           /\ \A x \in TaskIds \ {c.id} : Said(c.lines, x) = Said(lines, x)
<1>0. call.command \in CronCommands /\ call.job \in JobLines \cup {NoTask}
  BY DEF CallRecord
<1>1. call.command \in {"create", "update"} => call.job \in JobLines
  BY <1>0 DEF Arguments
<1>2. CASE call.command = "create"
  <2>0. PICK enabled \in BOOLEAN : enabled = TRUE
    OBVIOUS
  <2>1. PICK q : q = Rendered(fresh, call.job, enabled)
    OBVIOUS
  <2>2. c = [id |-> fresh, lines |-> lines \o q, then |-> {<<call.job, enabled>>}]
    BY <1>2, <2>0, <2>1 DEF Changed
  <2>3. c.id = fresh /\ c.lines = lines \o q /\ c.then = {<<call.job, enabled>>}
    BY <2>2
  <2>4. fresh \in TaskIds /\ fresh \notin drawn /\ call.job \in JobLines
    BY <1>1, <1>2, <2>3
  <2>5. /\ q \in Seq(Lines) /\ Written(q) /\ Marked(q) = {fresh} /\ Said(q, fresh) = {<<call.job, enabled>>}
        /\ \A x \in TaskIds \ {fresh} : Said(q, x) = {}
    BY <2>1, <2>4, RenderedSays
  <2>6. /\ c.lines \in Seq(Lines) /\ Written(c.lines) /\ Marked(c.lines) = Marked(lines) \cup Marked(q)
        /\ \A x \in TaskIds : Said(c.lines, x) = Said(lines, x) \cup Said(q, x)
    BY <2>3, <2>5, Joined
  <2>7. Said(lines, fresh) = {}
    BY <2>4, Unmarked
  <2>8. c.then \subseteq JobLines \X BOOLEAN
    <3>1. <<call.job, enabled>> \in JobLines \X BOOLEAN
      BY <2>4
    <3>2. QED BY <2>3, <3>1
  <2>9. Said(c.lines, c.id) = c.then /\ \A x \in TaskIds \ {c.id} : Said(c.lines, x) = Said(lines, x)
    <3>1. PICK then : then = {<<call.job, enabled>>}
      OBVIOUS
    <3>2. Said(q, fresh) = then /\ c.then = then
      BY <2>3, <2>5, <3>1
    <3>3. c.id = fresh /\ \A x \in TaskIds \ {fresh} : Said(q, x) = {}
      BY <2>3, <2>5
    <3>4. Said(c.lines, fresh) = Said(lines, fresh) \cup Said(q, fresh)
      BY <2>4, <2>6
    <3>5. \A x \in TaskIds \ {fresh} : Said(c.lines, x) = Said(lines, x)
      BY <2>6, <3>3
    <3>6. QED BY <2>7, <3>2, <3>3, <3>4, <3>5
  <2>10. QED BY <2>3, <2>4, <2>5, <2>6, <2>8, <2>9
<1>3. CASE call.command # "create"
  <2>1. PICK r \in findRecord(lines, call.target) :
           c = LET id == IF r.managed THEN r.id ELSE fresh
                   job == IF call.command = "update" THEN call.job ELSE r.job
                   enabled == IF call.command = "update" THEN r.enabled ELSE call.command = "resume"
                   deleted == call.command = "delete"
               IN  [id |-> id,
                    lines |-> replace(lines, r.start, r.end,
                                      IF deleted THEN <<>> ELSE Rendered(id, job, enabled)),
                    then |-> IF deleted THEN {} ELSE {<<job, enabled>>}]
    BY <1>3 DEF Changed, EnabledAfter
  <2>2. PICK id, job : /\ id = IF r.managed THEN r.id ELSE fresh
                       /\ job = IF call.command = "update" THEN call.job ELSE r.job
    OBVIOUS
  <2>3. PICK enabled : enabled = IF call.command = "update" THEN r.enabled ELSE call.command = "resume"
    OBVIOUS
  <2>4. PICK q : q = IF call.command = "delete" THEN <<>> ELSE Rendered(id, job, enabled)
    OBVIOUS
  <2>5. PICK then : then = IF call.command = "delete" THEN {} ELSE {<<job, enabled>>}
    OBVIOUS
  <2>6. c = [id |-> id, lines |-> replace(lines, r.start, r.end, q), then |-> then]
    BY <2>1, <2>2, <2>3, <2>4, <2>5, Zenon
  <2>7. c.id = id /\ c.lines = replace(lines, r.start, r.end, q) /\ c.then = then
    BY <2>6
  <2>8. r \in Records(lines)
    BY DEF findRecord
  <2>9. r.job \in JobLines /\ r.enabled \in BOOLEAN /\ r.managed \in BOOLEAN /\ (r.managed <=> r.id \in TaskIds)
    BY <2>8, RecordShape
  <2>10. id \in TaskIds /\ (r.managed => id = r.id) /\ (~r.managed => id \notin Marked(lines))
    BY <2>2, <2>7, <2>9
  <2>11. job \in JobLines
    BY <1>1, <2>2, <2>9
  <2>12. enabled \in BOOLEAN
    BY <2>3, <2>9
  <2>13. q \in Seq(Lines) /\ Written(q) /\ Marked(q) \subseteq {id} /\ Said(q, id) = then
         /\ then \subseteq JobLines \X BOOLEAN
    <3>1. CASE call.command = "delete"
      BY <2>4, <2>5, <2>10, <3>1, EmptyTable
    <3>2. CASE call.command # "delete"
      <4>1. q = Rendered(id, job, enabled) /\ then = {<<job, enabled>>}
        BY <2>4, <2>5, <3>2
      <4>2. QED BY <4>1, <2>10, <2>11, <2>12, RenderedSays
    <3>3. QED BY <3>1, <3>2
  <2>14. /\ c.lines \in Seq(Lines) /\ Written(c.lines) /\ Marked(c.lines) \subseteq Marked(lines) \cup {id}
         /\ Said(c.lines, id) = Said(q, id)
         /\ \A x \in TaskIds \ {id} : Said(c.lines, x) = Said(lines, x)
    BY <2>7, <2>10, <2>13, Replacing
  <2>15. QED BY <2>7, <2>10, <2>13, <2>14
<1>4. QED BY <1>2, <1>3

\* No command under way.
LEMMA NoCallTyped ==
    NoCall \in CallRecord /\ NoCall.step = "idle"
<1>1. <<>> \in Seq(Lines) /\ NoTask \in TaskNames
  BY EmptyTable DEF TaskNames
<1>2. QED BY <1>1 DEF NoCall, CallRecord, CronCommands

\* What the answers say is what the markers of the table say.
LEMMA KeptIsSaid ==
    ASSUME NEW lines \in Seq(Lines), NEW said, DOMAIN said \subseteq TaskIds
    PROVE  (\A id \in DOMAIN said :
              /\ Written(lines) /\ Said(lines, id) = said[id]
              /\ Misled(lines) \/ (Parses(lines) /\ Read(lines, id) = said[id]))
           <=> \A id \in DOMAIN said : Written(lines) /\ Said(lines, id) = said[id]
<1>1. ASSUME NEW id \in DOMAIN said, Written(lines)
      PROVE  Read(lines, id) = Said(lines, id)
  BY <1>1, RecordsSay DEF Read
<1>2. QED BY <1>1 DEF Parses

\* While a connection holds the lock, or none does, the others have no command past it.
LEMMA OthersIdle ==
    ASSUME CronTypeOK, NEW s \in CronSlots, cronLock \in {s, NoTask}
    PROVE  \A t \in CronSlots : t # s => calls[t].step = "idle"
  BY CronAssumption DEF CronTypeOK

\* A step of one connection keeps the invariant if what it leaves of its own command does.
LEMMA OneConnection ==
    ASSUME CronInv, NEW s \in CronSlots, NEW call \in CallRecord,
           cronLock \in {s, NoTask}, cronLock' \in {s, NoTask},
           calls' = [calls EXCEPT ![s] = call], (call.step # "idle") = (cronLock' = s),
           call.step = "read" => Arguments(call.command, call.target, call.job),
           call.step \in {"save", "install"} => Prepared(call)',
           crontab' \in Seq(Lines), drawn' \subseteq TaskIds, edits' = edits,
           Marked(crontab)' \subseteq drawn',
           acked' = [id \in DOMAIN acked' |-> acked'[id]], DOMAIN acked' \subseteq TaskIds,
           AnsweredIsKept'
    PROVE  CronInv'
<1>1. CronTypeOK /\ calls \in [CronSlots -> CallRecord]
  BY DEF CronInv
<1>2. \A t \in CronSlots : t # s => calls[t].step = "idle"
  BY <1>1, OthersIdle
<1>3. calls' \in [CronSlots -> CallRecord]
  BY <1>1
<1>4. calls'[s] = call /\ \A t \in CronSlots : t # s => calls'[t] = calls[t]
  BY <1>1
<1>5. CronTypeOK'
  <2>1. \A t \in CronSlots :
           /\ calls'[t].command \in CronCommands
           /\ calls'[t].step \in {"idle", "read", "save", "install"}
           /\ calls'[t].original \in Seq(Lines) /\ calls'[t].lines \in Seq(Lines)
    BY <1>3 DEF CallRecord
  <2>2. ASSUME NEW t \in CronSlots PROVE (calls'[t].step # "idle") = (cronLock' = t)
    <3>1. CASE t = s
      BY <3>1, <1>4
    <3>2. CASE t # s
      BY <3>2, <1>2, <1>4, CronAssumption
    <3>3. QED BY <3>1, <3>2
  <2>3. cronLock' \in CronSlots \cup {NoTask} /\ edits' \in 0 .. MaxEdits
    BY <1>1 DEF CronTypeOK
  <2>4. QED BY <2>1, <2>2, <2>3 DEF CronTypeOK
<1>6. ASSUME NEW t \in CronSlots
      PROVE  /\ calls'[t].step = "read" => Arguments(calls'[t].command, calls'[t].target, calls'[t].job)
             /\ calls'[t].step \in {"save", "install"} => Prepared(calls[t])'
  <2>1. CASE t = s
    BY <2>1, <1>4 DEF Prepared
  <2>2. CASE t # s
    BY <2>2, <1>2, <1>4
  <2>3. QED BY <2>1, <2>2
<1>7. QED BY <1>3, <1>5, <1>6 DEF CronInv

\* The end of a command that leaves the table alone.
LEMMA EndKeeps ==
    ASSUME CronInv, NEW s \in CronSlots, calls[s].step # "idle", EndCall(s),
           UNCHANGED <<crontab, drawn, acked, edits>>
    PROVE  CronInv'
<1>1. CronTypeOK /\ calls \in [CronSlots -> CallRecord]
  BY DEF CronInv
<1>2. cronLock = s
  BY <1>1 DEF CronTypeOK
<1>3. PICK call \in CallRecord : call = NoCall /\ call.step = "idle"
  BY NoCallTyped
<1>4. calls' = [calls EXCEPT ![s] = call] /\ cronLock' = NoTask /\ cronLock' # s
  BY <1>2, <1>3, CronAssumption DEF EndCall
<1>5. (call.step # "idle") = (cronLock' = s)
  BY <1>3, <1>4
<1>6. /\ crontab' \in Seq(Lines) /\ drawn' \subseteq TaskIds /\ edits' = edits
      /\ Marked(crontab)' \subseteq drawn'
      /\ acked' = [id \in DOMAIN acked' |-> acked'[id]] /\ DOMAIN acked' \subseteq TaskIds
  BY DEF CronInv, CronTypeOK, Marked
<1>7. AnsweredIsKept'
  BY DEF CronInv, AnsweredIsKept
<1>8. QED BY <1>2, <1>3, <1>4, <1>5, <1>6, <1>7, OneConnection

\* A command begins.
LEMMA BeginKeeps ==
    ASSUME CronInv, NEW s \in CronSlots, NEW c \in CronCommands, NEW t \in TaskNames,
           NEW j \in JobLines \cup {NoTask}, Begin(s, c, t, j)
    PROVE  CronInv'
<1>1. PICK call : call = Begun(c, t, j)
  OBVIOUS
<1>2. /\ call \in CallRecord /\ call.step = "read"
      /\ call.command = c /\ call.target = t /\ call.job = j
  <2>1. /\ NoCall.id = NoTask /\ NoCall.original = <<>> /\ NoCall.lines = <<>> /\ NoCall.then = {}
        /\ NoCall.unseen = FALSE
    BY DEF NoCall
  <2>2. call = [command |-> c, step |-> "read", target |-> t, job |-> j, id |-> NoTask, original |-> <<>>,
                lines |-> <<>>, then |-> {}, unseen |-> FALSE]
    BY <1>1 DEF Begun, NoCall
  <2>3. QED BY <2>2, EmptyTable DEF CallRecord
<1>3. calls' = [calls EXCEPT ![s] = call] /\ cronLock = NoTask /\ cronLock' = s /\ Arguments(c, t, j)
  BY <1>1 DEF Begin
<1>4. UNCHANGED <<crontab, drawn, acked, edits>>
  BY DEF Begin
<1>5. (call.step # "idle") = (cronLock' = s)
  BY <1>2, <1>3
<1>6. /\ crontab' \in Seq(Lines) /\ drawn' \subseteq TaskIds /\ edits' = edits
      /\ Marked(crontab)' \subseteq drawn'
      /\ acked' = [id \in DOMAIN acked' |-> acked'[id]] /\ DOMAIN acked' \subseteq TaskIds
  BY <1>4 DEF CronInv, CronTypeOK
<1>7. AnsweredIsKept'
  BY <1>4 DEF CronInv, AnsweredIsKept
<1>8. QED BY <1>2, <1>3, <1>5, <1>6, <1>7, OneConnection

\* The table is read and the one to install is made.
LEMMA ReadKeeps ==
    ASSUME CronInv, NEW s \in CronSlots, ReadTable(s)
    PROVE  CronInv'
<1>1. /\ CronTypeOK /\ calls \in [CronSlots -> CallRecord] /\ Marked(crontab) \subseteq drawn
      /\ calls[s].step = "read" /\ UNCHANGED <<crontab, acked, edits>>
      /\ Arguments(calls[s].command, calls[s].target, calls[s].job)
  BY DEF CronInv, ReadTable
<1>2. cronLock = s
  BY <1>1 DEF CronTypeOK
<1>3. CASE EndCall(s) /\ UNCHANGED drawn
  BY <1>1, <1>3, EndKeeps
<1>4. ASSUME NEW blind \in BOOLEAN, NEW fresh \in (TaskIds \ drawn) \cup {NoTask},
             NEW lines, lines = (IF blind THEN <<>> ELSE crontab), Parses(lines),
             NEW c \in Changed(calls[s], lines, fresh), c.id # NoTask,
             calls' = [calls EXCEPT ![s] =
                         [@ EXCEPT !.step = "save", !.id = c.id, !.original = lines,
                                   !.lines = c.lines, !.then = c.then,
                                   !.unseen = blind /\ crontab # <<>>]],
             drawn' = drawn \cup {c.id}, UNCHANGED cronLock
      PROVE  CronInv'
  <2>1. lines \in Seq(Lines) /\ Marked(lines) \subseteq drawn /\ Written(lines)
    BY <1>1, <1>4, EmptyTable DEF CronTypeOK, Parses
  <2>2. PICK was \in CallRecord : was = calls[s]
    BY <1>1
  <2>3. /\ c.id \in TaskIds /\ c.lines \in Seq(Lines) /\ c.then \subseteq JobLines \X BOOLEAN
        /\ Written(c.lines) /\ Marked(c.lines) \subseteq Marked(lines) \cup {c.id}
        /\ Said(c.lines, c.id) = c.then
        /\ \A x \in TaskIds \ {c.id} : Said(c.lines, x) = Said(lines, x)
    <3>1. Arguments(was.command, was.target, was.job) /\ c \in Changed(was, lines, fresh)
      BY <1>1, <1>4, <2>2
    <3>2. QED BY <1>4, <2>1, <3>1, Changing
  <2>4. PICK unseen \in BOOLEAN : unseen = (blind /\ crontab # <<>>)
    <3>1. (blind /\ crontab # <<>>) \in BOOLEAN
      OBVIOUS
    <3>2. QED BY <3>1, Zenon
  <2>5. PICK call : call = [was EXCEPT !.step = "save", !.id = c.id, !.original = lines,
                                       !.lines = c.lines, !.then = c.then, !.unseen = unseen]
    OBVIOUS
  <2>6. call \in CallRecord /\ call.step = "save" /\ call.id = c.id /\ call.original = lines
        /\ call.lines = c.lines /\ call.then = c.then /\ call.unseen = unseen
    BY <2>1, <2>3, <2>5 DEF CallRecord
  <2>7. calls' = [calls EXCEPT ![s] = call]
    BY <1>4, <2>2, <2>4, <2>5
  <2>8. Prepared(call)'
    <3>1. ~unseen => lines = crontab
      BY <1>4, <2>4
    <3>2. Marked(c.lines) \subseteq drawn'
      BY <1>4, <2>1, <2>3
    <3>3. QED BY <1>1, <2>3, <2>6, <3>1, <3>2 DEF Prepared
  <2>9. /\ crontab' \in Seq(Lines) /\ drawn' \subseteq TaskIds /\ edits' = edits
        /\ Marked(crontab)' \subseteq drawn'
        /\ acked' = [id \in DOMAIN acked' |-> acked'[id]] /\ DOMAIN acked' \subseteq TaskIds
    BY <1>1, <1>4, <2>3 DEF CronInv, CronTypeOK
  <2>10. AnsweredIsKept'
    BY <1>1 DEF CronInv, AnsweredIsKept
  <2>11. cronLock' = s /\ (call.step # "idle") = (cronLock' = s)
    BY <1>2, <1>4, <2>6
  <2>12. QED BY <1>2, <2>6, <2>7, <2>8, <2>9, <2>10, <2>11, OneConnection
<1>5. QED BY <1>3, <1>4 DEF ReadTable

\* A copy of the table is saved.
LEMMA SaveKeeps ==
    ASSUME CronInv, NEW s \in CronSlots, SaveTable(s)
    PROVE  CronInv'
<1>1. /\ CronTypeOK /\ calls \in [CronSlots -> CallRecord]
      /\ calls[s].step = "save" /\ UNCHANGED <<crontab, drawn, acked, edits>> /\ Prepared(calls[s])
  BY DEF CronInv, SaveTable
<1>2. cronLock = s
  BY <1>1 DEF CronTypeOK
<1>3. CASE EndCall(s)
  BY <1>1, <1>3, EndKeeps
<1>4. CASE calls' = [calls EXCEPT ![s].step = "install"] /\ UNCHANGED cronLock
  <2>1. PICK was \in CallRecord : was = calls[s]
    BY <1>1
  <2>2. PICK call : call = [was EXCEPT !.step = "install"]
    OBVIOUS
  <2>3. call \in CallRecord /\ call.step = "install" /\ call.id = was.id /\ call.original = was.original
        /\ call.lines = was.lines /\ call.then = was.then /\ call.unseen = was.unseen
    BY <2>2 DEF CallRecord
  <2>4. calls' = [calls EXCEPT ![s] = call]
    BY <1>4, <2>1, <2>2
  <2>5. Prepared(call)'
    BY <1>1, <2>1, <2>3 DEF Prepared
  <2>9. /\ crontab' \in Seq(Lines) /\ drawn' \subseteq TaskIds /\ edits' = edits
        /\ Marked(crontab)' \subseteq drawn'
        /\ acked' = [id \in DOMAIN acked' |-> acked'[id]] /\ DOMAIN acked' \subseteq TaskIds
    BY <1>1 DEF CronInv, CronTypeOK
  <2>10. AnsweredIsKept'
    BY <1>1 DEF CronInv, AnsweredIsKept
  <2>11. cronLock' = s /\ (call.step # "idle") = (cronLock' = s)
    BY <1>2, <1>4, <2>3
  <2>12. QED BY <1>2, <2>3, <2>4, <2>5, <2>9, <2>10, <2>11, OneConnection
<1>5. QED BY <1>3, <1>4 DEF SaveTable

\* The table is installed, or not.
LEMMA InstallKeeps ==
    ASSUME CronInv, NEW s \in CronSlots, InstallTable(s)
    PROVE  CronInv'
<1>1. /\ CronTypeOK /\ calls \in [CronSlots -> CallRecord] /\ Marked(crontab) \subseteq drawn
      /\ acked = [id \in DOMAIN acked |-> acked[id]] /\ DOMAIN acked \subseteq TaskIds
      /\ calls[s].step = "install" /\ EndCall(s) /\ UNCHANGED <<drawn, edits>> /\ Prepared(calls[s])
  BY DEF CronInv, InstallTable
<1>2. cronLock = s
  BY <1>1 DEF CronTypeOK
<1>3. PICK call \in CallRecord : call = NoCall /\ call.step = "idle"
  BY NoCallTyped
<1>4. calls' = [calls EXCEPT ![s] = call] /\ cronLock' = NoTask /\ (call.step # "idle") = (cronLock' = s)
  BY <1>1, <1>2, <1>3, CronAssumption DEF EndCall
<1>5. PICK was \in CallRecord : was = calls[s]
  BY <1>1
<1>6. /\ was.id \in TaskIds /\ was.lines \in Seq(Lines) /\ Written(was.lines)
      /\ Marked(was.lines) \subseteq drawn
      /\ ~was.unseen => was.original = crontab
      /\ Said(was.lines, was.id) = was.then
      /\ \A id \in TaskIds \ {was.id} : Said(was.lines, id) = Said(was.original, id)
  BY <1>1, <1>5 DEF Prepared, CallRecord
<1>7. crontab \in Seq(Lines) /\ drawn \subseteq TaskIds
  BY <1>1 DEF CronTypeOK
<1>8. \A id \in DOMAIN acked : Written(crontab) /\ Said(crontab, id) = acked[id]
  <2>1. PICK tab, ack : tab = crontab /\ ack = acked
    OBVIOUS
  <2>2. \A id \in DOMAIN ack :
           /\ Written(tab) /\ Said(tab, id) = ack[id]
           /\ Misled(tab) \/ (Parses(tab) /\ Read(tab, id) = ack[id])
    BY <2>1, Zenon DEF CronInv, AnsweredIsKept
  <2>3. tab \in Seq(Lines) /\ DOMAIN ack \subseteq TaskIds
    BY <1>1, <1>7, <2>1
  <2>4. QED BY <2>1, <2>2, <2>3, KeptIsSaid
<1>9. PICK tab, ack : tab = crontab' /\ ack = acked'
  OBVIOUS
<1>10. \/ tab = was.lines
       \/ tab = crontab
  BY <1>5, <1>9 DEF InstallTable
<1>11. \/ was.unseen /\ ack = NothingSaid
       \/ /\ ~was.unseen /\ tab = was.lines
          /\ ack = [id \in DOMAIN acked \cup {was.id} |-> IF id = was.id THEN was.then ELSE acked[id]]
       \/ /\ ~was.unseen /\ ack = [id \in DOMAIN acked \ {was.id} |-> acked[id]]
  BY <1>5, <1>9 DEF InstallTable
<1>12. ack = [id \in DOMAIN ack |-> ack[id]] /\ DOMAIN ack \subseteq TaskIds
  BY <1>1, <1>6, <1>11 DEF NothingSaid
<1>13. \A id \in DOMAIN ack : Written(tab) /\ Said(tab, id) = ack[id]
  <2>1. CASE was.unseen /\ ack = NothingSaid
    BY <2>1 DEF NothingSaid
  <2>2. ASSUME ~was.unseen, NEW id \in DOMAIN acked, id # was.id
        PROVE  Written(tab) /\ Said(tab, id) = acked[id]
    <3>1. Said(was.lines, id) = Said(crontab, id)
      BY <1>1, <1>6, <2>2
    <3>2. QED BY <1>6, <1>8, <1>10, <3>1
  <2>3. CASE /\ ~was.unseen /\ tab = was.lines
             /\ ack = [id \in DOMAIN acked \cup {was.id} |-> IF id = was.id THEN was.then ELSE acked[id]]
    <3>1. \A id \in DOMAIN ack : id = was.id \/ (id \in DOMAIN acked /\ id # was.id /\ ack[id] = acked[id])
      BY <2>3
    <3>2. was.id \in DOMAIN ack /\ ack[was.id] = was.then
      BY <2>3
    <3>3. QED BY <1>6, <2>2, <2>3, <3>1, <3>2
  <2>4. CASE ~was.unseen /\ ack = [id \in DOMAIN acked \ {was.id} |-> acked[id]]
    <3>1. \A id \in DOMAIN ack : id \in DOMAIN acked /\ id # was.id /\ ack[id] = acked[id]
      BY <2>4
    <3>2. QED BY <2>2, <2>4, <3>1
  <2>5. QED BY <1>11, <2>1, <2>3, <2>4
<1>14. tab \in Seq(Lines) /\ Marked(tab) \subseteq drawn
  BY <1>1, <1>6, <1>7, <1>10
<1>15. AnsweredIsKept'
  <2>1. \A id \in DOMAIN ack :
           /\ Written(tab) /\ Said(tab, id) = ack[id]
           /\ Misled(tab) \/ (Parses(tab) /\ Read(tab, id) = ack[id])
    BY <1>12, <1>13, <1>14, KeptIsSaid
  <2>2. QED BY <1>9, <2>1, Zenon DEF AnsweredIsKept
<1>16. /\ crontab' \in Seq(Lines) /\ drawn' \subseteq TaskIds /\ edits' = edits
       /\ Marked(crontab)' \subseteq drawn'
       /\ acked' = [id \in DOMAIN acked' |-> acked'[id]] /\ DOMAIN acked' \subseteq TaskIds
  BY <1>1, <1>7, <1>9, <1>12, <1>14
<1>17. QED BY <1>2, <1>3, <1>4, <1>15, <1>16, OneConnection

\* Nothing that was said of a task holds still.
LEMMA NothingKept ==
    ASSUME acked' = NothingSaid
    PROVE  AnsweredIsKept' /\ acked' = [id \in DOMAIN acked' |-> acked'[id]] /\ DOMAIN acked' \subseteq TaskIds
<1>1. DOMAIN acked' = {} /\ acked' = [id \in DOMAIN acked' |-> acked'[id]]
  BY DEF NothingSaid
<1>2. QED BY <1>1 DEF AnsweredIsKept

\* The daemon stops.
LEMMA StopKeeps ==
    ASSUME CronInv, StopDaemon
    PROVE  CronInv'
<1>1. UNCHANGED <<crontab, drawn, acked, edits>> /\ cronLock' = NoTask /\ calls' = [s \in CronSlots |-> NoCall]
  BY DEF StopDaemon
<1>2. calls' \in [CronSlots -> CallRecord] /\ \A s \in CronSlots : calls'[s] \in CallRecord /\ calls'[s].step = "idle"
  BY <1>1, NoCallTyped
<1>3. CronTypeOK'
  <2>1. \A t \in CronSlots :
           /\ calls'[t].command \in CronCommands
           /\ calls'[t].step \in {"idle", "read", "save", "install"}
           /\ calls'[t].original \in Seq(Lines) /\ calls'[t].lines \in Seq(Lines)
    BY <1>2 DEF CallRecord
  <2>2. \A t \in CronSlots : (calls'[t].step # "idle") = (cronLock' = t)
    BY <1>1, <1>2, CronAssumption
  <2>3. QED BY <1>1, <2>1, <2>2 DEF CronInv, CronTypeOK
<1>4. AnsweredIsKept'
  BY <1>1 DEF CronInv, AnsweredIsKept
<1>5. QED BY <1>1, <1>2, <1>3, <1>4 DEF CronInv

\* The user edits his table: no marker is new, nothing that was said is relied upon, and a
\* command that read the table has not seen the one it replaces.
LEMMA EditKeeps ==
    ASSUME CronInv, EditTable
    PROVE  CronInv'
<1>1. /\ CronTypeOK /\ calls \in [CronSlots -> CallRecord] /\ Marked(crontab) \subseteq drawn
      /\ crontab \in Seq(Lines) /\ edits \in 0 .. MaxEdits
  BY DEF CronInv, CronTypeOK
<1>2. /\ edits < MaxEdits /\ edits' = edits + 1 /\ acked' = NothingSaid /\ UNCHANGED <<cronLock, drawn>>
      /\ calls' = [s \in CronSlots |->
                     IF calls[s].step \in {"save", "install"} THEN [calls[s] EXCEPT !.unseen = TRUE]
                     ELSE calls[s]]
  BY DEF EditTable
<1>3. PICK old, new : old = crontab /\ new = crontab'
  OBVIOUS
<1>4. old \in Seq(Lines) /\ Len(old) \in Nat /\ DOMAIN old = 1 .. Len(old)
  BY <1>1, <1>3, LenProperties
<1>5. new \in Seq(Lines) /\ \A k \in DOMAIN new : new[k].id = NoTask \/ \E i \in DOMAIN old : new[k] = old[i]
  <2>1. ASSUME NEW i \in DOMAIN old, new = RemoveAt(old, i)
        PROVE  new \in Seq(Lines) /\ \A k \in DOMAIN new : \E l \in DOMAIN old : new[k] = old[l]
    <3>1. /\ new \in Seq(Lines) /\ Len(new) = Len(old) - 1
          /\ \A k \in 1 .. Len(old) - 1 : new[k] = IF k < i THEN old[k] ELSE old[k + 1]
      BY <1>4, <2>1, Removing
    <3>2. DOMAIN new = 1 .. Len(old) - 1
      BY <3>1, LenProperties
    <3>3. \A k \in 1 .. Len(old) - 1 : k \in 1 .. Len(old) /\ k + 1 \in 1 .. Len(old)
      BY <1>4
    <3>4. QED BY <1>4, <3>1, <3>2, <3>3
  <2>2. ASSUME NEW i \in 1 .. Len(old) + 1, NEW line \in Lines, new = InsertAt(old, i, line),
               line.id = NoTask \/ \E l \in DOMAIN old : line = old[l]
        PROVE  new \in Seq(Lines) /\ \A k \in DOMAIN new : new[k].id = NoTask \/ \E l \in DOMAIN old : new[k] = old[l]
    <3>1. /\ new \in Seq(Lines) /\ Len(new) = Len(old) + 1
          /\ \A k \in 1 .. Len(old) + 1 : new[k] = IF k < i THEN old[k] ELSE IF k = i THEN line ELSE old[k - 1]
      <4>1. new \in Seq(Lines) /\ PutAt(new, old, i, line)
        BY <1>4, <2>2, Inserting
      <4>2. QED BY <4>1 DEF PutAt
    <3>2. DOMAIN new = 1 .. Len(old) + 1
      BY <3>1, LenProperties
    <3>3. \A k \in 1 .. Len(old) + 1 : /\ k < i => k \in 1 .. Len(old)
                                       /\ ~ (k < i) /\ k # i => k - 1 \in 1 .. Len(old)
      BY <1>4
    <3>4. \A k \in 1 .. Len(old) + 1 : new[k] = line \/ \E l \in DOMAIN old : new[k] = old[l]
      BY <1>4, <3>1, <3>3
    <3>5. QED BY <2>2, <3>1, <3>2, <3>4
  <2>3. \/ \E i \in DOMAIN old : new = RemoveAt(old, i)
        \/ \E i \in 1 .. Len(old) + 1, line \in ToSet(old) \cup {JobLine(j) : j \in JobLines} :
              new = InsertAt(old, i, line)
    BY <1>3, Zenon DEF EditTable
  <2>4. \A line \in ToSet(old) \cup {JobLine(j) : j \in JobLines} :
           line \in Lines /\ (line.id = NoTask \/ \E l \in DOMAIN old : line = old[l])
    <3>1. \A line \in ToSet(old) : line \in Lines /\ \E l \in DOMAIN old : line = old[l]
      BY <1>4, ElementOfSeq DEF ToSet
    <3>2. \A j \in JobLines : JobLine(j) \in Lines /\ JobLine(j).id = NoTask
      BY LinesMade
    <3>3. QED BY <3>1, <3>2
  <2>5. QED BY <2>1, <2>2, <2>3, <2>4
<1>6. Marked(new) \subseteq drawn
  <2>1. \A id \in Marked(new) : id \in Marked(old)
    <3> SUFFICES ASSUME NEW id \in Marked(new) PROVE id \in Marked(old)
      OBVIOUS
    <3>1. id # NoTask /\ \E k \in DOMAIN new : new[k].id = id
      BY MarkedByLines, Zenon
    <3>2. \E i \in DOMAIN old : old[i].id = id
      BY <1>5, <3>1
    <3>3. QED BY <3>1, <3>2, MarkedByLines
  <2>2. QED BY <2>1, <1>1, <1>3
<1>7. ASSUME NEW s \in CronSlots
      PROVE  /\ calls'[s] \in CallRecord /\ calls'[s].step = calls[s].step
             /\ calls'[s].step = "read" => Arguments(calls'[s].command, calls'[s].target, calls'[s].job)
             /\ calls'[s].step \in {"save", "install"} => Prepared(calls[s])'
  <2>1. PICK was \in CallRecord : was = calls[s]
    BY <1>1
  <2>2. CASE was.step \in {"save", "install"}
    <3>1. PICK call : call = [was EXCEPT !.unseen = TRUE]
      OBVIOUS
    <3>2. call \in CallRecord /\ call.step = was.step /\ call.id = was.id /\ call.original = was.original
          /\ call.lines = was.lines /\ call.then = was.then /\ call.unseen
      BY <3>1 DEF CallRecord
    <3>3. calls'[s] = call
      BY <1>2, <2>1, <2>2, <3>1
    <3>4. Prepared(calls[s])
      BY <2>1, <2>2 DEF CronInv
    <3>5. /\ was.id \in TaskIds /\ Written(was.lines) /\ Marked(was.lines) \subseteq drawn
          /\ Said(was.lines, was.id) = was.then
          /\ \A id \in TaskIds \ {was.id} : Said(was.lines, id) = Said(was.original, id)
      BY <2>1, <3>4 DEF Prepared
    <3>6. Prepared(calls[s])'
      BY <1>2, <3>2, <3>3, <3>5 DEF Prepared
    <3>7. QED BY <2>1, <2>2, <3>2, <3>3, <3>6
  <2>3. CASE was.step \notin {"save", "install"}
    <3>1. calls'[s] = calls[s]
      BY <1>2, <2>1, <2>3
    <3>2. QED BY <2>1, <2>3, <3>1 DEF CronInv
  <2>4. QED BY <2>2, <2>3
<1>8. calls' \in [CronSlots -> CallRecord]
  BY <1>2, <1>7
<1>9. CronTypeOK'
  <2>1. \A t \in CronSlots :
           /\ calls'[t].command \in CronCommands
           /\ calls'[t].step \in {"idle", "read", "save", "install"}
           /\ calls'[t].original \in Seq(Lines) /\ calls'[t].lines \in Seq(Lines)
    BY <1>8 DEF CallRecord
  <2>2. \A t \in CronSlots : (calls'[t].step # "idle") = (cronLock' = t)
    BY <1>1, <1>2, <1>7 DEF CronTypeOK
  <2>3. edits' \in 0 .. MaxEdits
    BY <1>1, <1>2, CronAssumption
  <2>4. cronLock' \in CronSlots \cup {NoTask} /\ drawn' \subseteq TaskIds
    BY <1>1, <1>2 DEF CronTypeOK
  <2>5. QED BY <1>3, <1>5, <2>1, <2>2, <2>3, <2>4 DEF CronTypeOK
<1>10. Marked(crontab)' \subseteq drawn'
  BY <1>2, <1>3, <1>6
<1>11. QED BY <1>2, <1>7, <1>8, <1>9, <1>10, NothingKept DEF CronInv

\* The commands of the daemon and the edits of the user keep the invariant: at most one command
\* is past the lock, and a table to install differs from the one that was read in one task.
THEOREM CronInvariance == CronSpec => []CronInv
<1>1. CronInit => CronInv
  <2> SUFFICES ASSUME CronInit PROVE CronInv
    OBVIOUS
  <2>1. /\ crontab \in {<<>>} \cup {<<JobLine(j)>> : j \in JobLines} /\ cronLock = NoTask
        /\ calls = [s \in CronSlots |-> NoCall] /\ drawn = {} /\ acked = NothingSaid /\ edits = 0
    BY DEF CronInit
  <2>2. crontab \in Seq(Lines) /\ Marked(crontab) = {}
    <3>1. ASSUME NEW j \in JobLines, crontab = <<JobLine(j)>> PROVE crontab \in Seq(Lines) /\ Marked(crontab) = {}
      <4>1. PICK line \in Lines : line = JobLine(j) /\ line.id = NoTask
        BY LinesMade
      <4>2. PICK tab : tab = <<line>>
        OBVIOUS
      <4>3. tab \in Seq(Lines) /\ DOMAIN tab = {1} /\ tab[1] = line
        BY <4>2
      <4>4. \A id : id \notin Marked(tab)
        BY <4>1, <4>3, MarkedByLines
      <4>5. QED BY <3>1, <4>1, <4>2, <4>3, <4>4
    <3>2. QED BY <2>1, <3>1, EmptyTable
  <2>3. calls \in [CronSlots -> CallRecord] /\ \A s \in CronSlots : calls[s] \in CallRecord /\ calls[s].step = "idle"
    BY <2>1, NoCallTyped
  <2>4. CronTypeOK
    <3>1. \A t \in CronSlots :
             /\ calls[t].command \in CronCommands
             /\ calls[t].step \in {"idle", "read", "save", "install"}
             /\ calls[t].original \in Seq(Lines) /\ calls[t].lines \in Seq(Lines)
      BY <2>3 DEF CallRecord
    <3>2. \A t \in CronSlots : (calls[t].step # "idle") = (cronLock = t)
      <4>1. \A t \in CronSlots : t # NoTask
        BY CronAssumption
      <4>2. QED BY <2>1, <2>3, <4>1
    <3>3. QED BY <2>1, <2>2, <3>1, <3>2, CronAssumption DEF CronTypeOK
  <2>5. DOMAIN acked = {} /\ acked = [id \in DOMAIN acked |-> acked[id]]
    BY <2>1 DEF NothingSaid
  <2>6. QED BY <2>1, <2>2, <2>3, <2>4, <2>5 DEF CronInv, AnsweredIsKept
<1>2. CronInv /\ [CronNext]_cronVars => CronInv'
  <2> SUFFICES ASSUME CronInv, [CronNext]_cronVars PROVE CronInv'
    OBVIOUS
  <2>1. CASE UNCHANGED cronVars
    BY <2>1 DEF cronVars, CronInv, CronTypeOK, AnsweredIsKept, Prepared
  <2>2. CASE CronNext
    BY <2>2, BeginKeeps, ReadKeeps, SaveKeeps, InstallKeeps, StopKeeps, EditKeeps DEF CronNext, TableStep
  <2>3. QED BY <2>1, <2>2
<1>3. QED BY <1>1, <1>2, PTL DEF CronSpec

\* The state of the scheduled tasks is well formed, and only the holder of the flock is past it.
THEOREM CronTypeCorrect == CronSpec => []CronTypeOK
<1>1. CronInv => CronTypeOK
  BY DEF CronInv
<1>2. QED BY <1>1, CronInvariance, PTL

\* What an answer about a task said stays true while other commands run: the table has the one
\* record it said, or none.
THEOREM AnswersAreKept == CronSpec => []AnsweredIsKept
<1>1. CronInv => AnsweredIsKept
  BY DEF CronInv
<1>2. QED BY <1>1, CronInvariance, PTL

-----------------------------------------------------------------------------
(* CronTables implements TaskTable.  The lines to install were made from the *)
(* ones that were read as the command asks (Faithful), so that replacing the *)
(* table, if nobody saved it in between, is what TaskTable calls an effect.  *)

\* A line of the user's is an enabled task.
LEMMA UserLinesEnabled ==
    ASSUME NEW lines, NEW r \in Records(lines), r.managed = FALSE
    PROVE  r.enabled = TRUE
BY RecordSorts

\* The one record with an identifier that was drawn is what the table says of the task.
LEMMA FoundIsSaid ==
    ASSUME NEW lines \in Seq(Lines), Written(lines), NEW id \in TaskIds, NEW r \in findRecord(lines, id)
    PROVE  Said(lines, id) = {<<r.job, r.enabled>>}
<1>1. r \in Records(lines) /\ \A x \in Records(lines) : (x.id = id) = (x = r)
  BY DEF findRecord
<1>2. {x \in Records(lines) : x.id = id} = {r}
  BY <1>1
<1>3. {<<x.job, x.enabled>> : x \in {r}} = {<<r.job, r.enabled>>}
  BY Zenon
<1>4. QED BY <1>2, <1>3, RecordsSay

\* What a command asks, without the record.
LEMMA AskedIs ==
    ASSUME NEW call
    PROVE  /\ CommandOf(call).command = call.command /\ CommandOf(call).target = call.target
           /\ CommandOf(call).content = call.job
BY DEF CommandOf

\* What a command makes of the lines it read is what TaskTable calls its effect.
LEMMA Effecting ==
    ASSUME NEW call \in CallRecord, Arguments(call.command, call.target, call.job),
           NEW lines \in Seq(Lines), Written(lines), Marked(lines) \subseteq drawn,
           NEW fresh \in (TaskIds \ drawn) \cup {NoTask},
           NEW c \in Changed(call, lines, fresh), c.id # NoTask
    PROVE  Table!Effect(CommandOf(call), c.id, Said(lines, c.id), c.then)
<1>0. call.command \in CronCommands /\ call.target \in TaskNames
  BY DEF CallRecord
<1>1. PICK asked : asked = CommandOf(call)
  OBVIOUS
<1>2. asked.command = call.command /\ asked.target = call.target /\ asked.content = call.job
  BY <1>1, AskedIs
<1>3. CASE call.command = "create"
  <2>1. c.id = fresh /\ c.then = {<<call.job, TRUE>>}
    <3>1. PICK enabled \in BOOLEAN : enabled = TRUE
      OBVIOUS
    <3>2. PICK q : q = Rendered(fresh, call.job, enabled)
      OBVIOUS
    <3>3. c = [id |-> fresh, lines |-> lines \o q, then |-> {<<call.job, enabled>>}]
      BY <1>3, <3>1, <3>2 DEF Changed
    <3>4. c.id = fresh /\ c.then = {<<call.job, enabled>>}
      BY <3>3
    <3>5. QED BY <3>1, <3>4
  <2>2. Said(lines, fresh) = {}
    <3>1. fresh \in TaskIds /\ fresh \notin Marked(lines)
      BY <2>1
    <3>2. QED BY <3>1, Unmarked
  <2>3. Table!Effect(asked, c.id, Said(lines, c.id), c.then)
    <3>1. asked.command = "create" /\ Said(lines, c.id) = {} /\ c.then = {<<asked.content, TRUE>>}
      BY <1>2, <1>3, <2>1, <2>2
    <3>2. QED BY <3>1, Zenon DEF Table!Effect
  <2>4. QED BY <1>1, <2>3
<1>4. CASE call.command # "create"
  <2>1. PICK r \in findRecord(lines, call.target) :
           /\ call.command = "suspend" => r.enabled
           /\ call.command = "resume" => ~r.enabled
           /\ c = LET id == IF r.managed THEN r.id ELSE fresh
                      job == IF call.command = "update" THEN call.job ELSE r.job
                      enabled == IF call.command = "update" THEN r.enabled ELSE call.command = "resume"
                      deleted == call.command = "delete"
                  IN  [id |-> id,
                       lines |-> replace(lines, r.start, r.end,
                                         IF deleted THEN <<>> ELSE Rendered(id, job, enabled)),
                       then |-> IF deleted THEN {} ELSE {<<job, enabled>>}]
    BY <1>4 DEF Changed, EnabledAfter
  <2>2. r \in Records(lines) /\ r.id = call.target
    BY DEF findRecord
  <2>3. r.job \in JobLines /\ r.enabled \in BOOLEAN /\ r.managed \in BOOLEAN /\ (r.managed <=> r.id \in TaskIds)
    BY <2>2, RecordShape
  <2>4. c.id = IF r.managed THEN r.id ELSE fresh
    BY <2>1
  <2>5. /\ call.command = "update" => c.then = {<<call.job, r.enabled>>}
        /\ call.command = "suspend" => c.then = {<<r.job, FALSE>>}
        /\ call.command = "resume" => c.then = {<<r.job, TRUE>>}
        /\ call.command = "delete" => c.then = {}
    <3>1. PICK job : job = IF call.command = "update" THEN call.job ELSE r.job
      OBVIOUS
    <3>2. PICK enabled : enabled = IF call.command = "update" THEN r.enabled ELSE call.command = "resume"
      OBVIOUS
    <3>3. c.then = IF call.command = "delete" THEN {} ELSE {<<job, enabled>>}
      BY <2>1, <3>1, <3>2
    <3>4. /\ call.command = "update" => enabled = r.enabled
          /\ call.command = "suspend" => enabled = FALSE
          /\ call.command = "resume" => enabled = TRUE
      BY <3>2
    <3>5. QED BY <3>1, <3>3, <3>4
  <2>6. call.command \in {"update", "suspend", "resume", "delete"}
    BY <1>0, <1>4 DEF CronCommands
  <2>7. Table!Makes(asked, r.job, r.enabled, c.then)
    BY <1>2, <2>1, <2>5, <2>6 DEF Table!Makes
  <2>8. CASE r.managed
    <3>1. c.id = r.id /\ r.id \in TaskIds /\ asked.target = c.id
      BY <1>2, <2>2, <2>3, <2>4, <2>8
    <3>2. PICK said : said = <<r.job, r.enabled>>
      OBVIOUS
    <3>3. Said(lines, c.id) = {said}
      BY <2>2, <3>1, <3>2, FoundIsSaid
    <3>4. said[1] = r.job /\ said[2] = r.enabled
      BY <3>2
    <3>5. Table!Makes(asked, said[1], said[2], c.then)
      BY <2>7, <3>4
    <3>6. Table!Effect(asked, c.id, Said(lines, c.id), c.then)
      BY <3>1, <3>3, <3>5 DEF Table!Effect
    <3>7. QED BY <1>1, <3>6
  <2>9. CASE ~r.managed
    <3>1. c.id = fresh /\ fresh \in TaskIds /\ fresh \notin Marked(lines)
      BY <2>4, <2>9
    <3>2. Said(lines, c.id) = {}
      BY <3>1, Unmarked
    <3>3. asked.target \in TaskNames \ TaskIds
      BY <1>0, <1>2, <2>2, <2>3, <2>9
    <3>4. Table!Makes(asked, r.job, TRUE, c.then)
      <4>1. r.enabled = TRUE
        BY <2>2, <2>3, <2>9, UserLinesEnabled
      <4>2. QED BY <2>7, <4>1
    <3>5. Table!Effect(asked, c.id, Said(lines, c.id), c.then)
      BY <2>3, <3>2, <3>3, <3>4 DEF Table!Effect
    <3>6. QED BY <1>1, <3>5
  <2>10. QED BY <2>3, <2>8, <2>9
<1>5. QED BY <1>3, <1>4

\* A command is none of the values that mean no command.
LEMMA CommandTyped ==
    ASSUME NEW call \in CallRecord
    PROVE  /\ CommandOf(call) \in [command: CronCommands, target: TaskNames,
                                  content: JobLines \cup {NoTask}, sees: BOOLEAN]
           /\ CommandOf(call) # NoTask
           /\ call.unseen = FALSE => CommandOf(call).sees = TRUE
           /\ call.unseen = TRUE => CommandOf(call).sees = FALSE
<1>1. /\ call.command \in CronCommands /\ call.target \in TaskNames
      /\ call.job \in JobLines \cup {NoTask} /\ call.unseen \in BOOLEAN
  BY DEF CallRecord
<1>2. PICK sees \in BOOLEAN : sees = ~call.unseen
  <2>1. (~call.unseen) \in BOOLEAN
    OBVIOUS
  <2>2. QED BY <2>1, Zenon
<1>3. CommandOf(call) = [command |-> call.command, target |-> call.target, content |-> call.job, sees |-> sees]
  BY <1>2 DEF CommandOf
<1>4. CommandOf(call) \in [command: CronCommands, target: TaskNames,
                          content: JobLines \cup {NoTask}, sees: BOOLEAN]
  BY <1>1, <1>3
<1>5. CommandOf(call).sees = sees
  BY <1>3
<1>6. QED BY <1>2, <1>4, <1>5, PendingAssumption

\* Commands that ask the same are the same; the effect of a command is that of what it asks.
LEMMA SameCommand ==
    ASSUME NEW a, NEW b, b.command = a.command, b.target = a.target, b.job = a.job
    PROVE  /\ b.unseen = a.unseen => CommandOf(b) = CommandOf(a)
           /\ b.unseen = TRUE => CommandOf(b) = [CommandOf(a) EXCEPT !.sees = FALSE]
           /\ \A n, before, after :
                 Table!Effect(CommandOf(a), n, before, after) => Table!Effect(CommandOf(b), n, before, after)
<1>1. b.unseen = a.unseen => CommandOf(b) = CommandOf(a)
  BY DEF CommandOf
<1>2. ASSUME b.unseen = TRUE PROVE CommandOf(b) = [CommandOf(a) EXCEPT !.sees = FALSE]
  <2>1. PICK f, g : f = FALSE /\ g = ~a.unseen
    OBVIOUS
  <2>2. CommandOf(b) = [command |-> a.command, target |-> a.target, content |-> a.job, sees |-> f]
    BY <1>2, <2>1 DEF CommandOf
  <2>3. CommandOf(a) = [command |-> a.command, target |-> a.target, content |-> a.job, sees |-> g]
    BY <2>1 DEF CommandOf
  <2>4. CommandOf(b) = [CommandOf(a) EXCEPT !.sees = f]
    BY <2>2, <2>3
  <2>5. QED BY <2>1, <2>4
<1>3. PICK x, y : x = CommandOf(a) /\ y = CommandOf(b)
  OBVIOUS
<1>4. y.command = x.command /\ y.target = x.target /\ y.content = x.content
  BY <1>3, AskedIs
<1>5. ASSUME NEW n, NEW before, NEW after, Table!Effect(x, n, before, after)
      PROVE  Table!Effect(y, n, before, after)
  <2>1. \A content, enabled : Table!Makes(x, content, enabled, after) => Table!Makes(y, content, enabled, after)
    BY <1>4, Zenon DEF Table!Makes
  <2>2. QED BY <1>4, <1>5, <2>1, Zenon DEF Table!Effect
<1>6. QED BY <1>1, <1>2, <1>3, <1>5

\* What lines say of the tasks is a table.
ToldBy(lines) == [id \in TaskIds |-> IF Written(lines) THEN Said(lines, id) ELSE {}]

LEMMA ToldTyped ==
    ASSUME NEW lines \in Seq(Lines)
    PROVE  ToldBy(lines) \in [TaskIds -> SUBSET (JobLines \X BOOLEAN)]
<1>1. ASSUME NEW id \in TaskIds, Written(lines) PROVE Said(lines, id) \in SUBSET (JobLines \X BOOLEAN)
  BY <1>1, SaidByLines
<1>2. QED BY <1>1 DEF ToldBy

\* A connection whose command is under way holds the lock.
LEMMA Holding ==
    ASSUME CronInv, NEW s \in CronSlots, calls[s].step # "idle"
    PROVE  /\ cronLock = s /\ calls[s] \in CallRecord
           /\ Pending = CommandOf(calls[s]) /\ Pending # NoTask
<1>1. cronLock = s /\ calls[s] \in CallRecord
  BY DEF CronInv, CronTypeOK
<1>2. Pending = CommandOf(calls[s])
  BY <1>1, CronAssumption DEF Pending
<1>3. QED BY <1>1, <1>2, CommandTyped

\* A step of one connection leaves the others' commands as they are.
LEMMA OneFaithful ==
    ASSUME TasksInv, NEW s \in CronSlots, NEW call, Faithful(call), calls' = [calls EXCEPT ![s] = call]
    PROVE  \A t \in CronSlots : Faithful(calls'[t])
<1>1. calls \in [CronSlots -> CallRecord] /\ \A t \in CronSlots : Faithful(calls[t])
  BY DEF TasksInv, CronInv
<1>2. \A t \in CronSlots : calls'[t] = call \/ calls'[t] = calls[t]
  BY <1>1
<1>3. QED BY <1>1, <1>2

LEMMA NoCallFaithful == Faithful(NoCall)
BY NoCallTyped DEF Faithful

\* A command ends and leaves the table alone.
LEMMA EndImplements ==
    ASSUME TasksInv, NEW s \in CronSlots, calls[s].step # "idle", EndCall(s), UNCHANGED <<crontab, edits>>
    PROVE  /\ \A t \in CronSlots : Faithful(calls'[t])
           /\ Table!Abandon
<1>1. cronLock = s /\ Pending # NoTask
  BY Holding DEF TasksInv
<1>2. cronLock' = NoTask /\ calls' = [calls EXCEPT ![s] = NoCall]
  BY <1>1 DEF EndCall
<1>3. Pending' = NoTask
  BY <1>2 DEF Pending
<1>4. Told' = Told
  BY DEF Told
<1>5. Table!Abandon
  BY <1>1, <1>3, <1>4 DEF Table!Abandon
<1>6. QED BY <1>2, <1>5, OneFaithful, NoCallFaithful

\* manage, up to the lock.
LEMMA BeginImplements ==
    ASSUME TasksInv, NEW s \in CronSlots, NEW c \in CronCommands, NEW t \in TaskNames,
           NEW j \in JobLines \cup {NoTask}, Begin(s, c, t, j)
    PROVE  /\ \A x \in CronSlots : Faithful(calls'[x])
           /\ Table!Ask
<1>1. PICK call : call = Begun(c, t, j)
  OBVIOUS
<1>2. /\ call \in CallRecord /\ call.step = "read" /\ call.unseen = FALSE
  <2>1. call = [command |-> c, step |-> "read", target |-> t, job |-> j, id |-> NoTask, original |-> <<>>,
                lines |-> <<>>, then |-> {}, unseen |-> FALSE]
    BY <1>1 DEF Begun, NoCall
  <2>2. QED BY <2>1, EmptyTable DEF CallRecord
<1>3. /\ calls' = [calls EXCEPT ![s] = call] /\ cronLock = NoTask /\ cronLock' = s
      /\ UNCHANGED <<crontab, edits>>
  BY <1>1 DEF Begin
<1>4. Faithful(call)
  BY <1>2 DEF Faithful
<1>5. Pending = NoTask /\ Told' = Told
  BY <1>3 DEF Pending, Told
<1>6. Pending' = CommandOf(call)
  <2>1. calls'[s] = call /\ s # NoTask
    BY <1>3, CronAssumption DEF TasksInv, CronInv
  <2>2. QED BY <1>3, <2>1 DEF Pending
<1>7. PICK p : p = CommandOf(call)
  OBVIOUS
<1>8. /\ p \in [command: CronCommands, target: TaskNames, content: JobLines \cup {NoTask}, sees: BOOLEAN]
      /\ p # NoTask /\ p.sees = TRUE
  BY <1>2, <1>7, CommandTyped
<1>9. TaskIds \cup (TaskNames \ TaskIds) = TaskNames
  BY DEF TaskNames
<1>10. Table!Ask
  BY <1>3, <1>5, <1>6, <1>7, <1>8, <1>9 DEF Table!Ask
<1>11. QED BY <1>3, <1>4, <1>10, OneFaithful

\* The holder's command is replaced by one that asks the same: what is pending stays, or it no
\* longer sees.
LEMMA GoesOn ==
    ASSUME TasksInv, NEW s \in CronSlots, calls[s].step # "idle", NEW call \in CallRecord,
           calls' = [calls EXCEPT ![s] = call], UNCHANGED <<cronLock, crontab, edits>>,
           call.command = calls[s].command, call.target = calls[s].target, call.job = calls[s].job,
           call.unseen = calls[s].unseen \/ call.unseen = TRUE
    PROVE  UNCHANGED <<Told, edits, Pending>> \/ Table!Miss
<1>1. cronLock = s /\ Pending = CommandOf(calls[s]) /\ Pending # NoTask
  BY Holding DEF TasksInv
<1>2. Pending' = CommandOf(call)
  <2>1. calls'[s] = call /\ s # NoTask /\ cronLock' = s
    BY <1>1, CronAssumption DEF TasksInv, CronInv
  <2>2. QED BY <2>1 DEF Pending
<1>3. Told' = Told
  BY DEF Told
<1>4. CASE call.unseen = calls[s].unseen
  BY <1>1, <1>2, <1>3, <1>4, SameCommand
<1>5. CASE call.unseen = TRUE
  <2>1. Pending' = [Pending EXCEPT !.sees = FALSE]
    BY <1>1, <1>2, <1>5, SameCommand
  <2>2. QED BY <1>1, <1>3, <2>1 DEF Table!Miss, Table!Overlook
<1>6. QED BY <1>4, <1>5

\* The table is read: the command takes no effect yet.
LEMMA ReadImplements ==
    ASSUME TasksInv, NEW s \in CronSlots, ReadTable(s)
    PROVE  /\ \A t \in CronSlots : Faithful(calls'[t])
           /\ UNCHANGED <<Told, edits, Pending>> \/ Table!Miss \/ Table!Abandon
<1>0. calls[s].step = "read" /\ UNCHANGED <<crontab, acked, edits>>
  BY Zenon DEF ReadTable
<1>1. /\ CronTypeOK /\ calls \in [CronSlots -> CallRecord] /\ Marked(crontab) \subseteq drawn
      /\ calls[s].step = "read" /\ UNCHANGED <<crontab, edits>>
      /\ Arguments(calls[s].command, calls[s].target, calls[s].job)
      /\ Faithful(calls[s])
  BY <1>0 DEF TasksInv, CronInv
<1>2. CASE EndCall(s)
  BY <1>1, <1>2, EndImplements
<1>3. ASSUME NEW blind \in BOOLEAN, NEW fresh \in (TaskIds \ drawn) \cup {NoTask},
             NEW lines, lines = (IF blind THEN <<>> ELSE crontab), Parses(lines),
             NEW c \in Changed(calls[s], lines, fresh), c.id # NoTask,
             calls' = [calls EXCEPT ![s] =
                         [@ EXCEPT !.step = "save", !.id = c.id, !.original = lines,
                                   !.lines = c.lines, !.then = c.then,
                                   !.unseen = blind /\ crontab # <<>>]],
             UNCHANGED cronLock
      PROVE  /\ \A t \in CronSlots : Faithful(calls'[t])
             /\ UNCHANGED <<Told, edits, Pending>> \/ Table!Miss
  <2>1. lines \in Seq(Lines) /\ Marked(lines) \subseteq drawn /\ Written(lines)
    BY <1>1, <1>3, EmptyTable DEF CronTypeOK, Parses
  <2>2. PICK was \in CallRecord : was = calls[s]
    BY <1>1
  <2>3. Arguments(was.command, was.target, was.job) /\ c \in Changed(was, lines, fresh)
    BY <1>1, <1>3, <2>2
  <2>4. c.id \in TaskIds /\ c.lines \in Seq(Lines) /\ c.then \subseteq JobLines \X BOOLEAN
    BY <1>3, <2>1, <2>3, Changing
  <2>5. PICK unseen \in BOOLEAN : unseen = (blind /\ crontab # <<>>)
    <3>1. (blind /\ crontab # <<>>) \in BOOLEAN
      OBVIOUS
    <3>2. QED BY <3>1, Zenon
  <2>6. PICK call : call = [was EXCEPT !.step = "save", !.id = c.id, !.original = lines,
                                       !.lines = c.lines, !.then = c.then, !.unseen = unseen]
    OBVIOUS
  <2>7. call \in CallRecord /\ call.step = "save" /\ call.id = c.id /\ call.original = lines
        /\ call.then = c.then /\ call.unseen = unseen
        /\ call.command = was.command /\ call.target = was.target /\ call.job = was.job
    BY <2>1, <2>4, <2>6 DEF CallRecord
  <2>8. calls' = [calls EXCEPT ![s] = call]
    BY <1>3, <2>2, <2>5, <2>6
  <2>9. Faithful(call)
    <3>1. Table!Effect(CommandOf(was), c.id, Said(lines, c.id), c.then)
      BY <1>3, <2>1, <2>3, Effecting
    <3>2. Table!Effect(CommandOf(call), c.id, Said(lines, c.id), c.then)
      BY <2>7, <3>1, SameCommand
    <3>3. QED BY <1>3, <2>7, <3>2 DEF Faithful
  <2>10. call.unseen = was.unseen \/ call.unseen = TRUE
    <3>1. was.unseen = FALSE
      BY <1>1, <2>2 DEF Faithful
    <3>2. QED BY <2>5, <2>7, <3>1
  <2>11. UNCHANGED <<Told, edits, Pending>> \/ Table!Miss
    BY <1>1, <1>3, <2>2, <2>7, <2>8, <2>10, GoesOn
  <2>12. QED BY <2>8, <2>9, <2>11, OneFaithful
<1>4. QED
  <2>1. \/ EndCall(s)
        \/ \E blind \in BOOLEAN, fresh \in (TaskIds \ drawn) \cup {NoTask} :
              LET lines == IF blind THEN <<>> ELSE crontab IN
              /\ Parses(lines)
              /\ \E c \in Changed(calls[s], lines, fresh) :
                    /\ c.id # NoTask
                    /\ calls' = [calls EXCEPT ![s] =
                         [@ EXCEPT !.step = "save", !.id = c.id, !.original = lines,
                                   !.lines = c.lines, !.then = c.then,
                                   !.unseen = blind /\ crontab # <<>>]]
              /\ UNCHANGED cronLock
    BY Zenon DEF ReadTable
  <2>2. QED BY <1>2, <1>3, <2>1, Zenon

\* The copy is saved.
LEMMA SaveImplements ==
    ASSUME TasksInv, NEW s \in CronSlots, SaveTable(s)
    PROVE  /\ \A t \in CronSlots : Faithful(calls'[t])
           /\ UNCHANGED <<Told, edits, Pending>> \/ Table!Miss \/ Table!Abandon
<1>1. /\ calls \in [CronSlots -> CallRecord] /\ calls[s].step = "save" /\ UNCHANGED <<crontab, edits>>
      /\ Faithful(calls[s])
  BY DEF TasksInv, CronInv, SaveTable
<1>2. CASE EndCall(s)
  BY <1>1, <1>2, EndImplements
<1>3. CASE calls' = [calls EXCEPT ![s].step = "install"] /\ UNCHANGED cronLock
  <2>1. PICK was \in CallRecord : was = calls[s]
    BY <1>1
  <2>2. PICK call : call = [was EXCEPT !.step = "install"]
    OBVIOUS
  <2>3. call \in CallRecord /\ call.step = "install" /\ call.id = was.id /\ call.original = was.original
        /\ call.then = was.then /\ call.unseen = was.unseen
        /\ call.command = was.command /\ call.target = was.target /\ call.job = was.job
    BY <2>2 DEF CallRecord
  <2>4. calls' = [calls EXCEPT ![s] = call]
    BY <1>3, <2>1, <2>2
  <2>5. Faithful(call)
    <3>1. Parses(was.original) /\ Table!Effect(CommandOf(was), was.id, Said(was.original, was.id), was.then)
      BY <1>1, <2>1 DEF Faithful
    <3>2. Table!Effect(CommandOf(call), was.id, Said(was.original, was.id), was.then)
      BY <2>3, <3>1, SameCommand
    <3>3. QED BY <2>3, <3>1, <3>2 DEF Faithful
  <2>6. UNCHANGED <<Told, edits, Pending>> \/ Table!Miss
    BY <1>1, <1>3, <2>1, <2>3, <2>4, GoesOn
  <2>7. QED BY <2>4, <2>5, <2>6, OneFaithful
<1>4. QED BY <1>2, <1>3 DEF SaveTable

\* Lines that can be read say of no task that it is enabled and looks like a comment.
LEMMA ReadableSays ==
    ASSUME NEW lines \in Seq(Lines), Parses(lines), NEW id \in TaskIds, NEW content \in Misread
    PROVE  <<content, TRUE>> \notin Said(lines, id)
<1>1. SUFFICES ASSUME <<content, TRUE>> \in Said(lines, id) PROVE FALSE
  OBVIOUS
<1>2. PICK i \in DOMAIN lines : lines[i] = ActiveMarker(id) /\ lines[i + 1].job = content
  BY <1>1 DEF Said
<1>3. lines[i].kind = "active"
  BY <1>2 DEF ActiveMarker
<1>4. i + 1 \in DOMAIN lines
  BY <1>3 DEF Parses, Written
<1>5. QED BY <1>2, <1>3, <1>4 DEF Parses, Misled

\* The table is replaced, which is the effect of a command that sees, or it is not.
LEMMA InstallImplements ==
    ASSUME TasksInv, NEW s \in CronSlots, InstallTable(s)
    PROVE  /\ \A t \in CronSlots : Faithful(calls'[t])
           /\ (\E n \in TaskIds : Table!TakeEffect(n)) \/ Table!Clobber \/ Table!Abandon
<1>1. /\ CronTypeOK /\ calls \in [CronSlots -> CallRecord] /\ calls[s].step = "install" /\ EndCall(s)
      /\ UNCHANGED edits /\ crontab' \in {crontab, calls[s].lines}
      /\ Prepared(calls[s]) /\ Faithful(calls[s])
  BY DEF TasksInv, CronInv, InstallTable
<1>2. PICK was \in CallRecord : was = calls[s]
  BY <1>1
<1>3. cronLock = s /\ Pending = CommandOf(was) /\ Pending # NoTask
  BY <1>1, <1>2, Holding DEF TasksInv
<1>4. cronLock' = NoTask /\ Pending' = NoTask /\ calls' = [calls EXCEPT ![s] = NoCall]
  BY <1>1, <1>3 DEF EndCall, Pending
<1>5. \A t \in CronSlots : Faithful(calls'[t])
  BY <1>4, OneFaithful, NoCallFaithful
<1>6. CASE crontab' = crontab
  BY <1>1, <1>5, <1>6, EndImplements
<1>7. CASE crontab' = was.lines /\ was.unseen = TRUE
  <2>1. Pending.sees = FALSE
    BY <1>2, <1>3, <1>7, CommandTyped
  <2>2. Told' \in [TaskIds -> SUBSET (JobLines \X BOOLEAN)]
    <3>1. was.lines \in Seq(Lines)
      BY DEF CallRecord
    <3>2. Told' = ToldBy(was.lines)
      BY <1>7 DEF Told, ToldBy
    <3>3. QED BY <3>1, <3>2, ToldTyped
  <2>3. Table!Clobber
    BY <1>1, <1>3, <1>4, <2>1, <2>2 DEF Table!Clobber, Table!Said
  <2>4. QED BY <1>5, <2>3
<1>8. CASE crontab' = was.lines /\ was.unseen = FALSE
  <2>1. Pending.sees = TRUE
    BY <1>2, <1>3, <1>8, CommandTyped
  <2>2. /\ was.id \in TaskIds /\ Written(was.lines) /\ was.original = crontab
        /\ Said(was.lines, was.id) = was.then
        /\ \A id \in TaskIds \ {was.id} : Said(was.lines, id) = Said(was.original, id)
    BY <1>1, <1>2, <1>8 DEF Prepared
  <2>3. Parses(was.original) /\ Table!Effect(CommandOf(was), was.id, Said(was.original, was.id), was.then)
    BY <1>1, <1>2 DEF Faithful
  <2>4. /\ Told = [id \in TaskIds |-> Said(was.original, id)]
        /\ Told' = [id \in TaskIds |-> Said(was.lines, id)]
    BY <1>8, <2>2, <2>3 DEF Told, Parses
  <2>5. Told[was.id] = Said(was.original, was.id) /\ Told'[was.id] = was.then
    BY <2>2, <2>4
  <2>6. Told' = [Told EXCEPT ![was.id] = Told'[was.id]]
    BY <2>2, <2>4
  <2>7. Table!Effect(Pending, was.id, Told[was.id], Told'[was.id])
    BY <1>3, <2>3, <2>5
  <2>8. Table!Legible
    <3>1. \A n \in TaskIds, content \in Misread : <<content, TRUE>> \notin Said(was.original, n)
      BY <2>3, ReadableSays DEF CallRecord
    <3>2. QED BY <2>4, <3>1 DEF Table!Legible
  <2>9. Table!TakeEffect(was.id)
    BY <1>1, <1>3, <1>4, <2>1, <2>6, <2>7, <2>8 DEF Table!TakeEffect
  <2>10. QED BY <1>5, <2>2, <2>9
<1>9. was.unseen \in BOOLEAN
  BY DEF CallRecord
<1>10. QED BY <1>1, <1>2, <1>6, <1>7, <1>8, <1>9

\* The daemon stops.
LEMMA StopImplements ==
    ASSUME TasksInv, StopDaemon
    PROVE  /\ \A t \in CronSlots : Faithful(calls'[t])
           /\ Table!Abandon
<1>1. /\ cronLock # NoTask /\ cronLock' = NoTask /\ calls' = [s \in CronSlots |-> NoCall]
      /\ UNCHANGED <<crontab, edits>>
  BY DEF StopDaemon
<1>2. cronLock \in CronSlots /\ calls[cronLock].step # "idle"
  BY <1>1 DEF TasksInv, CronInv, CronTypeOK
<1>3. Pending # NoTask /\ Pending' = NoTask /\ Told' = Told
  BY <1>1, <1>2, Holding DEF TasksInv, Pending, Told
<1>4. \A t \in CronSlots : Faithful(calls'[t])
  BY <1>1, NoCallFaithful
<1>5. QED BY <1>1, <1>3, <1>4 DEF Table!Abandon

\* The user saves a table of his own: a command past its reading no longer sees.
LEMMA EditImplements ==
    ASSUME TasksInv, EditTable, CronInv'
    PROVE  /\ \A t \in CronSlots : Faithful(calls'[t])
           /\ Table!SaveByHand
<1>1. /\ CronInv /\ calls \in [CronSlots -> CallRecord]
      /\ edits' = edits + 1 /\ UNCHANGED cronLock /\ crontab' \in Seq(Lines)
      /\ calls' = [s \in CronSlots |->
                     IF calls[s].step \in {"save", "install"} THEN [calls[s] EXCEPT !.unseen = TRUE]
                     ELSE calls[s]]
  BY DEF TasksInv, CronInv, CronTypeOK, EditTable
<1>2. ASSUME NEW s \in CronSlots
      PROVE  /\ Faithful(calls'[s])
             /\ CommandOf(calls'[s]) = CommandOf(calls[s])
                \/ CommandOf(calls'[s]) = [CommandOf(calls[s]) EXCEPT !.sees = FALSE]
  <2>1. PICK was \in CallRecord : was = calls[s] /\ Faithful(was)
    BY <1>1 DEF TasksInv
  <2>2. CASE was.step \in {"save", "install"}
    <3>1. PICK call : call = [was EXCEPT !.unseen = TRUE]
      OBVIOUS
    <3>2. /\ call.step = was.step /\ call.id = was.id /\ call.original = was.original
          /\ call.then = was.then /\ call.unseen = TRUE
          /\ call.command = was.command /\ call.target = was.target /\ call.job = was.job
      BY <3>1 DEF CallRecord
    <3>3. calls'[s] = call
      BY <1>1, <2>1, <2>2, <3>1
    <3>4. Parses(was.original) /\ Table!Effect(CommandOf(was), was.id, Said(was.original, was.id), was.then)
      BY <2>1, <2>2 DEF Faithful
    <3>5. Table!Effect(CommandOf(call), was.id, Said(was.original, was.id), was.then)
      BY <3>2, <3>4, SameCommand
    <3>6. Faithful(call)
      BY <2>2, <3>2, <3>4, <3>5 DEF Faithful
    <3>7. CommandOf(call) = [CommandOf(was) EXCEPT !.sees = FALSE]
      BY <3>2, SameCommand
    <3>8. QED BY <2>1, <3>3, <3>6, <3>7
  <2>3. CASE was.step \notin {"save", "install"}
    <3>1. calls'[s] = was
      BY <1>1, <2>1, <2>3
    <3>2. QED BY <2>1, <3>1
  <2>4. QED BY <2>2, <2>3
<1>3. Told' \in [TaskIds -> SUBSET (JobLines \X BOOLEAN)]
  <2>1. Told' = ToldBy(crontab')
    BY DEF Told, ToldBy
  <2>2. QED BY <1>1, <2>1, ToldTyped
<1>4. Pending' = Pending \/ (Pending # NoTask /\ Pending' = [Pending EXCEPT !.sees = FALSE])
  <2>1. CASE cronLock = NoTask
    BY <1>1, <2>1 DEF Pending
  <2>2. CASE cronLock # NoTask
    <3>1. cronLock \in CronSlots /\ calls[cronLock].step # "idle"
      BY <1>1, <2>2 DEF CronInv, CronTypeOK
    <3>2. Pending # NoTask /\ Pending = CommandOf(calls[cronLock])
      BY <1>1, <3>1, Holding
    <3>3. Pending' = CommandOf(calls'[cronLock])
      BY <1>1, <2>2 DEF Pending
    <3>4. QED BY <1>2, <3>1, <3>2, <3>3
  <2>3. QED BY <2>1, <2>2
<1>5. Table!SaveByHand
  BY <1>1, <1>3, <1>4 DEF Table!SaveByHand, Table!Said, Table!Overlook
<1>6. QED BY <1>2, <1>5

\* Every step of the scheduled tasks is one of the abstract table or leaves it alone, and what is
\* about to be installed is what was asked.
LEMMA TableSteps ==
    ASSUME TasksInv, [CronNext]_cronVars, CronInv'
    PROVE  TasksInv' /\ [Table!TasksNext]_<<Told, edits, Pending>>
<1>1. CASE UNCHANGED cronVars
  <2>1. UNCHANGED <<crontab, cronLock, calls, edits>>
    BY <1>1 DEF cronVars
  <2>2. UNCHANGED <<Told, edits, Pending>>
    BY <2>1 DEF Told, Pending
  <2>3. QED BY <2>1, <2>2 DEF TasksInv
<1>2. CASE CronNext
  <2>1. /\ \A t \in CronSlots : Faithful(calls'[t])
        /\ \/ UNCHANGED <<Told, edits, Pending>>
           \/ \E n \in TaskIds : Table!TakeEffect(n)
           \/ Table!Ask \/ Table!Abandon \/ Table!Miss \/ Table!SaveByHand \/ Table!Clobber
    BY <1>2, BeginImplements, ReadImplements, SaveImplements, InstallImplements, StopImplements,
       EditImplements DEF CronNext, TableStep
  <2>2. QED BY <2>1 DEF TasksInv, Table!TasksNext
<1>3. QED BY <1>1, <1>2

\* The commands on a crontab implement the abstract table, for any number of tasks, connections
\* and edits: one at a time, each takes effect at one moment, on the task it was asked for, as
\* that task is then.
THEOREM TableIsImplemented == CronSpec => ImplementsTable
<1>1. CronInit => Table!TasksInit /\ \A s \in CronSlots : Faithful(calls[s])
  <2> SUFFICES ASSUME CronInit PROVE Table!TasksInit /\ \A s \in CronSlots : Faithful(calls[s])
    OBVIOUS
  <2>1. /\ crontab \in {<<>>} \cup {<<JobLine(j)>> : j \in JobLines} /\ cronLock = NoTask
        /\ calls = [s \in CronSlots |-> NoCall] /\ edits = 0
    BY DEF CronInit
  <2>2. ASSUME NEW id \in TaskIds, Written(crontab) PROVE Said(crontab, id) = {}
    <3>1. ASSUME NEW j \in JobLines, crontab = <<JobLine(j)>> PROVE Said(crontab, id) = {}
      <4>1. PICK line \in Lines : line = JobLine(j) /\ line.id = NoTask
        BY LinesMade
      <4>2. PICK tab : tab = <<line>>
        OBVIOUS
      <4>3. tab \in Seq(Lines) /\ DOMAIN tab = {1} /\ tab[1] = line /\ crontab = tab
        BY <3>1, <4>1, <4>2
      <4>4. id \notin Marked(tab)
        BY <4>1, <4>3, MarkedByLines
      <4>5. QED BY <2>2, <4>3, <4>4, Unmarked
    <3>2. QED BY <2>1, <3>1, EmptyTable
  <2>3. Told = [id \in TaskIds |-> {}]
    BY <2>2 DEF Told
  <2>4. QED BY <2>1, <2>3, NoCallFaithful DEF Pending, Table!TasksInit
<1>2. CronInit /\ CronInv => TasksInv
  BY <1>1 DEF TasksInv
<1>3. TasksInv /\ [CronNext]_cronVars /\ CronInv' => TasksInv' /\ [Table!TasksNext]_<<Told, edits, Pending>>
  BY TableSteps
<1>4. QED BY <1>1, <1>2, <1>3, CronInvariance, PTL
      DEF CronSpec, ImplementsTable, Table!TasksSpec, Table!taskVars
=============================================================================
