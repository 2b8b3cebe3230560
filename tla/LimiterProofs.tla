----------------------------- MODULE LimiterProofs -----------------------------
(***************************************************************************)
(* Proofs about Limiter, for any limits, window and finite number of       *)
(* concurrent requests.                                                    *)
(*                                                                         *)
(* The argument: a request may only start to verify while the count of its *)
(* keys is below the limit, and the count then covers every failed         *)
(* verification of the window; from there each failure turns one           *)
(* verification under way into one wrong answer, so their sum never grows. *)
(***************************************************************************)
EXTENDS Limiter, FiniteSetTheorems, TLAPS

\* The numbers the arithmetic is about.
LEMMA Bounds ==
    /\ Cardinality(Requests) \in Nat
    /\ \A k \in Keys : Limit(k) \in Nat \ {0} /\ MaxCount >= Limit(k)
BY LimitAssumption, FS_CardinalityType DEF Limit

\* The verifications under way are at most the requests.
LEMMA TestingBounded ==
    ASSUME NEW k \in Keys
    PROVE  /\ IsFiniteSet(Testing(k)) /\ Cardinality(Testing(k)) \in Nat
           /\ Cardinality(Testing(k)) <= Cardinality(Requests)
<1>1. Testing(k) \subseteq Requests
  BY DEF Testing
<1>2. QED BY <1>1, LimitAssumption, FS_Subset, FS_CardinalityType

\* ... in the next state as well.
LEMMA TestingBoundedNext ==
    ASSUME NEW k \in Keys
    PROVE  /\ IsFiniteSet(Testing(k)') /\ Cardinality(Testing(k)') \in Nat
           /\ Cardinality(Testing(k)') <= Cardinality(Requests)
<1>1. Testing(k)' \subseteq Requests
  BY DEF Testing
<1>2. QED BY <1>1, LimitAssumption, FS_Subset, FS_CardinalityType

\* A key whose entry, wrong answers and verifications do not grow.
LEMMA KeyKept ==
    ASSUME NEW k \in Keys, LimiterTypeOK, KeyInv(k), wrong'[k] = wrong[k],
           Live(k)' => Live(k) /\ entries'[k].count = entries[k].count,
           Testing(k)' \subseteq Testing(k)
    PROVE  KeyInv(k)'
<1>1. Cardinality(Testing(k)') <= Cardinality(Testing(k))
  BY TestingBounded, FS_Subset
<1>2. wrong[k] \in Nat
  BY DEF LimiterTypeOK
<1>3. QED BY <1>1, <1>2, TestingBounded, TestingBoundedNext, Bounds DEF KeyInv

\* The initial state satisfies the inductive invariant.
LEMMA InitInv == ASSUME LimiterInit PROVE IInv
<1>1. LimiterTypeOK
  BY DEF LimiterInit, LimiterTypeOK
<1>2. ASSUME NEW k \in Keys PROVE KeyInv(k)
  <2>1. wrong[k] = 0 /\ ~Live(k)
    BY DEF LimiterInit, Live
  <2>2. QED BY <2>1, TestingBounded, Bounds DEF KeyInv
<1>3. QED BY <1>1, <1>2 DEF IInv

\* Allowed: below the limit the count covers the wrong answers.
LEMMA BeginStep ==
    ASSUME IInv, NEW r \in Requests, NEW a \in Addresses, NEW l \in Logins, Begin(r, a, l)
    PROVE  IInv'
<1>0. LimiterTypeOK /\ a \in Keys /\ l \in Keys
  BY DEF IInv, Keys
<1>1. LimiterTypeOK'
  BY <1>0 DEF LimiterTypeOK, Begin, Attempt
<1>2. ASSUME NEW k \in Keys PROVE KeyInv(k)'
  <2>1. KeyInv(k) /\ wrong[k] \in Nat
    BY <1>0 DEF IInv, LimiterTypeOK
  <2>2. CASE k \in {a, l} /\ Live(k)
    <3>1. entries'[k] = entries[k] /\ wrong'[k] = wrong[k]
      BY <2>2 DEF Begin
    <3>2. entries[k].count < Limit(k) /\ entries[k].count \in Nat
      BY <1>0, <2>2 DEF Begin, Allowed, countLocked, LimiterTypeOK, Entry, Live
    <3>3. wrong[k] <= Limit(k) - 1 /\ wrong[k] <= entries[k].count
      BY <2>1, <2>2, <3>2, Bounds DEF KeyInv
    <3>4. QED BY <2>1, <3>1, <3>3, TestingBoundedNext, Bounds DEF KeyInv
  <2>3. CASE k \in {a, l} /\ ~Live(k)
    <3>1. entries'[k] = NoEntry /\ wrong'[k] = 0
      BY <2>3 DEF Begin
    <3>2. ~Live(k)'
      BY <3>1 DEF Live
    <3>3. QED BY <3>1, <3>2, TestingBoundedNext, Bounds DEF KeyInv
  <2>4. CASE k \notin {a, l}
    <3>1. entries'[k] = entries[k] /\ wrong'[k] = wrong[k]
      BY <2>4 DEF Begin
    <3>2. Testing(k)' \subseteq Testing(k)
      BY <1>0, <2>4 DEF Begin, Testing, LimiterTypeOK
    <3>3. QED BY <1>0, <2>1, <3>1, <3>2, KeyKept DEF Live
  <2>5. QED BY <2>2, <2>3, <2>4
<1>3. QED BY <1>1, <1>2 DEF IInv

\* A refused attempt verifies nothing.
LEMMA BeginRefusedStep ==
    ASSUME IInv, NEW r \in Requests, NEW a \in Addresses, NEW l \in Logins,
           BeginRefused(r, a, l)
    PROVE  IInv'
<1>0. LimiterTypeOK
  BY DEF IInv
<1>1. LimiterTypeOK'
  BY <1>0 DEF LimiterTypeOK, BeginRefused, Attempt
<1>2. ASSUME NEW k \in Keys PROVE KeyInv(k)'
  <2>1. Testing(k)' \subseteq Testing(k)
    BY <1>0 DEF BeginRefused, Testing, LimiterTypeOK
  <2>2. QED BY <1>0, <2>1, KeyKept DEF IInv, BeginRefused, Live
<1>3. QED BY <1>1, <1>2 DEF IInv

\* A verification under way becomes a wrong answer.
LEMMA FailureStep == ASSUME IInv, NEW r \in Requests, Failure(r) PROVE IInv'
<1> DEFINE p == pending[r]
           keys == {p.address, p.login}
           failed == IF p.tested THEN 1 ELSE 0
<1>0. /\ LimiterTypeOK /\ p # NoEntry /\ p \in Attempt /\ p.tested \in BOOLEAN
      /\ failed \in 0 .. 1
  BY DEF IInv, LimiterTypeOK, Failure, Attempt
<1>1. /\ \A k \in Keys : entries'[k] = IF k \in keys THEN FailureEntry(k) ELSE entries[k]
      /\ \A k \in Keys : wrong'[k] = IF k \in keys
                            THEN (IF Live(k) THEN wrong[k] ELSE 0) + failed ELSE wrong[k]
      /\ pending' = [pending EXCEPT ![r] = NoEntry]
      /\ DOMAIN entries' = Keys /\ DOMAIN wrong' = Keys
  BY DEF Failure, Done
<1>2. \A k \in Keys : /\ FailureEntry(k) \in Entry
                      /\ FailureEntry(k).count =
                            IF Live(k) THEN Counted(entries[k].count) ELSE 1
  BY <1>0, LimitAssumption DEF FailureEntry, Entry, LimiterTypeOK, Live, Counted
<1>3. LimiterTypeOK'
  <2>1. entries' \in [Keys -> Entry \cup {NoEntry}]
    BY <1>0, <1>2 DEF Failure, LimiterTypeOK
  <2>2. wrong' \in [Keys -> Nat]
    BY <1>0 DEF Failure, LimiterTypeOK
  <2>3. QED BY <1>0, <1>1, <2>1, <2>2 DEF LimiterTypeOK
<1>4. ASSUME NEW k \in Keys PROVE KeyInv(k)'
  <2>1. KeyInv(k) /\ wrong[k] \in Nat
    BY <1>0 DEF IInv, LimiterTypeOK
  <2>2. Testing(k)' = Testing(k) \ {r}
    BY <1>0, <1>1 DEF Testing, LimiterTypeOK
  <2>3. CASE k \notin keys
    <3>1. entries'[k] = entries[k] /\ wrong'[k] = wrong[k]
      BY <1>1, <2>3
    <3>2. QED BY <1>0, <2>1, <2>2, <3>1, KeyKept DEF Live
  <2>4. CASE k \in keys
    <3>1. /\ entries'[k].count = IF Live(k) THEN Counted(entries[k].count) ELSE 1
          /\ wrong'[k] = (IF Live(k) THEN wrong[k] ELSE 0) + failed
      BY <1>1, <1>2, <2>4
    <3>2. Cardinality(Testing(k)') + failed <= Cardinality(Requests)
          /\ Cardinality(Testing(k)') + failed <= Cardinality(Testing(k))
      <4>1. CASE p.tested
        <5>1. r \in Testing(k)
          BY <1>0, <2>4, <4>1 DEF Testing
        <5>2. Cardinality(Testing(k)') = Cardinality(Testing(k)) - 1
          BY <2>2, <5>1, TestingBounded, FS_RemoveElement
        <5>3. QED BY <4>1, <5>2, TestingBounded, Bounds
      <4>2. CASE ~p.tested
        <5>1. Testing(k)' = Testing(k)
          BY <2>2, <4>2 DEF Testing
        <5>2. QED BY <4>2, <5>1, TestingBounded, Bounds
      <4>3. QED BY <4>1, <4>2
    <3> HIDE DEF failed, keys
    <3>3. (wrong[k] + Cardinality(Testing(k)) <= Limit(k) - 1 + Cardinality(Requests))
      BY <2>1 DEF KeyInv
    <3>4. wrong'[k] + Cardinality(Testing(k)') <= Limit(k) - 1 + Cardinality(Requests)
      <4>1. CASE Live(k)
        BY <1>0, <2>1, <3>1, <3>2, <3>3, <4>1, TestingBounded, TestingBoundedNext, Bounds
      <4>2. CASE ~Live(k)
        BY <1>0, <3>1, <3>2, <4>2, TestingBoundedNext, Bounds
      <4>3. QED BY <4>1, <4>2
    <3>5. ASSUME entries'[k].count < Limit(k) PROVE wrong'[k] <= entries'[k].count
      <4>1. CASE Live(k)
        <5>1. entries[k].count \in 0 .. MaxCount
          BY <1>0, <4>1 DEF LimiterTypeOK, Live, Entry
        <5>2. entries'[k].count = entries[k].count + 1 /\ entries[k].count < Limit(k)
          BY <3>1, <3>5, <4>1, <5>1, Bounds, LimitAssumption DEF Counted
        <5>3. wrong[k] <= entries[k].count
          BY <2>1, <4>1, <5>2 DEF KeyInv
        <5>4. QED BY <1>0, <2>1, <3>1, <4>1, <5>1, <5>2, <5>3
      <4>2. CASE ~Live(k)
        BY <1>0, <3>1, <4>2
      <4>3. QED BY <4>1, <4>2
    <3>6. QED BY <3>4, <3>5 DEF KeyInv
  <2>5. QED BY <2>3, <2>4
<1>5. QED BY <1>3, <1>4 DEF IInv

\* The account's count is cleared, the address's is kept.
LEMMA SuccessStep == ASSUME IInv, NEW r \in Requests, Success(r) PROVE IInv'
<1>0. LimiterTypeOK /\ pending[r] # NoEntry /\ pending[r].login \in Keys
  BY DEF IInv, LimiterTypeOK, Success, Attempt, Keys
<1>1. LimiterTypeOK'
  BY <1>0 DEF LimiterTypeOK, Success, Done
<1>2. ASSUME NEW k \in Keys PROVE KeyInv(k)'
  <2>1. CASE k = pending[r].login
    <3>1. wrong'[k] = 0 /\ ~Live(k)'
      BY <1>0, <2>1 DEF Success, LimiterTypeOK, Live
    <3>2. QED BY <3>1, TestingBoundedNext, Bounds DEF KeyInv
  <2>2. CASE k # pending[r].login
    <3>1. entries'[k] = entries[k] /\ wrong'[k] = wrong[k]
      BY <1>0, <2>2 DEF Success, LimiterTypeOK
    <3>2. Testing(k)' \subseteq Testing(k)
      BY <1>0 DEF Success, Done, Testing, LimiterTypeOK
    <3>3. QED BY <1>0, <3>1, <3>2, KeyKept DEF IInv, Live
  <2>3. QED BY <2>1, <2>2
<1>3. QED BY <1>1, <1>2 DEF IInv

\* Nothing is counted.
LEMMA UnavailableStep == ASSUME IInv, NEW r \in Requests, Unavailable(r) PROVE IInv'
<1>0. LimiterTypeOK
  BY DEF IInv
<1>1. LimiterTypeOK'
  BY <1>0 DEF LimiterTypeOK, Unavailable, Done
<1>2. ASSUME NEW k \in Keys PROVE KeyInv(k)'
  <2>1. Testing(k)' \subseteq Testing(k)
    BY <1>0 DEF Unavailable, Done, Testing, LimiterTypeOK
  <2>2. QED BY <1>0, <2>1, KeyKept DEF IInv, Unavailable, Live
<1>3. QED BY <1>1, <1>2 DEF IInv

\* Time only makes entries expire.
LEMMA TickStep == ASSUME IInv, Tick PROVE IInv'
<1>0. LimiterTypeOK
  BY DEF IInv
<1>1. \A k \in Keys : Live(k) => entries[k] \in Entry /\ entries[k].left \in 1 .. Window
  BY <1>0, LimitAssumption DEF LimiterTypeOK, Live, Entry
<1>2. LimiterTypeOK'
  <2>1. entries' \in [Keys -> Entry \cup {NoEntry}]
    <3>1. \A k \in Keys : Live(k) => [entries[k] EXCEPT !.left = @ - 1] \in Entry
      BY <1>1, LimitAssumption DEF Entry
    <3>2. QED BY <1>0, <3>1 DEF LimiterTypeOK, Tick
  <2>2. QED BY <1>0, <2>1 DEF LimiterTypeOK, Tick
<1>3. ASSUME NEW k \in Keys PROVE KeyInv(k)'
  <2>1. Live(k)' => Live(k) /\ entries'[k].count = entries[k].count
    BY <1>1 DEF Tick, Live, Entry
  <2>2. Testing(k)' = Testing(k) /\ wrong'[k] = wrong[k]
    BY DEF Tick, Testing
  <2>3. QED BY <1>0, <2>1, <2>2, KeyKept DEF IInv
<1>4. QED BY <1>2, <1>3 DEF IInv

\* Every step preserves the inductive invariant.
LEMMA NextInv == ASSUME IInv, [LimiterNext]_limiterVars PROVE IInv'
<1>1. CASE UNCHANGED limiterVars
  BY <1>1 DEF limiterVars, IInv, LimiterTypeOK, KeyInv, Live, Testing
<1>2. CASE LimiterNext
  BY <1>2, BeginStep, BeginRefusedStep, FailureStep, SuccessStep, UnavailableStep, TickStep
     DEF LimiterNext
<1>3. QED BY <1>1, <1>2

\* The inductive invariant holds in every reachable state.
THEOREM Invariance == LimiterSpec => []IInv
BY InitInv, NextInv, PTL DEF LimiterSpec

\* The limiter's map and the requests are well formed, counts included.
THEOREM TypeCorrect == LimiterSpec => []LimiterTypeOK
<1>1. IInv => LimiterTypeOK
  BY DEF IInv
<1>2. QED BY <1>1, Invariance, PTL

\* For every limit and any number of concurrent requests, the wrong passwords
\* or codes tried in one window stay below the limit plus the concurrency.
THEOREM GuessesAreBounded == LimiterSpec => []GuessesBounded
<1>1. IInv => GuessesBounded
  <2> SUFFICES ASSUME IInv, NEW k \in Keys
               PROVE  wrong[k] <= Limit(k) - 1 + Cardinality(Requests)
    BY DEF GuessesBounded
  <2>1. wrong[k] \in Nat /\ KeyInv(k)
    BY DEF IInv, LimiterTypeOK
  <2>2. QED BY <2>1, TestingBounded, Bounds DEF KeyInv
<1>2. QED BY <1>1, Invariance, PTL
=============================================================================
