-------------------------------- MODULE Limiter --------------------------------
(***************************************************************************)
(* The attempt limiter of internal/webauth/limiter.go as the login, second *)
(* factor and password handlers use it.                                    *)
(*                                                                         *)
(* A handler asks Allowed, then verifies the password or the code, then    *)
(* calls Failure or Success.  Each call takes the limiter's mutex, but     *)
(* nothing holds it across the verification, so requests overlap between   *)
(* the question and the count.  Time is kept relative: left is             *)
(* expiresAt - now, and an entry with none left has expired.               *)
(***************************************************************************)
EXTENDS Naturals, FiniteSets

CONSTANTS
    Addresses, Logins,           \* the keys "ip:..." and "login:..."
    Requests,                    \* concurrent HTTP requests
    NoEntry,
    AddressLimit, AccountLimit,  \* LoginLimiter.address and .account
    Window,                      \* LoginLimiter.window
    MaxCount                     \* bound: counts saturate here

Keys == Addresses \cup Logins

Limit(k) == IF k \in Addresses THEN AddressLimit ELSE AccountLimit

Entry == [count: 0 .. MaxCount, left: 0 .. Window]

\* A request between its calls; tested: Allowed said yes.
Attempt == [address: Addresses, login: Logins, tested: BOOLEAN]

ASSUME LimitAssumption ==
    /\ AddressLimit \in Nat \ {0} /\ AccountLimit \in Nat \ {0} /\ Window \in Nat \ {0}
    /\ MaxCount \in Nat /\ MaxCount >= AddressLimit /\ MaxCount >= AccountLimit
    /\ Addresses \cap Logins = {}
    /\ IsFiniteSet(Requests)
    /\ NoEntry \notin Entry /\ NoEntry \notin Attempt

VARIABLES
    entries,   \* LoginLimiter.entries
    pending,   \* what each request under way is about to count
    wrong      \* history: verifications that failed, in each key's window

limiterVars == <<entries, pending, wrong>>

-----------------------------------------------------------------------------
\* expiresAt.After(now)
Live(k) == entries[k] # NoEntry /\ entries[k].left > 0

countLocked(k) == IF Live(k) THEN entries[k].count ELSE 0

\* Mutant: off by one at the limits.
Allowed_OffByOne(a, l) ==
    countLocked(a) <= Limit(a) /\ countLocked(l) <= Limit(l)

Allowed(a, l) == countLocked(a) < Limit(a) /\ countLocked(l) < Limit(l)

LimiterTypeOK ==
    /\ entries \in [Keys -> Entry \cup {NoEntry}]
    /\ pending \in [Requests -> Attempt \cup {NoEntry}]
    /\ wrong \in [Keys -> Nat]

LimiterInit ==
    /\ entries = [k \in Keys |-> NoEntry]
    /\ pending = [r \in Requests |-> NoEntry]
    /\ wrong = [k \in Keys |-> 0]

Done(r) == pending' = [pending EXCEPT ![r] = NoEntry]

\* Allowed says yes; countLocked deletes the entries that have expired.
Begin(r, a, l) ==
    /\ pending[r] = NoEntry
    /\ Allowed(a, l)
    /\ entries' = [k \in Keys |-> IF k \in {a, l} /\ ~Live(k) THEN NoEntry ELSE entries[k]]
    /\ wrong' = [k \in Keys |-> IF k \in {a, l} /\ ~Live(k) THEN 0 ELSE wrong[k]]
    /\ pending' = [pending EXCEPT ![r] = [address |-> a, login |-> l, tested |-> TRUE]]

\* Allowed says no, or the form is malformed: nothing is verified, and the
\* attempt is counted all the same. (Allowed drops an entry that has expired;
\* it reads the same as no entry, so the table is left as it is.)
BeginRefused(r, a, l) ==
    /\ pending[r] = NoEntry
    /\ pending' = [pending EXCEPT ![r] = [address |-> a, login |-> l, tested |-> FALSE]]
    /\ UNCHANGED <<entries, wrong>>

Counted(n) == IF n < MaxCount THEN n + 1 ELSE n

\* Mutant: every failure starts the window again.
FailureEntry_Sliding(k) ==
    IF Live(k) THEN [count |-> Counted(entries[k].count), left |-> Window]
    ELSE [count |-> 1, left |-> Window]

\* The entry Failure stores: the window runs from the first failure.
FailureEntry(k) ==
    IF Live(k) THEN [entries[k] EXCEPT !.count = Counted(@)]
    ELSE [count |-> 1, left |-> Window]

\* The verification failed, or the attempt was refused before it.
Failure(r) ==
    LET keys == {pending[r].address, pending[r].login}
        failed == IF pending[r].tested THEN 1 ELSE 0
    IN
    /\ pending[r] # NoEntry
    /\ entries' = [k \in Keys |-> IF k \in keys THEN FailureEntry(k) ELSE entries[k]]
    /\ wrong' = [k \in Keys |->
          IF k \in keys THEN (IF Live(k) THEN wrong[k] ELSE 0) + failed ELSE wrong[k]]
    /\ Done(r)

\* The verification succeeded: the account's entry goes, the address's stays.
Success(r) ==
    /\ pending[r] # NoEntry
    /\ pending[r].tested
    /\ entries' = [entries EXCEPT ![pending[r].login] = NoEntry]
    /\ wrong' = [wrong EXCEPT ![pending[r].login] = 0]
    /\ Done(r)

\* The store failed: the attempt is not counted at all.
Unavailable(r) ==
    /\ pending[r] # NoEntry
    /\ pending[r].tested
    /\ Done(r)
    /\ UNCHANGED <<entries, wrong>>

Tick ==
    /\ \E k \in Keys : Live(k)
    /\ entries' = [k \in Keys |->
          IF Live(k) THEN [entries[k] EXCEPT !.left = @ - 1] ELSE entries[k]]
    /\ UNCHANGED <<pending, wrong>>

LimiterNext ==
    \/ \E r \in Requests, a \in Addresses, l \in Logins : Begin(r, a, l) \/ BeginRefused(r, a, l)
    \/ \E r \in Requests : Failure(r) \/ Success(r) \/ Unavailable(r)
    \/ Tick

LimiterSpec == LimiterInit /\ [][LimiterNext]_limiterVars

\* Time passes, whatever the clients do.
FairSpec == LimiterSpec /\ WF_limiterVars(Tick)

-----------------------------------------------------------------------------
\* In one window, no more than the limit of wrong passwords or codes are tried
\* for an account or from an address, and at most one more for every other
\* request that was already past Allowed: the check and the count are apart,
\* but what slips through is bounded by the concurrency.
GuessesBounded ==
    \A k \in Keys : wrong[k] <= Limit(k) - 1 + Cardinality(Requests)

\* A locked account or address opens again, even if the attempts never stop:
\* refused attempts are counted but do not extend the window.
LockoutEnds == \A k \in Keys : []<>(countLocked(k) < Limit(k))

-----------------------------------------------------------------------------
(* The inductive invariant behind GuessesBounded. *)

Testing(k) == {r \in Requests : /\ pending[r] # NoEntry
                                /\ pending[r].tested
                                /\ k \in {pending[r].address, pending[r].login}}

\* While the count is below the limit it covers every wrong verification, and
\* those still under way fit in what is left.
KeyInv(k) ==
    /\ Live(k) /\ entries[k].count < Limit(k) => wrong[k] <= entries[k].count
    /\ wrong[k] + Cardinality(Testing(k)) <= Limit(k) - 1 + Cardinality(Requests)

IInv == LimiterTypeOK /\ \A k \in Keys : KeyInv(k)

=============================================================================
