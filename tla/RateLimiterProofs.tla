-------------------------- MODULE RateLimiterProofs --------------------------
(***************************************************************************)
(* The limiter keeps its promises for any keys and limits, any windows,    *)
(* longer ones than the cleanups keep too, any room in the dictionary and  *)
(* any resolution of the clock.  The heart of it: a bucket holds the last  *)
(* calls of its key, every one that the cleanups keep and that is still in *)
(* the window, and nothing that was not accepted.                          *)
(***************************************************************************)
EXTENDS RateLimiter, FiniteSetTheorems, WellFoundedInduction, TLAPS

\* The entry a bucket keeps of an accepted call, and back.
Entry(a) == [at |-> a.at, n |-> a.n]
CallOf(k, c) == [key |-> k, at |-> c.at, n |-> c.n]

BucketsOK(calls) == /\ calls \in [Keys -> SUBSET Call]
                    /\ \A k \in Keys : IsFiniteSet(calls[k])
HoldsRecent(calls) == \A k \in Keys : \A a \in Recent(k, Kept(k)) : Entry(a) \in calls[k]
HoldsAccepted(calls) == \A k \in Keys : \A c \in calls[k] : CallOf(k, c) \in accepted

\* What is forgotten of a key is older than all that is remembered of it.
HoldsLater(calls) ==
    \A k \in Keys : \A c \in calls[k] : \A a \in accepted :
        a.key = k /\ a.at >= c.at => Entry(a) \in calls[k]
WithinLimit(calls) ==
    \A k \in Keys : Cardinality(Within(calls[k], Window(k))) <= MaxAttempts(k)
Mirror(calls) == /\ BucketsOK(calls) /\ HoldsRecent(calls) /\ HoldsAccepted(calls)
                 /\ HoldsLater(calls) /\ WithinLimit(calls)

Later(k, t) == {a \in accepted : a.key = k /\ a.at > t - Window(k)}
PromisesKept == \A k \in Keys : promised[k] # Never =>
                    Cardinality(Later(k, promised[k])) < MaxAttempts(k)

\* A key outside the dictionary has no bucket; a call's number is not used again.
OnlyTracked(calls, keys) == \A k \in Keys \ keys : calls[k] = {}
Numbered == \A a \in accepted : a.n < Cardinality(accepted)

IInv == /\ TypeOK
        /\ IsFiniteSet(accepted) /\ IsFiniteSet(tracked)
        /\ OnlyTracked(buckets, tracked) /\ Numbered
        /\ Mirror(buckets)
        /\ BoundedKeys
        /\ PromisesKept

\* What is sure to be remembered is part of the window and of what the cleanups keep.
LEMMA KeptIsPart ==
    ASSUME NEW k \in Keys
    PROVE  /\ Kept(k) \in Nat /\ Kept(k) > 0 /\ Kept(k) <= Window(k) /\ Kept(k) <= MaxWindow
           /\ Window(k) \in Nat /\ Window(k) > 0 /\ MaxWindow \in Nat
           /\ MaxAttempts(k) \in Nat /\ MaxAttempts(k) > 0
BY LimiterAssumption DEF Kept

\* No two calls of a key have one entry.
LEMMA EntriesDiffer ==
    ASSUME TypeOK, NEW a \in accepted, NEW b \in accepted, a.key = b.key, Entry(a) = Entry(b)
    PROVE  a = b
<1>1. a \in [key: Keys, at: Nat, n: Nat] /\ b \in [key: Keys, at: Nat, n: Nat]
    BY DEF TypeOK
<1>2. a.at = b.at /\ a.n = b.n  BY DEF Entry
<1> QED  BY <1>1, <1>2

\* As many entries as there are calls of a key in a set, if they are all in another.
LEMMA EntriesCount ==
    ASSUME TypeOK, NEW k \in Keys, NEW L, IsFiniteSet(L),
           NEW R \in SUBSET {a \in accepted : a.key = k}, \A a \in R : Entry(a) \in L
    PROVE  IsFiniteSet(R) /\ Cardinality(R) <= Cardinality(L)
<1> DEFINE f == [a \in R |-> Entry(a)]
<1>1. f \in Injection(R, L)
    <2>1. f \in [R -> L]  OBVIOUS
    <2>2. \A a, b \in R : f[a] = f[b] => a = b  BY EntriesDiffer
    <2> QED  BY <2>1, <2>2 DEF Injection, IsInjective
<1> QED  BY <1>1, FS_Injection

\* A bucket that holds the recent calls of a key counts at least their number.
LEMMA BucketCountsRecent ==
    ASSUME TypeOK, NEW calls, Mirror(calls), NEW k \in Keys
    PROVE  /\ IsFiniteSet(Recent(k, Kept(k)))
           /\ IsFiniteSet(Within(calls[k], Window(k)))
           /\ Cardinality(Recent(k, Kept(k))) <= Cardinality(Within(calls[k], Window(k)))
           /\ Cardinality(Recent(k, Kept(k))) \in Nat
           /\ Cardinality(Within(calls[k], Window(k))) \in Nat
<1> DEFINE R == Recent(k, Kept(k))
           L == Within(calls[k], Window(k))
<1>1. IsFiniteSet(L)
    <2>1. L \in SUBSET calls[k]  BY DEF Within
    <2>2. IsFiniteSet(calls[k])  BY DEF Mirror, BucketsOK
    <2> QED  BY <2>1, <2>2, FS_Subset
<1>2. \A a \in R : Entry(a) \in L
    <2> SUFFICES ASSUME NEW a \in R PROVE Entry(a) \in L  OBVIOUS
    <2>1. a.at \in Nat /\ now \in Nat /\ a.at > now - Kept(k)  BY DEF Recent, TypeOK
    <2>2. a.at > now - Window(k)  BY <2>1, KeptIsPart
    <2>3. Entry(a) \in calls[k]  BY DEF Mirror, HoldsRecent
    <2> QED  BY <2>2, <2>3 DEF Within, Entry
<1>3. R \in SUBSET {a \in accepted : a.key = k}  BY DEF Recent
<1> HIDE DEF R, L
<1>4. IsFiniteSet(R) /\ Cardinality(R) <= Cardinality(L)  BY <1>1, <1>2, <1>3, EntriesCount
<1>5. Cardinality(R) \in Nat /\ Cardinality(L) \in Nat  BY <1>1, <1>4, FS_CardinalityType
<1> QED  BY <1>1, <1>4, <1>5 DEF R, L

\* And no more than there are in the window: what it holds was let through.
LEMMA BucketCountsNoMore ==
    ASSUME TypeOK, IsFiniteSet(accepted), NEW calls, Mirror(calls), NEW k \in Keys
    PROVE  /\ Cardinality(Within(calls[k], Window(k))) <= Cardinality(Recent(k, Window(k)))
           /\ Cardinality(Recent(k, Window(k))) \in Nat
<1> DEFINE R == Recent(k, Window(k))
           L == Within(calls[k], Window(k))
           g == [c \in L |-> CallOf(k, c)]
<1>1. R \in SUBSET accepted  BY DEF Recent
<1>2. L \in SUBSET Call  BY DEF Mirror, BucketsOK, Within
<1>3. \A c \in L : CallOf(k, c) \in R
    BY DEF Mirror, HoldsAccepted, Recent, Within, CallOf
<1>4. \A c, d \in L : CallOf(k, c) = CallOf(k, d) => c = d
    BY <1>2 DEF Call, CallOf
<1>5. g \in Injection(L, R)
    <2>1. g \in [L -> R]  BY <1>3
    <2>2. \A c, d \in L : g[c] = g[d] => c = d  BY <1>4
    <2> QED  BY <2>1, <2>2 DEF Injection, IsInjective
<1>6. IsFiniteSet(R)  BY <1>1, FS_Subset
<1>7. Cardinality(L) <= Cardinality(R)  BY <1>5, <1>6, FS_Injection
<1> QED  BY <1>6, <1>7, FS_CardinalityType

\* So a bucket within its limit keeps the limit.
LEMMA LimitIsKept == IInv => SlidingWindow
<1> SUFFICES ASSUME IInv, NEW k \in Keys
             PROVE  Cardinality(Recent(k, Kept(k))) <= MaxAttempts(k)
    BY DEF SlidingWindow
<1>1. Cardinality(Within(buckets[k], Window(k))) <= MaxAttempts(k)
    BY DEF IInv, Mirror, WithinLimit
<1> QED  BY <1>1, BucketCountsRecent, KeptIsPart DEF IInv

\* The cleanups drop nothing that is sure to be remembered.
LEMMA CleanedMirrors ==
    ASSUME IInv
    PROVE  /\ Mirror(Cleaned)
           /\ CleanTracked(Cleaned) \subseteq tracked
           /\ IsFiniteSet(CleanTracked(Cleaned))
           /\ Cardinality(CleanTracked(Cleaned)) <= MAX_KEYS
           /\ OnlyTracked(Cleaned, CleanTracked(Cleaned))
<1>1. BucketsOK(Cleaned)
    <2>1. \A k \in Keys : Cleaned[k] \in SUBSET buckets[k]  BY DEF Cleaned, Within
    <2>2. \A k \in Keys : IsFiniteSet(Cleaned[k])
        BY <2>1, FS_Subset DEF IInv, Mirror, BucketsOK
    <2> QED  BY <2>1, <2>2 DEF IInv, Mirror, BucketsOK, Cleaned
<1>2. HoldsRecent(Cleaned)
    <2> SUFFICES ASSUME NEW k \in Keys, NEW a \in Recent(k, Kept(k))
                 PROVE  Entry(a) \in Cleaned[k]
        BY DEF HoldsRecent
    <2>1. Entry(a) \in buckets[k]  BY DEF IInv, Mirror, HoldsRecent
    <2>2. a.at > now - Kept(k) /\ a.at \in Nat /\ now \in Nat
        BY DEF Recent, IInv, TypeOK
    <2>3. a.at > now - MaxWindow  BY <2>2, KeptIsPart
    <2> QED  BY <2>1, <2>3 DEF Cleaned, Within, Entry
<1>3. HoldsAccepted(Cleaned)
    BY DEF IInv, Mirror, HoldsAccepted, Cleaned, Within
<1>4. CleanTracked(Cleaned) \in SUBSET tracked  BY DEF CleanTracked
<1>5. /\ IsFiniteSet(CleanTracked(Cleaned))
      /\ Cardinality(CleanTracked(Cleaned)) <= Cardinality(tracked)
      /\ Cardinality(CleanTracked(Cleaned)) \in Nat /\ Cardinality(tracked) \in Nat
    BY <1>4, FS_Subset, FS_CardinalityType DEF IInv
<1>6. Cardinality(CleanTracked(Cleaned)) <= MAX_KEYS
    BY <1>5, LimiterAssumption DEF IInv, BoundedKeys
<1>7. OnlyTracked(Cleaned, CleanTracked(Cleaned))
    <2>1. \A k \in Keys : Cleaned[k] \subseteq buckets[k]  BY DEF Cleaned, Within
    <2> QED  BY <2>1 DEF IInv, OnlyTracked, CleanTracked
<1>8. HoldsLater(Cleaned)
    <2> SUFFICES ASSUME NEW k \in Keys, NEW c \in Cleaned[k], NEW a \in accepted,
                        a.key = k, a.at >= c.at
                 PROVE  Entry(a) \in Cleaned[k]
        BY DEF HoldsLater
    <2>1. c \in buckets[k] /\ c.at > now - MaxWindow  BY DEF Cleaned, Within
    <2>2. Entry(a) \in buckets[k]  BY <2>1 DEF IInv, Mirror, HoldsLater
    <2>3. c.at \in Nat /\ a.at \in Nat /\ now \in Nat /\ MaxWindow \in Nat
        BY <2>1, LimiterAssumption DEF IInv, TypeOK, Call
    <2>4. a.at > now - MaxWindow  BY <2>1, <2>3
    <2> QED  BY <2>2, <2>4 DEF Cleaned, Within, Entry
<1>9. WithinLimit(Cleaned)
    <2> SUFFICES ASSUME NEW k \in Keys
                 PROVE  Cardinality(Within(Cleaned[k], Window(k))) <= MaxAttempts(k)
        BY DEF WithinLimit
    <2>1. Within(Cleaned[k], Window(k)) \in SUBSET Within(buckets[k], Window(k))
        BY DEF Cleaned, Within
    <2>2. Cardinality(Within(buckets[k], Window(k))) <= MaxAttempts(k)
        BY DEF IInv, Mirror, WithinLimit
    <2>3. /\ IsFiniteSet(Within(buckets[k], Window(k)))
          /\ Cardinality(Within(buckets[k], Window(k))) \in Nat
        BY BucketCountsRecent DEF IInv
    <2>4. /\ IsFiniteSet(Within(Cleaned[k], Window(k)))
          /\ Cardinality(Within(Cleaned[k], Window(k)))
                <= Cardinality(Within(buckets[k], Window(k)))
        BY <2>1, <2>3, FS_Subset
    <2>5. Cardinality(Within(Cleaned[k], Window(k))) \in Nat  BY <2>4, FS_CardinalityType
    <2> QED  BY <2>2, <2>3, <2>4, <2>5, KeptIsPart
<1> QED  BY <1>1, <1>2, <1>3, <1>4, <1>5, <1>6, <1>7, <1>8, <1>9 DEF Mirror

\* Rounding up to whole seconds never promises too early a moment.
LEMMA RetryAfterIsLateEnough ==
    ASSUME NEW oldest \in Nat, NEW window \in Nat, now \in Nat
    PROVE  /\ RetryAfter(oldest, window) \in Int
           /\ now + RetryAfter(oldest, window) >= oldest + window
<1> DEFINE x == oldest + window - now
           q == x \div Second
<1>1. x \in Int /\ Second \in Nat /\ Second > 0  BY LimiterAssumption
<1>2. q \in Int /\ x = (Second * q) + (x % Second) /\ x % Second < Second /\ x % Second \in Nat
    BY <1>1
<1>3. (q + 1) * Second = (Second * q) + Second  BY <1>1, <1>2
<1>4. RetryAfter(oldest, window) = (q + 1) * Second  BY DEF RetryAfter
<1>5. Second * q \in Int  BY <1>1, <1>2
<1>6. (q + 1) * Second >= x  BY <1>1, <1>2, <1>3, <1>5
<1> QED  BY <1>1, <1>3, <1>4, <1>5, <1>6

-----------------------------------------------------------------------------

LEMMA InitInv == Init => IInv
<1> SUFFICES ASSUME Init PROVE IInv  OBVIOUS
<1> USE LimiterAssumption DEF Init, Empty
<1>1. TypeOK  BY DEF TypeOK, Answers, Call
<1>2. IsFiniteSet(accepted) /\ IsFiniteSet(tracked) /\ Cardinality(tracked) = 0
    BY FS_EmptySet
<1>3. /\ BucketsOK(buckets) /\ HoldsRecent(buckets) /\ HoldsAccepted(buckets)
      /\ HoldsLater(buckets)
    BY FS_EmptySet DEF BucketsOK, HoldsRecent, HoldsAccepted, HoldsLater, Recent
<1>4. WithinLimit(buckets)
    <2>1. \A k \in Keys : Within(buckets[k], Window(k)) = {}  BY DEF Within
    <2> QED  BY <2>1, FS_EmptySet DEF WithinLimit
<1>5. BoundedKeys  BY <1>2 DEF BoundedKeys
<1>6. PromisesKept  BY DEF PromisesKept
<1>7. OnlyTracked(buckets, tracked) /\ Numbered  BY DEF OnlyTracked, Numbered
<1> QED  BY <1>1, <1>2, <1>3, <1>4, <1>5, <1>6, <1>7 DEF IInv, Mirror

\* check_rate_limit refuses: no call is added, and the moment it names is after
\* the oldest call has left the window.
LEMMA RefusalStep ==
    ASSUME IInv, NEW k \in Keys, NEW calls, Mirror(calls), NEW keys \in SUBSET Keys,
           IsFiniteSet(keys), Cardinality(keys \cup {k}) <= MAX_KEYS, OnlyTracked(calls, keys),
           Cardinality(Within(calls[k], Window(k))) >= MaxAttempts(k),
           tracked' = keys \cup {k},
           buckets' = [calls EXCEPT ![k] = Within(calls[k], Window(k))],
           promised' = [promised EXCEPT ![k] =
               now + RetryAfter(Oldest(Within(calls[k], Window(k))).at, Window(k))],
           answer' = [key |-> k, kind |-> "too_many"],
           UNCHANGED accepted, UNCHANGED now
    PROVE  IInv'
<1> DEFINE L == Within(calls[k], Window(k))
           o == Oldest(L)
           p == now + RetryAfter(o.at, Window(k))
<1>a. Window(k) \in Nat /\ MaxAttempts(k) \in Nat /\ MaxAttempts(k) > 0 /\ Never \notin Nat
    BY LimiterAssumption
<1>b. now \in Nat  BY DEF IInv, TypeOK
<1>c. /\ TypeOK /\ BucketsOK(calls) /\ HoldsRecent(calls) /\ HoldsAccepted(calls)
      /\ HoldsLater(calls) /\ WithinLimit(calls)
    BY DEF IInv, Mirror
<1>d. L \in SUBSET calls[k] /\ L \in SUBSET Call  BY <1>c DEF Within, BucketsOK
<1>e. IsFiniteSet(L) /\ Cardinality(L) \in Nat /\ Cardinality(L) <= MaxAttempts(k)
    BY <1>c, BucketCountsRecent DEF WithinLimit
<1>1. o \in L
    <2>1. Cardinality(L) # 0  BY <1>a, <1>e, FS_CardinalityType
    <2>2. L # {}  BY <2>1, FS_EmptySet
    <2>3. \E c \in L : \A d \in L : c.at <= d.at
        <3> DEFINE times == {c.at : c \in L}
        <3>1. times \in SUBSET Nat /\ times # {}  BY <1>d, <2>2 DEF Call
        <3>2. PICK c \in L : \A t \in times : ~(<<t, c.at>> \in OpToRel(<, Nat))
            <4>1. \E m \in times : \A t \in times : ~(<<t, m>> \in OpToRel(<, Nat))
                BY <3>1, WFMin, NatLessThanWellFounded
            <4> QED  BY <4>1
        <3>3. OpToRel(<, Nat) = {ss \in Nat \X Nat : ss[1] < ss[2]}  BY Zenon DEF OpToRel
        <3>4. ASSUME NEW d \in L  PROVE c.at <= d.at
            <4>1. c.at \in Nat /\ d.at \in Nat /\ d.at \in times  BY <1>d DEF Call
            <4>2. ~(<<d.at, c.at>> \in {ss \in Nat \X Nat : ss[1] < ss[2]})
                BY <3>2, <3>3, <4>1
            <4>3. ~(d.at < c.at)  BY <4>1, <4>2
            <4> QED  BY <4>1, <4>3
        <3> QED  BY <3>4
    <2> QED  BY <2>3 DEF Oldest
<1>2. o.at \in Nat /\ o.at > now - Window(k)  BY <1>1, <1>d DEF Call, Within
<1>3. p \in Nat /\ p >= o.at + Window(k)
    <2>1. /\ RetryAfter(o.at, Window(k)) \in Int
          /\ now + RetryAfter(o.at, Window(k)) >= o.at + Window(k)
        BY <1>2, <1>a, <1>b, RetryAfterIsLateEnough
    <2> QED  BY <2>1, <1>2, <1>a, <1>b
<1>4. \A a \in Later(k, p) : Entry(a) \in L \ {o}
    <2> SUFFICES ASSUME NEW a \in Later(k, p) PROVE Entry(a) \in L \ {o}  OBVIOUS
    <2>1. a \in accepted /\ a.key = k /\ a.at > p - Window(k) /\ a.at \in Nat
        BY DEF Later, IInv, TypeOK
    <2>2. a.at > o.at  BY <2>1, <1>2, <1>3, <1>a
    <2>3. a.at >= o.at /\ a.at > now - Window(k) /\ a.at # o.at
        BY <2>1, <2>2, <1>2, <1>a, <1>b
    <2>4. Entry(a) \in calls[k]  BY <2>1, <2>3, <1>1, <1>c, <1>d DEF HoldsLater
    <2> QED  BY <2>3, <2>4 DEF Within, Entry
<1>5. Cardinality(Later(k, p)) < MaxAttempts(k)
    <2>1. IsFiniteSet(L \ {o}) /\ Cardinality(L \ {o}) = Cardinality(L) - 1
        BY <1>e, <1>1, FS_RemoveElement
    <2>2. Later(k, p) \in SUBSET {a \in accepted : a.key = k}  BY DEF Later
    <2> HIDE DEF L, o, p
    <2>3. /\ IsFiniteSet(Later(k, p))
          /\ Cardinality(Later(k, p)) <= Cardinality(L \ {o})
        BY <2>1, <2>2, <1>4, <1>c, EntriesCount
    <2>4. Cardinality(Later(k, p)) \in Nat  BY <2>3, FS_CardinalityType
    <2> QED  BY <2>1, <2>3, <2>4, <1>e, <1>a
<1>6. TypeOK'
    BY <1>3, <1>c, <1>d DEF TypeOK, Answers, BucketsOK
<1>7. IsFiniteSet(accepted)' /\ IsFiniteSet(tracked)'
    BY FS_AddElement DEF IInv
<1>8. Mirror(buckets)'
    <2>1. BucketsOK(buckets')  BY <1>c, <1>d, <1>e DEF BucketsOK
    <2>2. \A q \in Keys : \A a \in Recent(q, Kept(q)) : Entry(a) \in buckets'[q]
        <3> SUFFICES ASSUME NEW q \in Keys, NEW a \in Recent(q, Kept(q))
                     PROVE  Entry(a) \in buckets'[q]
            OBVIOUS
        <3>1. Entry(a) \in calls[q]  BY <1>c DEF HoldsRecent
        <3>2. a.at \in Nat /\ a.at > now - Kept(q)  BY DEF Recent, IInv, TypeOK
        <3>3. a.at > now - Window(q)  BY <3>2, <1>b, KeptIsPart
        <3> QED  BY <3>1, <3>3, <1>c DEF BucketsOK, Within, Entry
    <2>3. \A q \in Keys : \A c \in buckets'[q] : CallOf(q, c) \in accepted
        BY <1>c, <1>d DEF HoldsAccepted, BucketsOK
    <2>4. \A q \in Keys : \A c \in buckets'[q] : \A a \in accepted :
             a.key = q /\ a.at >= c.at => Entry(a) \in buckets'[q]
        <3> SUFFICES ASSUME NEW q \in Keys, NEW c \in buckets'[q], NEW a \in accepted,
                            a.key = q, a.at >= c.at
                     PROVE  Entry(a) \in buckets'[q]
            OBVIOUS
        <3>1. c \in calls[q] /\ (q = k => c \in L)  BY <1>c, <1>d DEF BucketsOK
        <3>2. Entry(a) \in calls[q]  BY <3>1, <1>c DEF HoldsLater
        <3>3. CASE q # k  BY <3>2, <3>3, <1>c DEF BucketsOK
        <3>4. CASE q = k
            <4>1. c.at > now - Window(k) /\ c.at \in Nat /\ a.at \in Nat
                BY <3>1, <3>4, <1>d DEF Within, Call, IInv, TypeOK
            <4>2. a.at > now - Window(k)  BY <4>1, <1>a, <1>b
            <4>3. Entry(a) \in L  BY <3>2, <3>4, <4>2 DEF Within, Entry
            <4> QED  BY <4>3, <3>4, <1>c DEF BucketsOK
        <3> QED  BY <3>3, <3>4
    <2>5. \A q \in Keys : Within(buckets'[q], Window(q)) = Within(calls[q], Window(q))
        BY <1>c DEF BucketsOK, Within
    <2>6. \A q \in Keys : Cardinality(Within(buckets'[q], Window(q))) <= MaxAttempts(q)
        BY <2>5, <1>c DEF WithinLimit
    <2> QED  BY <2>1, <2>2, <2>3, <2>4, <2>6
             DEF Mirror, BucketsOK, HoldsRecent, HoldsAccepted, HoldsLater, WithinLimit,
                 CallOf, Entry, Recent, Within
<1>10. BoundedKeys'  BY DEF BoundedKeys
<1>11. PromisesKept'
    <2> SUFFICES ASSUME NEW q \in Keys, promised'[q] # Never
                 PROVE  Cardinality(Later(q, promised'[q])) < MaxAttempts(q)
        BY DEF PromisesKept, Later
    <2>1. CASE q = k
        BY <2>1, <1>5 DEF IInv, TypeOK
    <2>2. CASE q # k
        BY <2>2 DEF IInv, TypeOK, PromisesKept
    <2> QED  BY <2>1, <2>2
<1>12. OnlyTracked(buckets, tracked)' /\ Numbered'
    BY <1>c DEF OnlyTracked, Numbered, BucketsOK, IInv
<1> QED  BY <1>6, <1>7, <1>8, <1>10, <1>11, <1>12 DEF IInv

\* check_rate_limit accepts: the bucket had fewer calls than the limit, so had
\* the window.
LEMMA AcceptStep ==
    ASSUME IInv, NEW k \in Keys, NEW calls, Mirror(calls), NEW keys \in SUBSET Keys,
           IsFiniteSet(keys), Cardinality(keys \cup {k}) <= MAX_KEYS, OnlyTracked(calls, keys),
           Cardinality(Within(calls[k], Window(k))) < MaxAttempts(k),
           tracked' = keys \cup {k},
           buckets' = [calls EXCEPT ![k] = Within(calls[k], Window(k))
                           \cup {[at |-> now, n |-> Cardinality(accepted)]}],
           accepted' = accepted \cup {[key |-> k, at |-> now, n |-> Cardinality(accepted)]},
           promised' = [promised EXCEPT ![k] = Never],
           answer' = [key |-> k, kind |-> "accepted"],
           UNCHANGED now
    PROVE  IInv'
<1> DEFINE L == Within(calls[k], Window(k))
           new == [key |-> k, at |-> now, n |-> Cardinality(accepted)]
<1>a. Window(k) \in Nat /\ MaxAttempts(k) \in Nat  BY LimiterAssumption
<1>b. now \in Nat /\ IsFiniteSet(accepted) /\ Cardinality(accepted) \in Nat
    BY FS_CardinalityType DEF IInv, TypeOK
<1>c. /\ TypeOK /\ BucketsOK(calls) /\ HoldsRecent(calls) /\ HoldsAccepted(calls)
      /\ HoldsLater(calls) /\ WithinLimit(calls)
    BY DEF IInv, Mirror
<1>d. L \in SUBSET calls[k] /\ L \in SUBSET Call  BY <1>c DEF Within, BucketsOK
<1>e. IsFiniteSet(L) /\ Cardinality(L) \in Nat
    BY <1>c, BucketCountsRecent DEF IInv
<1>f. Entry(new) = [at |-> now, n |-> Cardinality(accepted)]  BY DEF Entry
<1>1. TypeOK'
    BY <1>b, <1>c, <1>d DEF TypeOK, Answers, BucketsOK, Call
<1>2. IsFiniteSet(accepted)' /\ IsFiniteSet(tracked)'
    BY <1>b, FS_AddElement
<1>3. L \cup {Entry(new)} = buckets'[k] /\ \A q \in Keys \ {k} : buckets'[q] = calls[q]
    BY <1>c, <1>f DEF BucketsOK
<1>4. Mirror(buckets)'
    <2>1. BucketsOK(buckets')
        <3>1. IsFiniteSet(L \cup {Entry(new)})  BY <1>e, FS_AddElement
        <3>2. Entry(new) \in Call  BY <1>b, <1>f DEF Call
        <3> QED  BY <1>c, <1>d, <1>f, <3>1, <3>2 DEF BucketsOK
    <2>2. \A q \in Keys : \A a \in Recent(q, Kept(q))' : Entry(a) \in buckets'[q]
        <3> SUFFICES ASSUME NEW q \in Keys, NEW a \in Recent(q, Kept(q))'
                     PROVE  Entry(a) \in buckets'[q]
            OBVIOUS
        <3>1. CASE a = new
            <4>1. q = k  BY <3>1 DEF Recent
            <4> QED  BY <3>1, <4>1, <1>c, <1>f DEF BucketsOK
        <3>2. CASE a # new
            <4>1. a \in Recent(q, Kept(q))  BY <3>2 DEF Recent
            <4>2. a.at \in Nat /\ a.at > now - Kept(q)  BY <4>1 DEF Recent, IInv, TypeOK
            <4>3. a.at > now - Window(q)  BY <4>2, <1>b, KeptIsPart
            <4>4. Entry(a) \in calls[q] /\ (q = k => Entry(a) \in L)
                BY <4>1, <4>3, <1>c DEF HoldsRecent, Entry, Within
            <4> QED  BY <4>4, <1>3
        <3> QED  BY <3>1, <3>2
    <2>3. \A q \in Keys : \A c \in buckets'[q] : CallOf(q, c) \in accepted'
        <3> SUFFICES ASSUME NEW q \in Keys, NEW c \in buckets'[q]
                     PROVE  CallOf(q, c) \in accepted'
            OBVIOUS
        <3>1. CASE c \in calls[q]  BY <3>1, <1>c DEF HoldsAccepted
        <3>2. CASE c \notin calls[q]
            <4>1. q = k /\ c = Entry(new)  BY <3>2, <1>c, <1>d, <1>f DEF BucketsOK
            <4> QED  BY <4>1, <1>f DEF CallOf
        <3> QED  BY <3>1, <3>2
    <2>4. \A q \in Keys : \A c \in buckets'[q] : \A a \in accepted' :
             a.key = q /\ a.at >= c.at => Entry(a) \in buckets'[q]
        <3> SUFFICES ASSUME NEW q \in Keys, NEW c \in buckets'[q], NEW a \in accepted',
                            a.key = q, a.at >= c.at
                     PROVE  Entry(a) \in buckets'[q]
            OBVIOUS
        <3>1. CASE a = new
            <4>1. q = k  BY <3>1
            <4> QED  BY <3>1, <4>1, <1>3
        <3>2. CASE a \in accepted /\ q # k
            BY <3>2, <1>c, <1>3 DEF HoldsLater
        <3>3. CASE a \in accepted /\ q = k /\ c \in L
            <4>1. c.at > now - Window(k) /\ c.at \in Nat /\ a.at \in Nat
                BY <3>3, <1>d DEF Within, Call, IInv, TypeOK
            <4>2. a.at > now - Window(k)  BY <4>1, <1>a, <1>b
            <4>3. Entry(a) \in calls[k]  BY <3>3, <1>c, <1>d DEF HoldsLater
            <4>4. Entry(a) \in L  BY <4>2, <4>3 DEF Within, Entry
            <4> QED  BY <4>4, <3>3, <1>3
        <3>4. CASE a \in accepted /\ q = k /\ c = Entry(new)
            <4>1. a.at \in Nat /\ a.at >= now  BY <3>4 DEF Entry, IInv, TypeOK
            <4>2. a.at > now - Kept(k) /\ a.at > now - Window(k)
                BY <4>1, <1>b, KeptIsPart
            <4>3. Entry(a) \in calls[k]
                BY <3>4, <4>2, <1>c DEF HoldsRecent, Recent
            <4>4. Entry(a) \in L  BY <4>2, <4>3 DEF Within, Entry
            <4> QED  BY <4>4, <3>4, <1>3
        <3> QED  BY <3>1, <3>2, <3>3, <3>4, <1>3
    <2>5. \A q \in Keys : Cardinality(Within(buckets'[q], Window(q))) <= MaxAttempts(q)
        <3> SUFFICES ASSUME NEW q \in Keys
                     PROVE  Cardinality(Within(buckets'[q], Window(q))) <= MaxAttempts(q)
            OBVIOUS
        <3>1. CASE q # k  BY <3>1, <1>c, <1>3 DEF WithinLimit
        <3>2. CASE q = k
            <4> DEFINE M == Within(buckets'[k], Window(k))
            <4>1. M \in SUBSET (L \cup {Entry(new)})  BY <1>3 DEF Within
            <4>2. Cardinality(L) < MaxAttempts(k)  OBVIOUS
            <4> HIDE DEF L, M, new
            <4>3. /\ IsFiniteSet(L \cup {Entry(new)})
                  /\ Cardinality(L \cup {Entry(new)}) =
                        IF Entry(new) \in L THEN Cardinality(L) ELSE Cardinality(L) + 1
                BY <1>e, FS_AddElement
            <4>4. IsFiniteSet(M) /\ Cardinality(M) <= Cardinality(L \cup {Entry(new)})
                BY <4>1, <4>3, FS_Subset
            <4>5. Cardinality(M) \in Nat /\ Cardinality(L \cup {Entry(new)}) \in Nat
                BY <4>3, <4>4, FS_CardinalityType
            <4>6. Cardinality(M) <= MaxAttempts(k)
                BY <4>2, <4>3, <4>4, <4>5, <1>a, <1>e
            <4> QED  BY <3>2, <4>6 DEF M
        <3> QED  BY <3>1, <3>2
    <2> QED  BY <2>1, <2>2, <2>3, <2>4, <2>5
             DEF Mirror, BucketsOK, HoldsRecent, HoldsAccepted, HoldsLater, WithinLimit,
                 CallOf, Entry, Recent, Within
<1>6. BoundedKeys'  BY DEF BoundedKeys
<1>7. PromisesKept'
    <2> SUFFICES ASSUME NEW q \in Keys, promised'[q] # Never
                 PROVE  Cardinality(Later(q, promised[q])') < MaxAttempts(q)
        BY DEF PromisesKept
    <2>1. q # k /\ promised'[q] = promised[q]  BY DEF IInv, TypeOK
    <2>2. Later(q, promised[q])' = Later(q, promised[q])  BY <2>1 DEF Later
    <2> QED  BY <2>1, <2>2 DEF IInv, PromisesKept
<1>8. OnlyTracked(buckets, tracked)'
    BY <1>c DEF OnlyTracked, BucketsOK
<1>9. Numbered'
    <2>1. \A a \in accepted : a.n \in Nat /\ a.n < Cardinality(accepted)
        BY DEF IInv, TypeOK, Numbered
    <2>2. new \notin accepted  BY <1>b, <2>1
    <2>3. Cardinality(accepted') = Cardinality(accepted) + 1  BY <1>b, <2>2, FS_AddElement
    <2> QED  BY <1>b, <2>1, <2>3 DEF Numbered
<1> QED  BY <1>1, <1>2, <1>4, <1>6, <1>7, <1>8, <1>9 DEF IInv

\* One call of check_rate_limit on a dictionary that mirrors the calls and has
\* room for the key.
LEMMA DecideStep ==
    ASSUME IInv, NEW k \in Keys, NEW calls, Mirror(calls), NEW keys \in SUBSET Keys,
           IsFiniteSet(keys), Cardinality(keys \cup {k}) <= MAX_KEYS, OnlyTracked(calls, keys),
           Decide(k, calls, keys)
    PROVE  IInv'
<1>1. CASE Cardinality(Within(calls[k], Window(k))) >= MaxAttempts(k)
    <2>1. Cardinality(Within(calls[k], Window(k))) \in Nat /\ MaxAttempts(k) \in Nat
        BY BucketCountsRecent, KeptIsPart DEF IInv
    <2> QED  BY <1>1, <2>1, RefusalStep DEF Decide
<1>2. CASE ~(Cardinality(Within(calls[k], Window(k))) >= MaxAttempts(k))
    <2>1. Cardinality(Within(calls[k], Window(k))) \in Nat /\ MaxAttempts(k) \in Nat
        BY BucketCountsRecent, KeptIsPart DEF IInv
    <2>2. Cardinality(Within(calls[k], Window(k))) < MaxAttempts(k)  BY <1>2, <2>1
    <2> QED  BY <1>2, <2>2, AcceptStep DEF Decide
<1> QED  BY <1>1, <1>2

LEMMA CheckRateLimitStep ==
    ASSUME IInv, NEW k \in Keys, CheckRateLimit(k)
    PROVE  IInv'
<1>a. IsFiniteSet(tracked) /\ Cardinality(tracked) \in Nat /\ Cardinality(tracked) <= MAX_KEYS
    BY FS_CardinalityType DEF IInv, BoundedKeys
<1>b. MAX_KEYS \in Nat  BY LimiterAssumption
<1>c. /\ Mirror(Cleaned)
      /\ CleanTracked(Cleaned) \subseteq tracked
      /\ IsFiniteSet(CleanTracked(Cleaned))
      /\ Cardinality(CleanTracked(Cleaned)) <= MAX_KEYS
      /\ OnlyTracked(Cleaned, CleanTracked(Cleaned))
    BY CleanedMirrors
<1>1. CASE /\ k \in tracked \/ HasRoom(tracked)
           /\ Decide(k, buckets, tracked)
    <2>1. Cardinality(tracked \cup {k}) <= MAX_KEYS
        <3>1. /\ IsFiniteSet(tracked \cup {k})
              /\ Cardinality(tracked \cup {k}) =
                     IF k \in tracked THEN Cardinality(tracked) ELSE Cardinality(tracked) + 1
            BY <1>a, FS_AddElement
        <3>2. CASE k \in tracked  BY <3>1, <3>2, <1>a
        <3>3. CASE k \notin tracked
            <4>1. Cardinality(tracked) < MAX_KEYS  BY <1>1, <3>3 DEF HasRoom
            <4> QED  BY <4>1, <3>1, <3>3, <1>a, <1>b
        <3> QED  BY <3>2, <3>3
    <2> QED  BY <1>1, <1>a, <2>1, DecideStep DEF IInv, TypeOK
<1>2. CASE /\ HasRoom(CleanTracked(Cleaned))
           /\ Decide(k, Cleaned, CleanTracked(Cleaned))
    <2>1. Cardinality(CleanTracked(Cleaned)) \in Nat  BY <1>c, FS_CardinalityType
    <2>2. Cardinality(CleanTracked(Cleaned) \cup {k}) <= MAX_KEYS
        BY <1>2, <1>b, <1>c, <2>1, FS_AddElement DEF HasRoom
    <2>3. CleanTracked(Cleaned) \in SUBSET Keys  BY <1>c DEF IInv, TypeOK
    <2> QED  BY <1>2, <1>c, <2>2, <2>3, DecideStep
<1>3. CASE /\ buckets' = Cleaned
           /\ tracked' = CleanTracked(Cleaned)
           /\ answer' = [key |-> k, kind |-> "full"]
           /\ UNCHANGED <<now, accepted, promised>>
    <2>1. TypeOK'  BY <1>3, <1>c DEF IInv, TypeOK, Answers, Mirror, BucketsOK
    <2>2. Mirror(buckets)'
        BY <1>3, <1>c DEF Mirror, BucketsOK, HoldsRecent, HoldsAccepted, HoldsLater,
                          WithinLimit, Recent, Within
    <2>3. PromisesKept'  BY <1>3 DEF IInv, PromisesKept, Later
    <2> QED  BY <1>3, <1>c, <2>1, <2>2, <2>3 DEF IInv, BoundedKeys, Numbered
<1> QED  BY <1>1, <1>2, <1>3 DEF CheckRateLimit

LEMMA PeriodicCleanupStep == IInv /\ PeriodicCleanup => IInv'
<1> SUFFICES ASSUME IInv, PeriodicCleanup PROVE IInv'  OBVIOUS
<1> USE DEF PeriodicCleanup
<1>c. /\ Mirror(Cleaned)
      /\ CleanTracked(Cleaned) \subseteq tracked
      /\ IsFiniteSet(CleanTracked(Cleaned))
      /\ Cardinality(CleanTracked(Cleaned)) <= MAX_KEYS
      /\ OnlyTracked(Cleaned, CleanTracked(Cleaned))
    BY CleanedMirrors
<1>1. TypeOK'  BY <1>c DEF IInv, TypeOK, Mirror, BucketsOK
<1>2. Mirror(buckets)'
    BY <1>c DEF Mirror, BucketsOK, HoldsRecent, HoldsAccepted, HoldsLater, WithinLimit,
                Recent, Within
<1>3. PromisesKept'  BY DEF IInv, PromisesKept, Later
<1> QED  BY <1>c, <1>1, <1>2, <1>3 DEF IInv, BoundedKeys, Numbered

LEMMA RestartStep == IInv /\ Restart => IInv'
<1> SUFFICES ASSUME IInv, Restart PROVE IInv'  OBVIOUS
<1> USE LimiterAssumption DEF Restart, Empty
<1>1. TypeOK'  BY DEF IInv, TypeOK, Answers, Call
<1>2. IsFiniteSet(accepted)' /\ IsFiniteSet(tracked)' /\ Cardinality(tracked') = 0
    BY FS_EmptySet
<1>3. /\ BucketsOK(buckets)' /\ HoldsRecent(buckets)' /\ HoldsAccepted(buckets)'
      /\ HoldsLater(buckets)'
    BY FS_EmptySet DEF BucketsOK, HoldsRecent, HoldsAccepted, HoldsLater, Recent
<1>4. WithinLimit(buckets)'
    <2>1. \A k \in Keys : Within(buckets[k], Window(k))' = {}  BY DEF Within
    <2> QED  BY <2>1, FS_EmptySet DEF WithinLimit
<1>5. BoundedKeys'  BY <1>2 DEF BoundedKeys
<1>6. PromisesKept'  BY DEF PromisesKept
<1>7. OnlyTracked(buckets, tracked)' /\ Numbered'  BY DEF OnlyTracked, Numbered
<1> QED  BY <1>1, <1>2, <1>3, <1>4, <1>5, <1>6, <1>7 DEF IInv, Mirror

\* As time goes by calls only leave the windows.
LEMMA TickStep == IInv /\ Tick => IInv'
<1> SUFFICES ASSUME IInv, Tick PROVE IInv'  OBVIOUS
<1> USE DEF Tick
<1>a. now \in Nat /\ now' = now + 1  BY DEF IInv, TypeOK
<1>b. \A k \in Keys : Recent(k, Kept(k))' \in SUBSET Recent(k, Kept(k))
    BY <1>a, KeptIsPart DEF Recent, IInv, TypeOK
<1>1. TypeOK'  BY <1>a DEF IInv, TypeOK
<1>2. /\ BucketsOK(buckets)' /\ HoldsRecent(buckets)' /\ HoldsAccepted(buckets)'
      /\ HoldsLater(buckets)'
    BY <1>b DEF IInv, Mirror, BucketsOK, HoldsRecent, HoldsAccepted, HoldsLater
<1>3. WithinLimit(buckets)'
    <2> SUFFICES ASSUME NEW k \in Keys
                 PROVE  Cardinality(Within(buckets[k], Window(k))') <= MaxAttempts(k)
        BY DEF WithinLimit
    <2> DEFINE L == Within(buckets[k], Window(k))
    <2>1. L' \in SUBSET L
        <3> SUFFICES ASSUME NEW c \in L' PROVE c \in L  OBVIOUS
        <3>1. L' = {d \in buckets[k] : d.at > now' - Window(k)}  BY DEF Within
        <3>2. c \in buckets[k] /\ c.at > now' - Window(k)  BY <3>1
        <3>3. c.at \in Nat  BY <3>2 DEF IInv, TypeOK, Call
        <3>4. c.at > now - Window(k)  BY <3>2, <3>3, <1>a, KeptIsPart
        <3> QED  BY <3>2, <3>4 DEF Within
    <2>2. IsFiniteSet(L) /\ Cardinality(L) \in Nat /\ Cardinality(L) <= MaxAttempts(k)
        BY BucketCountsRecent DEF IInv, Mirror, WithinLimit
    <2> HIDE DEF L
    <2>3. IsFiniteSet(L') /\ Cardinality(L') <= Cardinality(L)  BY <2>1, <2>2, FS_Subset
    <2>4. Cardinality(L') \in Nat  BY <2>3, FS_CardinalityType
    <2>5. Cardinality(L') <= MaxAttempts(k)  BY <2>2, <2>3, <2>4, KeptIsPart
    <2> QED  BY <2>5 DEF L
<1>4. PromisesKept'  BY DEF IInv, PromisesKept, Later
<1> QED  BY <1>1, <1>2, <1>3, <1>4 DEF IInv, Mirror, BoundedKeys, OnlyTracked, Numbered

\* Every step keeps the inductive invariant.
LEMMA StepInv == IInv /\ [Next]_vars => IInv'
<1> SUFFICES ASSUME IInv, [Next]_vars PROVE IInv'  OBVIOUS
<1>1. ASSUME NEW k \in Keys, CheckRateLimit(k) PROVE IInv'  BY <1>1, CheckRateLimitStep
<1>2. CASE PeriodicCleanup  BY <1>2, PeriodicCleanupStep
<1>3. CASE Restart  BY <1>3, RestartStep
<1>4. CASE Tick  BY <1>4, TickStep
<1>5. CASE UNCHANGED vars
    BY <1>5 DEF vars, IInv, TypeOK, Mirror, BucketsOK, HoldsRecent, HoldsAccepted,
                HoldsLater, WithinLimit, Within, Recent, BoundedKeys, PromisesKept, Later,
                OnlyTracked, Numbered
<1> QED  BY <1>1, <1>2, <1>3, <1>4, <1>5 DEF Next

\* A promise that is kept leaves a free attempt once its moment has come.
LEMMA KeptPromiseLeavesRoom == IInv => RetryAfterHonoured
<1> SUFFICES ASSUME IInv, NEW k \in Keys, promised[k] # Never, now >= promised[k]
             PROVE  Cardinality(Recent(k, Window(k))) < MaxAttempts(k)
    BY DEF RetryAfterHonoured
<1>a. now \in Nat /\ promised[k] \in Nat /\ Window(k) \in Nat /\ MaxAttempts(k) \in Nat
    BY LimiterAssumption DEF IInv, TypeOK
<1>1. Recent(k, Window(k)) \in SUBSET Later(k, promised[k])
    BY <1>a DEF Recent, Later, IInv, TypeOK
<1>2. Later(k, promised[k]) \in SUBSET accepted  BY DEF Later
<1>3. IsFiniteSet(Later(k, promised[k]))  BY <1>2, FS_Subset DEF IInv
<1>4. /\ IsFiniteSet(Recent(k, Window(k)))
      /\ Cardinality(Recent(k, Window(k))) <= Cardinality(Later(k, promised[k]))
    BY <1>1, <1>3, FS_Subset
<1>5. Cardinality(Later(k, promised[k])) < MaxAttempts(k)  BY DEF IInv, PromisesKept
<1>6. /\ Cardinality(Later(k, promised[k])) \in Nat
      /\ Cardinality(Recent(k, Window(k))) \in Nat
    BY <1>3, <1>4, FS_CardinalityType
<1> QED  BY <1>4, <1>5, <1>6, <1>a

\* The invariant holds throughout.
THEOREM Invariant == Spec => []IInv
<1>1. Init => IInv  BY InitInv
<1>2. IInv /\ [Next]_vars => IInv'  BY StepInv
<1> QED  BY <1>1, <1>2, PTL DEF Spec

\* Every variable keeps its type; in particular no promised moment is negative.
THEOREM TypeCorrect == Spec => []TypeOK
<1>1. IInv => TypeOK  BY DEF IInv
<1> QED  BY <1>1, Invariant, PTL

\* No key gets more calls through in any window, or in any 3600 s if its window is
\* longer, than its limit.
THEOREM LimitHolds == Spec => []SlidingWindow
<1> QED  BY LimitIsKept, Invariant, PTL

\* The dictionary never holds more than MAX_KEYS keys.
THEOREM DictionaryIsBounded == Spec => []BoundedKeys
<1>1. IInv => BoundedKeys  BY DEF IInv
<1> QED  BY <1>1, Invariant, PTL

\* Who waits as long as Retry-After says has a free attempt.
THEOREM RetryAfterIsHonoured == Spec => []RetryAfterHonoured
<1>1. IInv => RetryAfterHonoured  BY KeptPromiseLeavesRoom
<1> QED  BY <1>1, Invariant, PTL

-----------------------------------------------------------------------------
(* Refinement of AttemptLog.                                               *)

\* The log counts as the limiter does.
LEMMA OneCardinality == \A S : Log!Cardinality(S) = Cardinality(S)
BY DEF Log!Cardinality, Cardinality

\* What the limiter looks up is what the log holds.
LEMMA LogHoldsRecent ==
    \A k \in Keys : \A window : Log!Since(k, window) = Recent(k, window)
BY DEF Log!Since, Recent

\* One call of check_rate_limit that finds a bucket or room for one.
LEMMA DecideAnswers ==
    ASSUME IInv, NEW k \in Keys, NEW calls, Mirror(calls), NEW keys, Decide(k, calls, keys)
    PROVE  Log!Accept(k) \/ Log!TooMany(k)
<1> DEFINE held == Cardinality(Within(calls[k], Window(k)))
<1>1. /\ Cardinality(Log!Since(k, Log!Kept(k))) <= held
      /\ held <= Cardinality(Log!Since(k, Window(k)))
      /\ held \in Nat /\ MaxAttempts(k) \in Nat
      /\ Cardinality(Log!Since(k, Log!Kept(k))) \in Nat
      /\ Cardinality(Log!Since(k, Window(k))) \in Nat
    BY BucketCountsRecent, BucketCountsNoMore, LogHoldsRecent, KeptIsPart
    DEF IInv, Log!Kept, Kept
<1>2. [key |-> k, at |-> now, n |-> Cardinality(accepted)] \notin accepted
    <2>1. \A a \in accepted : a.n \in Nat /\ a.n < Cardinality(accepted)
        BY DEF IInv, TypeOK, Numbered
    <2>2. Cardinality(accepted) \in Nat  BY FS_CardinalityType DEF IInv
    <2> QED  BY <2>1, <2>2
<1>3. CASE /\ Cardinality(Within(calls[k], Window(k))) >= MaxAttempts(k)
           /\ answer' = [key |-> k, kind |-> "too_many"]
           /\ UNCHANGED <<now, accepted>>
    <2>1. Cardinality(Log!Since(k, Window(k))) >= MaxAttempts(k)  BY <1>1, <1>3
    <2> QED  BY <1>3, <2>1, OneCardinality DEF Log!TooMany, Log!Say
<1>4. CASE /\ Cardinality(Within(calls[k], Window(k))) < MaxAttempts(k)
           /\ accepted' = accepted \cup
                  {[key |-> k, at |-> now, n |-> Cardinality(accepted)]}
           /\ answer' = [key |-> k, kind |-> "accepted"]
           /\ UNCHANGED now
    <2>1. Cardinality(Log!Since(k, Log!Kept(k))) < MaxAttempts(k)  BY <1>1, <1>4
    <2> QED  BY <1>2, <1>4, <2>1, OneCardinality DEF Log!Accept, Log!Say
<1> QED  BY <1>3, <1>4 DEF Decide

\* A cleaned bucket that is not empty holds a call of the last MaxWindow, so as
\* many other keys as there are buckets have been in use.
LEMMA FullStep ==
    ASSUME IInv, NEW new \in Keys \ tracked, ~HasRoom(CleanTracked(Cleaned))
    PROVE  /\ Recent(new, Kept(new)) = {}
           /\ Cardinality({k \in Keys \ {new} : Recent(k, MaxWindow) # {}}) >= MAX_KEYS
<1> DEFINE busy == {k \in Keys \ {new} : Recent(k, MaxWindow) # {}}
           used == {a.key : a \in accepted}
           f == [a \in accepted |-> a.key]
<1>0. Recent(new, Kept(new)) = {}
    BY DEF IInv, Mirror, HoldsRecent, OnlyTracked
<1>1. CleanTracked(Cleaned) \in SUBSET busy
    <2> SUFFICES ASSUME NEW k \in CleanTracked(Cleaned)  PROVE k \in busy  OBVIOUS
    <2>1. k \in tracked /\ k \in Keys \ {new} /\ Cleaned[k] # {}
        BY DEF CleanTracked, IInv, TypeOK
    <2>2. PICK c \in Cleaned[k] : TRUE  BY <2>1
    <2>3. c \in buckets[k] /\ c.at > now - MaxWindow  BY <2>1, <2>2 DEF Cleaned, Within
    <2>4. CallOf(k, c) \in accepted  BY <2>1, <2>3 DEF IInv, Mirror, HoldsAccepted
    <2>5. CallOf(k, c) \in Recent(k, MaxWindow)  BY <2>3, <2>4 DEF CallOf, Recent
    <2> QED  BY <2>1, <2>5
<1>2. IsFiniteSet(busy)
    <2>1. f \in Surjection(accepted, used)  BY DEF Surjection
    <2>2. IsFiniteSet(used)  BY <2>1, FS_Surjection DEF IInv
    <2>3. busy \in SUBSET used  BY DEF Recent
    <2> QED  BY <2>2, <2>3, FS_Subset
<1>3. Cardinality(CleanTracked(Cleaned)) <= Cardinality(busy)
    BY <1>1, <1>2, FS_Subset
<1>4. Cardinality(CleanTracked(Cleaned)) \in Nat /\ Cardinality(busy) \in Nat
    BY <1>2, CleanedMirrors, FS_CardinalityType
<1> QED  BY <1>0, <1>3, <1>4, LimiterAssumption DEF HasRoom

\* The limiter, which prunes and cleans up, answers as one that forgets nothing.
THEOREM ImplementsTheLog == Spec => ImplementsLog
<1>1. Init => Log!Init  BY DEF Init, Log!Init
<1>2. IInv /\ [Next]_vars => [Log!Next]_(Log!logVars)
    <2> SUFFICES ASSUME IInv, [Next]_vars PROVE Log!Next \/ UNCHANGED Log!logVars
        OBVIOUS
    <2>1. ASSUME NEW k \in Keys, CheckRateLimit(k) PROVE Log!Next
        <3>1. CASE \/ Decide(k, buckets, tracked)
                   \/ Decide(k, Cleaned, CleanTracked(Cleaned))
            <4>1. Mirror(buckets) /\ Mirror(Cleaned)  BY CleanedMirrors DEF IInv
            <4> QED  BY <3>1, <4>1, DecideAnswers DEF Log!Next
        <3>2. CASE /\ k \notin tracked /\ ~HasRoom(CleanTracked(Cleaned))
                   /\ answer' = [key |-> k, kind |-> "full"]
                   /\ UNCHANGED <<now, accepted>>
            <4>1. \A j \in Keys : Log!Since(j, MaxWindow) = Recent(j, MaxWindow)
                BY LogHoldsRecent
            <4>2. {j \in Keys \ {k} : Log!Since(j, MaxWindow) # {}}
                    = {j \in Keys \ {k} : Recent(j, MaxWindow) # {}}
                BY <4>1
            <4>3. /\ Log!Since(k, Log!Kept(k)) = {}
                  /\ Cardinality({j \in Keys \ {k} : Log!Since(j, MaxWindow) # {}})
                        >= MAX_KEYS
                BY <3>2, <4>2, FullStep, LogHoldsRecent DEF Log!Kept, Kept
            <4>4. Log!Full(k)
                BY <3>2, <4>3, OneCardinality DEF Log!Full, Log!Say
            <4> QED  BY <4>4 DEF Log!Next
        <3> QED  BY <2>1, <3>1, <3>2 DEF CheckRateLimit
    <2>2. CASE PeriodicCleanup
        BY <2>2 DEF PeriodicCleanup, Log!logVars
    <2>3. CASE Restart  BY <2>3 DEF Restart, Log!Restart, Log!Next
    <2>4. CASE Tick  BY <2>4 DEF Tick, Log!Tick, Log!Next
    <2>5. CASE UNCHANGED vars  BY <2>5 DEF vars, Log!logVars
    <2> QED  BY <2>1, <2>2, <2>3, <2>4, <2>5 DEF Next
<1> QED  BY <1>1, <1>2, Invariant, PTL DEF Spec, ImplementsLog, Log!Spec
=============================================================================
