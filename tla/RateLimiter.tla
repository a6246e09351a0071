----------------------------- MODULE RateLimiter -----------------------------
(***************************************************************************)
(* The sliding-window limiter of auth-service, InMemoryRateLimiter         *)
(* (external/rate_limiter/memory.py), in front of register, login,         *)
(* login_2fa and the password-reset requests.                              *)
(*                                                                         *)
(* The event loop has one thread and nothing inside the lock suspends, so  *)
(* a call of check_rate_limit and a pass of the periodic cleanup are each  *)
(* one step; the lock is never contended.                                  *)
(***************************************************************************)
EXTENDS Integers, FiniteSets

CONSTANTS
    Keys,            \* "<prefix>:<client>" strings
    MaxAttempts(_),  \* the limit of a key's endpoint
    Window(_),       \* its window, in ticks of the clock
    Second,          \* ticks per second
    MAX_KEYS,        \* bound on the number of buckets
    MaxWindow,       \* the 3600 s the cleanup keeps, in ticks
    MaxTime,         \* bound on the clock
    MaxCalls,        \* bound on the number of accepted calls in a life
    Never            \* no promise was made

\* Settings ask for at least one attempt and a window of some length; a window may be
\* longer than what the cleanup keeps, which is hard-coded.
ASSUME LimiterAssumption ==
    /\ \A k \in Keys : MaxAttempts(k) \in Nat \ {0}
    /\ \A k \in Keys : Window(k) \in Nat \ {0}
    /\ Second \in Nat \ {0} /\ MaxWindow \in Nat \ {0}
    /\ MAX_KEYS \in Nat \ {0} /\ MaxTime \in Nat /\ MaxCalls \in Nat
    /\ Never \notin Nat

VARIABLES
    now,       \* time.monotonic()
    buckets,   \* a bucket per key: its calls in the window, by time and number
    tracked,   \* the keys of the dictionary
    accepted,  \* history: all accepted calls of this process, [key, at, n]
    promised,  \* history: when the last refusal of a key told it to come back
    answer     \* history: the last answer, [key, kind]

vars == <<now, buckets, tracked, accepted, promised, answer>>

Call == [at: Nat, n: Nat]
Answers == {"none", "accepted", "too_many", "full"}

TypeOK ==
    /\ now \in Nat
    /\ buckets \in [Keys -> SUBSET Call]
    /\ tracked \subseteq Keys
    /\ accepted \subseteq [key: Keys, at: Nat, n: Nat]
    /\ promised \in [Keys -> Nat \cup {Never}]
    /\ answer \in [key: Keys \cup {Never}, kind: Answers]

Empty == [k \in Keys |-> {}]

Init ==
    /\ now = 0
    /\ buckets = Empty
    /\ tracked = {}
    /\ accepted = {}
    /\ promised = [k \in Keys |-> Never]
    /\ answer = [key |-> Never, kind |-> "none"]

-----------------------------------------------------------------------------

\* Mutant: pruned one tick too early.
WithinTooFew(calls, window) == {c \in calls : c.at > now - window + 1}

\* Mutant: >= instead of >.
WithinTooMany(calls, window) == {c \in calls : c.at >= now - window}

\* [ts for ts in timestamps if ts > now - window]
Within(calls, window) == {c \in calls : c.at > now - window}

\* Both cleanups drop what is older than max_window, of windows that are longer too.
Cleaned == [k \in Keys |-> Within(buckets[k], MaxWindow)]

\* Mutant: a bucket that was pruned to nothing stays in the dictionary.
CleanTrackedKeepsEmpty(cleaned) == tracked

\* Keys whose bucket the cleanup empties leave the dictionary.
CleanTracked(cleaned) == {k \in tracked : cleaned[k] # {}}

HasRoom(keys) == Cardinality(keys) < MAX_KEYS

\* Mutant: rounded down.
RetryAfterDown(oldest, window) == ((oldest + window - now) \div Second) * Second

\* int(x) + 1 seconds, in ticks.
RetryAfter(oldest, window) == ((oldest + window - now) \div Second + 1) * Second

Oldest(calls) == CHOOSE c \in calls : \A d \in calls : c.at <= d.at

\* The body of check_rate_limit on a bucket of the dictionary: prune, refuse or
\* append.  A refused call is not recorded.
Decide(k, calls, keys) ==
    LET live == Within(calls[k], Window(k)) IN
    /\ tracked' = keys \cup {k}
    /\ \/ /\ Cardinality(live) >= MaxAttempts(k)
          /\ buckets' = [calls EXCEPT ![k] = live]
          /\ promised' = [promised EXCEPT ![k] =
                            now + RetryAfter(Oldest(live).at, Window(k))]
          /\ answer' = [key |-> k, kind |-> "too_many"]
          /\ UNCHANGED accepted
       \/ /\ Cardinality(live) < MaxAttempts(k)
          /\ LET n == Cardinality(accepted) IN
             /\ n < MaxCalls
             /\ buckets' = [calls EXCEPT ![k] = live \cup {[at |-> now, n |-> n]}]
             /\ accepted' = accepted \cup {[key |-> k, at |-> now, n |-> n]}
          /\ promised' = [promised EXCEPT ![k] = Never]
          /\ answer' = [key |-> k, kind |-> "accepted"]
    /\ UNCHANGED now

\* check_rate_limit: a new key needs room in the dictionary, if need be after a
\* cleanup.
CheckRateLimit(k) ==
    \/ /\ k \in tracked \/ HasRoom(tracked)
       /\ Decide(k, buckets, tracked)
    \/ /\ k \notin tracked /\ ~HasRoom(tracked)
       /\ HasRoom(CleanTracked(Cleaned))
       /\ Decide(k, Cleaned, CleanTracked(Cleaned))
    \/ /\ k \notin tracked /\ ~HasRoom(tracked)
       /\ ~HasRoom(CleanTracked(Cleaned))
       /\ buckets' = Cleaned
       /\ tracked' = CleanTracked(Cleaned)
       /\ answer' = [key |-> k, kind |-> "full"]
       /\ UNCHANGED <<now, accepted, promised>>

\* _cleanup_stale_entries, every cleanup_interval seconds.
PeriodicCleanup ==
    /\ buckets' = Cleaned
    /\ tracked' = CleanTracked(Cleaned)
    /\ UNCHANGED <<now, accepted, promised, answer>>

\* The process starts again with an empty dictionary.
Restart ==
    /\ buckets' = Empty
    /\ tracked' = {}
    /\ accepted' = {}
    /\ promised' = [k \in Keys |-> Never]
    /\ answer' = [key |-> Never, kind |-> "none"]
    /\ UNCHANGED now

Tick ==
    /\ now < MaxTime
    /\ now' = now + 1
    /\ UNCHANGED <<buckets, tracked, accepted, promised, answer>>

Next ==
    \/ \E k \in Keys : CheckRateLimit(k)
    \/ PeriodicCleanup
    \/ Restart
    \/ Tick

Spec == Init /\ [][Next]_vars

-----------------------------------------------------------------------------
(* Properties.                                                             *)

Recent(k, window) == {a \in accepted : a.key = k /\ a.at > now - window}

\* How far back the calls of a key are sure to be remembered.
Kept(k) == IF Window(k) <= MaxWindow THEN Window(k) ELSE MaxWindow

\* No key gets more calls through in any window than its limit, whatever the
\* cleanups remove and however calls of other keys fill the dictionary; a key whose
\* window is longer than the 3600 s of the cleanups has its limit in any 3600 s,
\* and no more than that is true.  (Any window ends at some instant; the property
\* holds at every one.)
SlidingWindow == \A k \in Keys : Cardinality(Recent(k, Kept(k))) <= MaxAttempts(k)

\* The dictionary never outgrows MAX_KEYS.
BoundedKeys == Cardinality(tracked) <= MAX_KEYS

\* Who waits as long as Retry-After says has a free attempt, unless it used it
\* in between, even by the count of a limiter that forgot none of its calls.
RetryAfterHonoured ==
    \A k \in Keys : promised[k] # Never /\ now >= promised[k] =>
        Cardinality(Recent(k, Window(k))) < MaxAttempts(k)

\* Every answer is the one of a limiter that forgets nothing: who is told that it
\* called too often did so, who is let through has not had its limit in the part of
\* its window that the cleanups keep, and a new key is refused for want of room
\* only while MAX_KEYS others have been used within the last hour.
Log == INSTANCE AttemptLog WITH log <- accepted
ImplementsLog == Log!Spec
=============================================================================
