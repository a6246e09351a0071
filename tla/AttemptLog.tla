------------------------------ MODULE AttemptLog ------------------------------
(***************************************************************************)
(* What the limiter promises the endpoints behind it: it answers as if it  *)
(* kept every call it ever let through.  There are no buckets, no pruning  *)
(* and no cleanups here; RateLimiter, which forgets, implements this       *)
(* module, and shows it by a refinement.  What is older than MaxWindow may *)
(* count or not: where a window is longer, a call may be let through or    *)
(* refused while some of its predecessors are older than that.             *)
(***************************************************************************)
EXTENDS Integers, FiniteSets

CONSTANTS Keys, MaxAttempts(_), Window(_), MAX_KEYS, MaxWindow, Never

VARIABLES
    now,     \* the clock
    log,     \* the calls let through since the process started
    answer   \* the last answer

logVars == <<now, log, answer>>

Init ==
    /\ now = 0
    /\ log = {}
    /\ answer = [key |-> Never, kind |-> "none"]

Since(k, window) == {a \in log : a.key = k /\ a.at > now - window}

\* The part of a window in which every call counts: all of it, mostly.
Kept(k) == IF Window(k) <= MaxWindow THEN Window(k) ELSE MaxWindow

Say(k, kind) == answer' = [key |-> k, kind |-> kind]

\* Fewer calls than the limit in what counts of the window: one more.
Accept(k) ==
    LET call == [key |-> k, at |-> now, n |-> Cardinality(log)] IN
    /\ Cardinality(Since(k, Kept(k))) < MaxAttempts(k)
    /\ call \notin log
    /\ log' = log \cup {call}
    /\ Say(k, "accepted")
    /\ UNCHANGED now

\* As many as the limit in the window: none more.
TooMany(k) ==
    /\ Cardinality(Since(k, Window(k))) >= MaxAttempts(k)
    /\ Say(k, "too_many")
    /\ UNCHANGED <<now, log>>

\* Only a key that has no call in what counts of its window is sent away for want of
\* room, and only while MAX_KEYS others were used lately.
Full(k) ==
    /\ Since(k, Kept(k)) = {}
    /\ Cardinality({j \in Keys \ {k} : Since(j, MaxWindow) # {}}) >= MAX_KEYS
    /\ Say(k, "full")
    /\ UNCHANGED <<now, log>>

Restart ==
    /\ log' = {}
    /\ answer' = [key |-> Never, kind |-> "none"]
    /\ UNCHANGED now

Tick == now' = now + 1 /\ UNCHANGED <<log, answer>>

Next ==
    \/ \E k \in Keys : Accept(k) \/ TooMany(k) \/ Full(k)
    \/ Restart
    \/ Tick

Spec == Init /\ [][Next]_logVars
=============================================================================
