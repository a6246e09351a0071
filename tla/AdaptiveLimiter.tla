--------------------------- MODULE AdaptiveLimiter ---------------------------
(***************************************************************************)
(* AdaptiveRateLimiter of the parsers (parsers/common/rate_limiter.py):    *)
(* how long a collector sleeps between two loads.  Delays are drawn from a *)
(* range and multiplied; what is modelled is that a sleep took place, and  *)
(* the multiplier, in parts of Unit, rounded down.                         *)
(***************************************************************************)
EXTENDS Integers, Sequences, FiniteSets

CONSTANTS
    Window,            \* window_size
    CaptchaThreshold,  \* captcha_threshold
    Unit,              \* the multiplier 1.0
    MaxMultiplier,     \* max_multiplier
    LongPauseAfter     \* requests from one long pause to the next

ASSUME LimiterAssumption ==
    /\ Window \in Nat \ {0} /\ CaptchaThreshold \in Nat
    /\ Unit \in Nat \ {0} /\ MaxMultiplier \in Nat /\ Unit <= MaxMultiplier
    /\ LongPauseAfter \subseteq Nat \ {0} /\ LongPauseAfter # {}

VARIABLES
    results,        \* _results, a deque of the last Window of them
    multiplier,     \* _multiplier
    long_pause_in,  \* _next_long_pause_at - _request_count
    rested,         \* history: slept since the last load
    clean           \* history: successes recorded since the last failure

limiter == <<results, multiplier, long_pause_in, rested, clean>>

LimiterType ==
    /\ results \in Seq(BOOLEAN) /\ Len(results) <= Window
    /\ multiplier \in Unit..MaxMultiplier
    /\ long_pause_in \in Nat
    /\ rested \in BOOLEAN
    /\ clean \in Nat

LimiterInit ==
    /\ results = << >>
    /\ multiplier = Unit
    /\ long_pause_in \in LongPauseAfter
    /\ rested = TRUE
    /\ clean = 0

AtMost(a, b) == IF a < b THEN a ELSE b
AtLeast(a, b) == IF a > b THEN a ELSE b
Failures(s) == Cardinality({i \in DOMAIN s : ~s[i]})

\* deque(maxlen=Window).append
Pushed(success) == Append(IF Len(results) < Window THEN results ELSE Tail(results),
                          success)

Faster(m) == AtLeast((m * 8) \div 10, Unit)
Slower(m) == AtMost(m * 2, MaxMultiplier)

\* Mutant: the window must have been full before the result was added.
RecordSuccessLate ==
    /\ results' = Pushed(TRUE)
    /\ multiplier' = IF Len(results) = Window /\ Failures(results) = 0
                     THEN Faster(multiplier) ELSE multiplier
    /\ clean' = clean + 1
    /\ UNCHANGED <<long_pause_in, rested>>

RecordSuccess ==
    /\ results' = Pushed(TRUE)
    /\ multiplier' = IF Len(results') = Window /\ Failures(results') = 0
                     THEN Faster(multiplier) ELSE multiplier
    /\ clean' = clean + 1
    /\ UNCHANGED <<long_pause_in, rested>>

\* recent_captchas counts every failure of the window, errors included.
RecordCaptcha ==
    /\ results' = Pushed(FALSE)
    /\ multiplier' = IF Failures(results') >= CaptchaThreshold
                     THEN Slower(multiplier) ELSE multiplier
    /\ clean' = 0

RecordError ==
    /\ results' = Pushed(FALSE)
    /\ clean' = 0
    /\ UNCHANGED multiplier

\* Whether this pause is a long one, and how many to the next.
Schedule == IF long_pause_in <= 1 THEN long_pause_in' \in LongPauseAfter
                                  ELSE long_pause_in' = long_pause_in - 1

\* A pause between pages or details.
WaitBetweenLoads == rested' = TRUE /\ Schedule

\* A pause on a captcha or between sections.
Wait == rested' = TRUE /\ UNCHANGED long_pause_in

\* How slow the pace may be at most after k of the steps back.
Eased[k \in Nat] == IF k = 0 THEN MaxMultiplier ELSE Faster(Eased[k - 1])

\* A crawl that runs smoothly again gets its pace back: from the first success
\* that fills the window on, each one undoes a step, whatever slowed it down.
PaceRecovers == clean >= Window => multiplier <= Eased[clean - Window + 1]
=============================================================================
