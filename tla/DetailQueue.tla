----------------------------- MODULE DetailQueue -----------------------------
(***************************************************************************)
(* The table of flats of forecasting-service as a queue of pages to        *)
(* collect (data/storage.py), and the command-line sessions that fill it   *)
(* and work through it: listings, and the detail collectors of the two     *)
(* sites (DataCollector.collect_details for Cian,                          *)
(* DomclickListingParser.collect_details for DomClick).                    *)
(*                                                                         *)
(* Every statement of storage.py commits on its own, and a claim is two of *)
(* them, a SELECT and an UPDATE: each is a step here.  Slots are the       *)
(* sessions an operator lets overlap; with one slot they take turns.       *)
(*                                                                         *)
(* last_attempt_at is written by SQLite as 'YYYY-MM-DD HH:MM:SS' in UTC    *)
(* and compared, as text, with a local '...YYYY-MM-DDTHH:MM:SS': the blank *)
(* sorts before the T, so on equal dates the comparison is true whatever   *)
(* the hours, and it is a comparison of dates.                             *)
(***************************************************************************)
EXTENDS Integers, FiniteSets

CONSTANTS
    Flats,         \* the urls the sites show
    Domclick,      \* those of DomClick; the others are Cian's
    Slots,         \* the detail sessions that may run at a time
    Listers,       \* the listing sessions that may run at a time
    MaxAttempts,   \* max_attempts of get_next_for_detail
    Cooldown,      \* its cooldown_minutes, in ticks
    StaleTimeout,  \* timeout_minutes of reset_stale_in_progress, in ticks
    BatchSize,     \* --batch
    MaxCaptcha,    \* --max-captcha
    DayLength,     \* ticks in a day
    Offset,        \* the local time is this much ahead of UTC
    MaxTime,       \* bound on the clock
    MaxSessions,   \* bound on the detail sessions started
    NoFlat, NoPage, Never

\* The sites are those of Vladivostok, ten hours ahead; containers run in UTC.
ASSUME QueueAssumption ==
    /\ IsFiniteSet(Slots) /\ Slots # {}
    /\ Domclick \subseteq Flats /\ NoFlat \notin Flats \cup Slots
    /\ MaxAttempts \in Nat \ {0} /\ BatchSize \in Nat /\ MaxCaptcha \in Nat
    /\ Cooldown \in Nat /\ StaleTimeout \in Nat
    /\ DayLength \in Nat \ {0} /\ Offset \in Nat
    /\ MaxTime \in Nat /\ MaxSessions \in Nat
    /\ Never \notin Int
    /\ NoPage \notin [flats: SUBSET Flats, first: Flats, isNew: BOOLEAN]

VARIABLES
    status,           \* detail_status of the row of a url, "unlisted" if none
    attempts,         \* detail_attempts
    last_attempt_at,  \* when, in UTC
    session,          \* the collector in a slot: where it is and its counters
    page,             \* what a listing session is about to write
    now,              \* UTC
    started,          \* history: detail sessions started so far
    inTurn,           \* history: no two detail sessions have overlapped so far
    returned,         \* history: times a flat was set back to pending
    abandoned         \* history: flats in progress whose session died

vars == <<status, attempts, last_attempt_at, session, page, now, started,
          inTurn, returned, abandoned>>
clock == <<now, started, inTurn>>

Statuses == {"unlisted", "pending", "in_progress", "done", "failed", "blocked"}
Places == {"idle", "resetting", "counting", "looping", "claiming", "fetching"}
Session == [pc: Places, kind: {"cian", "domclick"}, flat: Flats \cup {NoFlat},
            processed: Nat, captchas: Nat]
Page == [flats: SUBSET Flats, first: Flats, isNew: BOOLEAN]

TypeOK ==
    /\ status \in [Flats -> Statuses]
    /\ attempts \in [Flats -> Nat]
    /\ last_attempt_at \in [Flats -> Nat \cup {Never}]
    /\ session \in [Slots -> Session]
    /\ page \in [Listers -> Page \cup {NoPage}]
    /\ now \in Nat /\ started \in Nat /\ inTurn \in BOOLEAN
    /\ returned \in [Flats -> Nat]
    /\ abandoned \subseteq Flats

NoSession == [pc |-> "idle", kind |-> "cian", flat |-> NoFlat,
              processed |-> 0, captchas |-> 0]

Init ==
    /\ status = [u \in Flats |-> "unlisted"]
    /\ attempts = [u \in Flats |-> 0]
    /\ last_attempt_at = [u \in Flats |-> Never]
    /\ session = [s \in Slots |-> NoSession]
    /\ page = [l \in Listers |-> NoPage]
    /\ now = 0 /\ started = 0 /\ inTurn = TRUE
    /\ returned = [u \in Flats |-> 0]
    /\ abandoned = {}

\* The sessions that selected u and did not end with it yet; and those of them
\* that claimed it.
Engaged(u) == {s \in Slots : session[s].flat = u}
Holders(u) == {s \in Engaged(u) : session[s].pc = "fetching"}

(***************************************************************************)
(* Listings.  The first lookup of a page runs outside a transaction; the   *)
(* first write opens one, which keeps other writers out until the commit.  *)
(***************************************************************************)

LookUp(l, urls, u) ==
    /\ page[l] = NoPage
    /\ urls \subseteq Domclick \/ urls \cap Domclick = {}
    /\ u \in urls
    /\ page' = [page EXCEPT ![l] = [flats |-> urls, first |-> u,
                                    isNew |-> status[u] = "unlisted"]]
    /\ UNCHANGED <<status, attempts, last_attempt_at, session, clock, returned,
                   abandoned>>

\* Another listing inserted the first flat since: the INSERT breaks the
\* uniqueness of urls and the whole page is rolled back.
Clashes(l) == page[l].isNew /\ status[page[l].first] # "unlisted"

\* Mutant: a flat that is listed again starts over.
SavePageStartsOver(l) ==
    /\ page[l] # NoPage
    /\ status' = [u \in Flats |-> IF ~Clashes(l) /\ u \in page[l].flats
                                  THEN "pending" ELSE status[u]]
    /\ page' = [page EXCEPT ![l] = NoPage]
    /\ UNCHANGED <<attempts, last_attempt_at, session, clock, returned, abandoned>>

SavePage(l) ==
    /\ page[l] # NoPage
    /\ status' = [u \in Flats |->
                     IF ~Clashes(l) /\ u \in page[l].flats /\ status[u] = "unlisted"
                     THEN "pending" ELSE status[u]]
    /\ page' = [page EXCEPT ![l] = NoPage]
    /\ UNCHANGED <<attempts, last_attempt_at, session, clock, returned, abandoned>>

(***************************************************************************)
(* Detail sessions.                                                        *)
(***************************************************************************)

Date(t) == t \div DayLength

\* Mutant: as if equal dates compared by the hours that follow, the T first.
BeforeStrictly(u, window) ==
    \/ last_attempt_at[u] = Never
    \/ Date(last_attempt_at[u]) < Date(now + Offset - window)

\* last_attempt_at IS NULL OR last_attempt_at < (local now - window)
Before(u, window) ==
    \/ last_attempt_at[u] = Never
    \/ Date(last_attempt_at[u]) <= Date(now + Offset - window)

\* UPDATE flats SET detail_status = 'pending' for the rows of a set.
SetBack(flats) ==
    /\ status' = [u \in Flats |-> IF u \in flats THEN "pending" ELSE status[u]]
    /\ returned' = [u \in Flats |-> returned[u] + (IF u \in flats THEN 1 ELSE 0)]
    /\ abandoned' = abandoned \ flats
    /\ UNCHANGED <<attempts, last_attempt_at>>

Goto(s, place) == session' = [session EXCEPT ![s].pc = place]
Leave(s) == session' = [session EXCEPT ![s] = NoSession]

\* Only the Cian collector resets anything: blocked flats if it is asked to.
Start(s, kind, resetBlocked) ==
    /\ session[s].pc = "idle"
    /\ started < MaxSessions
    /\ started' = started + 1
    /\ inTurn' = (inTurn /\ \A t \in Slots : session[t].pc = "idle")
    /\ session' = [session EXCEPT ![s] =
          [NoSession EXCEPT !.pc = IF kind = "cian" THEN "resetting" ELSE "looping",
                            !.kind = kind]]
    /\ SetBack({u \in Flats : /\ kind = "cian" /\ resetBlocked
                              /\ status[u] = "blocked"})
    /\ UNCHANGED <<page, now>>

ResetStale(s) ==
    /\ session[s].pc = "resetting"
    /\ SetBack({u \in Flats : /\ status[u] = "in_progress"
                              /\ Before(u, StaleTimeout)})
    /\ Goto(s, "counting")
    /\ UNCHANGED <<page, clock>>

CountLeft(s) ==
    /\ session[s].pc = "counting"
    /\ IF \E u \in Flats : status[u] \in {"pending", "failed"}
       THEN Goto(s, "looping") ELSE Leave(s)
    /\ UNCHANGED <<status, attempts, last_attempt_at, page, clock, returned, abandoned>>

\* Mutant: the attempts are not counted against the limit.
WaitingForEver(s) ==
    {u \in Flats : /\ \/ status[u] = "pending"
                      \/ status[u] = "failed" /\ Before(u, Cooldown)
                   /\ session[s].kind = "domclick" => u \in Domclick}

\* Mutant: the last of the attempts is never made.
WaitingOffByOne(s) ==
    {u \in Flats : /\ \/ status[u] = "pending"
                      \/ /\ status[u] = "failed" /\ attempts[u] < MaxAttempts - 1
                         /\ Before(u, Cooldown)
                   /\ session[s].kind = "domclick" => u \in Domclick}

\* The WHERE clause of get_next_for_detail.
Waiting(s) ==
    {u \in Flats :
        /\ \/ status[u] = "pending"
           \/ /\ status[u] = "failed" /\ attempts[u] < MaxAttempts
              /\ Before(u, Cooldown)
        /\ session[s].kind = "domclick" => u \in Domclick}

\* Its ORDER BY: pending before failed, then the fewest attempts.
Precedes(u, v) ==
    \/ status[u] = "pending" /\ status[v] = "failed"
    \/ status[u] = status[v] /\ attempts[u] <= attempts[v]

Select(s, u) ==
    /\ session[s].pc = "looping" /\ session[s].processed < BatchSize
    /\ u \in Waiting(s) /\ \A v \in Waiting(s) : Precedes(u, v)
    /\ session' = [session EXCEPT ![s] = [@ EXCEPT !.pc = "claiming", !.flat = u]]
    /\ UNCHANGED <<status, attempts, last_attempt_at, page, clock, returned, abandoned>>

\* UPDATE ... WHERE id = ?: whatever became of the flat since the SELECT.
Claim(s) ==
    LET u == session[s].flat IN
    /\ session[s].pc = "claiming"
    /\ status' = [status EXCEPT ![u] = "in_progress"]
    /\ last_attempt_at' = [last_attempt_at EXCEPT ![u] = now]
    /\ session' = [session EXCEPT ![s] =
          [@ EXCEPT !.pc = "fetching", !.processed = session[s].processed + 1]]
    /\ abandoned' = abandoned \ {u}
    /\ UNCHANGED <<attempts, page, clock, returned>>

\* Mutant: an outcome is recorded without counting the attempt.
RecordUncounted(s, outcome) ==
    LET u == session[s].flat IN
    /\ session[s].pc = "fetching"
    /\ status' = [status EXCEPT ![u] = outcome]
    /\ abandoned' = abandoned \ {u}
    /\ UNCHANGED <<attempts, page, clock, returned>>

Record(s, outcome) ==
    LET u == session[s].flat IN
    /\ session[s].pc = "fetching"
    /\ status' = [status EXCEPT ![u] = outcome]
    /\ attempts' = [attempts EXCEPT ![u] = @ + 1]
    /\ abandoned' = abandoned \ {u}
    /\ UNCHANGED <<page, clock, returned>>

Stamp(u) == last_attempt_at' = [last_attempt_at EXCEPT ![u] = now]

NextFlat(s) == session' = [session EXCEPT ![s] =
    [@ EXCEPT !.pc = "looping", !.flat = NoFlat]]

UpdateDetail(s) ==
    /\ Record(s, "done")
    /\ NextFlat(s)
    /\ UNCHANGED last_attempt_at

MarkFailed(s) ==
    /\ Record(s, "failed")
    /\ Stamp(session[s].flat)
    /\ NextFlat(s)

\* Mutant: a session stopped by the site leaves before it records the outcome.
MarkBlockedTooLate(s) ==
    IF session[s].kind = "domclick" \/ session[s].captchas + 1 >= MaxCaptcha
    THEN /\ session[s].pc = "fetching"
         /\ Leave(s)
         /\ UNCHANGED <<status, attempts, last_attempt_at, page, clock, returned,
                        abandoned>>
    ELSE /\ Record(s, "blocked")
         /\ Stamp(session[s].flat)
         /\ session' = [session EXCEPT ![s] =
                [@ EXCEPT !.pc = "looping", !.flat = NoFlat,
                          !.captchas = session[s].captchas + 1]]

\* Qrator stops a DomClick session at once, captchas a Cian one at the limit.
MarkBlocked(s) ==
    /\ Record(s, "blocked")
    /\ Stamp(session[s].flat)
    /\ IF session[s].kind = "domclick" \/ session[s].captchas + 1 >= MaxCaptcha
       THEN Leave(s)
       ELSE session' = [session EXCEPT ![s] =
               [@ EXCEPT !.pc = "looping", !.flat = NoFlat,
                         !.captchas = session[s].captchas + 1]]

EndSession(s) ==
    /\ session[s].pc = "looping"
    /\ session[s].processed >= BatchSize \/ Waiting(s) = {}
    /\ Leave(s)
    /\ UNCHANGED <<status, attempts, last_attempt_at, page, clock, returned, abandoned>>

\* Ctrl+C, an error outside the inner try (a browser that does not restart, a
\* database locked for longer than its timeout) or a kill.
Interrupt(s) ==
    /\ session[s].pc # "idle"
    /\ Leave(s)
    /\ abandoned' = abandoned \cup
          {u \in Flats : session[s].pc = "fetching" /\ session[s].flat = u
                         /\ status[u] = "in_progress"}
    /\ UNCHANGED <<status, attempts, last_attempt_at, page, clock, returned>>

Tick ==
    /\ now < MaxTime
    /\ now' = now + 1
    /\ UNCHANGED <<status, attempts, last_attempt_at, session, page, started,
                   inTurn, returned, abandoned>>

Work(s) ==
    \/ ResetStale(s) \/ CountLeft(s)
    \/ \E u \in Flats : Select(s, u)
    \/ Claim(s) \/ UpdateDetail(s) \/ MarkFailed(s) \/ MarkBlocked(s)
    \/ EndSession(s)

Next ==
    \/ \E l \in Listers, urls \in SUBSET Flats, u \in Flats : LookUp(l, urls, u)
    \/ \E l \in Listers : SavePage(l)
    \/ \E s \in Slots, kind \in {"cian", "domclick"}, reset \in BOOLEAN :
           Start(s, kind, reset)
    \/ \E s \in Slots : Work(s) \/ Interrupt(s)
    \/ Tick

Spec == Init /\ [][Next]_vars
-----------------------------------------------------------------------------
(***************************************************************************)
(* Safety                                                                  *)
(***************************************************************************)

\* No flat is stuck: one that is in progress is in the hands of a session that
\* will record its outcome, or was left by a session that died.  It holds
\* however the two statements of get_next_for_detail interleave with the
\* unconditional updates of other sessions.
InProgressIsHeld ==
    \A u \in Flats : status[u] = "in_progress" => Holders(u) # {} \/ u \in abandoned

\* The work spent on a flat, done and under way, is bounded by max_attempts, by
\* what sessions that overlap may add to it, and by the times it was set back to
\* pending: nothing in the loop of collect_details retries a flat for ever.
Allowance(r) == MaxAttempts + Cardinality(Slots) * r
EffortBounded ==
    \A u \in Flats : attempts[u] + Cardinality(Engaged(u)) < Allowance(returned[u] + 1)

\* A flat that is done, or failed as often as max_attempts allows, stays so
\* unless a session took it before: listings and resets leave it alone, and no
\* SELECT finds it.
Settled(u) ==
    \/ status[u] = "done"
    \/ status[u] = "failed" /\ attempts[u] >= MaxAttempts
SettledUntouched ==
    [][\A u \in Flats : Settled(u) /\ Engaged(u) = {}
            => status'[u] = status[u] /\ attempts'[u] = attempts[u]]_vars

\* Once a Cian session is past its reset, every flat claimed longer than
\* timeout_minutes ago and still in progress is pending again, although the
\* two times are compared as texts of different formats and time zones.
StaleRecovered ==
    [][\A s \in Slots : session[s].pc = "resetting" /\ session'[s].pc = "counting"
        => \A u \in Flats : status'[u] = "in_progress"
                => now - last_attempt_at[u] < StaleTimeout]_vars

\* A session that says there is nothing left, with room in its batch, leaves no
\* flat of its site pending, and none to retry whose cooldown is over.
NothingLeftBehind ==
    [][\A s \in Slots, u \in Flats :
        (/\ EndSession(s) /\ session[s].processed < BatchSize
         /\ session[s].kind = "cian" \/ u \in Domclick)
        => /\ status[u] # "pending"
           /\ status[u] = "failed" /\ attempts[u] < MaxAttempts
                => now - last_attempt_at[u] < Cooldown]_vars

\* As long as sessions take turns the table is a work queue: one session at
\* work on a flat, details collected once, outcomes recorded by the session that
\* claimed.
QueueState == [u \in Flats |-> CASE status[u] = "pending" -> "todo"
                                  [] status[u] = "in_progress" -> "claimed"
                                  [] OTHER -> status[u]]
QueueWorker == [u \in Flats |-> IF Holders(u) = {} THEN NoFlat
                                ELSE CHOOSE s \in Holders(u) : TRUE]
Queue == INSTANCE WorkQueue WITH Workers <- Slots, Nobody <- NoFlat,
    state <- QueueState, tries <- attempts, worker <- QueueWorker
ImplementsQueue == Queue!Spec
=============================================================================
