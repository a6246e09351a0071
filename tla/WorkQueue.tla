------------------------------ MODULE WorkQueue ------------------------------
(***************************************************************************)
(* What the table of flats promises as a work queue: a flat is worked on   *)
(* by one session at a time, its details are collected once, and a flat    *)
(* that failed too often is left alone.  There is no text, no clock and no *)
(* statement here.  The promise is for sessions that take turns: it ends   *)
(* for good when two of them overlap.                                      *)
(***************************************************************************)
EXTENDS Naturals

CONSTANTS Flats, Workers, MaxAttempts, Nobody

VARIABLES
    state,   \* state[u]: "unlisted", "todo", "claimed", "done", "failed", "blocked"
    tries,   \* the outcomes recorded for a flat
    worker,  \* the session at work on a flat
    inTurn   \* sessions have taken turns so far

queueVars == <<state, tries, worker, inTurn>>

Init ==
    /\ state = [u \in Flats |-> "unlisted"]
    /\ tries = [u \in Flats |-> 0]
    /\ worker = [u \in Flats |-> Nobody]
    /\ inTurn = TRUE

\* A page of listings.  A flat that is listed again keeps its progress.
List(page) ==
    /\ state' = [u \in Flats |-> IF u \in page /\ state[u] = "unlisted"
                                 THEN "todo" ELSE state[u]]
    /\ UNCHANGED <<tries, worker>>

Claim(u, w) ==
    /\ \/ state[u] = "todo"
       \/ state[u] = "failed" /\ tries[u] < MaxAttempts
    /\ worker[u] = Nobody
    /\ \A x \in Flats : worker[x] # w
    /\ state' = [state EXCEPT ![u] = "claimed"]
    /\ worker' = [worker EXCEPT ![u] = w]
    /\ UNCHANGED tries

\* The session at work, and no other, records how it went.
Finish(u, w, outcome) ==
    /\ state[u] = "claimed" /\ worker[u] = w
    /\ outcome \in {"done", "failed", "blocked"}
    /\ state' = [state EXCEPT ![u] = outcome]
    /\ tries' = [tries EXCEPT ![u] = @ + 1]
    /\ worker' = [worker EXCEPT ![u] = Nobody]

\* A session that dies leaves its flat claimed, with nobody at work on it.
Abandon(u, w) ==
    /\ worker[u] = w
    /\ worker' = [worker EXCEPT ![u] = Nobody]
    /\ UNCHANGED <<state, tries>>

\* Blocked flats and abandoned ones, of the operator's choice, are todo again.
Return(flats) ==
    /\ \A u \in flats : /\ state[u] \in {"blocked", "claimed"}
                        /\ worker[u] = Nobody
    /\ state' = [u \in Flats |-> IF u \in flats THEN "todo" ELSE state[u]]
    /\ UNCHANGED <<tries, worker>>

InOrder ==
    \/ \E page \in SUBSET Flats : List(page) \/ Return(page)
    \/ \E u \in Flats, w \in Workers :
           \/ Claim(u, w)
           \/ \E o \in {"done", "failed", "blocked"} : Finish(u, w, o)
           \/ Abandon(u, w)

Next ==
    \/ inTurn /\ inTurn' /\ InOrder
    \/ ~inTurn'

Spec == Init /\ [][Next]_queueVars
=============================================================================
