-------------------------- MODULE PredictionGateway --------------------------
(***************************************************************************)
(* main-backend: a prediction is ordered, looked up in the history and     *)
(* deleted.  An order asks auth-service whether the user is still there    *)
(* (get_user, which tries again after a timeout) and forecasting-service   *)
(* for the price (predict, which does not), and stores what came of it,    *)
(* success or failure.                                                     *)
(*                                                                         *)
(* A request is one transaction of PostgreSQL at READ COMMITTED, which the *)
(* unit of work commits when its dependency exits.  FastAPI lets it exit   *)
(* after the answer was sent: between Answer and Commit the client knows   *)
(* of a row nobody can read.  Any statement, call or commit may fail.      *)
(*                                                                         *)
(* Predictions are numbered in the order of their created_at.  Access      *)
(* tokens are verified by themselves and outlive the account.  GET of one  *)
(* prediction changes nothing and is left out.                             *)
(***************************************************************************)
EXTENDS Integers, FiniteSets

CONSTANTS
    Users,
    Slots,          \* requests in flight at one time
    MaxAttempts,    \* stop_after_attempt of get_user
    MaxLimit,       \* the page sizes and offsets a client asks for
    MaxRequests,    \* bound on requests
    NoUser, NoRow, NoSlot

VARIABLES
    active,     \* what auth-service says of a user: neither disabled nor deleted
    rows,       \* the committed table of predictions
    holder,     \* the request whose DELETE has locked a row
    made,       \* number of predictions made
    req,        \* the requests in flight
    begun,      \* number of requests
    told,       \* history: what an answer said of a prediction
    dropped,    \* history: predictions an answer said are deleted
    broken      \* history: predictions whose commit failed after the answer

vars == <<active, rows, holder, made, req, begun, told, dropped, broken>>

Ids == 1 .. MaxRequests

Outcomes == {"success", "failed"}

Prediction == [owner : Users, status : Outcomes]

Request == [kind     : {"none", "create", "list", "delete"},
            pc       : {"idle", "verify", "forecast", "insert", "page", "count",
                        "delete", "answer", "commit"},
            user     : Users \cup {NoUser},
            id       : Ids \cup {0},
            status   : Outcomes \cup {"none"},
            attempts : 0 .. MaxAttempts - 1,    \* timeouts of get_user so far
            offset   : 0 .. MaxLimit,
            page     : SUBSET Ids,
            total    : Nat,
            vetted   : BOOLEAN,    \* history: the user was active since it began
            passed   : BOOLEAN]    \* history: a row of the user was deleted meanwhile

Idle == [kind |-> "none", pc |-> "idle", user |-> NoUser, id |-> 0,
         status |-> "none", attempts |-> 0, offset |-> 0, page |-> {}, total |-> 0,
         vetted |-> FALSE, passed |-> FALSE]

ASSUME GatewayAssumption ==
    /\ MaxAttempts \in Nat \ {0} /\ MaxLimit \in Nat /\ MaxRequests \in Nat
    /\ IsFiniteSet(Slots)
    /\ NoUser \notin Users /\ NoSlot \notin Slots /\ NoRow \notin Prediction

TypeOK ==
    /\ active \in [Users -> BOOLEAN]
    /\ rows \in [Ids -> Prediction \cup {NoRow}]
    /\ holder \in [Ids -> Slots \cup {NoSlot}]
    /\ made \in 0 .. begun /\ begun \in 0 .. MaxRequests
    /\ req \in [Slots -> Request]
    /\ told \in [Ids -> Outcomes \cup {"none"}]
    /\ dropped \subseteq Ids /\ broken \subseteq Ids

Init ==
    /\ active = [u \in Users |-> TRUE]
    /\ rows = [i \in Ids |-> NoRow]
    /\ holder = [i \in Ids |-> NoSlot]
    /\ made = 0 /\ begun = 0
    /\ req = [r \in Slots |-> Idle]
    /\ told = [i \in Ids |-> "none"]
    /\ dropped = {} /\ broken = {}

At(r, pc) == req[r].pc = pc
Step(r, pc) == req' = [req EXCEPT ![r].pc = pc]

\* The rows a query of one user sees, newest first.
Own(u) == {i \in Ids : rows[i] # NoRow /\ rows[i].owner = u}
Newer(u, i) == Cardinality({j \in Own(u) : j > i})
PageOf(u, limit, offset) ==
    {i \in Own(u) : Newer(u, i) >= offset /\ Newer(u, i) < offset + limit}

(***************************************************************************)
(* The handlers.                                                           *)
(***************************************************************************)
Start(r, kind, u, pc) == [Idle EXCEPT !.kind = kind, !.user = u, !.pc = pc]

\* A request with an access token of u.  A client may name any prediction.
Begin(r) ==
    /\ At(r, "idle") /\ begun < MaxRequests
    /\ begun' = begun + 1
    /\ \E u \in Users :
         \/ req' = [req EXCEPT ![r] =
                [Start(r, "create", u, "verify") EXCEPT !.vetted = active[u]]]
         \/ \E o \in 0 .. MaxLimit : req' = [req EXCEPT ![r] =
                [Start(r, "list", u, "page") EXCEPT !.offset = o]]
         \/ \E i \in Ids : i <= made /\ req' = [req EXCEPT ![r] =
                [Start(r, "delete", u, "delete") EXCEPT !.id = i]]
    /\ UNCHANGED <<active, rows, holder, made, told, dropped, broken>>

\* The unit of work rolls back, then an error is answered; after an answer
\* was sent there is nobody left to tell.
Refuse(r) ==
    /\ req' = [req EXCEPT ![r] = Idle]
    /\ holder' = [i \in Ids |-> IF holder[i] = r THEN NoSlot ELSE holder[i]]
    /\ broken' = IF At(r, "commit") /\ req[r].id # 0
                 THEN broken \cup {req[r].id} ELSE broken
    /\ UNCHANGED <<active, rows, made, begun, told, dropped>>

\* get_user: the user is unknown (404), disabled (403), or served.
Verify(r) ==
    /\ At(r, "verify")
    /\ IF active[req[r].user]
       THEN /\ Step(r, "forecast")
            /\ UNCHANGED <<active, rows, holder, made, begun, told, dropped, broken>>
       ELSE Refuse(r)

\* Mutants: a retry of the retries, without stop; the last timeout passes.
VerifyTimesOutForEver(r) ==
    /\ At(r, "verify")
    /\ req' = [req EXCEPT ![r].attempts = (@ + 1) % MaxAttempts]
    /\ UNCHANGED <<active, rows, holder, made, begun, told, dropped, broken>>

VerifyTimesOutFailsOpen(r) ==
    /\ At(r, "verify")
    /\ IF req[r].attempts + 1 < MaxAttempts
       THEN req' = [req EXCEPT ![r].attempts = @ + 1]
       ELSE Step(r, "forecast")
    /\ UNCHANGED <<active, rows, holder, made, begun, told, dropped, broken>>

\* A timeout, or no connection.  The last one is raised to the handler.
VerifyTimesOut(r) ==
    /\ At(r, "verify")
    /\ IF req[r].attempts + 1 < MaxAttempts
       THEN /\ req' = [req EXCEPT ![r].attempts = @ + 1]
            /\ UNCHANGED <<active, rows, holder, made, begun, told, dropped, broken>>
       ELSE Refuse(r)

\* predict turns each failure into ForecastingServiceUnavailable, which its
\* retry does not wait for; the handler makes a failed prediction of it.
Forecast(r) ==
    /\ At(r, "forecast")
    /\ \E s \in Outcomes : req' = [req EXCEPT ![r].status = s,
                                              ![r].id = made + 1, ![r].pc = "insert"]
    /\ made' = made + 1
    /\ UNCHANGED <<active, rows, holder, begun, told, dropped, broken>>

\* flush and refresh: the row is there for this transaction only.
Insert(r) ==
    /\ At(r, "insert") /\ Step(r, "answer")
    /\ UNCHANGED <<active, rows, holder, made, begun, told, dropped, broken>>

ReadPage(r) ==
    /\ At(r, "page")
    /\ \E limit \in 1 .. MaxLimit :
           req' = [req EXCEPT ![r].page = PageOf(req[r].user, limit, req[r].offset),
                              ![r].passed = FALSE, ![r].pc = "count"]
    /\ UNCHANGED <<active, rows, holder, made, begun, told, dropped, broken>>

\* Mutant: the total leaves the failed predictions out.
CountSucceeded(r) ==
    /\ At(r, "count")
    /\ req' = [req EXCEPT ![r].pc = "answer",
           ![r].total = Cardinality({i \in Own(req[r].user) : rows[i].status = "success"})]
    /\ UNCHANGED <<active, rows, holder, made, begun, told, dropped, broken>>

\* A statement of its own, which sees what was committed meanwhile.
Count(r) ==
    /\ At(r, "count")
    /\ req' = [req EXCEPT ![r].total = Cardinality(Own(req[r].user)), ![r].pc = "answer"]
    /\ UNCHANGED <<active, rows, holder, made, begun, told, dropped, broken>>

\* The row is the user's, and another DELETE holds its lock.
Waits(r) == At(r, "delete") /\ req[r].id \in Own(req[r].user)
                            /\ holder[req[r].id] # NoSlot

\* Mutant: select, then delete, without the lock.
DeleteUnlocked(r) ==
    /\ At(r, "delete")
    /\ IF req[r].id \in Own(req[r].user)
       THEN /\ holder' = [holder EXCEPT ![req[r].id] = r]
            /\ Step(r, "answer")
            /\ UNCHANGED <<active, rows, made, begun, told, dropped, broken>>
       ELSE Refuse(r)

\* No row, or somebody else's: PredictionNotFoundError.
Delete(r) ==
    /\ At(r, "delete") /\ ~Waits(r)
    /\ IF req[r].id \in Own(req[r].user)
       THEN /\ holder' = [holder EXCEPT ![req[r].id] = r]
            /\ Step(r, "answer")
            /\ UNCHANGED <<active, rows, made, begun, told, dropped, broken>>
       ELSE Refuse(r)

\* The answer is sent: 200, or 503 with the prediction that failed.
Answer(r) ==
    /\ At(r, "answer") /\ Step(r, "commit")
    /\ told' = IF req[r].kind = "create"
               THEN [told EXCEPT ![req[r].id] = req[r].status] ELSE told
    /\ dropped' = IF req[r].kind = "delete" THEN dropped \cup {req[r].id} ELSE dropped
    /\ UNCHANGED <<active, rows, holder, made, begun, broken>>

\* What the transaction has done to row i, as others see it once committed.
Written(r, i) ==
    CASE req[r].kind = "create" /\ i = req[r].id ->
             [owner |-> req[r].user, status |-> req[r].status]
      [] holder[i] = r -> NoRow
      [] OTHER -> rows[i]

\* Mutant: a failed prediction is raised as an error, which rolls it back.
CommitUnlessFailed(r) ==
    /\ At(r, "commit")
    /\ rows' = [i \in Ids |-> IF req[r].status = "failed" THEN rows[i] ELSE Written(r, i)]
    /\ holder' = [i \in Ids |-> IF holder[i] = r THEN NoSlot ELSE holder[i]]
    /\ req' = [req EXCEPT ![r] = Idle]
    /\ UNCHANGED <<active, made, begun, told, dropped, broken>>

\* __aexit__ of the unit of work.  The lists of the same user that are being
\* read note that a row has gone.
Commit(r) ==
    /\ At(r, "commit")
    /\ rows' = [i \in Ids |-> Written(r, i)]
    /\ holder' = [i \in Ids |-> IF holder[i] = r THEN NoSlot ELSE holder[i]]
    /\ req' = [q \in Slots |->
           IF q = r THEN Idle
           ELSE [req[q] EXCEPT !.passed =
                    @ \/ (At(q, "count") /\ req[r].kind = "delete"
                                          /\ req[q].user = req[r].user)]]
    /\ UNCHANGED <<active, made, begun, told, dropped, broken>>

\* A statement, a call or the commit fails, or the process stops.
Fail(r) == ~At(r, "idle") /\ Refuse(r)

\* Administrators of auth-service, meanwhile.
SetActive(u) ==
    /\ active' = [active EXCEPT ![u] = ~active[u]]
    /\ req' = [r \in Slots |-> [req[r] EXCEPT !.vetted =
                   @ \/ (At(r, "verify") /\ req[r].user = u /\ ~active[u])]]
    /\ UNCHANGED <<rows, holder, made, begun, told, dropped, broken>>

Next ==
    \/ \E r \in Slots :
         \/ Begin(r)    \/ Verify(r) \/ VerifyTimesOut(r) \/ Forecast(r) \/ Insert(r)
         \/ ReadPage(r) \/ Count(r)  \/ Delete(r)
         \/ Answer(r)   \/ Commit(r) \/ Fail(r)
    \/ \E u \in Users : SetActive(u)

Spec == Init /\ [][Next]_vars

(***************************************************************************)
(* Fairness: the event loop goes on with a request whose call has ended,   *)
(* each call has a timeout, and PostgreSQL queues who waits for a row.     *)
(***************************************************************************)
Proceed(r) == \/ Verify(r) \/ VerifyTimesOut(r) \/ Forecast(r) \/ Insert(r)
              \/ ReadPage(r) \/ Count(r) \/ Answer(r) \/ Commit(r)

FairSpec == /\ Spec
            /\ \A r \in Slots : WF_vars(Proceed(r)) /\ SF_vars(Delete(r))

(***************************************************************************)
(* Properties.                                                             *)
(***************************************************************************)
\* What an answer said still holds when nobody is looking: a prediction a
\* client was told of is stored with that outcome, and one that was said to
\* be deleted is not there, once the request's late commit is through and
\* unless it failed (router.py create_prediction and delete_prediction,
\* UnitOfWork.__aexit__).
Committing(i, kind) == \E r \in Slots : At(r, "commit") /\ req[r].kind = kind
                                                        /\ req[r].id = i

AnswersAreKept == \A i \in Ids \ broken :
    /\ told[i] # "none" /\ i \notin dropped =>
           \/ rows[i] # NoRow /\ rows[i].status = told[i]
           \/ Committing(i, "create")
    /\ i \in dropped => rows[i] = NoRow \/ Committing(i, "delete")

\* One prediction is deleted for one caller only: of two DELETEs the second
\* waits for the first and finds nothing, unless the first one's commit
\* failed (PredictionRepository.delete).
DeletedOnce == [][\A r \in Slots :
    At(r, "answer") /\ req[r].kind = "delete" /\ req'[r].pc = "commit"
        => req[r].id \notin dropped \ broken]_vars

\* No price is asked for, and no row stored, for a user who was disabled or
\* deleted from the moment the order came (_verify_user, get_user's retries).
OnlyVettedAreServed == \A r \in Slots :
    req[r].kind = "create" /\ req[r].pc \in {"forecast", "insert", "answer", "commit"}
        => req[r].vetted

\* The total of a history is never less than the rows on its page and those
\* before it, unless one of them was deleted between the two statements
\* (get_user_predictions).
TotalCountsThePage == \A r \in Slots :
    req[r].kind = "list" /\ At(r, "answer") /\ req[r].page # {} /\ ~req[r].passed
        => req[r].total >= req[r].offset + Cardinality(req[r].page)

\* Every request ends, whatever auth-service and forecasting-service do.
RequestEnds == \A r \in Slots : ~At(r, "idle") ~> At(r, "idle")
=============================================================================
