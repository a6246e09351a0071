----------------------- MODULE PredictionGatewayProofs -----------------------
(***************************************************************************)
(* For any users and any number of requests, what main-backend answered    *)
(* about a prediction is kept, a prediction is deleted once, only users    *)
(* whom auth-service vouched for are served, and the total of a history    *)
(* counts what its page shows.                                             *)
(***************************************************************************)
EXTENDS PredictionGateway, FiniteSetTheorems, WellFoundedInduction, TLAPS

\* A prediction that its request has made, and nobody else can touch.
Creating(p) == p.kind = "create" /\ p.pc \in {"insert", "answer", "commit"}

CreateGood(p) == p.kind = "create" =>
    /\ p.pc \in {"verify", "forecast", "insert", "answer", "commit"}
    /\ p.pc = "verify" /\ active[p.user] => p.vetted
    /\ p.pc # "verify" => p.vetted
    /\ Creating(p) => /\ p.id \in 1 .. made /\ p.status \in Outcomes
                      /\ rows[p.id] = NoRow /\ p.id \notin dropped
    /\ p.pc = "commit" => told[p.id] = p.status

DeleteGood(r) == req[r].kind = "delete" =>
    /\ req[r].pc \in {"delete", "answer", "commit"}
    /\ req[r].id \in 1 .. made
    /\ req[r].pc # "delete" => holder[req[r].id] = r /\ rows[req[r].id] # NoRow
    /\ req[r].pc = "commit" => req[r].id \in dropped

ListGood(p) == p.kind = "list" =>
    p.pc \in {"page", "count", "answer", "commit"} /\ p.id = 0

\* Who holds the lock of a row.
Holding(r) == \A i \in Ids : holder[i] = r =>
    req[r].kind = "delete" /\ req[r].id = i /\ req[r].pc \in {"answer", "commit"}

Good(r) == /\ req[r].kind = "none" <=> req[r].pc = "idle"
           /\ req[r].kind # "none" => req[r].user \in Users
           /\ CreateGood(req[r]) /\ DeleteGood(r) /\ ListGood(req[r])
           /\ Holding(r)

AllGood == \A r \in Slots : Good(r)

Apart == \A r, q \in Slots :
    r # q /\ Creating(req[r]) /\ Creating(req[q]) => req[r].id # req[q].id

Unmade == \A i \in Ids : i > made => rows[i] = NoRow /\ i \notin dropped

\* Orders that have not come to a prediction yet; their numbers are left.
Ordering == {r \in Slots : req[r].kind = "create" /\ req[r].pc \in {"verify", "forecast"}}
Reserved == made + Cardinality(Ordering) <= begun

IInv == /\ TypeOK /\ AllGood /\ Apart /\ Unmade /\ Reserved /\ AnswersAreKept

-----------------------------------------------------------------------------
(* Counting the orders.                                                    *)

LEMMA OrderingFinite == IsFiniteSet(Ordering) /\ Cardinality(Ordering) \in Nat
BY FS_Subset, FS_CardinalityType, GatewayAssumption DEF Ordering

\* A request that is not an order, or leaves off, makes no more of them.
LEMMA FewerOrdering ==
    ASSUME TypeOK, Reserved, Ordering' \subseteq Ordering, UNCHANGED <<made, begun>>
    PROVE  Reserved'
<1>1. Cardinality(Ordering') <= Cardinality(Ordering) /\ Cardinality(Ordering') \in Nat
    BY OrderingFinite, FS_Subset, FS_CardinalityType
<1> QED
    BY <1>1, OrderingFinite DEF Reserved, TypeOK

LEMMA MoreOrdering ==
    ASSUME NEW r \in Slots, TypeOK, Reserved, Ordering' \subseteq Ordering \cup {r},
           made' = made, begun' = begun + 1
    PROVE  Reserved'
<1>1. /\ IsFiniteSet(Ordering \cup {r})
      /\ Cardinality(Ordering \cup {r}) \in
             {Cardinality(Ordering), Cardinality(Ordering) + 1}
      /\ Cardinality(Ordering \cup {r}) \in Nat
  <2>1. IsFiniteSet(Ordering)
      BY OrderingFinite
  <2> QED
      BY <2>1, FS_AddElement, FS_CardinalityType, Zenon
<1>2. /\ Cardinality(Ordering') <= Cardinality(Ordering \cup {r})
      /\ Cardinality(Ordering') \in Nat
    BY <1>1, FS_Subset, FS_CardinalityType
<1> QED
    BY <1>1, <1>2, OrderingFinite DEF Reserved, TypeOK

LEMMA OneOrderMade ==
    ASSUME NEW r \in Ordering, TypeOK, Reserved, Ordering' = Ordering \ {r},
           made' = made + 1, begun' = begun
    PROVE  Reserved' /\ made + 1 <= begun
<1>1. Cardinality(Ordering \ {r}) = Cardinality(Ordering) - 1
    BY OrderingFinite, FS_RemoveElement
<1>2. Cardinality(Ordering \ {r}) \in Nat
    BY OrderingFinite, FS_RemoveElement, FS_CardinalityType
<1> QED
    BY <1>1, <1>2, OrderingFinite DEF Reserved, TypeOK

LEMMA OwnFinite == ASSUME NEW u PROVE Cardinality(Own(u)) \in Nat
<1>1. IsFiniteSet(Ids) /\ Own(u) \subseteq Ids
    BY FS_Interval, GatewayAssumption DEF Ids, Own
<1> QED
    BY <1>1, FS_Subset, FS_CardinalityType

-----------------------------------------------------------------------------
(* Each action.                                                            *)

LEMMA IdleType == Idle \in Request
BY GatewayAssumption DEF Idle, Request

\* The request that moves is the only one that changes, and it changes
\* nothing but itself.
Quiet(r) == /\ \A q \in Slots \ {r} : req'[q] = req[q]
            /\ UNCHANGED <<rows, holder, told, dropped, broken>>

LEMMA QuietOthers ==
    ASSUME NEW r \in Slots, IInv, Quiet(r), made' >= made, made' \in Nat,
           UNCHANGED active
    PROVE  \A q \in Slots \ {r} : Good(q)'
<1> SUFFICES ASSUME NEW q \in Slots \ {r} PROVE Good(q)'
    OBVIOUS
<1>1. Good(q) /\ req'[q] = req[q]
    BY DEF IInv, AllGood, Quiet
<1>2. /\ UNCHANGED <<rows, holder, told, dropped, active>> /\ made \in Nat
      /\ \A i \in 1 .. made : i \in 1 .. made'
    BY DEF Quiet, IInv, TypeOK
<1>3. CreateGood(req[q])'
    BY <1>1, <1>2 DEF Good, CreateGood, Creating
<1>4. DeleteGood(q)'
    BY <1>1, <1>2 DEF Good, DeleteGood
<1>5. ListGood(req[q])' /\ Holding(q)'
    BY <1>1, <1>2 DEF Good, ListGood, Holding
<1> QED
    BY <1>1, <1>3, <1>4, <1>5 DEF Good

\* What was answered is kept while no row, lock or answer changes and the
\* requests that commit still do.
LEMMA QuietAnswers ==
    ASSUME NEW r \in Slots, IInv, Quiet(r), ~At(r, "commit")
    PROVE  AnswersAreKept'
<1>1. \A i \in Ids : \A k : Committing(i, k) => Committing(i, k)'
    BY DEF Committing, At, Quiet
<1> QED
    BY <1>1 DEF IInv, AnswersAreKept, Quiet, Ids

\* What a request starts with.
Opened(p) == /\ p \in Request /\ p.user \in Users /\ p.kind # "none"
             /\ \/ p.kind = "create" /\ p.pc = "verify" /\ (active[p.user] => p.vetted)
                \/ p.kind = "list" /\ p.pc = "page" /\ p.id = 0
                \/ p.kind = "delete" /\ p.pc = "delete" /\ p.id \in 1 .. made

LEMMA StartType ==
    ASSUME NEW r, NEW k \in {"create", "list", "delete"}, NEW u \in Users,
           NEW c \in {"verify", "page", "delete"}
    PROVE  /\ Start(r, k, u, c) \in Request
           /\ Start(r, k, u, c).kind = k /\ Start(r, k, u, c).pc = c
           /\ Start(r, k, u, c).user = u /\ Start(r, k, u, c).id = 0
<1>1. Start(r, k, u, c) \in Request
    BY IdleType DEF Start, Request
<1>2. /\ Start(r, k, u, c).kind = k /\ Start(r, k, u, c).pc = c
      /\ Start(r, k, u, c).user = u /\ Start(r, k, u, c).id = 0
    BY DEF Start, Idle
<1> QED
    BY <1>1, <1>2

LEMMA BeginOpens ==
    ASSUME NEW r \in Slots, TypeOK, Begin(r)
    PROVE  \E p : Opened(p) /\ req' = [req EXCEPT ![r] = p]
<1>1. PICK u \in Users :
         \/ req' = [req EXCEPT ![r] =
                [Start(r, "create", u, "verify") EXCEPT !.vetted = active[u]]]
         \/ \E o \in 0 .. MaxLimit : req' = [req EXCEPT ![r] =
                [Start(r, "list", u, "page") EXCEPT !.offset = o]]
         \/ \E i \in Ids : i <= made /\ req' = [req EXCEPT ![r] =
                [Start(r, "delete", u, "delete") EXCEPT !.id = i]]
    BY DEF Begin
<1>2. CASE req' = [req EXCEPT ![r] =
                [Start(r, "create", u, "verify") EXCEPT !.vetted = active[u]]]
  <2> DEFINE s == Start(r, "create", u, "verify")
             p == [s EXCEPT !.vetted = active[u]]
  <2>1. active[u] \in BOOLEAN
      BY DEF TypeOK
  <2>2. /\ s \in Request /\ s.user = u /\ s.kind = "create" /\ s.pc = "verify"
      BY StartType
  <2> HIDE DEF s
  <2>3. p \in Request /\ p.user = u /\ p.kind = "create" /\ p.pc = "verify"
      BY <2>1, <2>2 DEF Request
  <2>4. p.vetted = active[u]
      BY <2>2 DEF Request
  <2>5. req' = [req EXCEPT ![r] = p]
      BY <1>2 DEF s
  <2> HIDE DEF p
  <2> QED
      BY <2>3, <2>4, <2>5 DEF Opened
<1>3. ASSUME NEW o \in 0 .. MaxLimit, req' = [req EXCEPT ![r] =
                [Start(r, "list", u, "page") EXCEPT !.offset = o]]
      PROVE  \E p : Opened(p) /\ req' = [req EXCEPT ![r] = p]
  <2> DEFINE s == Start(r, "list", u, "page")
             p == [s EXCEPT !.offset = o]
  <2>1. /\ s \in Request /\ s.user = u /\ s.kind = "list" /\ s.pc = "page" /\ s.id = 0
      BY StartType
  <2> HIDE DEF s
  <2>2. p \in Request /\ p.user = u /\ p.kind = "list" /\ p.pc = "page" /\ p.id = 0
      BY <2>1 DEF Request
  <2>3. req' = [req EXCEPT ![r] = p]
      BY <1>3 DEF s
  <2> HIDE DEF p
  <2> QED
      BY <2>2, <2>3 DEF Opened
<1>4. ASSUME NEW i \in Ids, i <= made, req' = [req EXCEPT ![r] =
                [Start(r, "delete", u, "delete") EXCEPT !.id = i]]
      PROVE  \E p : Opened(p) /\ req' = [req EXCEPT ![r] = p]
  <2> DEFINE s == Start(r, "delete", u, "delete")
             p == [s EXCEPT !.id = i]
  <2>1. /\ s \in Request /\ s.user = u /\ s.kind = "delete" /\ s.pc = "delete"
      BY StartType
  <2> HIDE DEF s
  <2>2. p \in Request /\ p.user = u /\ p.kind = "delete" /\ p.pc = "delete" /\ p.id = i
      BY <2>1 DEF Request
  <2>3. req' = [req EXCEPT ![r] = p]
      BY <1>4 DEF s
  <2>4. i \in 1 .. made
      BY <1>4, GatewayAssumption DEF Ids, TypeOK
  <2> HIDE DEF p
  <2> QED
      BY <2>2, <2>3, <2>4 DEF Opened
<1> QED
    BY <1>1, <1>2, <1>3, <1>4

LEMMA BeginKeeps ==
    ASSUME NEW r \in Slots, IInv, Begin(r)
    PROVE  IInv'
<1>1. /\ At(r, "idle") /\ begun < MaxRequests /\ begun' = begun + 1
      /\ UNCHANGED <<active, rows, holder, made, told, dropped, broken>>
      /\ TypeOK
    BY DEF Begin, IInv
<1>2. PICK p : Opened(p) /\ req' = [req EXCEPT ![r] = p]
    BY <1>1, BeginOpens
<1>3. req'[r] = p /\ Quiet(r)
    BY <1>1, <1>2 DEF TypeOK, Quiet
<1>4. TypeOK'
    BY <1>1, <1>2, GatewayAssumption DEF TypeOK, Opened
<1>5. Good(r)'
  <2>1. ~Creating(p) /\ p.pc \notin {"idle", "commit"}
      BY <1>2 DEF Opened, Creating
  <2>2. \A i \in Ids : holder[i] # r
      BY <1>1 DEF IInv, AllGood, Good, Holding, At
  <2>3. CreateGood(p)' /\ DeleteGood(r)' /\ ListGood(p)' /\ Holding(r)'
      BY <1>1, <1>2, <1>3, <2>1, <2>2
      DEF Opened, CreateGood, DeleteGood, ListGood, Holding, Creating
  <2> QED
      BY <1>2, <1>3, <2>1, <2>3 DEF Good, Opened, CreateGood, ListGood, Creating
<1>6. AllGood'
    BY <1>1, <1>3, <1>5, QuietOthers DEF AllGood, TypeOK
<1>7. Apart'
    BY <1>2, <1>3 DEF IInv, Apart, Quiet, Opened, Creating
<1>8. Unmade' /\ AnswersAreKept'
    BY <1>1, <1>3, QuietAnswers DEF IInv, Unmade, At
<1>9. Reserved'
  <2>1. Ordering' \subseteq Ordering \cup {r}
      BY <1>3 DEF Ordering, Quiet
  <2> QED
      BY <1>1, <2>1, MoreOrdering DEF IInv
<1> QED
    BY <1>4, <1>6, <1>7, <1>8, <1>9 DEF IInv

LEMMA QuietKeeps ==
    ASSUME NEW r \in Slots, NEW p \in Request, IInv, Quiet(r),
           req' = [req EXCEPT ![r] = p], UNCHANGED <<active, made, begun>>,
           ~At(r, "commit"), Good(r)',
           p.kind = "create" /\ p.pc \in {"verify", "forecast"} => r \in Ordering,
           Creating(p) => Creating(req[r]) /\ p.id = req[r].id
    PROVE  IInv'
<1>1. req'[r] = p /\ TypeOK
    BY DEF IInv, TypeOK
<1>2. TypeOK'
    BY <1>1 DEF TypeOK, Quiet
<1>3. AllGood'
    BY <1>1, QuietOthers DEF AllGood, TypeOK
<1>4. Apart'
    BY <1>1 DEF IInv, Apart, Quiet
<1>5. Unmade' /\ AnswersAreKept'
    BY QuietAnswers DEF IInv, Unmade, Quiet
<1>6. Reserved'
  <2>1. Ordering' \subseteq Ordering
      BY <1>1 DEF Ordering, Quiet
  <2> QED
      BY <2>1, FewerOrdering DEF IInv
<1> QED
    BY <1>2, <1>3, <1>4, <1>5, <1>6 DEF IInv

\* Orders that auth-service vouches for, or that wait for it again.
LEMMA VerifyKeeps ==
    ASSUME NEW r \in Slots, IInv, At(r, "verify"),
           UNCHANGED <<active, rows, holder, made, begun, told, dropped, broken>>,
           \/ active[req[r].user] /\ Step(r, "forecast")
           \/ req[r].attempts + 1 < MaxAttempts
              /\ req' = [req EXCEPT ![r].attempts = @ + 1]
    PROVE  IInv'
<1>1. req[r] \in Request /\ Good(r) /\ req[r].kind = "create" /\ TypeOK
    BY IdleType DEF IInv, TypeOK, AllGood, Good, At, CreateGood, DeleteGood, ListGood, Request
<1>2. PICK p \in Request :
        /\ req' = [req EXCEPT ![r] = p]
        /\ p.kind = "create" /\ p.user = req[r].user /\ p.vetted = req[r].vetted
        /\ p.pc = "verify" \/ (p.pc = "forecast" /\ active[p.user])
  <2>1. CASE active[req[r].user] /\ Step(r, "forecast")
    <3> DEFINE p == [req[r] EXCEPT !.pc = "forecast"]
    <3>1. /\ p \in Request /\ p.kind = "create" /\ p.user = req[r].user
          /\ p.pc = "forecast"
        BY <1>1 DEF Request
    <3>2. p.vetted = req[r].vetted
        BY <1>1 DEF Request
    <3>3. req' = [req EXCEPT ![r] = p]
        BY <2>1 DEF Step
    <3> HIDE DEF p
    <3> QED
        BY <2>1, <3>1, <3>2, <3>3
  <2>2. CASE /\ req[r].attempts + 1 < MaxAttempts
             /\ req' = [req EXCEPT ![r].attempts = @ + 1]
    <3> DEFINE p == [req[r] EXCEPT !.attempts = @ + 1]
    <3>1. req[r].attempts + 1 \in 0 .. MaxAttempts - 1
        BY <1>1, <2>2, GatewayAssumption DEF Request
    <3>2. /\ p \in Request /\ p.kind = "create" /\ p.user = req[r].user
          /\ p.pc = "verify"
        BY <1>1, <3>1 DEF Request, At
    <3>3. p.vetted = req[r].vetted
        BY <1>1 DEF Request
    <3>4. req' = [req EXCEPT ![r] = p]
        BY <2>2
    <3> HIDE DEF p
    <3> QED
        BY <3>2, <3>3, <3>4
  <2> QED
      BY <2>1, <2>2
<1>3. req'[r] = p /\ Quiet(r)
    BY <1>1, <1>2 DEF TypeOK, Quiet
<1>4. \A i \in Ids : holder[i] # r
    BY <1>1 DEF Good, Holding, At
<1>5. Good(r)'
  <2>1. p.user \in Users /\ (active[p.user] => p.vetted)
      BY <1>1, <1>2 DEF Good, CreateGood, At
  <2>2. CreateGood(p)'
      BY <1>2, <2>1 DEF CreateGood, Creating
  <2> QED
      BY <1>2, <1>3, <1>4, <2>1, <2>2
      DEF Good, CreateGood, DeleteGood, ListGood, Holding, Creating
<1> QED
    BY <1>1, <1>2, <1>3, <1>5, QuietKeeps DEF Ordering, Creating, At

LEMMA InsertKeeps ==
    ASSUME NEW r \in Slots, IInv, Insert(r)
    PROVE  IInv'
<1>1. /\ At(r, "insert") /\ Step(r, "answer")
      /\ UNCHANGED <<active, rows, holder, made, begun, told, dropped, broken>>
    BY DEF Insert
<1>2. req[r] \in Request /\ Good(r) /\ Creating(req[r]) /\ TypeOK
    BY <1>1, IdleType DEF IInv, TypeOK, AllGood, Good, At, CreateGood, DeleteGood,
                          ListGood, Request, Creating
<1>3. PICK p \in Request :
        /\ req' = [req EXCEPT ![r] = p]
        /\ p.kind = "create" /\ p.user = req[r].user /\ p.vetted = req[r].vetted
        /\ p.pc = "answer" /\ p.id = req[r].id /\ p.status = req[r].status
  <2> DEFINE p == [req[r] EXCEPT !.pc = "answer"]
  <2>1. /\ p \in Request /\ p.kind = "create" /\ p.user = req[r].user
        /\ p.pc = "answer" /\ p.id = req[r].id /\ p.status = req[r].status
      BY <1>2 DEF Request, Creating
  <2>2. p.vetted = req[r].vetted
      BY <1>2 DEF Request
  <2>3. req' = [req EXCEPT ![r] = p]
      BY <1>1 DEF Step
  <2> HIDE DEF p
  <2> QED
      BY <2>1, <2>2, <2>3
<1>6. req'[r] = p /\ Quiet(r)
    BY <1>1, <1>2, <1>3 DEF TypeOK, Quiet
<1>7. Good(r)'
  <2>1. \A i \in Ids : holder[i] # r
      BY <1>1, <1>2 DEF Good, Holding, At
  <2>2. CreateGood(p)'
      BY <1>1, <1>2, <1>3 DEF Good, CreateGood, Creating, At
  <2> QED
      BY <1>1, <1>2, <1>3, <1>6, <2>1, <2>2
      DEF Good, CreateGood, DeleteGood, ListGood, Holding, Creating
<1> QED
    BY <1>1, <1>2, <1>3, <1>6, <1>7, QuietKeeps DEF At, Creating

\* A list reads, and nobody is the worse for it.
LEMMA ListKeeps ==
    ASSUME NEW r \in Slots, IInv, ReadPage(r) \/ Count(r)
    PROVE  IInv'
<1>1. /\ UNCHANGED <<active, rows, holder, made, begun, told, dropped, broken>>
      /\ req[r].pc \in {"page", "count"} /\ TypeOK
    BY DEF ReadPage, Count, At, IInv
<1>2. req[r] \in Request /\ Good(r) /\ req[r].kind = "list"
    BY <1>1, IdleType DEF IInv, TypeOK, AllGood, Good, CreateGood, DeleteGood, Request
<1>3. PICK p \in Request :
        /\ req' = [req EXCEPT ![r] = p]
        /\ p.kind = "list" /\ p.user = req[r].user /\ p.id = req[r].id
        /\ p.pc \in {"count", "answer"}
  <2>1. CASE ReadPage(r)
    <3>1. PICK limit \in 1 .. MaxLimit :
            req' = [req EXCEPT ![r].page = PageOf(req[r].user, limit, req[r].offset),
                               ![r].passed = FALSE, ![r].pc = "count"]
        BY <2>1 DEF ReadPage
    <3> DEFINE P == PageOf(req[r].user, limit, req[r].offset)
               p == [req[r] EXCEPT !.page = P, !.passed = FALSE, !.pc = "count"]
    <3>2. P \in SUBSET Ids
        BY DEF PageOf, Own
    <3>3. req' = [req EXCEPT ![r] = p]
        BY <3>1
    <3> HIDE DEF P
    <3>4. /\ p \in Request /\ p.kind = "list" /\ p.user = req[r].user
          /\ p.id = req[r].id /\ p.pc = "count"
        BY <1>2, <3>2 DEF Request
    <3> HIDE DEF p
    <3> QED
        BY <3>3, <3>4
  <2>2. CASE Count(r)
    <3> DEFINE n == Cardinality(Own(req[r].user))
               p == [req[r] EXCEPT !.total = n, !.pc = "answer"]
    <3>1. n \in Nat
        BY OwnFinite
    <3>2. req' = [req EXCEPT ![r] = p]
        BY <2>2 DEF Count
    <3> HIDE DEF n
    <3>3. /\ p \in Request /\ p.kind = "list" /\ p.user = req[r].user
          /\ p.id = req[r].id /\ p.pc = "answer"
        BY <1>2, <3>1 DEF Request
    <3> HIDE DEF p
    <3> QED
        BY <3>2, <3>3
  <2> QED
      BY <2>1, <2>2
<1>4. req'[r] = p /\ Quiet(r)
    BY <1>1, <1>3 DEF TypeOK, Quiet
<1>5. \A i \in Ids : holder[i] # r
    BY <1>2 DEF Good, Holding
<1>6. Good(r)'
    BY <1>1, <1>2, <1>3, <1>4, <1>5
    DEF Good, CreateGood, DeleteGood, ListGood, Holding, Creating
<1> QED
    BY <1>1, <1>2, <1>3, <1>4, <1>6, QuietKeeps DEF At, Creating

LEMMA ForecastKeeps ==
    ASSUME NEW r \in Slots, IInv, Forecast(r)
    PROVE  IInv'
<1>1. /\ At(r, "forecast") /\ made' = made + 1
      /\ UNCHANGED <<active, rows, holder, begun, told, dropped, broken>>
      /\ TypeOK /\ Good(r)
    BY DEF Forecast, IInv, AllGood
<1>2. req[r] \in Request /\ req[r].kind = "create" /\ r \in Ordering
    BY <1>1, IdleType DEF TypeOK, Good, At, CreateGood, DeleteGood, ListGood,
                          Request, Ordering
<1>3. made + 1 <= begun /\ made + 1 \in Ids /\ made \in Nat /\ begun \in 0 .. MaxRequests
  <2>1. made + 1 <= begun
    <3>1. Cardinality(Ordering \ {r}) = Cardinality(Ordering) - 1
          /\ Cardinality(Ordering \ {r}) \in Nat
        BY <1>2, OrderingFinite, FS_RemoveElement, FS_CardinalityType
    <3> QED
        BY <1>1, <3>1, OrderingFinite DEF IInv, Reserved, TypeOK
  <2> QED
      BY <1>1, <2>1, GatewayAssumption DEF TypeOK, Ids
<1>4. PICK p \in Request :
        /\ req' = [req EXCEPT ![r] = p]
        /\ p.kind = "create" /\ p.user = req[r].user /\ p.vetted = req[r].vetted
        /\ p.pc = "insert" /\ p.id = made + 1 /\ p.status \in Outcomes
  <2>1. PICK s \in Outcomes : req' = [req EXCEPT ![r].status = s, ![r].id = made + 1,
                                                 ![r].pc = "insert"]
      BY DEF Forecast
  <2> DEFINE p == [req[r] EXCEPT !.status = s, !.id = made + 1, !.pc = "insert"]
  <2>2. /\ p \in Request /\ p.kind = "create" /\ p.user = req[r].user
        /\ p.pc = "insert" /\ p.id = made + 1 /\ p.status = s
      BY <1>2, <1>3 DEF Request
  <2>3. p.vetted = req[r].vetted
      BY <1>2 DEF Request
  <2>4. req' = [req EXCEPT ![r] = p]
      BY <2>1
  <2> HIDE DEF p
  <2> QED
      BY <2>2, <2>3, <2>4
<1>5. req'[r] = p /\ Quiet(r)
    BY <1>1, <1>4 DEF TypeOK, Quiet
<1>6. TypeOK'
    BY <1>1, <1>3, <1>4 DEF TypeOK
<1>7. Good(r)'
  <2>1. \A i \in Ids : holder[i] # r
      BY <1>1 DEF Good, Holding, At
  <2>2. rows[made + 1] = NoRow /\ made + 1 \notin dropped
      BY <1>3 DEF IInv, Unmade
  <2>3. p.user \in Users /\ p.vetted
      BY <1>1, <1>2, <1>4 DEF Good, CreateGood, At
  <2>4. CreateGood(p)'
      BY <1>1, <1>3, <1>4, <2>2, <2>3 DEF CreateGood, Creating
  <2> QED
      BY <1>1, <1>4, <1>5, <2>1, <2>3, <2>4
      DEF Good, CreateGood, DeleteGood, ListGood, Holding, Creating
<1>8. AllGood'
    BY <1>1, <1>3, <1>5, <1>7, QuietOthers DEF AllGood
<1>9. Apart'
  <2>1. \A q \in Slots : Creating(req[q]) => req[q].id # made + 1
    <3> SUFFICES ASSUME NEW q \in Slots, Creating(req[q]) PROVE req[q].id # made + 1
        OBVIOUS
    <3>1. CreateGood(req[q]) /\ req[q].kind = "create"
        BY DEF IInv, AllGood, Good, Creating
    <3>2. req[q].id \in 1 .. made
        BY <3>1 DEF CreateGood
    <3> QED
        BY <1>3, <3>2
  <2> QED
      BY <1>4, <1>5, <2>1 DEF IInv, Apart, Quiet, Creating
<1>10. Unmade' /\ AnswersAreKept'
    BY <1>1, <1>3, <1>5, QuietAnswers DEF IInv, Unmade, At, Ids
<1>11. Reserved'
  <2>1. Ordering' = Ordering \ {r}
      BY <1>4, <1>5 DEF Ordering, Quiet
  <2> QED
      BY <1>1, <1>2, <2>1, OneOrderMade DEF IInv
<1> QED
    BY <1>6, <1>8, <1>9, <1>10, <1>11 DEF IInv

\* A lock that is let go by its holder concerns nobody else.
LEMMA RefuseKeeps ==
    ASSUME NEW r \in Slots, IInv, Refuse(r)
    PROVE  IInv'
<1>1. /\ req' = [req EXCEPT ![r] = Idle] /\ TypeOK
      /\ holder' = [i \in Ids |-> IF holder[i] = r THEN NoSlot ELSE holder[i]]
      /\ UNCHANGED <<active, rows, made, begun, told, dropped>>
      /\ broken' = IF At(r, "commit") /\ req[r].id # 0
                   THEN broken \cup {req[r].id} ELSE broken
    BY DEF Refuse, IInv
<1>2. /\ req'[r] = Idle /\ \A q \in Slots \ {r} : req'[q] = req[q]
      /\ Idle.kind = "none" /\ Idle.pc = "idle"
    BY <1>1 DEF TypeOK, Idle
<1>3. \A i \in Ids : /\ holder'[i] # r
                     /\ \A q \in Slots \ {r} : holder'[i] = q <=> holder[i] = q
    BY <1>1, GatewayAssumption DEF TypeOK
<1>4. TypeOK'
  <2>1. broken' \subseteq Ids /\ holder' \in [Ids -> Slots \cup {NoSlot}]
      BY <1>1 DEF TypeOK, Request
  <2>2. req' \in [Slots -> Request]
      BY <1>1, IdleType DEF TypeOK
  <2> QED
      BY <1>1, <2>1, <2>2 DEF TypeOK
<1>5. AllGood'
  <2> SUFFICES ASSUME NEW q \in Slots PROVE Good(q)'
      BY DEF AllGood
  <2>1. CASE q = r
      BY <1>2, <1>3, <2>1 DEF Good, CreateGood, DeleteGood, ListGood, Holding, Creating
  <2>2. CASE q # r
    <3>1. Good(q) /\ req'[q] = req[q]
        BY <1>2, <2>2 DEF IInv, AllGood
    <3>2. CreateGood(req[q])' /\ ListGood(req[q])'
        BY <1>1, <3>1 DEF Good, CreateGood, ListGood, Creating
    <3>3. DeleteGood(q)'
      <4>1. req[q].kind = "delete" => req[q].id \in Ids
          BY <1>1, <3>1, GatewayAssumption DEF Good, DeleteGood, TypeOK, Ids
      <4> QED
          BY <1>1, <1>3, <2>2, <3>1, <4>1 DEF Good, DeleteGood
    <3>4. Holding(q)'
        BY <1>3, <2>2, <3>1 DEF Good, Holding
    <3> QED
        BY <3>1, <3>2, <3>3, <3>4 DEF Good
  <2> QED
      BY <2>1, <2>2
<1>6. Apart' /\ Unmade'
    BY <1>1, <1>2 DEF IInv, Apart, Unmade, Creating
<1>7. Reserved'
  <2>1. Ordering' \subseteq Ordering
      BY <1>2 DEF Ordering
  <2> QED
      BY <1>1, <2>1, FewerOrdering DEF IInv
<1>8. AnswersAreKept'
  <2>1. \A i \in Ids \ broken' : \A k :
            Committing(i, k) => Committing(i, k)'
      BY <1>1, <1>2 DEF Committing, At, Ids
  <2> QED
      BY <1>1, <2>1 DEF IInv, AnswersAreKept
<1> QED
    BY <1>4, <1>5, <1>6, <1>7, <1>8 DEF IInv

LEMMA DeleteKeeps ==
    ASSUME NEW r \in Slots, IInv, At(r, "delete"), ~Waits(r),
           req[r].id \in Own(req[r].user),
           holder' = [holder EXCEPT ![req[r].id] = r], Step(r, "answer"),
           UNCHANGED <<active, rows, made, begun, told, dropped, broken>>
    PROVE  IInv'
<1>1. TypeOK /\ Good(r) /\ req[r] \in Request /\ req[r].kind = "delete"
    BY IdleType DEF IInv, AllGood, TypeOK, Good, At, CreateGood, ListGood, Request
<1>2. PICK p \in Request :
        /\ req' = [req EXCEPT ![r] = p]
        /\ p.kind = "delete" /\ p.user = req[r].user /\ p.id = req[r].id
        /\ p.pc = "answer"
  <2> DEFINE p == [req[r] EXCEPT !.pc = "answer"]
  <2>1. /\ p \in Request /\ p.kind = "delete" /\ p.user = req[r].user
        /\ p.id = req[r].id /\ p.pc = "answer"
      BY <1>1 DEF Request
  <2>2. req' = [req EXCEPT ![r] = p]
      BY DEF Step
  <2> HIDE DEF p
  <2> QED
      BY <2>1, <2>2
<1> DEFINE i == req[r].id
<1>3. /\ req'[r] = p /\ \A q \in Slots \ {r} : req'[q] = req[q]
    BY <1>1, <1>2 DEF TypeOK
<1>4. /\ i \in Ids /\ i \in 1 .. made /\ rows[i] # NoRow /\ holder[i] = NoSlot
      /\ holder'[i] = r /\ \A j \in Ids \ {i} : holder'[j] = holder[j]
    BY <1>1 DEF Own, Waits, At, TypeOK, Good, DeleteGood
<1>5. TypeOK'
    BY <1>1, <1>2 DEF TypeOK
<1>6. AllGood'
  <2> SUFFICES ASSUME NEW q \in Slots PROVE Good(q)'
      BY DEF AllGood
  <2>1. CASE q = r
    <3>1. \A j \in Ids : holder'[j] = r => j = i
        BY <1>1, <1>4 DEF Good, Holding, At
    <3> QED
        BY <1>1, <1>2, <1>3, <1>4, <2>1, <3>1
        DEF Good, CreateGood, DeleteGood, ListGood, Holding, Creating
  <2>2. CASE q # r
    <3>1. Good(q) /\ req'[q] = req[q]
        BY <1>3, <2>2 DEF IInv, AllGood
    <3>2. CreateGood(req[q])' /\ ListGood(req[q])'
        BY <3>1 DEF Good, CreateGood, ListGood, Creating
    <3>3. DeleteGood(q)' /\ Holding(q)'
      <4>1. holder[i] # q /\ holder'[i] # q
          BY <1>4, <2>2, GatewayAssumption
      <4>2. req[q].kind = "delete" => req[q].id \in Ids
          BY <1>1, <3>1, GatewayAssumption DEF Good, DeleteGood, TypeOK, Ids
      <4> QED
          BY <1>4, <3>1, <4>1, <4>2 DEF Good, DeleteGood, Holding
    <3> QED
        BY <3>1, <3>2, <3>3 DEF Good
  <2> QED
      BY <2>1, <2>2
<1>7. Apart' /\ Unmade'
    BY <1>2, <1>3 DEF IInv, Apart, Unmade, Creating
<1>8. Reserved'
  <2>1. Ordering' \subseteq Ordering
      BY <1>2, <1>3 DEF Ordering
  <2> QED
      BY <2>1, FewerOrdering DEF IInv
<1>9. AnswersAreKept'
  <2>1. \A j \in Ids : \A k : Committing(j, k) => Committing(j, k)'
      BY <1>3 DEF Committing, At
  <2> QED
      BY <2>1 DEF IInv, AnswersAreKept, Ids
<1> QED
    BY <1>5, <1>6, <1>7, <1>8, <1>9 DEF IInv

\* The rows of a prediction that is deleted or being made have one request
\* at work on them.
LEMMA OneAtWork ==
    ASSUME NEW r \in Slots, NEW q \in Slots, r # q, IInv,
           req[r].kind = "delete", req[r].pc \in {"answer", "commit"}
    PROVE  /\ Creating(req[q]) => req[q].id # req[r].id
           /\ req[q].kind = "delete" /\ req[q].pc \in {"answer", "commit"}
                  => req[q].id # req[r].id
<1>1. /\ holder[req[r].id] = r /\ rows[req[r].id] # NoRow
    BY DEF IInv, AllGood, Good, DeleteGood
<1>2. req[q].kind = "delete" /\ req[q].pc \in {"answer", "commit"}
          => holder[req[q].id] = q
    BY DEF IInv, AllGood, Good, DeleteGood
<1>3. Creating(req[q]) => rows[req[q].id] = NoRow
    BY DEF IInv, AllGood, Good, CreateGood, Creating
<1> QED
    BY <1>1, <1>2, <1>3

LEMMA AnswerKeeps ==
    ASSUME NEW r \in Slots, IInv, Answer(r)
    PROVE  IInv'
<1>1. /\ At(r, "answer") /\ Step(r, "commit")
      /\ told' = IF req[r].kind = "create"
                 THEN [told EXCEPT ![req[r].id] = req[r].status] ELSE told
      /\ dropped' = IF req[r].kind = "delete" THEN dropped \cup {req[r].id} ELSE dropped
      /\ UNCHANGED <<active, rows, holder, made, begun, broken>>
      /\ TypeOK /\ Good(r)
    BY DEF Answer, IInv, AllGood
<1>2. req[r] \in Request /\ req[r].kind \in {"create", "delete", "list"}
    BY <1>1 DEF TypeOK, Good, At, Request
<1>3. PICK p \in Request :
        /\ req' = [req EXCEPT ![r] = p]
        /\ p.kind = req[r].kind /\ p.user = req[r].user /\ p.vetted = req[r].vetted
        /\ p.pc = "commit" /\ p.id = req[r].id /\ p.status = req[r].status
  <2> DEFINE p == [req[r] EXCEPT !.pc = "commit"]
  <2>1. /\ p \in Request /\ p.kind = req[r].kind /\ p.user = req[r].user
        /\ p.pc = "commit" /\ p.id = req[r].id /\ p.status = req[r].status
      BY <1>2 DEF Request
  <2>2. p.vetted = req[r].vetted
      BY <1>2 DEF Request
  <2>3. req' = [req EXCEPT ![r] = p]
      BY <1>1 DEF Step
  <2> HIDE DEF p
  <2> QED
      BY <2>1, <2>2, <2>3
<1>4. /\ req'[r] = p /\ \A q \in Slots \ {r} : req'[q] = req[q]
    BY <1>1, <1>3 DEF TypeOK
<1>5. req[r].kind # "list" => req[r].id \in 1 .. made /\ req[r].id \in Ids
    BY <1>1, <1>2, GatewayAssumption
    DEF Good, CreateGood, DeleteGood, Creating, At, TypeOK, Ids
<1>6. req[r].kind = "create" =>
          /\ req[r].status \in Outcomes /\ req[r].id \notin dropped
          /\ rows[req[r].id] = NoRow /\ told'[req[r].id] = req[r].status
    BY <1>1, <1>5 DEF Good, CreateGood, Creating, At, TypeOK
<1>7. TypeOK'
  <2>1. told' \in [Ids -> Outcomes \cup {"none"}]
      BY <1>1, <1>5, <1>6 DEF TypeOK
  <2>2. dropped' \subseteq Ids
      BY <1>1, <1>5 DEF TypeOK
  <2> QED
      BY <1>1, <1>3, <2>1, <2>2 DEF TypeOK
<1>8. \A q \in Slots \ {r} : Creating(req[q]) =>
          /\ req[q].id \notin dropped'
          /\ told'[req[q].id] = told[req[q].id]
  <2> SUFFICES ASSUME NEW q \in Slots \ {r}, Creating(req[q])
               PROVE  req[q].id \notin dropped' /\ told'[req[q].id] = told[req[q].id]
      OBVIOUS
  <2>1. req[q].id \notin dropped
      BY DEF IInv, AllGood, Good, CreateGood, Creating
  <2>2. req[r].kind \in {"create", "delete"} => req[q].id # req[r].id
    <3>1. CASE req[r].kind = "create"
        BY <1>1, <3>1 DEF IInv, Apart, Creating, At
    <3>2. CASE req[r].kind = "delete"
        BY <1>1, <3>2, OneAtWork DEF At
    <3> QED
        BY <3>1, <3>2
  <2> QED
      BY <1>1, <2>1, <2>2 DEF TypeOK
<1>9. AllGood'
  <2> SUFFICES ASSUME NEW q \in Slots PROVE Good(q)'
      BY DEF AllGood
  <2>1. CASE q = r
    <3>1. CreateGood(p)'
        BY <1>1, <1>3, <1>5, <1>6 DEF Good, CreateGood, Creating, At
    <3>2. DeleteGood(r)'
        BY <1>1, <1>3, <1>4 DEF Good, DeleteGood, At
    <3>3. ListGood(p)' /\ Holding(r)'
        BY <1>1, <1>3, <1>4 DEF Good, ListGood, Holding, At
    <3>4. p.user \in Users /\ p.kind # "none" /\ p.pc # "idle"
        BY <1>1, <1>2, <1>3 DEF Good
    <3> QED
        BY <1>4, <2>1, <3>1, <3>2, <3>3, <3>4 DEF Good, CreateGood, ListGood, Creating
  <2>2. CASE q # r
    <3>1. Good(q) /\ req'[q] = req[q]
        BY <1>4, <2>2 DEF IInv, AllGood
    <3>2. CreateGood(req[q])'
        BY <1>1, <1>8, <2>2, <3>1 DEF Good, CreateGood, Creating
    <3>3. DeleteGood(q)' /\ ListGood(req[q])' /\ Holding(q)'
        BY <1>1, <3>1 DEF Good, DeleteGood, ListGood, Holding
    <3> QED
        BY <3>1, <3>2, <3>3 DEF Good
  <2> QED
      BY <2>1, <2>2
<1>10. Apart'
    BY <1>1, <1>3, <1>4 DEF IInv, Apart, Creating, At
<1>11. Unmade'
    BY <1>1, <1>5, GatewayAssumption DEF IInv, Unmade, TypeOK, Ids
<1>12. Reserved'
  <2>1. Ordering' \subseteq Ordering
      BY <1>3, <1>4 DEF Ordering
  <2> QED
      BY <1>1, <2>1, FewerOrdering DEF IInv
<1>13. AnswersAreKept'
  <2>1. \A j \in Ids : \A k : Committing(j, k) => Committing(j, k)'
      BY <1>1, <1>4 DEF Committing, At
  <2>2. \A j \in Ids : j = req[r].id =>
            /\ req[r].kind = "create" => Committing(j, "create")'
            /\ req[r].kind = "delete" => Committing(j, "delete")'
      BY <1>3, <1>4 DEF Committing, At
  <2> SUFFICES ASSUME NEW j \in Ids \ broken
               PROVE  /\ told'[j] # "none" /\ j \notin dropped' =>
                             \/ rows[j] # NoRow /\ rows[j].status = told'[j]
                             \/ Committing(j, "create")'
                      /\ j \in dropped' => rows[j] = NoRow \/ Committing(j, "delete")'
      BY <1>1 DEF AnswersAreKept
  <2>3. CASE req[r].kind = "create" /\ j = req[r].id
      BY <1>1, <1>6, <2>2, <2>3
  <2>5. CASE req[r].kind = "delete" /\ j = req[r].id
      BY <1>1, <2>2, <2>5
  <2>4. CASE ~(req[r].kind \in {"create", "delete"} /\ j = req[r].id)
    <3>1. told'[j] = told[j] /\ (j \in dropped' <=> j \in dropped)
        BY <1>1, <2>4 DEF TypeOK
    <3> QED
        BY <2>1, <3>1 DEF IInv, AnswersAreKept
  <2> QED
      BY <2>3, <2>4, <2>5
<1> QED
    BY <1>7, <1>9, <1>10, <1>11, <1>12, <1>13 DEF IInv

LEMMA CommitKeeps ==
    ASSUME NEW r \in Slots, IInv, Commit(r)
    PROVE  IInv'
<1> DEFINE i == req[r].id
           k == req[r].kind
<1>1. /\ At(r, "commit") /\ TypeOK /\ Good(r)
      /\ rows' = [j \in Ids |-> Written(r, j)]
      /\ holder' = [j \in Ids |-> IF holder[j] = r THEN NoSlot ELSE holder[j]]
      /\ UNCHANGED <<active, made, begun, told, dropped, broken>>
    BY DEF Commit, IInv, AllGood
<1>2. req[r] \in Request /\ k \in {"create", "delete", "list"}
    BY <1>1 DEF TypeOK, Good, At, Request
<1>3. /\ k = "create" => /\ req[r].status \in Outcomes /\ told[i] = req[r].status
                         /\ rows[i] = NoRow /\ i \notin dropped
      /\ k = "delete" => holder[i] = r /\ i \in dropped
      /\ k # "list" => i \in Ids /\ i \in 1 .. made
      /\ \A j \in Ids : holder[j] = r => k = "delete" /\ j = i
      /\ req[r].user \in Users
    BY <1>1, <1>2, GatewayAssumption
    DEF Good, CreateGood, DeleteGood, Creating, Holding, At, TypeOK, Ids
<1>4. /\ k = "create" => rows'[i] = [owner |-> req[r].user, status |-> req[r].status]
      /\ k = "delete" => rows'[i] = NoRow
      /\ \A j \in Ids : k = "list" \/ j # i => rows'[j] = rows[j]
    BY <1>1, <1>2, <1>3 DEF Written
<1>5. k = "create" => /\ rows'[i] \in Prediction /\ rows'[i] # NoRow
                      /\ rows'[i].status = req[r].status
    BY <1>3, <1>4, GatewayAssumption DEF Prediction
<1>6. rows' \in [Ids -> Prediction \cup {NoRow}]
  <2>1. \A j \in Ids : rows'[j] \in Prediction \cup {NoRow}
      BY <1>1, <1>2, <1>4, <1>5 DEF TypeOK
  <2> QED
      BY <1>1, <2>1
<1>7. \A j \in Ids : /\ holder'[j] # r
                     /\ \A q \in Slots \ {r} : holder'[j] = q <=> holder[j] = q
    BY <1>1, GatewayAssumption DEF TypeOK
<1>8. /\ req'[r] = Idle /\ Idle.kind = "none" /\ Idle.pc = "idle" /\ Idle \in Request
      /\ req' \in [Slots -> Request]
      /\ \A q \in Slots \ {r} :
             /\ req'[q].kind = req[q].kind /\ req'[q].pc = req[q].pc
             /\ req'[q].user = req[q].user /\ req'[q].id = req[q].id
             /\ req'[q].status = req[q].status /\ (req'[q].vetted <=> req[q].vetted)
  <2>1. req' = [q \in Slots |->
           IF q = r THEN Idle
           ELSE [req[q] EXCEPT !.passed =
                    @ \/ (At(q, "count") /\ req[r].kind = "delete"
                                          /\ req[q].user = req[r].user)]]
      BY DEF Commit
  <2>2. \A q \in Slots \ {r} :
             \E b \in BOOLEAN : req'[q] = [req[q] EXCEPT !.passed = b]
    <3> SUFFICES ASSUME NEW q \in Slots \ {r}
                 PROVE  \E b \in BOOLEAN : req'[q] = [req[q] EXCEPT !.passed = b]
        OBVIOUS
    <3> DEFINE b == req[q].passed \/ (At(q, "count") /\ req[r].kind = "delete"
                                          /\ req[q].user = req[r].user)
    <3>1. b \in BOOLEAN
        OBVIOUS
    <3>2. req'[q] = [req[q] EXCEPT !.passed = b]
        BY <2>1
    <3> HIDE DEF b
    <3> QED
        BY <3>1, <3>2
  <2>3. \A q \in Slots \ {r} : req[q] \in Request
      BY <1>1 DEF TypeOK
  <2>4. \A q \in Slots \ {r} :
             /\ req'[q] \in Request
             /\ req'[q].kind = req[q].kind /\ req'[q].pc = req[q].pc
             /\ req'[q].user = req[q].user /\ req'[q].id = req[q].id
             /\ req'[q].status = req[q].status
    <3> SUFFICES ASSUME NEW q \in Slots \ {r}
                 PROVE  /\ req'[q] \in Request
                        /\ req'[q].kind = req[q].kind /\ req'[q].pc = req[q].pc
                        /\ req'[q].user = req[q].user /\ req'[q].id = req[q].id
                        /\ req'[q].status = req[q].status
        OBVIOUS
    <3>1. PICK b \in BOOLEAN : req'[q] = [req[q] EXCEPT !.passed = b]
        BY <2>2
    <3> QED
        BY <2>3, <3>1 DEF Request
  <2>5. \A q \in Slots \ {r} : req'[q].vetted = req[q].vetted
      BY <2>2, <2>3 DEF Request
  <2>6. req'[r] = Idle /\ Idle.kind = "none" /\ Idle.pc = "idle"
      BY <2>1 DEF Idle
  <2>7. req' \in [Slots -> Request]
      BY <2>1, <2>4, <2>6, IdleType
  <2> QED
      BY <2>4, <2>5, <2>6, <2>7, IdleType
<1>9. TypeOK'
  <2>1. holder' \in [Ids -> Slots \cup {NoSlot}]
      BY <1>1 DEF TypeOK
  <2> QED
      BY <1>1, <1>6, <1>8, <2>1 DEF TypeOK
<1>10. \A q \in Slots \ {r} :
           /\ Creating(req[q]) => rows'[req[q].id] = rows[req[q].id]
           /\ req[q].kind = "delete" /\ req[q].pc \in {"answer", "commit"} =>
                  rows'[req[q].id] # NoRow
  <2> SUFFICES ASSUME NEW q \in Slots \ {r}
               PROVE  /\ Creating(req[q]) => rows'[req[q].id] = rows[req[q].id]
                      /\ req[q].kind = "delete" /\ req[q].pc \in {"answer", "commit"} =>
                             rows'[req[q].id] # NoRow
      OBVIOUS
  <2>1. /\ Creating(req[q]) => req[q].id \in Ids
        /\ req[q].kind = "delete" => req[q].id \in Ids
        /\ req[q].kind = "delete" /\ req[q].pc \in {"answer", "commit"} =>
               rows[req[q].id] # NoRow
      BY <1>1, GatewayAssumption
      DEF IInv, AllGood, Good, CreateGood, DeleteGood, Creating, TypeOK, Ids
  <2>2. Creating(req[q]) /\ k # "list" => req[q].id # i
    <3>1. CASE k = "create"
        BY <1>1, <3>1 DEF IInv, Apart, Creating, At
    <3>2. CASE k = "delete"
        BY <1>1, <3>2, OneAtWork DEF At
    <3> QED
        BY <1>2, <3>1, <3>2
  <2>3. req[q].kind = "delete" /\ req[q].pc \in {"answer", "commit"} /\ k = "delete"
            => req[q].id # i
      BY <1>1, OneAtWork DEF At
  <2> QED
      BY <1>2, <1>4, <1>5, <2>1, <2>2, <2>3
<1>11. AllGood'
  <2> SUFFICES ASSUME NEW q \in Slots PROVE Good(q)'
      BY DEF AllGood
  <2>1. CASE q = r
      BY <1>7, <1>8, <2>1 DEF Good, CreateGood, DeleteGood, ListGood, Holding, Creating
  <2>2. CASE q # r
    <3>1. Good(q)
        BY DEF IInv, AllGood
    <3>2. CreateGood(req[q])'
        BY <1>1, <1>8, <1>10, <2>2, <3>1 DEF Good, CreateGood, Creating
    <3>3. DeleteGood(q)'
      <4>1. req[q].kind = "delete" => req[q].id \in Ids
          BY <1>1, <3>1, GatewayAssumption DEF Good, DeleteGood, TypeOK, Ids
      <4> QED
          BY <1>1, <1>7, <1>8, <1>10, <2>2, <3>1, <4>1 DEF Good, DeleteGood
    <3>4. ListGood(req[q])' /\ Holding(q)'
        BY <1>7, <1>8, <2>2, <3>1 DEF Good, ListGood, Holding
    <3> QED
        BY <1>8, <2>2, <3>1, <3>2, <3>3, <3>4 DEF Good, CreateGood, Creating
  <2> QED
      BY <2>1, <2>2
<1>12. Apart'
    BY <1>8 DEF IInv, Apart, Creating
<1>13. Unmade'
    BY <1>1, <1>2, <1>3, <1>4 DEF IInv, Unmade, TypeOK, Ids
<1>14. Reserved'
  <2>1. Ordering' \subseteq Ordering
      BY <1>8 DEF Ordering
  <2> QED
      BY <1>1, <2>1, FewerOrdering DEF IInv
<1>15. AnswersAreKept'
  <2> SUFFICES ASSUME NEW j \in Ids \ broken
               PROVE  /\ told[j] # "none" /\ j \notin dropped =>
                             \/ rows'[j] # NoRow /\ rows'[j].status = told[j]
                             \/ Committing(j, "create")'
                      /\ j \in dropped => rows'[j] = NoRow \/ Committing(j, "delete")'
      BY <1>1 DEF AnswersAreKept
  <2>1. CASE k # "list" /\ j = i
      BY <1>2, <1>3, <1>4, <1>5, <2>1
  <2>2. CASE k = "list" \/ j # i
    <3>1. \A c \in {"create", "delete"} : Committing(j, c) => Committing(j, c)'
        BY <1>8, <2>2 DEF Committing, At
    <3> QED
        BY <1>4, <2>2, <3>1 DEF IInv, AnswersAreKept
  <2> QED
      BY <2>1, <2>2
<1> QED
    BY <1>9, <1>11, <1>12, <1>13, <1>14, <1>15 DEF IInv

LEMMA SetActiveKeeps ==
    ASSUME NEW u \in Users, IInv, SetActive(u)
    PROVE  IInv'
<1>1. /\ active' = [active EXCEPT ![u] = ~active[u]] /\ TypeOK
      /\ UNCHANGED <<rows, holder, made, begun, told, dropped, broken>>
    BY DEF SetActive, IInv
<1>2. \A r \in Slots :
         \E b \in BOOLEAN :
             /\ req'[r] = [req[r] EXCEPT !.vetted = b]
             /\ req[r].vetted => b
             /\ At(r, "verify") /\ req[r].user = u /\ ~active[u] => b
  <2> SUFFICES ASSUME NEW r \in Slots
               PROVE  \E b \in BOOLEAN :
                          /\ req'[r] = [req[r] EXCEPT !.vetted = b]
                          /\ req[r].vetted => b
                          /\ At(r, "verify") /\ req[r].user = u /\ ~active[u] => b
      OBVIOUS
  <2> DEFINE b == req[r].vetted \/ (At(r, "verify") /\ req[r].user = u /\ ~active[u])
  <2>1. req'[r] = [req[r] EXCEPT !.vetted = b]
      BY DEF SetActive
  <2> QED
      BY <2>1
<1>3. /\ \A r \in Slots :
             /\ req'[r] \in Request
             /\ req'[r].kind = req[r].kind /\ req'[r].pc = req[r].pc
             /\ req'[r].user = req[r].user /\ req'[r].id = req[r].id
             /\ req'[r].status = req[r].status
      /\ req' \in [Slots -> Request]
  <2>1. \A r \in Slots : req[r] \in Request
      BY <1>1 DEF TypeOK
  <2>2. \A r \in Slots :
             /\ req'[r] \in Request
             /\ req'[r].kind = req[r].kind /\ req'[r].pc = req[r].pc
             /\ req'[r].user = req[r].user /\ req'[r].id = req[r].id
             /\ req'[r].status = req[r].status
    <3> SUFFICES ASSUME NEW r \in Slots
                 PROVE  /\ req'[r] \in Request
                        /\ req'[r].kind = req[r].kind /\ req'[r].pc = req[r].pc
                        /\ req'[r].user = req[r].user /\ req'[r].id = req[r].id
                        /\ req'[r].status = req[r].status
        OBVIOUS
    <3>1. PICK b \in BOOLEAN : req'[r] = [req[r] EXCEPT !.vetted = b]
        BY <1>2
    <3> QED
        BY <2>1, <3>1 DEF Request
  <2>3. \E F : req' = [r \in Slots |-> F[r]]
    <3> DEFINE G == [r \in Slots |-> [req[r] EXCEPT !.vetted =
                   @ \/ (At(r, "verify") /\ req[r].user = u /\ ~active[u])]]
    <3>1. req' = [r \in Slots |-> G[r]]
        BY DEF SetActive
    <3> QED
        BY <3>1
  <2> QED
      BY <2>2, <2>3
<1>4. \A r \in Slots : /\ req[r].vetted => req'[r].vetted
                       /\ At(r, "verify") /\ req[r].user = u /\ ~active[u]
                              => req'[r].vetted
  <2> SUFFICES ASSUME NEW r \in Slots
               PROVE  /\ req[r].vetted => req'[r].vetted
                      /\ At(r, "verify") /\ req[r].user = u /\ ~active[u]
                             => req'[r].vetted
      OBVIOUS
  <2>1. PICK b \in BOOLEAN :
             /\ req'[r] = [req[r] EXCEPT !.vetted = b]
             /\ req[r].vetted => b
             /\ At(r, "verify") /\ req[r].user = u /\ ~active[u] => b
      BY <1>2
  <2>2. req[r] \in Request
      BY <1>1 DEF TypeOK
  <2>3. req'[r].vetted = b
      BY <2>1, <2>2 DEF Request
  <2> QED
      BY <2>1, <2>3
<1>5. TypeOK'
    BY <1>1, <1>3 DEF TypeOK
<1>6. AllGood'
  <2> SUFFICES ASSUME NEW r \in Slots PROVE Good(r)'
      BY DEF AllGood
  <2>1. Good(r)
      BY DEF IInv, AllGood
  <2>2. req[r].kind = "create" /\ req[r].pc = "verify" /\ active'[req[r].user]
            => req'[r].vetted
    <3>1. CASE req[r].user = u
        BY <1>1, <1>4, <2>1, <3>1 DEF Good, CreateGood, TypeOK, At
    <3>2. CASE req[r].user # u
        BY <1>1, <1>4, <2>1, <3>2 DEF Good, CreateGood, TypeOK, At
    <3> QED
        BY <3>1, <3>2
  <2>3. CreateGood(req[r])'
      BY <1>1, <1>3, <1>4, <2>1, <2>2 DEF Good, CreateGood, Creating
  <2>4. DeleteGood(r)' /\ ListGood(req[r])' /\ Holding(r)'
      BY <1>1, <1>3, <2>1 DEF Good, DeleteGood, ListGood, Holding
  <2> QED
      BY <1>3, <2>1, <2>3, <2>4 DEF Good, CreateGood, Creating
<1>7. Apart' /\ Unmade'
    BY <1>1, <1>3 DEF IInv, Apart, Unmade, Creating
<1>8. Reserved'
  <2>1. Ordering' \subseteq Ordering
      BY <1>3 DEF Ordering
  <2> QED
      BY <1>1, <2>1, FewerOrdering DEF IInv
<1>9. AnswersAreKept'
  <2>1. \A j \in Ids : \A c : Committing(j, c) => Committing(j, c)'
      BY <1>3 DEF Committing, At
  <2> QED
      BY <1>1, <2>1 DEF IInv, AnswersAreKept
<1> QED
    BY <1>5, <1>6, <1>7, <1>8, <1>9 DEF IInv

-----------------------------------------------------------------------------
(* The theorems.                                                           *)

LEMMA InitHolds == Init => IInv
<1> SUFFICES ASSUME Init PROVE IInv
    OBVIOUS
<1> USE GatewayAssumption
<1>1. /\ \A r \in Slots : req[r] = Idle
      /\ Idle.kind = "none" /\ Idle.pc = "idle"
    BY DEF Init, Idle
<1>2. TypeOK
    BY IdleType DEF Init, TypeOK
<1>3. AllGood
    BY <1>1 DEF Init, AllGood, Good, CreateGood, DeleteGood, ListGood, Holding, Creating
<1>4. Apart /\ Unmade /\ AnswersAreKept
    BY <1>1 DEF Init, Apart, Unmade, AnswersAreKept, Creating
<1>5. Reserved
  <2>1. Ordering = {}
      BY <1>1 DEF Ordering
  <2> QED
      BY <2>1, FS_EmptySet DEF Reserved, Init
<1> QED
    BY <1>2, <1>3, <1>4, <1>5 DEF IInv

LEMMA NextKeeps == IInv /\ [Next]_vars => IInv'
<1> SUFFICES ASSUME IInv, [Next]_vars PROVE IInv'
    OBVIOUS
<1>1. CASE UNCHANGED vars
  <2>1. Ordering' = Ordering
      BY <1>1 DEF vars, Ordering
  <2> QED
      BY <1>1, <2>1 DEF vars, IInv, TypeOK, AllGood, Good, CreateGood, DeleteGood, ListGood,
                        Holding, Creating, Apart, Unmade, Reserved, AnswersAreKept,
                        Committing, At
<1>2. ASSUME NEW r \in Slots, Begin(r) PROVE IInv'
    BY <1>2, BeginKeeps
<1>3. ASSUME NEW r \in Slots, Verify(r) \/ VerifyTimesOut(r) PROVE IInv'
    BY <1>3, VerifyKeeps, RefuseKeeps DEF Verify, VerifyTimesOut
<1>4. ASSUME NEW r \in Slots, Forecast(r) \/ Insert(r) PROVE IInv'
    BY <1>4, ForecastKeeps, InsertKeeps
<1>5. ASSUME NEW r \in Slots, ReadPage(r) \/ Count(r) PROVE IInv'
    BY <1>5, ListKeeps
<1>6. ASSUME NEW r \in Slots, Delete(r) PROVE IInv'
    BY <1>6, DeleteKeeps, RefuseKeeps DEF Delete
<1>7. ASSUME NEW r \in Slots, Answer(r) \/ Commit(r) PROVE IInv'
    BY <1>7, AnswerKeeps, CommitKeeps
<1>8. ASSUME NEW r \in Slots, Fail(r) PROVE IInv'
    BY <1>8, RefuseKeeps DEF Fail
<1>9. ASSUME NEW u \in Users, SetActive(u) PROVE IInv'
    BY <1>9, SetActiveKeeps
<1> QED
    BY <1>1, <1>2, <1>3, <1>4, <1>5, <1>6, <1>7, <1>8, <1>9 DEF Next

\* What a prediction, its lock and the answers about it have to do with the
\* one request that is at work on it.
THEOREM Invariant == Spec => []IInv
BY InitHolds, NextKeeps, PTL DEF Spec

\* Every request keeps its type: get_user is asked at most MaxAttempts times,
\* and every prediction has a number of its own.
THEOREM TypeCorrect == Spec => []TypeOK
<1>1. IInv => TypeOK
    BY DEF IInv
<1> QED
    BY <1>1, Invariant, PTL

\* What main-backend answered about a prediction is so once the late commit
\* is through.
THEOREM AnswersHold == Spec => []AnswersAreKept
<1>1. IInv => AnswersAreKept
    BY DEF IInv
<1> QED
    BY <1>1, Invariant, PTL

\* Nobody is served who was not active at some time since he asked.
THEOREM ServedOnceVetted == Spec => []OnlyVettedAreServed
<1>1. IInv => OnlyVettedAreServed
    BY DEF IInv, AllGood, Good, CreateGood, OnlyVettedAreServed
<1> QED
    BY <1>1, Invariant, PTL

\* Of two DELETEs of one prediction one is told it is gone.
THEOREM DeletedForOne == Spec => DeletedOnce
<1>1. ASSUME IInv, [Next]_vars
      PROVE  [\A r \in Slots :
                 At(r, "answer") /\ req[r].kind = "delete" /\ req'[r].pc = "commit"
                     => req[r].id \notin dropped \ broken]_vars
  <2> SUFFICES ASSUME NEW r \in Slots, At(r, "answer"), req[r].kind = "delete",
                      req[r].id \in dropped \ broken
               PROVE  FALSE
      OBVIOUS
  <2>1. rows[req[r].id] # NoRow /\ req[r].id \in Ids
      BY <1>1 DEF IInv, AllGood, Good, DeleteGood, At, TypeOK
  <2>2. PICK q \in Slots : At(q, "commit") /\ req[q].kind = "delete"
                                           /\ req[q].id = req[r].id
      BY <1>1, <2>1 DEF IInv, AnswersAreKept, Committing
  <2> QED
      BY <1>1, <2>2, OneAtWork DEF At
<1> QED
    BY <1>1, Invariant, PTL DEF Spec, DeletedOnce

-----------------------------------------------------------------------------
(* The page and the total of a history.                                    *)

\* Of a page of numbers one is the newest.
LEMMA Newest ==
    ASSUME NEW S, S \subseteq Ids, S # {}
    PROVE  \E m \in S : \A k \in S : k <= m
<1> DEFINE R == OpToRel(<, Nat)
           T == {MaxRequests - i : i \in S}
<1>1. IsWellFoundedOn(R, Nat)
    BY NatLessThanWellFounded
<1>2. T \subseteq Nat /\ T # {}
  <2>1. \A k \in S : k \in Nat /\ MaxRequests - k \in Nat
      BY GatewayAssumption DEF Ids
  <2>2. PICK k \in S : TRUE
      OBVIOUS
  <2>3. MaxRequests - k \in T
      OBVIOUS
  <2> QED
      BY <2>1, <2>3
<1> HIDE DEF R, T
<1>3. PICK x \in T : \A y \in T : ~(<<y, x>> \in R)
    BY <1>1, <1>2, WFMin
<1>4. \A y \in T : y < x => <<y, x>> \in R
    BY <1>2 DEF OpToRel, R
<1>5. \A y \in T : ~(y < x)
    BY <1>3, <1>4
<1>6. PICK m \in S : x = MaxRequests - m
    BY DEF T
<1>7. \A k \in S : MaxRequests - k \in T
    BY DEF T
<1>8. \A k \in S : ~(MaxRequests - k < MaxRequests - m)
    BY <1>5, <1>6, <1>7
<1> QED
    BY <1>6, <1>8, GatewayAssumption DEF Ids

\* The rows on a page and those before it are rows of the user.
LEMMA PageIsOwned ==
    ASSUME NEW u, NEW limit \in Nat, NEW offset \in Nat, PageOf(u, limit, offset) # {}
    PROVE  offset + Cardinality(PageOf(u, limit, offset)) <= Cardinality(Own(u))
<1> DEFINE P == PageOf(u, limit, offset)
<1>1. P \subseteq Own(u) /\ P # {} /\ Own(u) \subseteq Ids
    BY DEF PageOf, Own
<1>2. PICK m \in P : \A k \in P : k <= m
    BY <1>1, Newest
<1> DEFINE N == {j \in Own(u) : j > m}
<1>3. Cardinality(N) >= offset
    BY DEF PageOf, Newer
<1>4. IsFiniteSet(Ids)
    BY FS_Interval, GatewayAssumption DEF Ids
<1>5. IsFiniteSet(P) /\ IsFiniteSet(N) /\ IsFiniteSet(Own(u))
    BY <1>1, <1>4, FS_Subset
<1>6. N \cap P = {} /\ N \cup P \subseteq Own(u)
    BY <1>1, <1>2, GatewayAssumption DEF Ids
<1> HIDE DEF P, N
<1>7. /\ Cardinality(N \cup P) = Cardinality(N) + Cardinality(P) - Cardinality(N \cap P)
      /\ Cardinality(N \cup P) <= Cardinality(Own(u))
    BY <1>5, <1>6, FS_Union, FS_Subset
<1>8. Cardinality(N \cap P) = 0
    BY <1>6, FS_EmptySet
<1>9. /\ Cardinality(N) \in Nat /\ Cardinality(P) \in Nat
      /\ Cardinality(Own(u)) \in Nat /\ Cardinality(N \cup P) \in Nat
    BY <1>5, <1>6, FS_Subset, FS_CardinalityType
<1>10. offset + Cardinality(P) <= Cardinality(Own(u))
    BY <1>3, <1>7, <1>8, <1>9
<1> QED
    BY <1>10 DEF P

\* The user owns as much as was read of him, until something of it is deleted.
Counts(r) ==
    req[r].kind = "list" /\ ~req[r].passed /\ req[r].page # {} =>
        /\ req[r].pc = "count" =>
              req[r].offset + Cardinality(req[r].page) <= Cardinality(Own(req[r].user))
        /\ req[r].pc = "answer" =>
              req[r].offset + Cardinality(req[r].page) <= req[r].total

OwnsTheDeleted(r) ==
    req[r].kind = "delete" /\ req[r].pc \in {"answer", "commit"} =>
        rows[req[r].id].owner = req[r].user

CountInv == \A r \in Slots : Counts(r) /\ OwnsTheDeleted(r)

\* Where no row changes, only the request that moves has something to show.
LEMMA QuietCounts ==
    ASSUME CountInv, NEW r \in Slots, \A q \in Slots \ {r} : req'[q] = req[q],
           rows' = rows, Counts(r)', OwnsTheDeleted(r)'
    PROVE  CountInv'
BY DEF CountInv, Counts, OwnsTheDeleted, Own

\* A request that is idle, or an order, has nothing to show.
LEMMA OthersCount ==
    ASSUME NEW r \in Slots,
           req'[r].kind \notin {"list", "delete"} \/ req'[r].pc \in {"page", "delete"}
    PROVE  Counts(r)' /\ OwnsTheDeleted(r)'
BY DEF Counts, OwnsTheDeleted

LEMMA RefuseCounts ==
    ASSUME TypeOK, CountInv, NEW r \in Slots, Refuse(r) PROVE CountInv'
<1>1. rows' = rows /\ (\A q \in Slots \ {r} : req'[q] = req[q]) /\ req'[r] = Idle
    BY DEF Refuse, TypeOK
<1>2. Counts(r)' /\ OwnsTheDeleted(r)'
    BY <1>1, OthersCount DEF Idle
<1> QED
    BY <1>1, <1>2, QuietCounts

\* A row that comes makes nobody own less, and one that goes is the user's.
LEMMA CommitCounts ==
    ASSUME IInv, CountInv, NEW r \in Slots, Commit(r) PROVE CountInv'
<1> DEFINE i == req[r].id
           k == req[r].kind
<1>1. /\ At(r, "commit") /\ TypeOK /\ Good(r)
      /\ rows' = [j \in Ids |-> Written(r, j)]
    BY DEF Commit, IInv, AllGood
<1>2. k \in {"create", "delete", "list"} /\ req[r] \in Request
    BY <1>1 DEF TypeOK, Good, At, Request
<1>3. /\ k = "create" => rows[i] = NoRow
      /\ k = "delete" => rows[i].owner = req[r].user
      /\ \A j \in Ids : holder[j] = r => k = "delete" /\ j = i
    BY <1>1, <1>2 DEF Good, CreateGood, Creating, Holding, At, CountInv, OwnsTheDeleted
<1>4. \A j \in Ids : \/ rows'[j] = rows[j]
                     \/ k = "create" /\ j = i
                     \/ k = "delete" /\ j = i
    BY <1>1, <1>2, <1>3 DEF Written
<1>5. /\ req'[r] = Idle
      /\ \A q \in Slots \ {r} : req'[q] = [req[q] EXCEPT !.passed =
                @ \/ (At(q, "count") /\ req[r].kind = "delete"
                                     /\ req[q].user = req[r].user)]
    BY DEF Commit
<1>6. ASSUME NEW q \in Slots \ {r} PROVE Counts(q)' /\ OwnsTheDeleted(q)'
  <2>1. /\ req'[q].kind = req[q].kind /\ req'[q].pc = req[q].pc
        /\ req'[q].user = req[q].user /\ req'[q].id = req[q].id
        /\ req'[q].page = req[q].page /\ req'[q].offset = req[q].offset
        /\ req'[q].total = req[q].total
        /\ ~req'[q].passed => ~req[q].passed
        /\ ~req'[q].passed /\ req[q].pc = "count" => ~(k = "delete" /\ req[q].user = req[r].user)
        /\ req[q] \in Request
    <3>1. req[q] \in Request
        BY <1>1 DEF TypeOK
    <3>2. /\ req'[q].kind = req[q].kind /\ req'[q].pc = req[q].pc
          /\ req'[q].user = req[q].user /\ req'[q].id = req[q].id
          /\ req'[q].page = req[q].page /\ req'[q].offset = req[q].offset
          /\ req'[q].total = req[q].total
        BY <1>5, <3>1 DEF Request
    <3>3. req'[q].passed = (req[q].passed \/ (At(q, "count") /\ req[r].kind = "delete"
                                             /\ req[q].user = req[r].user))
        BY <1>5, <3>1 DEF Request
    <3> QED
        BY <3>1, <3>2, <3>3, Zenon DEF At
  <2>2. OwnsTheDeleted(q)'
    <3>1. Good(q)
        BY DEF IInv, AllGood
    <3> SUFFICES ASSUME req[q].kind = "delete", req[q].pc \in {"answer", "commit"}
                 PROVE  rows'[req[q].id].owner = req[q].user
        BY <2>1 DEF OwnsTheDeleted
    <3>2. /\ req[q].id \in Ids /\ holder[req[q].id] = q /\ rows[req[q].id] # NoRow
          /\ rows[req[q].id].owner = req[q].user
        BY <3>1, GatewayAssumption
        DEF Good, DeleteGood, CountInv, OwnsTheDeleted, Ids, IInv, TypeOK
    <3>3. k = "delete" => holder[i] = r
        BY <1>1 DEF Good, DeleteGood, At
    <3> QED
        BY <1>3, <1>4, <3>2, <3>3
  <2>3. ASSUME req[q].kind = "list", ~req'[q].passed, req[q].page # {}, req[q].pc = "count"
        PROVE  Own(req[q].user) \subseteq Own(req[q].user)'
    <3> SUFFICES ASSUME NEW j \in Own(req[q].user) PROVE j \in Own(req[q].user)'
        OBVIOUS
    <3>1. j \in Ids /\ rows[j] # NoRow /\ rows[j].owner = req[q].user
        BY DEF Own
    <3>2. rows'[j] = rows[j]
        BY <1>3, <1>4, <2>1, <2>3, <3>1
    <3> QED
        BY <2>1, <3>1, <3>2 DEF Own
  <2>4. Counts(q)'
    <3>1. Counts(q)
        BY DEF CountInv
    <3>2. ASSUME req[q].kind = "list", ~req'[q].passed, req[q].page # {}, req[q].pc = "count"
          PROVE  req[q].offset + Cardinality(req[q].page) <= Cardinality(Own(req[q].user)')
      <4>1. IsFiniteSet(Ids) /\ Own(req[q].user)' \subseteq Ids /\ Own(req[q].user) \subseteq Ids
          BY FS_Interval, GatewayAssumption DEF Ids, Own
      <4>2. /\ Cardinality(Own(req[q].user)) <= Cardinality(Own(req[q].user)')
            /\ Cardinality(Own(req[q].user)) \in Nat /\ Cardinality(Own(req[q].user)') \in Nat
          BY <2>3, <3>2, <4>1, FS_Subset, FS_CardinalityType
      <4>3. Cardinality(req[q].page) \in Nat /\ req[q].offset \in Nat
          BY <2>1, <4>1, FS_Subset, FS_CardinalityType, GatewayAssumption DEF Request
      <4>4. req[q].offset + Cardinality(req[q].page) <= Cardinality(Own(req[q].user))
          BY <2>1, <3>1, <3>2 DEF Counts
      <4> QED
          BY <4>2, <4>3, <4>4
    <3> QED
        BY <2>1, <3>1, <3>2 DEF Counts
  <2> QED
      BY <2>2, <2>4
<1>7. Counts(r)' /\ OwnsTheDeleted(r)'
    BY <1>5, OthersCount DEF Idle
<1> QED
    BY <1>6, <1>7 DEF CountInv

LEMMA NextCounts == IInv /\ CountInv /\ [Next]_vars => CountInv'
<1> SUFFICES ASSUME IInv, CountInv, [Next]_vars PROVE CountInv'
    OBVIOUS
<1>1. TypeOK /\ \A r \in Slots : req[r] \in Request /\ Good(r)
    BY DEF IInv, TypeOK, AllGood
<1>2. CASE UNCHANGED vars
    BY <1>2 DEF vars, CountInv, Counts, OwnsTheDeleted, Own
<1>3. ASSUME NEW r \in Slots, Begin(r) PROVE CountInv'
  <2>1. PICK p : Opened(p) /\ req' = [req EXCEPT ![r] = p]
      BY <1>1, <1>3, BeginOpens
  <2>2. /\ rows' = rows /\ req'[r] = p /\ \A q \in Slots \ {r} : req'[q] = req[q]
      BY <1>1, <1>3, <2>1 DEF Begin, TypeOK
  <2>3. p.kind \notin {"list", "delete"} \/ p.pc \in {"page", "delete"}
      BY <2>1 DEF Opened
  <2> QED
      BY <2>2, <2>3, OthersCount, QuietCounts
<1>4. ASSUME NEW r \in Slots, req[r].pc \in {"verify", "forecast", "insert"}, rows' = rows,
             \A q \in Slots \ {r} : req'[q] = req[q], req'[r].kind = req[r].kind
      PROVE  CountInv'
  <2>1. req[r].kind = "create"
      BY <1>1, <1>4 DEF Good, CreateGood, DeleteGood, ListGood, Request
  <2> QED
      BY <1>4, <2>1, OthersCount, QuietCounts
<1>5. ASSUME NEW r \in Slots, Verify(r) \/ VerifyTimesOut(r) PROVE CountInv'
  <2>1. CASE Refuse(r)
      BY <1>1, <2>1, RefuseCounts
  <2>2. CASE ~Refuse(r)
    <3>1. /\ req[r].pc = "verify" /\ rows' = rows
          /\ \/ req' = [req EXCEPT ![r].pc = "forecast"]
             \/ req' = [req EXCEPT ![r].attempts = @ + 1]
        BY <1>5, <2>2 DEF Verify, VerifyTimesOut, At, Step
    <3>2. (\A q \in Slots \ {r} : req'[q] = req[q]) /\ req'[r].kind = req[r].kind
        BY <1>1, <3>1 DEF TypeOK, Request
    <3> QED
        BY <1>4, <3>1, <3>2
  <2> QED
      BY <2>1, <2>2
<1>6. ASSUME NEW r \in Slots, Forecast(r) \/ Insert(r) PROVE CountInv'
  <2>1. req[r].pc \in {"forecast", "insert"} /\ rows' = rows
      BY <1>6 DEF Forecast, Insert, At
  <2>2. \/ req' = [req EXCEPT ![r].pc = "answer"]
        \/ \E s \in Outcomes : req' = [req EXCEPT ![r] =
               [req[r] EXCEPT !.status = s, !.id = made + 1, !.pc = "insert"]]
      BY <1>6 DEF Forecast, Insert, Step
  <2>3. (\A q \in Slots \ {r} : req'[q] = req[q]) /\ req'[r].kind = req[r].kind
    <3>1. ASSUME NEW p, req' = [req EXCEPT ![r] = p], p.kind = req[r].kind
          PROVE  (\A q \in Slots \ {r} : req'[q] = req[q]) /\ req'[r].kind = req[r].kind
        BY <1>1, <3>1 DEF TypeOK
    <3>2. [req[r] EXCEPT !.pc = "answer"].kind = req[r].kind
        BY <1>1 DEF Request
    <3>3. \A s \in Outcomes :
            [req[r] EXCEPT !.status = s, !.id = made + 1, !.pc = "insert"].kind = req[r].kind
        BY <1>1 DEF Request
    <3>4. CASE req' = [req EXCEPT ![r].pc = "answer"]
        BY <3>1, <3>2, <3>4
    <3>5. ASSUME NEW s \in Outcomes, req' = [req EXCEPT ![r] =
               [req[r] EXCEPT !.status = s, !.id = made + 1, !.pc = "insert"]]
          PROVE  (\A q \in Slots \ {r} : req'[q] = req[q]) /\ req'[r].kind = req[r].kind
      <4> DEFINE p == [req[r] EXCEPT !.status = s, !.id = made + 1, !.pc = "insert"]
      <4>1. p.kind = req[r].kind /\ req' = [req EXCEPT ![r] = p]
          BY <3>3, <3>5
      <4> HIDE DEF p
      <4> QED
          BY <3>1, <4>1
    <3> QED
        BY <2>2, <3>4, <3>5
  <2> QED
      BY <1>4, <2>1, <2>3
<1>7. ASSUME NEW r \in Slots, ReadPage(r) PROVE CountInv'
  <2>1. PICK limit \in 1 .. MaxLimit :
          req' = [req EXCEPT ![r].page = PageOf(req[r].user, limit, req[r].offset),
                             ![r].passed = FALSE, ![r].pc = "count"]
      BY <1>7 DEF ReadPage
  <2> DEFINE P == PageOf(req[r].user, limit, req[r].offset)
  <2>2. req' = [req EXCEPT ![r] = [req[r] EXCEPT !.page = P, !.passed = FALSE, !.pc = "count"]]
      BY <2>1
  <2>3. P # {} => req[r].offset + Cardinality(P) <= Cardinality(Own(req[r].user))
      BY <1>1, PageIsOwned, GatewayAssumption DEF Request
  <2> HIDE DEF P
  <2>4. /\ rows' = rows /\ \A q \in Slots \ {r} : req'[q] = req[q]
        /\ req'[r].kind = req[r].kind /\ req'[r].pc = "count" /\ req'[r].page = P
        /\ req'[r].offset = req[r].offset /\ req'[r].user = req[r].user
      BY <1>1, <1>7, <2>2 DEF ReadPage, TypeOK, Request
  <2>5. Counts(r)' /\ OwnsTheDeleted(r)'
      BY <2>3, <2>4 DEF Counts, OwnsTheDeleted, Own
  <2> QED
      BY <2>4, <2>5, QuietCounts
<1>8. ASSUME NEW r \in Slots, Count(r) PROVE CountInv'
  <2> DEFINE n == Cardinality(Own(req[r].user))
  <2>1. req' = [req EXCEPT ![r] = [req[r] EXCEPT !.total = n, !.pc = "answer"]]
      BY <1>8 DEF Count
  <2>2. Counts(r) /\ req[r].pc = "count"
      BY <1>8 DEF Count, At, CountInv
  <2>3. req[r].kind = "list" /\ ~req[r].passed /\ req[r].page # {} =>
          req[r].offset + Cardinality(req[r].page) <= n
      BY <2>2 DEF Counts
  <2> HIDE DEF n
  <2>4. /\ rows' = rows /\ \A q \in Slots \ {r} : req'[q] = req[q]
        /\ req'[r].kind = req[r].kind /\ req'[r].pc = "answer" /\ req'[r].page = req[r].page
        /\ req'[r].offset = req[r].offset /\ req'[r].total = n
        /\ req'[r].user = req[r].user
      BY <1>1, <1>8, <2>1 DEF Count, TypeOK, Request
  <2>5. req'[r].passed = req[r].passed
      BY <1>1, <2>1 DEF TypeOK, Request
  <2>6. req[r].kind # "delete"
      BY <1>1, <2>2 DEF Good, DeleteGood
  <2>7. Counts(r)' /\ OwnsTheDeleted(r)'
      BY <2>3, <2>4, <2>5, <2>6 DEF Counts, OwnsTheDeleted
  <2> QED
      BY <2>4, <2>7, QuietCounts
<1>9. ASSUME NEW r \in Slots, Delete(r) PROVE CountInv'
  <2>1. CASE Refuse(r)
      BY <1>1, <2>1, RefuseCounts
  <2>2. CASE ~Refuse(r)
    <3>1. /\ req[r].pc = "delete" /\ req[r].id \in Own(req[r].user) /\ rows' = rows
          /\ req' = [req EXCEPT ![r].pc = "answer"]
        BY <1>9, <2>2 DEF Delete, At, Step
    <3>2. /\ \A q \in Slots \ {r} : req'[q] = req[q]
          /\ req'[r].kind = req[r].kind /\ req'[r].user = req[r].user
          /\ req'[r].id = req[r].id
        BY <1>1, <3>1 DEF TypeOK, Request
    <3>3. req[r].kind = "delete" /\ rows[req[r].id].owner = req[r].user
        BY <1>1, <3>1 DEF Good, CreateGood, ListGood, Own, Request
    <3>4. Counts(r)' /\ OwnsTheDeleted(r)'
        BY <3>1, <3>2, <3>3 DEF Counts, OwnsTheDeleted
    <3> QED
        BY <3>1, <3>2, <3>4, QuietCounts
  <2> QED
      BY <2>1, <2>2
<1>10. ASSUME NEW r \in Slots, Answer(r) PROVE CountInv'
  <2>1. /\ rows' = rows /\ \A q \in Slots \ {r} : req'[q] = req[q]
        /\ req[r].pc = "answer" /\ req'[r].pc = "commit"
        /\ req'[r].kind = req[r].kind /\ req'[r].user = req[r].user
        /\ req'[r].id = req[r].id
      BY <1>1, <1>10 DEF Answer, At, Step, TypeOK, Request
  <2>2. Counts(r)' /\ OwnsTheDeleted(r)'
      BY <2>1 DEF CountInv, Counts, OwnsTheDeleted
  <2> QED
      BY <2>1, <2>2, QuietCounts
<1>11. ASSUME NEW u \in Users, SetActive(u) PROVE CountInv'
  <2>1. rows' = rows
      BY <1>11 DEF SetActive
  <2>2. ASSUME NEW r \in Slots
        PROVE  /\ req'[r].kind = req[r].kind /\ req'[r].pc = req[r].pc
               /\ req'[r].user = req[r].user /\ req'[r].id = req[r].id
               /\ req'[r].page = req[r].page /\ req'[r].offset = req[r].offset
               /\ req'[r].total = req[r].total /\ req'[r].passed = req[r].passed
      BY <1>1, <1>11 DEF SetActive, Request
  <2> QED
      BY <2>1, <2>2 DEF CountInv, Counts, OwnsTheDeleted, Own
<1>12. ASSUME NEW r \in Slots, Commit(r) \/ Fail(r) PROVE CountInv'
    BY <1>1, <1>12, CommitCounts, RefuseCounts DEF Fail
<1> QED
    BY <1>2, <1>3, <1>5, <1>6, <1>7, <1>8, <1>9, <1>10, <1>11, <1>12 DEF Next

\* However rows come and go between its two statements, a history never says that the
\* user has fewer predictions than it has shown, unless one was deleted in between.
THEOREM TotalsCountThePage == Spec => []TotalCountsThePage
<1>1. Init => CountInv
    BY DEF Init, Idle, CountInv, Counts, OwnsTheDeleted
<1>2. IInv /\ CountInv => TotalCountsThePage
  <2> SUFFICES ASSUME IInv, CountInv, NEW r \in Slots, req[r].kind = "list", At(r, "answer"),
                      req[r].page # {}, ~req[r].passed
               PROVE  req[r].total >= req[r].offset + Cardinality(req[r].page)
      BY DEF TotalCountsThePage
  <2>1. req[r].offset + Cardinality(req[r].page) <= req[r].total
      BY DEF CountInv, Counts, At
  <2>2. req[r] \in Request
      BY DEF IInv, TypeOK
  <2>3. IsFiniteSet(Ids)
      BY FS_Interval, GatewayAssumption DEF Ids
  <2>4. /\ Cardinality(req[r].page) \in Nat /\ req[r].offset \in Nat
        /\ req[r].total \in Nat
      BY <2>2, <2>3, FS_Subset, FS_CardinalityType, GatewayAssumption DEF Request
  <2> QED
      BY <2>1, <2>4
<1> QED
    BY <1>1, <1>2, NextCounts, Invariant, PTL DEF Spec

=============================================================================
