-------------------------- MODULE DetailQueueProofs --------------------------
(***************************************************************************)
(* The queue of flats keeps its promises for any flats, any number of      *)
(* sessions that overlap and any limits; and it is a work queue as long as *)
(* sessions take turns.                                                    *)
(***************************************************************************)
EXTENDS DetailQueue, FiniteSetTheorems, TLAPS

\* A session has a flat in hand exactly between SELECT and outcome.
InHand == \A s \in Slots :
    session[s].pc \in {"claiming", "fetching"} <=> session[s].flat # NoFlat

\* What was claimed has a time; what failed was claimed.
Stamped == \A u \in Flats :
    status[u] \in {"in_progress", "failed"} => last_attempt_at[u] # Never

\* A flat that a SELECT takes whatever its attempts has room for all sessions.
PendingBounded == \A u \in Flats :
    status[u] \in {"unlisted", "pending"} => attempts[u] < Allowance(returned[u])

IInv == TypeOK /\ InHand /\ Stamped /\ InProgressIsHeld /\ PendingBounded /\ EffortBounded

-----------------------------------------------------------------------------
(* Types.                                                                  *)

LEMMA NoSessionType == NoSession \in Session
BY DEF NoSession, Session, Places

LEMMA InitType == Init => TypeOK
BY QueueAssumption, NoSessionType DEF Init, TypeOK, Statuses

LEMMA SetBackType ==
    ASSUME TypeOK, NEW F, SetBack(F)
    PROVE  /\ status' \in [Flats -> Statuses]
           /\ attempts' \in [Flats -> Nat]
           /\ last_attempt_at' \in [Flats -> Nat \cup {Never}]
           /\ returned' \in [Flats -> Nat]
           /\ abandoned' \subseteq Flats
BY DEF TypeOK, SetBack, Statuses

LEMMA GotoType ==
    ASSUME TypeOK, NEW s \in Slots, NEW place \in Places, Goto(s, place)
    PROVE  session' \in [Slots -> Session]
BY DEF TypeOK, Goto, Session

LEMMA LeaveType ==
    ASSUME TypeOK, NEW s \in Slots, Leave(s)
    PROVE  session' \in [Slots -> Session]
BY NoSessionType DEF TypeOK, Leave

LEMMA RecordType ==
    ASSUME TypeOK, InHand, NEW s \in Slots, NEW outcome \in Statuses, Record(s, outcome)
    PROVE  /\ session[s].flat \in Flats
           /\ status' \in [Flats -> Statuses]
           /\ attempts' \in [Flats -> Nat]
           /\ abandoned' \subseteq Flats
<1>1. session[s].flat \in Flats
    BY DEF TypeOK, InHand, Record, Session
<1> QED
    BY <1>1 DEF TypeOK, Record

LEMMA NextFlatType ==
    ASSUME TypeOK, NEW s \in Slots, NextFlat(s)
    PROVE  session' \in [Slots -> Session]
BY DEF TypeOK, NextFlat, Session, Places

LEMMA WorkType ==
    ASSUME TypeOK, InHand, NEW s \in Slots, Work(s)
    PROVE  TypeOK'
<1>0. /\ now \in Nat /\ session[s] \in Session
      /\ session[s].processed + 1 \in Nat /\ session[s].captchas + 1 \in Nat
    BY DEF TypeOK, Session
<1>1. CASE ResetStale(s)
    BY <1>1, SetBackType, GotoType DEF ResetStale, TypeOK, clock, Places
<1>2. CASE CountLeft(s)
    BY <1>2, GotoType, LeaveType DEF CountLeft, TypeOK, clock, Places
<1>3. CASE \E u \in Flats : Select(s, u)
    <2>1. ASSUME NEW u \in Flats
          PROVE  [session[s] EXCEPT !.pc = "claiming", !.flat = u] \in Session
        BY <1>0 DEF Session, Places
    <2>2. session' \in [Slots -> Session]
        BY <1>3, <2>1 DEF Select, TypeOK
    <2> QED
        BY <1>3, <2>2 DEF Select, TypeOK, clock
<1>4. CASE Claim(s)
    <2>1. [session[s] EXCEPT !.pc = "fetching", !.processed = session[s].processed + 1] \in Session
        BY <1>0 DEF Session, Places
    <2>2. session' \in [Slots -> Session]
        BY <1>4, <2>1 DEF Claim, TypeOK
    <2>3. session[s].flat \in Flats
        BY <1>4 DEF Claim, TypeOK, InHand, Session
    <2> QED
        BY <1>4, <2>2, <2>3 DEF Claim, TypeOK, clock, Statuses
<1>5. CASE UpdateDetail(s)
    BY <1>5, RecordType, NextFlatType DEF UpdateDetail, Record, TypeOK, clock, Statuses
<1>6. CASE MarkFailed(s)
    BY <1>6, RecordType, NextFlatType DEF MarkFailed, Record, Stamp, TypeOK, clock, Statuses
<1>7. CASE MarkBlocked(s)
    <2>1. session' \in [Slots -> Session]
        <3>1. CASE Leave(s)
            BY <3>1, LeaveType
        <3>2. CASE session' = [session EXCEPT ![s] =
                      [@ EXCEPT !.pc = "looping", !.flat = NoFlat,
                                !.captchas = session[s].captchas + 1]]
            <4>1. [session[s] EXCEPT !.pc = "looping", !.flat = NoFlat,
                                     !.captchas = session[s].captchas + 1] \in Session
                BY <1>0 DEF Session, Places
            <4> QED
                BY <3>2, <4>1 DEF TypeOK
        <3> QED
            BY <1>7, <3>1, <3>2 DEF MarkBlocked
    <2> QED
        BY <1>7, <2>1, RecordType DEF MarkBlocked, Record, Stamp, TypeOK, clock, Statuses
<1>8. CASE EndSession(s)
    BY <1>8, LeaveType DEF EndSession, TypeOK, clock
<1> QED
    BY <1>1, <1>2, <1>3, <1>4, <1>5, <1>6, <1>7, <1>8 DEF Work

LEMMA StartType ==
    ASSUME TypeOK, NEW s \in Slots, NEW kind \in {"cian", "domclick"},
           NEW reset \in BOOLEAN, Start(s, kind, reset)
    PROVE  TypeOK'
<1>1. session' \in [Slots -> Session]
    BY NoSessionType DEF Start, TypeOK, Session, Places
<1> QED
    BY <1>1, SetBackType DEF Start, TypeOK, clock

LEMMA ListingType ==
    ASSUME TypeOK, NEW l \in Listers,
           \/ \E urls \in SUBSET Flats, u \in Flats : LookUp(l, urls, u)
           \/ SavePage(l)
    PROVE  TypeOK'
<1>1. CASE \E urls \in SUBSET Flats, u \in Flats : LookUp(l, urls, u)
    BY <1>1 DEF LookUp, TypeOK, clock, Page
<1>2. CASE SavePage(l)
    BY <1>2 DEF SavePage, TypeOK, clock, Statuses
<1> QED
    BY <1>1, <1>2

LEMMA NextType == TypeOK /\ InHand /\ [Next]_vars => TypeOK'
<1> SUFFICES ASSUME TypeOK, InHand, [Next]_vars PROVE TypeOK'
    OBVIOUS
<1>1. CASE \E l \in Listers, urls \in SUBSET Flats, u \in Flats : LookUp(l, urls, u)
    BY <1>1, ListingType
<1>2. CASE \E l \in Listers : SavePage(l)
    BY <1>2, ListingType
<1>3. CASE \E s \in Slots, kind \in {"cian", "domclick"}, reset \in BOOLEAN :
               Start(s, kind, reset)
    BY <1>3, StartType
<1>4. CASE \E s \in Slots : Work(s)
    BY <1>4, WorkType
<1>5. CASE \E s \in Slots : Interrupt(s)
    BY <1>5, LeaveType DEF Interrupt, TypeOK, clock
<1>6. CASE Tick
    BY <1>6 DEF Tick, TypeOK
<1>7. CASE UNCHANGED vars
    BY <1>7 DEF vars, TypeOK
<1> QED
    BY <1>1, <1>2, <1>3, <1>4, <1>5, <1>6, <1>7 DEF Next

-----------------------------------------------------------------------------
(* Sessions, times and claims.                                             *)

\* A step of one session leaves the others where they are.
LEMMA OthersStay ==
    ASSUME NEW s \in Slots, TypeOK,
           \/ Work(s) \/ Interrupt(s)
           \/ \E kind \in {"cian", "domclick"}, reset \in BOOLEAN : Start(s, kind, reset)
    PROVE  \A x \in Slots : x # s => session'[x] = session[x]
BY DEF TypeOK, Work, Interrupt, Start, ResetStale, CountLeft, Select, Claim, UpdateDetail,
       MarkFailed, MarkBlocked, EndSession, Goto, Leave, NextFlat

\* Where a step takes its own session.
LEMMA IMove ==
    ASSUME NEW s \in Slots, TypeOK, InHand
    PROVE  /\ \A kind \in {"cian", "domclick"}, reset \in BOOLEAN :
                  Start(s, kind, reset) =>
                      session'[s].pc \in {"resetting", "looping"} /\ session'[s].flat = NoFlat
           /\ ResetStale(s) => session'[s].pc = "counting" /\ session'[s].flat = NoFlat
           /\ CountLeft(s) => session'[s].pc \in {"looping", "idle"} /\ session'[s].flat = NoFlat
           /\ \A u \in Flats : Select(s, u) =>
                  session'[s].pc = "claiming" /\ session'[s].flat = u
           /\ Claim(s) => session'[s].pc = "fetching" /\ session'[s].flat = session[s].flat
           /\ UpdateDetail(s) \/ MarkFailed(s) =>
                  session'[s].pc = "looping" /\ session'[s].flat = NoFlat
           /\ MarkBlocked(s) => session'[s].pc \in {"looping", "idle"} /\ session'[s].flat = NoFlat
           /\ EndSession(s) \/ Interrupt(s) => session'[s].pc = "idle" /\ session'[s].flat = NoFlat
<1> session \in [Slots -> Session] /\ session[s] \in Session
    BY DEF TypeOK
<1>1. NoSession.pc = "idle" /\ NoSession.flat = NoFlat
    BY DEF NoSession
<1>2. \A place \in Places : Goto(s, place) =>
          session'[s].pc = place /\ session'[s].flat = session[s].flat
    BY DEF Goto, Session
<1>3. Leave(s) => session'[s].pc = "idle" /\ session'[s].flat = NoFlat
    BY <1>1 DEF Leave
<1>4. NextFlat(s) => session'[s].pc = "looping" /\ session'[s].flat = NoFlat
    BY DEF NextFlat, Session
<1>5. \A kind \in {"cian", "domclick"}, reset \in BOOLEAN :
          Start(s, kind, reset) =>
              session'[s].pc \in {"resetting", "looping"} /\ session'[s].flat = NoFlat
    BY DEF Start, NoSession
<1>6. ResetStale(s) => session'[s].pc = "counting" /\ session'[s].flat = NoFlat
    BY <1>2 DEF ResetStale, InHand, Places
<1>7. CountLeft(s) => session'[s].pc \in {"looping", "idle"} /\ session'[s].flat = NoFlat
    BY <1>2, <1>3 DEF CountLeft, InHand, Places
<1>8. \A u \in Flats : Select(s, u) => session'[s].pc = "claiming" /\ session'[s].flat = u
    BY DEF Select, Session
<1>9. Claim(s) => session'[s].pc = "fetching" /\ session'[s].flat = session[s].flat
    BY DEF Claim, Session
<1>10. MarkBlocked(s) => session'[s].pc \in {"looping", "idle"} /\ session'[s].flat = NoFlat
    BY <1>3 DEF MarkBlocked, Session
<1> QED
    BY <1>3, <1>4, <1>5, <1>6, <1>7, <1>8, <1>9, <1>10 DEF UpdateDetail, MarkFailed, EndSession,
       Interrupt

LEMMA InHandNext == TypeOK /\ InHand /\ [Next]_vars => InHand'
<1> SUFFICES ASSUME TypeOK, InHand, [Next]_vars PROVE InHand'
    OBVIOUS
<1>1. ASSUME NEW s \in Slots,
             \/ Work(s) \/ Interrupt(s)
             \/ \E kind \in {"cian", "domclick"}, reset \in BOOLEAN : Start(s, kind, reset)
      PROVE  InHand'
    <2>1. session'[s].pc \in {"claiming", "fetching"} <=> session'[s].flat # NoFlat
        <3>1. CASE \E u \in Flats : Select(s, u)
            BY <3>1, IMove, QueueAssumption
        <3>2. CASE Claim(s)
            BY <3>2, IMove DEF Claim, InHand
        <3> QED
            BY <1>1, <3>1, <3>2, IMove DEF Work
    <2>2. \A x \in Slots : x # s => session'[x] = session[x]
        BY <1>1, OthersStay
    <2> QED
        BY <2>1, <2>2 DEF InHand
<1>2. CASE UNCHANGED session
    BY <1>2 DEF InHand
<1> QED
    BY <1>1, <1>2 DEF Next, LookUp, SavePage, Tick, vars

LEMMA StampedNext == TypeOK /\ InHand /\ Stamped /\ [Next]_vars => Stamped'
<1> SUFFICES ASSUME TypeOK, InHand, Stamped, [Next]_vars PROVE Stamped'
    OBVIOUS
<1> now # Never
    BY QueueAssumption DEF TypeOK
<1>1. ASSUME NEW F, SetBack(F) PROVE Stamped'
    BY <1>1 DEF SetBack, Stamped, TypeOK
<1>2. ASSUME NEW s \in Slots, Work(s) PROVE Stamped'
    <2>1. CASE Claim(s)
        BY <2>1 DEF Claim, Stamped, TypeOK
    <2>2. CASE UpdateDetail(s)
        BY <2>2 DEF UpdateDetail, Record, Stamped, TypeOK
    <2>3. CASE MarkFailed(s)
        BY <2>3 DEF MarkFailed, Record, Stamp, Stamped, TypeOK
    <2>4. CASE MarkBlocked(s)
        BY <2>4 DEF MarkBlocked, Record, Stamp, Stamped, TypeOK
    <2> QED
        BY <1>1, <1>2, <2>1, <2>2, <2>3, <2>4
        DEF Work, ResetStale, CountLeft, Select, EndSession, Stamped
<1>3. ASSUME NEW l \in Listers, SavePage(l) PROVE Stamped'
    BY <1>3 DEF SavePage, Stamped, TypeOK
<1>4. CASE UNCHANGED <<status, last_attempt_at>>
    BY <1>4 DEF Stamped
<1> QED
    BY <1>1, <1>2, <1>3, <1>4 DEF Next, Start, LookUp, Interrupt, Tick, vars

\* A step of s takes nobody else's flat away, and its own only from "fetching".
LEMMA HoldersStay ==
    ASSUME NEW s \in Slots, NEW u \in Flats,
           \A x \in Slots : x # s => session'[x] = session[x],
           s \notin Holders(u) \/ s \in Holders(u)'
    PROVE  Holders(u) \subseteq Holders(u)'
BY DEF Holders, Engaged

LEMMA HeldNext ==
    ASSUME TypeOK, InHand, InProgressIsHeld, [Next]_vars
    PROVE  InProgressIsHeld'
<1>1. ASSUME NEW s \in Slots,
             \/ Work(s) \/ Interrupt(s)
             \/ \E kind \in {"cian", "domclick"}, reset \in BOOLEAN : Start(s, kind, reset)
      PROVE  InProgressIsHeld'
    <2>0. \A x \in Slots : x # s => session'[x] = session[x]
        BY <1>1, OthersStay
    <2> SUFFICES ASSUME NEW u \in Flats, status'[u] = "in_progress"
                 PROVE  Holders(u)' # {} \/ u \in abandoned'
        BY DEF InProgressIsHeld
    <2>1. ASSUME s \notin Holders(u), status[u] = "in_progress",
                 u \in abandoned => u \in abandoned'
          PROVE  Holders(u)' # {} \/ u \in abandoned'
        BY <2>0, <2>1, HoldersStay DEF InProgressIsHeld
    <2>2. CASE ResetStale(s) \/ \E kind \in {"cian", "domclick"}, reset \in BOOLEAN : Start(s, kind, reset)
        <3>1. s \notin Holders(u)
            BY <2>2 DEF ResetStale, Start, Holders
        <3>2. PICK F : SetBack(F)
            BY <2>2 DEF ResetStale, Start
        <3>3. status[u] = "in_progress" /\ u \notin F
            BY <3>2 DEF SetBack
        <3>4. u \in abandoned => u \in abandoned'
            BY <3>2, <3>3 DEF SetBack
        <3> QED
            BY <2>1, <3>1, <3>3, <3>4
    <2>3. CASE CountLeft(s) \/ (\E v \in Flats : Select(s, v)) \/ EndSession(s)
        <3>1. s \notin Holders(u)
            BY <2>3 DEF CountLeft, Select, EndSession, Holders
        <3> QED
            BY <2>1, <2>3, <3>1 DEF CountLeft, Select, EndSession
    <2>4. CASE Claim(s)
        <3>1. CASE session[s].flat = u
            BY <2>4, <3>1, IMove DEF Holders, Engaged
        <3>2. CASE session[s].flat # u
            <4>1. s \notin Holders(u)
                BY <3>2 DEF Holders, Engaged
            <4>2. status[u] = "in_progress" /\ (u \in abandoned => u \in abandoned')
                BY <2>4, <3>2 DEF Claim, TypeOK
            <4> QED
                BY <2>1, <4>1, <4>2
        <3> QED
            BY <3>1, <3>2
    <2>5. ASSUME NEW outcome \in {"done", "failed", "blocked"}, Record(s, outcome)
          PROVE  Holders(u)' # {} \/ u \in abandoned'
        <3>1. session[s].flat \in Flats
            BY <2>5, RecordType DEF Statuses
        <3>2. session[s].flat # u
            BY <2>5, <3>1 DEF Record, TypeOK
        <3>3. s \notin Holders(u)
            BY <3>2 DEF Holders, Engaged
        <3>4. status[u] = "in_progress" /\ (u \in abandoned => u \in abandoned')
            BY <2>5, <3>1, <3>2 DEF Record, TypeOK
        <3> QED
            BY <2>1, <3>3, <3>4
    <2>6. CASE Interrupt(s)
        <3>1. CASE s \in Holders(u)
            BY <2>6, <3>1 DEF Interrupt, Holders, Engaged
        <3>2. CASE s \notin Holders(u)
            BY <2>1, <2>6, <3>2 DEF Interrupt
        <3> QED
            BY <3>1, <3>2
    <2> QED
        BY <1>1, <2>2, <2>3, <2>4, <2>5, <2>6 DEF Work, UpdateDetail, MarkFailed, MarkBlocked
<1>2. CASE UNCHANGED <<status, session, abandoned>>
    BY <1>2 DEF InProgressIsHeld, Holders, Engaged
<1>3. ASSUME NEW l \in Listers, SavePage(l)
      PROVE  InProgressIsHeld'
    BY <1>3 DEF SavePage, InProgressIsHeld, Holders, Engaged
<1> QED
    BY <1>1, <1>2, <1>3 DEF Next, LookUp, Tick, vars

-----------------------------------------------------------------------------
(* Effort.                                                                 *)

LEMMA SlotsAreFinite ==
    ASSUME NEW S \in SUBSET Slots
    PROVE  /\ IsFiniteSet(S) /\ Cardinality(S) \in Nat
           /\ Cardinality(Slots) \in Nat
           /\ Cardinality(S) <= Cardinality(Slots)
BY QueueAssumption, FS_Subset, FS_CardinalityType

\* Every return to pending is worth one outcome of each session.
LEMMA AllowanceStep ==
    ASSUME NEW r \in Nat
    PROVE  /\ Allowance(r) \in Nat /\ Allowance(r) >= MaxAttempts
           /\ Allowance(r + 1) = Allowance(r) + Cardinality(Slots)
<1> DEFINE n == Cardinality(Slots)
<1>1. n \in Nat
    BY SlotsAreFinite
<1>2. n * r \in Nat
    BY <1>1
<1>3. n * (r + 1) = n * r + n
    BY <1>1
<1> QED
    BY <1>1, <1>2, <1>3, QueueAssumption DEF Allowance

Effort(u) == attempts[u] + Cardinality(Engaged(u)) < Allowance(returned[u] + 1)
Room(u) == status[u] \in {"unlisted", "pending"} => attempts[u] < Allowance(returned[u])

\* A flat is no worse for steps that engage nobody with it and count nothing.
LEMMA QuietEffort ==
    ASSUME TypeOK, TypeOK', NEW u \in Flats, Effort(u), Room(u),
           attempts'[u] = attempts[u], Engaged(u)' \subseteq Engaged(u),
           \/ /\ returned'[u] = returned[u]
              /\ status'[u] \in {"unlisted", "pending"} => status[u] \in {"unlisted", "pending"}
           \/ returned'[u] = returned[u] + 1
    PROVE  Effort(u)' /\ Room(u)'
<1>1. Engaged(u) \in SUBSET Slots /\ Engaged(u)' \in SUBSET Slots
    BY DEF Engaged
<1>2. Cardinality(Engaged(u)') <= Cardinality(Engaged(u)) /\ Cardinality(Engaged(u)') \in Nat
    BY <1>1, SlotsAreFinite, FS_Subset
<1>3. Cardinality(Engaged(u)) \in Nat /\ Cardinality(Slots) \in Nat
    BY <1>1, SlotsAreFinite
<1>4. attempts[u] \in Nat /\ returned[u] \in Nat
    BY DEF TypeOK
<1>5. CASE returned'[u] = returned[u]
    <2>1. Effort(u)'
        BY <1>2, <1>3, <1>4, <1>5, AllowanceStep DEF Effort
    <2>2. Room(u)'
        BY <1>4, <1>5 DEF Room
    <2> QED
        BY <2>1, <2>2
<1>6. CASE returned'[u] = returned[u] + 1
    <2> DEFINE r == returned[u]
    <2>1. attempts'[u] + Cardinality(Engaged(u)') < Allowance(r + 1)
        BY <1>2, <1>3, <1>4, AllowanceStep DEF Effort
    <2>2. Allowance((r + 1) + 1) = Allowance(r + 1) + Cardinality(Slots)
        BY <1>4, AllowanceStep
    <2>3. Allowance(r + 1) \in Nat
        BY <1>4, AllowanceStep
    <2>4. Effort(u)'
        BY <1>2, <1>3, <1>4, <1>6, <2>1, <2>2, <2>3 DEF Effort
    <2>5. Room(u)'
        BY <1>2, <1>4, <1>6, <2>1, <2>3 DEF Room
    <2> QED
        BY <2>4, <2>5
<1> QED
    BY <1>5, <1>6

\* A session that selects a flat finds room for all that overlap.
LEMMA SelectEffort ==
    ASSUME TypeOK, TypeOK', NEW s \in Slots, NEW u \in Flats, Select(s, u), Room(u)
    PROVE  Effort(u)' /\ Room(u)'
<1>1. attempts[u] \in Nat /\ returned[u] \in Nat
    BY DEF TypeOK
<1>2. attempts[u] < Allowance(returned[u])
    <2>1. CASE status[u] = "pending"
        BY <2>1 DEF Room
    <2>2. CASE status[u] = "failed" /\ attempts[u] < MaxAttempts
        BY <1>1, <2>2, AllowanceStep, QueueAssumption
    <2> QED
        BY <2>1, <2>2 DEF Select, Waiting
<1>3. Cardinality(Engaged(u)') \in Nat /\ Cardinality(Engaged(u)') <= Cardinality(Slots)
      /\ Cardinality(Slots) \in Nat
    BY SlotsAreFinite DEF Engaged
<1>4. attempts'[u] = attempts[u] /\ returned'[u] = returned[u] /\ status'[u] = status[u]
    BY DEF Select
<1>5. Allowance(returned[u]) \in Nat
      /\ Allowance(returned[u] + 1) = Allowance(returned[u]) + Cardinality(Slots)
    BY <1>1, AllowanceStep
<1>6. Effort(u)'
    BY <1>1, <1>2, <1>3, <1>4, <1>5 DEF Effort
<1>7. Room(u)'
    BY <1>2, <1>4 DEF Room
<1> QED
    BY <1>6, <1>7

\* An outcome costs an attempt and frees the session that made it.
LEMMA RecordEffort ==
    ASSUME TypeOK, TypeOK', NEW s \in Slots, NEW u \in Flats, session[s].flat = u,
           NEW outcome \in {"done", "failed", "blocked"}, Record(s, outcome),
           session'[s].flat = NoFlat, \A x \in Slots : x # s => session'[x] = session[x],
           Effort(u)
    PROVE  Effort(u)' /\ Room(u)'
<1>1. Engaged(u) \in SUBSET Slots /\ s \in Engaged(u)
    BY DEF Engaged
<1>2. Engaged(u)' = Engaged(u) \ {s}
    BY QueueAssumption DEF Engaged
<1>3. Cardinality(Engaged(u)') = Cardinality(Engaged(u)) - 1 /\ Cardinality(Engaged(u)) \in Nat
    BY <1>1, <1>2, SlotsAreFinite, FS_RemoveElement
<1>4. attempts'[u] = attempts[u] + 1 /\ returned'[u] = returned[u] /\ status'[u] = outcome
    BY DEF Record, TypeOK
<1>5. attempts[u] \in Nat /\ returned[u] \in Nat
    BY DEF TypeOK
<1>6. Allowance(returned[u] + 1) \in Nat
    BY <1>5, AllowanceStep
<1>7. Effort(u)'
    BY <1>3, <1>4, <1>5, <1>6 DEF Effort
<1>8. Room(u)'
    BY <1>4 DEF Room
<1> QED
    BY <1>7, <1>8

LEMMA EffortNext ==
    ASSUME TypeOK, TypeOK', InHand, PendingBounded, EffortBounded, [Next]_vars
    PROVE  PendingBounded' /\ EffortBounded'
<1> SUFFICES ASSUME NEW u \in Flats
             PROVE  Effort(u)' /\ Room(u)'
    BY DEF Effort, Room, PendingBounded, EffortBounded
<1>0. Effort(u) /\ Room(u)
    BY DEF Effort, Room, PendingBounded, EffortBounded
<1>1. ASSUME NEW s \in Slots,
             \/ Work(s) \/ Interrupt(s)
             \/ \E kind \in {"cian", "domclick"}, reset \in BOOLEAN : Start(s, kind, reset)
      PROVE  Effort(u)' /\ Room(u)'
    <2>0. \A x \in Slots : x # s => session'[x] = session[x]
        BY <1>1, OthersStay
    <2>1. ASSUME session'[s].flat # u \/ session[s].flat = u
          PROVE  Engaged(u)' \subseteq Engaged(u)
        BY <2>0, <2>1 DEF Engaged
    <2>2. NoFlat # u
        BY QueueAssumption
    <2>3. CASE ResetStale(s) \/ \E kind \in {"cian", "domclick"}, reset \in BOOLEAN : Start(s, kind, reset)
        <3>1. Engaged(u)' \subseteq Engaged(u)
            BY <2>1, <2>2, <2>3, IMove
        <3>2. PICK F : SetBack(F)
            BY <2>3 DEF ResetStale, Start
        <3>3. /\ attempts'[u] = attempts[u]
              /\ \/ returned'[u] = returned[u] /\ status'[u] = status[u]
                 \/ returned'[u] = returned[u] + 1
            BY <3>2 DEF SetBack, TypeOK
        <3> QED
            BY <1>0, <3>1, <3>3, QuietEffort
    <2>4. CASE CountLeft(s) \/ EndSession(s) \/ Interrupt(s)
        <3>1. Engaged(u)' \subseteq Engaged(u)
            BY <2>1, <2>2, <2>4, IMove
        <3>2. attempts' = attempts /\ returned' = returned /\ status' = status
            BY <2>4 DEF CountLeft, EndSession, Interrupt
        <3> QED
            BY <1>0, <3>1, <3>2, QuietEffort
    <2>5. ASSUME NEW v \in Flats, Select(s, v)
          PROVE  Effort(u)' /\ Room(u)'
        <3>1. CASE u = v
            BY <1>0, <2>5, <3>1, SelectEffort
        <3>2. CASE u # v
            <4>1. Engaged(u)' \subseteq Engaged(u)
                BY <2>1, <2>5, <3>2, IMove
            <4>2. attempts' = attempts /\ returned' = returned /\ status' = status
                BY <2>5 DEF Select
            <4> QED
                BY <1>0, <4>1, <4>2, QuietEffort
        <3> QED
            BY <3>1, <3>2
    <2>6. CASE Claim(s)
        <3>1. Engaged(u)' \subseteq Engaged(u)
            BY <2>1, <2>6, IMove
        <3>2. attempts' = attempts /\ returned' = returned /\ status'[u] \in {status[u], "in_progress"}
            BY <2>6 DEF Claim, TypeOK
        <3> QED
            BY <1>0, <3>1, <3>2, QuietEffort
    <2>7. ASSUME NEW outcome \in {"done", "failed", "blocked"}, Record(s, outcome),
                 session'[s].flat = NoFlat
          PROVE  Effort(u)' /\ Room(u)'
        <3>1. CASE session[s].flat = u
            BY <1>0, <2>0, <2>7, <3>1, RecordEffort
        <3>2. CASE session[s].flat # u
            <4>1. Engaged(u)' \subseteq Engaged(u)
                BY <2>1, <2>2, <2>7
            <4>2. attempts'[u] = attempts[u] /\ returned' = returned /\ status'[u] = status[u]
                BY <2>7, <3>2 DEF Record, TypeOK
            <4> QED
                BY <1>0, <4>1, <4>2, QuietEffort
        <3> QED
            BY <3>1, <3>2
    <2> QED
        BY <1>1, <2>3, <2>4, <2>5, <2>6, <2>7, IMove DEF Work, UpdateDetail, MarkFailed, MarkBlocked
<1>2. CASE UNCHANGED <<status, attempts, session, returned>>
    <2>1. Engaged(u)' \subseteq Engaged(u)
        BY <1>2 DEF Engaged
    <2> QED
        BY <1>0, <1>2, <2>1, QuietEffort
<1>3. ASSUME NEW l \in Listers, SavePage(l)
      PROVE  Effort(u)' /\ Room(u)'
    <2>1. Engaged(u)' \subseteq Engaged(u)
        BY <1>3 DEF SavePage, Engaged
    <2>2. /\ attempts' = attempts /\ returned' = returned
          /\ status'[u] \in {"unlisted", "pending"} => status[u] \in {"unlisted", "pending"}
        BY <1>3 DEF SavePage
    <2> QED
        BY <1>0, <2>1, <2>2, QuietEffort
<1> QED
    BY <1>1, <1>2, <1>3 DEF Next, LookUp, Tick, vars

-----------------------------------------------------------------------------
(* The theorems.                                                           *)

LEMMA InitInvariant == Init => IInv
<1> SUFFICES ASSUME Init PROVE IInv
    OBVIOUS
<1>1. TypeOK
    BY InitType
<1>2. InHand /\ Stamped /\ InProgressIsHeld
    BY DEF Init, InHand, Stamped, InProgressIsHeld, NoSession
<1>3. \A u \in Flats : Engaged(u) = {}
    BY QueueAssumption DEF Init, Engaged, NoSession
<1>4. Allowance(0) \in Nat /\ Allowance(0) >= MaxAttempts
      /\ Allowance(0 + 1) \in Nat /\ Allowance(0 + 1) >= MaxAttempts
    BY AllowanceStep
<1>5. PendingBounded
    BY <1>4, QueueAssumption DEF Init, PendingBounded
<1>6. EffortBounded
    <2>1. \A u \in Flats : attempts[u] = 0 /\ returned[u] = 0 /\ Cardinality(Engaged(u)) = 0
        BY <1>3, FS_EmptySet DEF Init
    <2> QED
        BY <1>4, <2>1, QueueAssumption DEF EffortBounded
<1> QED
    BY <1>1, <1>2, <1>5, <1>6 DEF IInv

LEMMA NextInvariant == IInv /\ [Next]_vars => IInv'
BY NextType, InHandNext, StampedNext, HeldNext, EffortNext DEF IInv

\* The inductive invariant holds for any number of sessions that overlap.
THEOREM Invariant == Spec => []IInv
BY InitInvariant, NextInvariant, PTL DEF Spec

\* Every variable of the queue keeps its type.
THEOREM TypeCorrect == Spec => []TypeOK
<1>1. IInv => TypeOK
    BY DEF IInv
<1> QED
    BY <1>1, Invariant, PTL

\* No flat is stuck in progress: it is held, or its session died.
THEOREM NoFlatIsStuck == Spec => []InProgressIsHeld
<1>1. IInv => InProgressIsHeld
    BY DEF IInv
<1> QED
    BY <1>1, Invariant, PTL

\* The attempts on a flat are bounded, however the sessions overlap.
THEOREM EffortIsBounded == Spec => []EffortBounded
<1>1. IInv => EffortBounded
    BY DEF IInv
<1> QED
    BY <1>1, Invariant, PTL

-----------------------------------------------------------------------------
(* Dates.                                                                  *)

LEMMA DivMonotone ==
    ASSUME NEW d \in Nat \ {0}, NEW x \in Int, NEW y \in Int, x <= y
    PROVE  x \div d \in Int /\ y \div d \in Int /\ x \div d <= y \div d
<1> DEFINE p == x \div d
           q == y \div d
<1>1. p \in Int /\ q \in Int
    OBVIOUS
<1>2. d * p <= x /\ y < d * q + d
    OBVIOUS
<1>3. ASSUME p > q PROVE FALSE
    <2>1. p >= q + 1
        BY <1>1, <1>3
    <2>2. d * p >= d * (q + 1)
        BY <1>1, <2>1
    <2>3. d * (q + 1) = d * q + d
        BY <1>1
    <2> HIDE DEF p, q
    <2> QED
        BY <1>1, <1>2, <2>2, <2>3
<1> QED
    BY <1>1, <1>3

\* What is older than a window by the clock is older by the date of the text,
\* as local time is never behind UTC.
LEMMA OldIsBefore ==
    ASSUME TypeOK, NEW u \in Flats, NEW w \in Nat, last_attempt_at[u] # Never,
           ~ Before(u, w)
    PROVE  now - last_attempt_at[u] < w
<1> DEFINE t == last_attempt_at[u]
<1>1. t \in Nat /\ now \in Nat /\ Offset \in Nat /\ DayLength \in Nat \ {0}
    BY QueueAssumption DEF TypeOK
<1>2. ASSUME now - t >= w PROVE FALSE
    <2>1. t <= now + Offset - w /\ now + Offset - w \in Int
        BY <1>1, <1>2
    <2>2. Date(t) <= Date(now + Offset - w)
        BY <1>1, <2>1, DivMonotone DEF Date
    <2> QED
        BY <2>2 DEF Before
<1> QED
    BY <1>1, <1>2

\* A reset leaves no old claim behind.
LEMMA StaleRecoveredStep ==
    ASSUME IInv, [Next]_vars, NEW s \in Slots, session[s].pc = "resetting",
           session'[s].pc = "counting", NEW u \in Flats, status'[u] = "in_progress"
    PROVE  now - last_attempt_at[u] < StaleTimeout
<1> USE DEF IInv
<1>1. ResetStale(s)
    <2>1. ASSUME NEW x \in Slots,
                 \/ Work(x) \/ Interrupt(x)
                 \/ \E kind \in {"cian", "domclick"}, reset \in BOOLEAN : Start(x, kind, reset)
          PROVE  x = s /\ ResetStale(s)
        <3>1. x = s
            BY <2>1, OthersStay
        <3> QED
            BY <2>1, <3>1, IMove DEF Work, Start, CountLeft, Select, Claim, UpdateDetail,
               MarkFailed, MarkBlocked, Record, EndSession
    <2> QED
        BY <2>1 DEF Next, LookUp, SavePage, Tick, vars
<1>2. status[u] = "in_progress" /\ ~ Before(u, StaleTimeout)
    BY <1>1 DEF ResetStale, SetBack
<1> QED
    BY <1>2, OldIsBefore, QueueAssumption DEF Stamped

\* A session that ends with room in its batch found nothing to do.
LEMMA NothingLeftStep ==
    ASSUME IInv, NEW s \in Slots, NEW u \in Flats,
           EndSession(s), session[s].processed < BatchSize,
           session[s].kind = "cian" \/ u \in Domclick
    PROVE  /\ status[u] # "pending"
           /\ status[u] = "failed" /\ attempts[u] < MaxAttempts
                => now - last_attempt_at[u] < Cooldown
<1> USE DEF IInv
<1>1. Waiting(s) = {}
    BY QueueAssumption DEF EndSession, TypeOK, Session
<1>2. status[u] # "pending"
    BY <1>1 DEF Waiting
<1>3. ASSUME status[u] = "failed", attempts[u] < MaxAttempts
      PROVE  now - last_attempt_at[u] < Cooldown
    <2>1. ~ Before(u, Cooldown)
        BY <1>1, <1>3 DEF Waiting
    <2> QED
        BY <1>3, <2>1, OldIsBefore, QueueAssumption DEF Stamped
<1> QED
    BY <1>2, <1>3

\* Nothing but a session that took the flat before changes what is settled.
LEMMA SettledStep ==
    ASSUME IInv, [Next]_vars, NEW u \in Flats, Settled(u), Engaged(u) = {}
    PROVE  status'[u] = status[u] /\ attempts'[u] = attempts[u]
<1> USE DEF IInv
<1>1. status[u] \in {"done", "failed"}
    BY DEF Settled
<1>2. ASSUME NEW s \in Slots PROVE session[s].flat # u
    BY <1>2 DEF Engaged
<1>3. ASSUME NEW s \in Slots, Work(s) PROVE status'[u] = status[u] /\ attempts'[u] = attempts[u]
    <2>1. CASE ResetStale(s)
        BY <1>1, <2>1 DEF ResetStale, SetBack
    <2>2. CASE Claim(s)
        BY <1>2, <2>2 DEF Claim, TypeOK
    <2>3. ASSUME NEW outcome, Record(s, outcome)
          PROVE  status'[u] = status[u] /\ attempts'[u] = attempts[u]
        BY <1>2, <2>3 DEF Record, TypeOK
    <2> QED
        BY <1>3, <2>1, <2>2, <2>3 DEF Work, CountLeft, Select, EndSession, UpdateDetail,
           MarkFailed, MarkBlocked
<1>4. ASSUME NEW s \in Slots, NEW kind \in {"cian", "domclick"}, NEW reset \in BOOLEAN,
             Start(s, kind, reset)
      PROVE  status'[u] = status[u] /\ attempts'[u] = attempts[u]
    BY <1>1, <1>4 DEF Start, SetBack
<1>5. ASSUME NEW l \in Listers, SavePage(l)
      PROVE  status'[u] = status[u] /\ attempts'[u] = attempts[u]
    BY <1>1, <1>5 DEF SavePage
<1> QED
    BY <1>3, <1>4, <1>5 DEF Next, LookUp, Interrupt, Tick, vars

\* A Cian session recovers every claim older than its timeout, for any offset
\* from UTC that is not negative and any length of the day.
THEOREM StaleClaimsAreRecovered == Spec => StaleRecovered
<1>1. IInv /\ [Next]_vars =>
        [\A s \in Slots : session[s].pc = "resetting" /\ session'[s].pc = "counting"
            => \A u \in Flats : status'[u] = "in_progress"
                    => now - last_attempt_at[u] < StaleTimeout]_vars
    BY StaleRecoveredStep
<1> QED
    BY <1>1, Invariant, PTL DEF Spec, StaleRecovered

\* A session that ends early leaves nothing of its site that was due.
THEOREM NothingIsLeftBehind == Spec => NothingLeftBehind
<1>1. IInv /\ [Next]_vars =>
        [\A s \in Slots, u \in Flats :
            (/\ EndSession(s) /\ session[s].processed < BatchSize
             /\ session[s].kind = "cian" \/ u \in Domclick)
            => /\ status[u] # "pending"
               /\ status[u] = "failed" /\ attempts[u] < MaxAttempts
                    => now - last_attempt_at[u] < Cooldown]_vars
    BY NothingLeftStep
<1> QED
    BY <1>1, Invariant, PTL DEF Spec, NothingLeftBehind

\* Settled flats stay settled.
THEOREM SettledStaysSettled == Spec => SettledUntouched
<1>1. IInv /\ [Next]_vars =>
        [\A u \in Flats : Settled(u) /\ Engaged(u) = {}
            => status'[u] = status[u] /\ attempts'[u] = attempts[u]]_vars
    BY SettledStep
<1> QED
    BY <1>1, Invariant, PTL DEF Spec, SettledUntouched

-----------------------------------------------------------------------------
(* One session at a time.                                                  *)

\* What the session selected is still there to claim, and what it claimed is
\* still in progress: nobody else could touch it.
Undisturbed == \A s \in Slots :
    /\ session[s].pc = "claiming" =>
           LET u == session[s].flat IN
           status[u] = "pending" \/ (status[u] = "failed" /\ attempts[u] < MaxAttempts)
    /\ session[s].pc = "fetching" => status[session[s].flat] = "in_progress"

\* Nobody but x is under way.
Lone(x) == \A s \in Slots : s # x => session[s].pc = "idle"

StepBy(x) ==
    \/ \E kind \in {"cian", "domclick"}, reset \in BOOLEAN : Start(x, kind, reset)
    \/ Work(x) \/ Interrupt(x)

TakesTurns == inTurn => (\E x \in Slots : Lone(x)) /\ Undisturbed

\* While sessions take turns, the session that moves is alone before and after.
LEMMA OneAtATime ==
    ASSUME TypeOK, TakesTurns, inTurn', [Next]_vars
    PROVE  /\ inTurn
           /\ \E x \in Slots :
                  /\ Lone(x) /\ Lone(x)'
                  /\ \/ StepBy(x)
                     \/ \E l \in Listers : SavePage(l)
                     \/ UNCHANGED <<status, attempts, session>>
<1>1. inTurn
    BY DEF Next, Work, LookUp, SavePage, Start, ResetStale, CountLeft, Select, Claim,
           UpdateDetail, MarkFailed, MarkBlocked, Record, EndSession, Interrupt, Tick,
           clock, vars
<1>2. PICK x \in Slots : Lone(x)
    BY <1>1 DEF TakesTurns
<1>3. ASSUME NEW s \in Slots, StepBy(s)
      PROVE  Lone(s) /\ Lone(s)'
    <2>1. Lone(s)
        <3>1. CASE \E kind \in {"cian", "domclick"}, reset \in BOOLEAN : Start(s, kind, reset)
            BY <3>1 DEF Start, Lone
        <3>2. CASE Work(s) \/ Interrupt(s)
            <4>1. session[s].pc # "idle"
                BY <3>2 DEF Work, ResetStale, CountLeft, Select, Claim, UpdateDetail,
                            MarkFailed, MarkBlocked, Record, EndSession, Interrupt
            <4> QED
                BY <1>2, <4>1 DEF Lone
        <3> QED
            BY <1>3, <3>1, <3>2 DEF StepBy
    <2>2. \A t \in Slots : t # s => session'[t] = session[t]
        BY <1>3, OthersStay DEF StepBy
    <2> QED
        BY <2>1, <2>2 DEF Lone
<1>4. CASE \E s \in Slots : StepBy(s)
    BY <1>1, <1>3, <1>4
<1>5. CASE \E l \in Listers : SavePage(l)
    <2>1. session' = session
        BY <1>5 DEF SavePage
    <2> QED
        BY <1>1, <1>2, <1>5, <2>1 DEF Lone
<1>6. CASE UNCHANGED <<status, attempts, session>>
    BY <1>1, <1>2, <1>6 DEF Lone
<1> QED
    BY <1>4, <1>5, <1>6 DEF Next, StepBy, LookUp, Tick, vars

LEMMA UndisturbedNext ==
    ASSUME IInv, Undisturbed, NEW x \in Slots, Lone(x)',
           \/ StepBy(x)
           \/ \E l \in Listers : SavePage(l)
           \/ UNCHANGED <<status, attempts, session>>
    PROVE  Undisturbed'
<1> USE DEF IInv
<1>1. \A s \in Slots : s # x => session'[s].pc = "idle"
    BY DEF Lone
<1>2. \A s \in Slots : session[s].pc \in {"claiming", "fetching"} => session[s].flat \in Flats
    BY DEF TypeOK, Session, InHand
<1>3. CASE session'[x].pc \notin {"claiming", "fetching"}
    BY <1>1, <1>3 DEF Undisturbed
<1>4. ASSUME NEW u \in Flats, Select(x, u) PROVE Undisturbed'
    <2>1. session'[x].pc = "claiming" /\ session'[x].flat = u
        BY <1>1, <1>4, IMove
    <2>2. \/ status'[u] = "pending"
          \/ status'[u] = "failed" /\ attempts'[u] < MaxAttempts
        BY <1>4 DEF Select, Waiting
    <2> QED
        BY <1>1, <2>1, <2>2 DEF Undisturbed
<1>5. CASE Claim(x)
    <2>1. session'[x].pc = "fetching" /\ session'[x].flat = session[x].flat
        BY <1>1, <1>5, IMove
    <2>2. status'[session[x].flat] = "in_progress"
        BY <1>2, <1>5 DEF Claim, TypeOK
    <2> QED
        BY <1>1, <2>1, <2>2 DEF Undisturbed
<1>6. ASSUME NEW l \in Listers, SavePage(l) PROVE Undisturbed'
    <2>1. \A u \in Flats : status[u] # "unlisted" => status'[u] = status[u]
        BY <1>6 DEF SavePage
    <2>2. attempts' = attempts /\ session' = session
        BY <1>6 DEF SavePage
    <2> QED
        BY <1>1, <1>2, <2>1, <2>2 DEF Undisturbed
<1>7. CASE UNCHANGED <<status, attempts, session>>
    BY <1>7 DEF Undisturbed
<1> QED
    BY <1>1, <1>3, <1>4, <1>5, <1>6, <1>7, IMove
    DEF StepBy, Work, UpdateDetail, MarkFailed

\* The refinement mapping, flat by flat.
LEMMA StateOf ==
    ASSUME TypeOK, NEW u \in Flats
    PROVE  /\ status[u] = "pending" => QueueState[u] = "todo"
           /\ status[u] = "in_progress" => QueueState[u] = "claimed"
           /\ status[u] \notin {"pending", "in_progress"} => QueueState[u] = status[u]
BY DEF QueueState

LEMMA WorkerOf ==
    ASSUME NEW x \in Slots, Lone(x), NEW u \in Flats
    PROVE  QueueWorker[u] = IF session[x].pc = "fetching" /\ session[x].flat = u
                            THEN x ELSE NoFlat
<1>1. CASE session[x].pc = "fetching" /\ session[x].flat = u
    <2>1. Holders(u) = {x}
        BY <1>1 DEF Holders, Engaged, Lone
    <2> QED
        BY <1>1, <2>1 DEF QueueWorker
<1>2. CASE ~(session[x].pc = "fetching" /\ session[x].flat = u)
    <2>1. Holders(u) = {}
        BY <1>2 DEF Holders, Engaged, Lone
    <2> QED
        BY <1>2, <2>1 DEF QueueWorker
<1> QED
    BY <1>1, <1>2

LEMMA QueueInit == ASSUME Init PROVE Queue!Init
<1>1. QueueState = [u \in Flats |-> "unlisted"]
    BY DEF Init, QueueState
<1>2. \A u \in Flats : Holders(u) = {}
    BY DEF Init, Holders, Engaged, NoSession
<1>3. QueueWorker = [u \in Flats |-> NoFlat]
    BY <1>2 DEF QueueWorker
<1> QED
    BY <1>1, <1>3 DEF Init, Queue!Init

\* A session that holds nothing before and after a step leaves the queue's
\* workers alone.
LEMMA NobodyAtWork ==
    ASSUME NEW x \in Slots, Lone(x), Lone(x)', session[x].pc # "fetching", session'[x].pc # "fetching"
    PROVE  QueueWorker' = QueueWorker /\ \A u \in Flats : QueueWorker[u] = NoFlat
<1>1. \A u \in Flats : Holders(u) = {} /\ Holders(u)' = {}
    BY DEF Holders, Engaged, Lone
<1> QED
    BY <1>1 DEF QueueWorker

\* Setting flats back is a Return of the queue.
LEMMA ReturnStep ==
    ASSUME NEW x \in Slots, Lone(x), Lone(x)', IInv, NEW F \in SUBSET Flats,
           SetBack(F),
           \A u \in F : status[u] \in {"blocked", "in_progress"},
           session[x].pc # "fetching", session'[x].pc # "fetching"
    PROVE  Queue!Return(F)
<1>1. QueueState' = [u \in Flats |-> IF u \in F THEN "todo" ELSE QueueState[u]]
    BY DEF QueueState, SetBack
<1>2. \A u \in F : QueueState[u] \in {"blocked", "claimed"}
    BY StateOf DEF IInv
<1>3. QueueWorker' = QueueWorker /\ \A u \in F : QueueWorker[u] = NoFlat
    BY NobodyAtWork
<1>4. attempts' = attempts
    BY DEF SetBack
<1> QED
    BY <1>1, <1>2, <1>3, <1>4 DEF Queue!Return

LEMMA ListStep ==
    ASSUME TypeOK, NEW l \in Listers, SavePage(l)
    PROVE  \E p \in SUBSET Flats : Queue!List(p)
<1> DEFINE p == IF Clashes(l) THEN {} ELSE page[l].flats
<1>1. p \in SUBSET Flats
    BY DEF TypeOK, SavePage, Page
<1>2. QueueState' = [u \in Flats |-> IF u \in p /\ QueueState[u] = "unlisted"
                                     THEN "todo" ELSE QueueState[u]]
    BY DEF QueueState, SavePage, TypeOK, Statuses
<1>3. attempts' = attempts /\ QueueWorker' = QueueWorker
    BY DEF SavePage, QueueWorker, Holders, Engaged
<1> QED
    BY <1>1, <1>2, <1>3 DEF Queue!List

LEMMA ClaimStep ==
    ASSUME NEW x \in Slots, Lone(x), Lone(x)', IInv, Undisturbed, Claim(x)
    PROVE  Queue!Claim(session[x].flat, x)
<1> DEFINE f == session[x].flat
<1> USE DEF IInv
<1>1. f \in Flats
    BY DEF Claim, TypeOK, InHand, Session
<1>2. session'[x].pc = "fetching" /\ session'[x].flat = f
    BY IMove
<1>3. \/ QueueState[f] = "todo"
      \/ QueueState[f] = "failed" /\ attempts[f] < MaxAttempts
    BY <1>1, StateOf DEF Claim, Undisturbed
<1>4. \A u \in Flats : QueueWorker[u] = NoFlat
    BY WorkerOf DEF Claim
<1>5. QueueState' = [QueueState EXCEPT ![f] = "claimed"]
    BY <1>1 DEF Claim, QueueState, TypeOK
<1>6. \A u \in Flats : QueueWorker'[u] = IF u = f THEN x ELSE NoFlat
    <2> SUFFICES ASSUME NEW u \in Flats
                 PROVE  QueueWorker'[u] = IF u = f THEN x ELSE NoFlat
        OBVIOUS
    <2>1. Holders(u)' = IF u = f THEN {x} ELSE {}
        BY <1>2 DEF Holders, Engaged, Lone
    <2> QED
        BY <2>1 DEF QueueWorker
<1>7. QueueWorker' = [QueueWorker EXCEPT ![f] = x]
    BY <1>1, <1>4, <1>6 DEF QueueWorker
<1>8. x # NoFlat
    BY QueueAssumption
<1>9. attempts' = attempts
    BY DEF Claim
<1> QED
    BY <1>1, <1>3, <1>4, <1>5, <1>7, <1>8, <1>9 DEF Queue!Claim

\* A session that records an outcome, or dies, leaves its flat to nobody.
LEMMA LetGo ==
    ASSUME NEW x \in Slots, Lone(x), Lone(x)', session[x].pc = "fetching",
           session[x].flat \in Flats,
           session'[x].pc # "fetching"
    PROVE  /\ QueueWorker[session[x].flat] = x
           /\ QueueWorker' = [QueueWorker EXCEPT ![session[x].flat] = NoFlat]
<1> DEFINE f == session[x].flat
<1>1. \A u \in Flats : QueueWorker[u] = IF u = f THEN x ELSE NoFlat
    BY WorkerOf
<1>2. \A u \in Flats : Holders(u)' = {}
    BY DEF Holders, Engaged, Lone
<1>3. QueueWorker' = [u \in Flats |-> NoFlat]
    BY <1>2 DEF QueueWorker
<1> QED
    BY <1>1, <1>3 DEF QueueWorker

LEMMA FinishStep ==
    ASSUME NEW x \in Slots, Lone(x), Lone(x)', IInv, Undisturbed,
           session'[x].pc # "fetching",
           NEW outcome \in {"done", "failed", "blocked"}, Record(x, outcome)
    PROVE  session[x].flat \in Flats /\ Queue!Finish(session[x].flat, x, outcome)
<1> DEFINE f == session[x].flat
<1> USE DEF IInv
<1>1. f \in Flats /\ session[x].pc = "fetching"
    BY DEF Record, TypeOK, InHand, Session
<1>2. QueueState[f] = "claimed"
    BY <1>1, StateOf DEF Undisturbed
<1>3. QueueState' = [QueueState EXCEPT ![f] = outcome]
    BY <1>1 DEF Record, QueueState, TypeOK
<1>4. attempts' = [attempts EXCEPT ![f] = @ + 1]
    BY DEF Record
<1> QED
    BY <1>1, <1>2, <1>3, <1>4, LetGo DEF Queue!Finish

LEMMA QueueStep ==
    ASSUME IInv, Undisturbed, NEW x \in Slots, Lone(x), Lone(x)',
           \/ StepBy(x)
           \/ \E l \in Listers : SavePage(l)
           \/ UNCHANGED <<status, attempts, session>>
    PROVE  Queue!InOrder \/ UNCHANGED <<QueueState, attempts, QueueWorker>>
<1> USE DEF IInv
<1>1. ASSUME NEW l \in Listers, SavePage(l) PROVE Queue!InOrder
    BY <1>1, ListStep DEF Queue!InOrder
<1>2. ASSUME NEW kind \in {"cian", "domclick"}, NEW reset \in BOOLEAN, Start(x, kind, reset)
      PROVE  Queue!InOrder
    <2>1. session[x].pc # "fetching" /\ session'[x].pc # "fetching"
        BY <1>2, IMove DEF Start
    <2> DEFINE F == {u \in Flats : kind = "cian" /\ reset /\ status[u] = "blocked"}
    <2>2. Queue!Return(F)
        BY <1>2, <2>1, ReturnStep DEF Start
    <2> QED
        BY <2>2 DEF Queue!InOrder
<1>3. CASE ResetStale(x)
    <2>1. session[x].pc # "fetching" /\ session'[x].pc # "fetching"
        BY <1>3, IMove DEF ResetStale
    <2> DEFINE F == {u \in Flats : status[u] = "in_progress" /\ Before(u, StaleTimeout)}
    <2>2. Queue!Return(F)
        BY <1>3, <2>1, ReturnStep DEF ResetStale
    <2> QED
        BY <2>2 DEF Queue!InOrder
<1>4. CASE CountLeft(x) \/ (\E u \in Flats : Select(x, u)) \/ EndSession(x)
    <2>1. session[x].pc # "fetching" /\ session'[x].pc # "fetching"
        BY <1>4, IMove DEF CountLeft, Select, EndSession
    <2>2. QueueWorker' = QueueWorker
        BY <2>1, NobodyAtWork
    <2>3. status' = status /\ attempts' = attempts
        BY <1>4 DEF CountLeft, Select, EndSession
    <2> QED
        BY <2>2, <2>3 DEF QueueState
<1>5. CASE Claim(x)
    <2>1. session[x].flat \in Flats
        BY <1>5 DEF Claim, TypeOK, InHand, Session
    <2> QED
        BY <1>5, <2>1, ClaimStep DEF Queue!InOrder
<1>6. CASE UpdateDetail(x) \/ MarkFailed(x) \/ MarkBlocked(x)
    <2>1. PICK outcome \in {"done", "failed", "blocked"} : Record(x, outcome)
        BY <1>6 DEF UpdateDetail, MarkFailed, MarkBlocked
    <2>2. session'[x].pc # "fetching"
        BY <1>6, IMove
    <2>3. session[x].flat \in Flats /\ Queue!Finish(session[x].flat, x, outcome)
        BY <2>1, <2>2, FinishStep
    <2> QED
        BY <2>3 DEF Queue!InOrder
<1>7. CASE Interrupt(x)
    <2>1. session'[x].pc # "fetching"
        BY <1>7, IMove
    <2>2. status' = status /\ attempts' = attempts
        BY <1>7 DEF Interrupt
    <2>3. QueueState' = QueueState
        BY <2>2 DEF QueueState
    <2>4. CASE session[x].pc = "fetching"
        <3>1. session[x].flat \in Flats
            BY <2>4 DEF TypeOK, InHand, Session
        <3>2. Queue!Abandon(session[x].flat, x)
            BY <2>1, <2>2, <2>3, <2>4, <3>1, LetGo DEF Queue!Abandon
        <3> QED
            BY <3>1, <3>2 DEF Queue!InOrder
    <2>5. CASE session[x].pc # "fetching"
        BY <2>1, <2>2, <2>3, <2>5, NobodyAtWork
    <2> QED
        BY <2>4, <2>5
<1>8. CASE UNCHANGED <<status, attempts, session>>
    BY <1>8 DEF QueueState, QueueWorker, Holders, Engaged
<1> QED
    BY <1>1, <1>2, <1>3, <1>4, <1>5, <1>6, <1>7, <1>8 DEF StepBy, Work

LEMMA TakesTurnsInit == ASSUME Init PROVE TakesTurns
<1>1. \A s \in Slots : session[s].pc = "idle"
    BY DEF Init, NoSession
<1> QED
    BY <1>1, QueueAssumption DEF TakesTurns, Lone, Undisturbed

LEMMA TakesTurnsNext == ASSUME IInv, TakesTurns, [Next]_vars PROVE TakesTurns'
<1> SUFFICES ASSUME inTurn' PROVE (\E x \in Slots : Lone(x)') /\ Undisturbed'
    BY DEF TakesTurns
<1>1. inTurn /\ Undisturbed
    BY OneAtATime DEF TakesTurns, IInv
<1>2. PICK x \in Slots : /\ Lone(x) /\ Lone(x)'
                         /\ \/ StepBy(x)
                            \/ \E l \in Listers : SavePage(l)
                            \/ UNCHANGED <<status, attempts, session>>
    BY OneAtATime DEF IInv
<1> QED
    BY <1>1, <1>2, UndisturbedNext

\* A step is one of the queue's, or ends its promise.
LEMMA QueueNext ==
    ASSUME IInv, TakesTurns, [Next]_vars
    PROVE  [Queue!Next]_(Queue!queueVars)
<1>1. CASE ~inTurn'
    BY <1>1 DEF Queue!Next
<1>2. CASE inTurn'
    <2>1. inTurn /\ Undisturbed
        BY <1>2, OneAtATime DEF TakesTurns, IInv
    <2>2. inTurn' = inTurn
        <3>1. inTurn \in BOOLEAN /\ inTurn' \in BOOLEAN
            BY NextType DEF IInv, TypeOK
        <3> QED
            BY <1>2, <2>1, <3>1
    <2>3. PICK x \in Slots : /\ Lone(x) /\ Lone(x)'
                             /\ \/ StepBy(x)
                                \/ \E l \in Listers : SavePage(l)
                                \/ UNCHANGED <<status, attempts, session>>
        BY <1>2, OneAtATime DEF IInv
    <2>4. Queue!InOrder \/ UNCHANGED <<QueueState, attempts, QueueWorker>>
        BY <2>1, <2>3, QueueStep
    <2> QED
        BY <1>2, <2>1, <2>2, <2>4 DEF Queue!Next, Queue!queueVars
<1> QED
    BY <1>1, <1>2

\* As long as sessions take turns the table implements the work queue: one
\* session at work on a flat, whose outcome it alone records, and no flat
\* collected twice or retried beyond its limit.
THEOREM ImplementsTheQueue == Spec => ImplementsQueue
<1>1. Init => TakesTurns
    BY TakesTurnsInit
<1>2. IInv /\ TakesTurns /\ [Next]_vars => TakesTurns'
    BY TakesTurnsNext
<1>3. Init => Queue!Init
    BY QueueInit
<1>4. IInv /\ TakesTurns /\ [Next]_vars => [Queue!Next]_(Queue!queueVars)
    BY QueueNext
<1> QED
    BY <1>1, <1>2, <1>3, <1>4, Invariant, PTL DEF Spec, ImplementsQueue, Queue!Spec
=============================================================================
