----------------------- MODULE CollectListingsProofs -----------------------
(***************************************************************************)
(* Proofs about the listing sessions of both sites, for any number of room *)
(* types, pages and retries, any period of rotation, any parameters of the *)
(* limiter, and any length and changes of DomClick's list.                 *)
(***************************************************************************)
EXTENDS CollectListings, FiniteSetTheorems, SequenceTheorems, WellFoundedInduction,
        TLAPS

USE LimiterAssumption, BrowserAssumption, CrawlAssumption
DEF LimiterAssumption, BrowserAssumption, CrawlAssumption

(***************************************************************************)
(* The operators of the limiter.                                           *)
(***************************************************************************)

\* The multiplier stays between 1.0 and max_multiplier whatever is recorded.
LEMMA PaceIsBounded ==
    ASSUME NEW m \in Unit..MaxMultiplier
    PROVE  Faster(m) \in Unit..MaxMultiplier /\ Slower(m) \in Unit..MaxMultiplier
BY DEF Faster, Slower, AtLeast, AtMost

\* The window never holds more than window_size results.
LEMMA WindowIsBounded ==
    ASSUME NEW success \in BOOLEAN, results \in Seq(BOOLEAN), Len(results) <= Window
    PROVE  Pushed(success) \in Seq(BOOLEAN) /\ Len(Pushed(success)) <= Window
<1>1. \A s \in Seq(BOOLEAN) : /\ Append(s, success) \in Seq(BOOLEAN)
                              /\ Len(Append(s, success)) = Len(s) + 1
  OBVIOUS
<1>2. CASE Len(results) < Window
  BY <1>1, <1>2 DEF Pushed
<1>3. CASE Len(results) >= Window
  <2>1. /\ Tail(results) \in Seq(BOOLEAN)
        /\ Len(Tail(results)) = Window - 1
    BY <1>3
  <2>2. Pushed(success) = Append(Tail(results), success)
    BY <1>3 DEF Pushed
  <2> QED BY <1>1, <2>1, <2>2
<1> QED BY <1>2, <1>3

(***************************************************************************)
(* The limiter: what its operations leave of its type.                     *)
(***************************************************************************)

\* Recording a result keeps the type of the window and of the multiplier.
LEMMA RecordingKeepsType ==
    ASSUME LimiterType, RecordSuccess \/ RecordCaptcha \/ RecordError
    PROVE  /\ results' \in Seq(BOOLEAN) /\ Len(results') <= Window
           /\ multiplier' \in Unit..MaxMultiplier
           /\ clean' \in Nat
<1>1. PICK success \in BOOLEAN : results' = Pushed(success)
  BY DEF RecordSuccess, RecordCaptcha, RecordError
<1>2. results' \in Seq(BOOLEAN) /\ Len(results') <= Window
  BY <1>1, WindowIsBounded DEF LimiterType
<1>3. multiplier' \in {multiplier, Faster(multiplier), Slower(multiplier)}
  BY DEF RecordSuccess, RecordCaptcha, RecordError
<1>4. clean' \in Nat
  <2>1. clean' = clean + 1 \/ clean' = 0
    BY ONLY RecordSuccess \/ RecordCaptcha \/ RecordError
    DEF RecordSuccess, RecordCaptcha, RecordError
  <2> QED BY <2>1 DEF LimiterType
<1> QED BY <1>2, <1>3, <1>4, PaceIsBounded DEF LimiterType

\* A pause is a pause.
LEMMA PausesRest ==
    ASSUME LimiterType, WaitBetweenLoads \/ Wait
    PROVE  rested' = TRUE /\ long_pause_in' \in Nat
<1>1. rested' = TRUE
  BY DEF WaitBetweenLoads, Wait
<1>2. CASE WaitBetweenLoads
  <2>1. CASE long_pause_in <= 1
    BY <1>1, <1>2, <2>1 DEF WaitBetweenLoads, Schedule
  <2>2. CASE ~(long_pause_in <= 1)
    BY <1>1, <1>2, <2>2 DEF WaitBetweenLoads, Schedule, LimiterType
  <2> QED BY <2>1, <2>2
<1>3. CASE Wait
  <2>1. long_pause_in' \in Nat
    BY <1>3 DEF Wait, LimiterType
  <2> QED BY <1>1, <2>1
<1> QED BY <1>2, <1>3

(***************************************************************************)
(* How fast the pace comes back.                                           *)
(***************************************************************************)

\* Of a set of naturals one is the least.
LEMMA Least ==
    ASSUME NEW S, S \subseteq Nat, S # {}
    PROVE  \E n \in S : \A k \in S : n <= k
<1> DEFINE R == OpToRel(<, Nat)
<1>1. IsWellFoundedOn(R, Nat)
  BY NatLessThanWellFounded
<1> HIDE DEF R
<1>2. PICK n \in S : \A k \in S : ~(<<k, n>> \in R)
  BY <1>1, WFMin
<1>3. \A k \in S : k < n => <<k, n>> \in R
  BY DEF OpToRel, R
<1>4. \A k \in S : ~(k < n)
  BY <1>2, <1>3
<1>5. \A k \in S : k \in Nat
  OBVIOUS
<1> QED BY <1>4, <1>5

\* The first n of the steps back.
Paces == [Nat -> Unit..MaxMultiplier]
EasedTo(g, n) == g[0] = MaxMultiplier /\ \A k \in 1..n : g[k] = Faster(g[k - 1])

LEMMA EasedToExists == \A n \in Nat : \E g \in Paces : EasedTo(g, n)
<1> DEFINE Bad == {n \in Nat : ~\E g \in Paces : EasedTo(g, n)}
<1> SUFFICES ASSUME Bad # {} PROVE FALSE
  OBVIOUS
<1>1. PICK n \in Bad : \A k \in Bad : n <= k
  <2>1. Bad \subseteq Nat
    OBVIOUS
  <2> HIDE DEF Bad
  <2> QED BY <2>1, Least
<1>2. CASE n = 0
  <2> DEFINE g == [k \in Nat |-> MaxMultiplier]
  <2>1. g \in Paces /\ g[0] = MaxMultiplier
    BY DEF Paces
  <2>2. EasedTo(g, 0)
    BY <2>1 DEF EasedTo
  <2> QED BY <1>2, <2>1, <2>2
<1>3. CASE n # 0
  <2>1. n - 1 \in Nat /\ n \in Nat /\ n - 1 \notin Bad
    BY <1>1, <1>3
  <2>2. PICK g \in Paces : EasedTo(g, n - 1)
    BY <2>1
  <2> DEFINE h == [g EXCEPT ![n] = Faster(g[n - 1])]
  <2>3. Faster(g[n - 1]) \in Unit..MaxMultiplier
    BY <2>1, PaceIsBounded DEF Paces
  <2>4. /\ h \in Paces /\ h[n] = Faster(g[n - 1])
        /\ \A k \in Nat \ {n} : h[k] = g[k]
    BY <2>1, <2>3 DEF Paces
  <2> HIDE DEF h
  <2>5. h[0] = MaxMultiplier
    BY <1>3, <2>2, <2>4 DEF EasedTo
  <2>6. ASSUME NEW k \in 1..n PROVE h[k] = Faster(h[k - 1])
    <3>1. k - 1 \in Nat \ {n} /\ h[k - 1] = g[k - 1]
      BY <2>1, <2>4
    <3>2. CASE k = n
      BY <2>4, <3>1, <3>2
    <3>3. CASE k # n
      <4>1. k \in 1..n - 1 /\ k \in Nat \ {n}
        BY <2>1, <3>3
      <4> QED BY <2>2, <2>4, <3>1, <4>1 DEF EasedTo
    <3> QED BY <3>2, <3>3
  <2>7. EasedTo(h, n)
    BY <2>5, <2>6 DEF EasedTo
  <2> QED BY <2>4, <2>7
<1> QED BY <1>2, <1>3

LEMMA EasedToAgrees ==
    ASSUME NEW n \in Nat, NEW g, NEW h, EasedTo(g, n), EasedTo(h, n)
    PROVE  g[n] = h[n]
<1> DEFINE Bad == {k \in 0..n : g[k] # h[k]}
<1> SUFFICES ASSUME Bad # {} PROVE FALSE
  OBVIOUS
<1>1. PICK k \in Bad : \A j \in Bad : k <= j
  <2>1. Bad \subseteq Nat
    OBVIOUS
  <2> HIDE DEF Bad
  <2> QED BY <2>1, Least
<1>2. k # 0
  BY DEF EasedTo
<1>3. k \in 1..n /\ k - 1 \in 0..n /\ k - 1 \notin Bad
  BY <1>1, <1>2
<1>4. g[k - 1] = h[k - 1]
  BY <1>3
<1>5. g[k] = Faster(g[k - 1]) /\ h[k] = Faster(h[k - 1])
  BY <1>3 DEF EasedTo
<1> QED BY <1>4, <1>5

\* The recursive definition of Eased has a solution, so it defines what it says.
LEMMA EasedIsDefined ==
    /\ Eased[0] = MaxMultiplier
    /\ \A k \in Nat : Eased[k + 1] = Faster(Eased[k])
<1> DEFINE G(n) == CHOOSE g \in Paces : EasedTo(g, n)
           f == [n \in Nat |-> G(n)[n]]
<1>1. \A n \in Nat : G(n) \in Paces /\ EasedTo(G(n), n)
  BY EasedToExists
<1> HIDE DEF G
<1>2. \A n \in Nat : f[n] = G(n)[n]
  OBVIOUS
<1>3. f[0] = MaxMultiplier
  BY <1>1, <1>2 DEF EasedTo
<1>4. ASSUME NEW n \in Nat, n # 0 PROVE f[n] = Faster(f[n - 1])
  <2>1. EasedTo(G(n), n) /\ n \in 1..n /\ n - 1 \in Nat
    BY <1>1, <1>4
  <2>2. G(n)[n] = Faster(G(n)[n - 1])
    BY <2>1 DEF EasedTo
  <2>3. EasedTo(G(n), n - 1)
    BY <2>1 DEF EasedTo
  <2>4. G(n)[n - 1] = G(n - 1)[n - 1]
    BY <1>1, <2>1, <2>3, EasedToAgrees
  <2> QED BY <1>2, <2>1, <2>2, <2>4
<1>5. f = [n \in Nat |-> IF n = 0 THEN MaxMultiplier ELSE Faster(f[n - 1])]
  <2> HIDE DEF f
  <2>1. f = [n \in Nat |-> f[n]]
    BY DEF f
  <2> QED BY <1>3, <1>4, <2>1
<1>6. Eased = [n \in Nat |-> IF n = 0 THEN MaxMultiplier ELSE Faster(Eased[n - 1])]
  <2> HIDE DEF f
  <2>1. \E e : e = [n \in Nat |-> IF n = 0 THEN MaxMultiplier ELSE Faster(e[n - 1])]
    BY <1>5
  <2> QED BY <2>1, Zenon DEF Eased
<1>7. ASSUME NEW k \in Nat PROVE Eased[k + 1] = Faster(Eased[k])
  <2>1. k + 1 \in Nat /\ k + 1 # 0 /\ (k + 1) - 1 = k
    OBVIOUS
  <2> QED BY <1>6, <2>1
<1>8. Eased[0] = MaxMultiplier
  BY <1>6
<1> QED BY <1>7, <1>8

\* Every step back stays between 1.0 and max_multiplier.
LEMMA EasedInRange == \A k \in Nat : Eased[k] \in Unit..MaxMultiplier
<1> DEFINE Bad == {k \in Nat : Eased[k] \notin Unit..MaxMultiplier}
<1> SUFFICES ASSUME Bad # {} PROVE FALSE
  OBVIOUS
<1>1. PICK k \in Bad : \A j \in Bad : k <= j
  <2>1. Bad \subseteq Nat
    OBVIOUS
  <2> HIDE DEF Bad
  <2> QED BY <2>1, Least
<1>2. k # 0
  <2>1. Eased[0] \in Unit..MaxMultiplier
    BY EasedIsDefined
  <2> QED BY <2>1
<1>3. k - 1 \in Nat /\ k - 1 \notin Bad /\ (k - 1) + 1 = k
  BY <1>1, <1>2
<1>4. Eased[k - 1] \in Unit..MaxMultiplier
  BY <1>3
<1>5. Eased[k] = Faster(Eased[k - 1])
  BY <1>3, EasedIsDefined
<1> QED BY <1>4, <1>5, PaceIsBounded

\* A slower pace is not eased below a faster one.
LEMMA EasingKeepsOrder ==
    ASSUME NEW a \in Nat, NEW b \in Nat, a <= b
    PROVE  Faster(a) <= Faster(b)
BY DEF Faster, AtLeast

\* The window ends with the successes since the last failure, or is full of them.
WindowClean ==
    /\ Len(results) >= AtMost(clean, Window)
    /\ \A i \in 1..Len(results) : i > Len(results) - clean => results[i] = TRUE

PaceInv == WindowClean /\ PaceRecovers

\* A success lengthens the clean end of the window.
LEMMA SuccessKeepsWindow ==
    ASSUME LimiterType, WindowClean, RecordSuccess
    PROVE  WindowClean'
<1> DEFINE n == Len(results)
           m == Len(results')
<1>1. /\ results \in Seq(BOOLEAN) /\ n \in Nat /\ n <= Window
      /\ clean \in Nat /\ Window \in Nat \ {0}
  BY DEF LimiterType
<1>2. clean' = clean + 1 /\ results' = Pushed(TRUE)
  BY DEF RecordSuccess
<1>3. /\ n >= Window \/ n >= clean
      /\ \A i \in 1..n : i > n - clean => results[i] = TRUE
  BY <1>1 DEF WindowClean, AtMost
<1>4. CASE n < Window
  <2>1. results' = Append(results, TRUE)
    BY <1>2, <1>4 DEF Pushed
  <2>2. /\ m = n + 1 /\ results'[n + 1] = TRUE
        /\ \A i \in 1..n : results'[i] = results[i]
    BY <1>1, <2>1
  <2> HIDE DEF n, m
  <2>3. ASSUME NEW i \in 1..m, i > m - clean' PROVE results'[i] = TRUE
    <3>1. CASE i = n + 1
      BY <2>2, <3>1
    <3>2. CASE i # n + 1
      <4>1. i \in 1..n /\ i > n - clean
        BY <1>1, <1>2, <2>2, <2>3, <3>2
      <4> QED BY <1>3, <2>2, <4>1
    <3> QED BY <3>1, <3>2
  <2>4. m >= AtMost(clean', Window)
    BY <1>1, <1>2, <1>3, <1>4, <2>2 DEF AtMost
  <2>5. \A i \in 1..m : i > m - clean' => results'[i] = TRUE
    BY <2>3
  <2> QED BY <2>4, <2>5 DEF WindowClean, m
<1>5. CASE n = Window
  <2>1. results' = Append(Tail(results), TRUE)
    <3>1. ~(Len(results) < Window)
      BY <1>1, <1>5
    <3> QED BY <1>2, <3>1, Zenon DEF Pushed
  <2>2. /\ Tail(results) \in Seq(BOOLEAN) /\ Len(Tail(results)) = Window - 1
        /\ \A i \in 1..Window - 1 : Tail(results)[i] = results[i + 1]
    BY <1>1, <1>5
  <2>3. /\ m = Window /\ results'[Window] = TRUE
        /\ \A i \in 1..Window - 1 : results'[i] = results[i + 1]
    <3>1. \A t \in Seq(BOOLEAN) : /\ Len(Append(t, TRUE)) = Len(t) + 1
                                  /\ Append(t, TRUE)[Len(t) + 1] = TRUE
                                  /\ \A i \in 1..Len(t) : Append(t, TRUE)[i] = t[i]
      OBVIOUS
    <3>2. /\ m = (Window - 1) + 1 /\ results'[(Window - 1) + 1] = TRUE
          /\ \A i \in 1..Window - 1 : results'[i] = Tail(results)[i]
      BY <2>1, <2>2, <3>1
    <3>3. (Window - 1) + 1 = Window
      BY <1>1
    <3> QED BY <2>2, <3>2, <3>3
  <2> HIDE DEF n, m
  <2>4. ASSUME NEW i \in 1..m, i > m - clean' PROVE results'[i] = TRUE
    <3>1. CASE i = Window
      BY <2>3, <3>1
    <3>2. CASE i # Window
      <4>1. /\ i \in 1..Window - 1 /\ i + 1 \in 1..n /\ i + 1 > n - clean
        BY <1>1, <1>2, <1>5, <2>3, <2>4, <3>2
      <4> QED BY <1>3, <2>3, <4>1
    <3> QED BY <3>1, <3>2
  <2>5. m >= AtMost(clean', Window)
    BY <1>1, <1>2, <2>3 DEF AtMost
  <2> QED BY <2>4, <2>5 DEF WindowClean, m
<1> QED BY <1>1, <1>4, <1>5

\* From the first success that fills the window on, each one undoes a step.
LEMMA SuccessEases ==
    ASSUME LimiterType, PaceInv, RecordSuccess
    PROVE  PaceInv'
<1>1. WindowClean'
  BY SuccessKeepsWindow DEF PaceInv
<1>2. ASSUME clean' >= Window PROVE multiplier' <= Eased[clean' - Window + 1]
  <2>1. clean' = clean + 1 /\ clean' \in Nat /\ multiplier \in Unit..MaxMultiplier
    BY DEF RecordSuccess, LimiterType
  <2>2. results' \in Seq(BOOLEAN) /\ Len(results') = Window
    <3>1. results' \in Seq(BOOLEAN) /\ Len(results') <= Window
      BY RecordingKeepsType
    <3>2. Len(results') >= Window
      BY <1>1, <1>2, <2>1, <3>1 DEF WindowClean, AtMost
    <3> QED BY <3>1, <3>2
  <2>3. {i \in DOMAIN results' : ~results'[i]} = {}
    <3>1. \A i \in 1..Len(results') : results'[i] = TRUE
      BY <1>1, <1>2, <2>1, <2>2 DEF WindowClean
    <3>2. DOMAIN results' = 1..Len(results')
      BY <2>2
    <3> QED BY <3>1, <3>2
  <2>4. Failures(results') = 0
    BY <2>3, FS_EmptySet DEF Failures
  <2>5. multiplier' = Faster(multiplier)
    BY <2>2, <2>4 DEF RecordSuccess
  <2> DEFINE k == clean - Window + 1
  <2>6. k \in Nat /\ k + 1 = clean' - Window + 1
    BY <1>2, <2>1 DEF LimiterType
  <2>7. multiplier <= Eased[k]
    <3>1. CASE clean >= Window
      <4>1. clean >= Window => multiplier <= Eased[k]
        BY Zenon DEF PaceInv, PaceRecovers
      <4> QED BY <3>1, <4>1
    <3>2. CASE ~(clean >= Window)
      <4>1. k = 0
        BY <1>2, <2>1, <3>2 DEF LimiterType
      <4>2. Eased[k] = MaxMultiplier
        BY <4>1, EasedIsDefined, Zenon
      <4> QED BY <2>1, <4>2
    <3> QED BY <3>1, <3>2
  <2>8. Eased[k + 1] = Faster(Eased[k]) /\ Eased[k] \in Unit..MaxMultiplier
    BY <2>6, EasedIsDefined, EasedInRange
  <2> HIDE DEF k
  <2>9. Faster(multiplier) <= Faster(Eased[k])
    <3>1. multiplier \in Nat /\ Eased[k] \in Nat
      BY <2>1, <2>8
    <3> QED BY <2>7, <3>1, EasingKeepsOrder
  <2> QED BY <2>5, <2>6, <2>8, <2>9
<1> QED BY <1>1, <1>2 DEF PaceInv, PaceRecovers

(***************************************************************************)
(* The steps.  Every action is one of four kinds, by what it does with the *)
(* limiter and the browser; of each kind the parts of the invariant that   *)
(* are about them follow at once, and the rest is a matter of places.      *)
(***************************************************************************)

\* A step that leaves the limiter alone, rests or records keeps its type.
LimiterStep ==
    \/ UNCHANGED limiter
    \/ /\ UNCHANGED <<results, multiplier, clean>>
       /\ \/ WaitBetweenLoads \/ Wait
          \/ rested' = FALSE /\ UNCHANGED long_pause_in
          \/ UNCHANGED <<rested, long_pause_in>>
    \/ /\ RecordSuccess \/ RecordCaptcha \/ RecordError
       /\ WaitBetweenLoads \/ Wait \/ UNCHANGED <<rested, long_pause_in>>

LEMMA LimiterStepKeepsType ==
    ASSUME LimiterType, LimiterStep
    PROVE  LimiterType'
<1>1. CASE UNCHANGED limiter
  BY <1>1 DEF limiter, LimiterType
<1>2. /\ WaitBetweenLoads \/ Wait \/ UNCHANGED <<rested, long_pause_in>>
            \/ (rested' = FALSE /\ UNCHANGED long_pause_in)
      => rested' \in BOOLEAN /\ long_pause_in' \in Nat
  BY PausesRest DEF LimiterType
<1>3. CASE UNCHANGED <<results, multiplier, clean>> /\ ~UNCHANGED limiter
  <2>1. rested' \in BOOLEAN /\ long_pause_in' \in Nat
    BY <1>2, <1>3 DEF LimiterStep, RecordSuccess, RecordCaptcha, RecordError
  <2> QED BY <1>3, <2>1 DEF LimiterType
<1>4. CASE RecordSuccess \/ RecordCaptcha \/ RecordError
  <2>1. rested' \in BOOLEAN /\ long_pause_in' \in Nat
    BY <1>2, <1>4 DEF LimiterStep, limiter, LimiterType
  <2> QED BY <1>4, <2>1, RecordingKeepsType DEF LimiterType
<1> QED BY <1>1, <1>3, <1>4 DEF LimiterStep

\* What the operations of the manager keep: its type, and the count of Chromes.
BrowserInv ==
    /\ BrowserType
    /\ chromes = strays + Running
    /\ dead_loads <= IF driver = "dead" THEN page_count ELSE 0

LEMMA StartKeeps ==
    ASSUME BrowserInv, NEW launch \in Outcomes, Start(launch), UNCHANGED page_count
    PROVE  BrowserInv' /\ (driver' = "none" \/ launch = "ok")
BY DEF BrowserInv, BrowserType, Start, Outcomes, Fault, Stray, Running

LEMMA StopKeeps ==
    ASSUME BrowserInv, NEW quit \in Outcomes, Stop(quit), UNCHANGED page_count
    PROVE  BrowserInv' /\ driver' = "none"
BY DEF BrowserInv, BrowserType, Stop, Outcomes, QuitOutcomes, Fault, Stray, Running

LEMMA RestartKeeps ==
    ASSUME BrowserInv, NEW quit \in Outcomes, NEW launch \in Outcomes,
           Restart(quit, launch), page_count' \in 0..RotateEvery-1
    PROVE  BrowserInv'
BY DEF BrowserInv, BrowserType, Restart, Outcomes, QuitOutcomes, Fault, Stray, Running

LEMMA OpenPageKeeps ==
    ASSUME BrowserInv, NEW quit \in Outcomes, NEW launch \in Outcomes,
           OpenPage(quit, launch)
    PROVE  BrowserInv'
<1>1. /\ page_count' \in 0..RotateEvery-1
      /\ page_count' = 0 \/ page_count' = page_count + 1
  BY DEF OpenPage, BrowserInv, BrowserType
<1>2. CASE page_count' = 0
  BY <1>1, <1>2, RestartKeeps DEF OpenPage
<1>3. CASE page_count' # 0 /\ driver = "none"
  BY <1>1, <1>3 DEF OpenPage, BrowserInv, BrowserType, Start, Outcomes, Fault, Stray,
                    Running
<1>4. CASE page_count' # 0 /\ driver # "none"
  BY <1>1, <1>4 DEF OpenPage, BrowserInv, BrowserType, Running
<1> QED BY <1>2, <1>3, <1>4

LEMMA ChromeDiesKeeps ==
    ASSUME BrowserInv, ChromeDies
    PROVE  BrowserInv'
BY DEF BrowserInv, BrowserType, ChromeDies, Running

(***************************************************************************)
(* The invariant.                                                          *)
(***************************************************************************)

LEMMA InitInv == Init => Inv
<1> SUFFICES ASSUME Init PROVE Inv
  OBVIOUS
<1> USE DEF Init, LimiterInit, BrowserInit
<1>1. LimiterType
  BY DEF LimiterType
<1>2. BrowserType
  BY DEF BrowserType
<1>3. TypeOK
  BY <1>1, <1>2 DEF TypeOK, Places
<1>4. RestsFirst /\ OneDriver /\ SavesInTurn /\ CountsEmpties
  BY DEF RestsFirst, OneDriver, Running, SavesInTurn, CountsEmpties, EmptyRun, Reading
<1> QED BY <1>3, <1>4 DEF Inv

\* The browser's part of the invariant, which most steps leave alone.
DriverInv == BrowserInv /\ (pc \in {"starting", "ended"} => driver = "none")

\* The crawl's own variables.
PlaceType ==
    /\ pc \in Places
    /\ room \in 1..Len(Rooms)
    /\ page \in Nat
    /\ attempt \in 1..MaxRetries
    /\ empties \in 0..2
    /\ outcome \in {"none", "done", "captcha", "failed", "interrupted"}
    /\ barren \subseteq FirstPage..LastPage
    /\ unsaved \subseteq {page}

LEMMA InvParts ==
    Inv <=> /\ LimiterType /\ DriverInv /\ PlaceType
            /\ RestsFirst /\ SavesInTurn /\ CountsEmpties
BY DEF Inv, TypeOK, PlaceType, DriverInv, BrowserInv, OneDriver

\* Every step of a session uses the limiter by its operations.
LEMMA NextIsLimiterStep == [Next]_vars => LimiterStep
BY DEF Next, Collect, vars, LimiterStep, StartBrowser, TakePage, LeaveRoom, NextPage,
       Save, SaveFails, CountEmpty, OpenBrowser, OnCaptcha, LoadPage, OnCards,
       OnNothing, OnError, StopBrowser, Interrupt, Crash, limiter, RecordSuccess

\* Every step leaves the limiter in order.
LEMMA LimiterSteps ==
    ASSUME Inv, [Next]_vars
    PROVE  LimiterType'
BY NextIsLimiterStep, InvParts, LimiterStepKeepsType

\* Every step keeps what is known of the pace.
LEMMA PaceSteps ==
    ASSUME LimiterType, PaceInv, [Next]_vars
    PROVE  PaceInv'
<1>1. LimiterStep
  BY NextIsLimiterStep
<1>2. CASE UNCHANGED <<results, multiplier, clean>>
  BY <1>2 DEF PaceInv, WindowClean, PaceRecovers
<1>3. CASE RecordSuccess
  BY <1>3, SuccessEases
<1>4. CASE RecordCaptcha \/ RecordError
  <2>1. clean' = 0
    BY <1>4 DEF RecordCaptcha, RecordError
  <2>2. Len(results') \in Nat
    BY <1>4, RecordingKeepsType
  <2>3. WindowClean'
    BY <2>1, <2>2 DEF WindowClean, AtMost
  <2>4. PaceRecovers'
    BY <2>1 DEF PaceRecovers
  <2> QED BY <2>3, <2>4 DEF PaceInv
<1> QED BY <1>1, <1>2, <1>3, <1>4 DEF LimiterStep, limiter

\* Every step leaves the browser in order.
LEMMA BrowserSteps ==
    ASSUME Inv, [Next]_vars
    PROVE  DriverInv'
<1> USE InvParts
<1>1. ASSUME NEW launch \in Outcomes, StartBrowser(launch)
      PROVE  DriverInv'
  BY <1>1, StartKeeps DEF StartBrowser, DriverInv, Goto, Close
<1>2. ASSUME NEW quit \in Outcomes, NEW launch \in Outcomes, OpenBrowser(quit, launch)
      PROVE  DriverInv'
  BY <1>2, OpenPageKeeps DEF OpenBrowser, DriverInv, Goto
<1>3. ASSUME NEW quit \in Outcomes, NEW launch \in Outcomes, OnCaptcha(quit, launch)
      PROVE  DriverInv'
  <2>1. pc' \in {"opening", "closing"} /\ page_count' = page_count
    BY <1>3 DEF OnCaptcha, Retry, Goto, Close
  <2>2. CASE attempt < MaxRetries
    BY <1>3, <2>1, <2>2, RestartKeeps DEF OnCaptcha, DriverInv, BrowserInv, BrowserType
  <2>3. CASE ~(attempt < MaxRetries)
    BY <1>3, <2>1, <2>3 DEF OnCaptcha, DriverInv, BrowserInv, BrowserType, Running
  <2> QED BY <2>2, <2>3
<1>4. ASSUME NEW quit \in Outcomes, StopBrowser(quit)
      PROVE  DriverInv'
  BY <1>4, StopKeeps DEF StopBrowser, DriverInv
<1>5. CASE Crash
  BY <1>5, ChromeDiesKeeps DEF Crash, ChromeDies, DriverInv, crawl
<1>6. ASSUME UNCHANGED browser, pc' \notin {"starting", "ended"} \/ pc' = pc
      PROVE  DriverInv'
  BY <1>6 DEF browser, DriverInv, BrowserInv, BrowserType, Running
<1>7. CASE \/ TakePage \/ LeaveRoom \/ NextPage \/ Save \/ SaveFails \/ CountEmpty
           \/ OnCards \/ OnNothing \/ OnError \/ Interrupt
  BY <1>6, <1>7 DEF TakePage, LeaveRoom, NextPage, Save, SaveFails, CountEmpty, OnCards,
                    OnNothing, OnError, Interrupt, Goto, Close, Retry
<1>8. ASSUME NEW shown \in {"cards", "nothing", "empty", "captcha", "error"},
             LoadPage(shown)
      PROVE  DriverInv'
  BY <1>6, <1>8 DEF LoadPage, Goto
<1>9. CASE UNCHANGED vars
  BY <1>6, <1>9 DEF vars, crawl
<1> QED BY <1>1, <1>2, <1>3, <1>4, <1>5, <1>7, <1>8, <1>9 DEF Next, Collect

\* What is kept of the session's own variables.
PlacesInv == PlaceType /\ RestsFirst /\ SavesInTurn /\ CountsEmpties

LEMMA PlaceSteps ==
    ASSUME Inv, [Next]_vars
    PROVE  PlacesInv'
<1> USE InvParts
<1> USE DEF PlacesInv, PlaceType, Places, Reading, SavesInTurn, CountsEmpties, EmptyRun,
            RestsFirst, place, Goto, Close, Retry
<1>1. ASSUME NEW launch \in Outcomes, StartBrowser(launch)
      PROVE  PlacesInv'
  BY <1>1 DEF StartBrowser, limiter
<1>2. CASE TakePage
  BY <1>2 DEF TakePage, WaitBetweenLoads
<1>3. CASE LeaveRoom
  <2>1. Len(Rooms) \in Nat \ {0}
    OBVIOUS
  <2>2. rested => rested'
    BY <1>3 DEF LeaveRoom, Wait
  <2>3. CASE room < Len(Rooms)
    <3>1. /\ pc' = "turn" /\ page' = FirstPage /\ room' = room + 1
          /\ empties' = 0 /\ barren' = {} /\ outcome' = outcome
          /\ attempt' = attempt /\ unsaved' = unsaved
      BY <1>3, <2>3 DEF LeaveRoom
    <3>2. outcome = "none" /\ unsaved = {}
      BY <1>3 DEF LeaveRoom
    <3> QED BY <2>1, <2>3, <3>1, <3>2
  <2>4. CASE ~(room < Len(Rooms))
    BY <1>3, <2>1, <2>2, <2>4 DEF LeaveRoom
  <2> QED BY <2>3, <2>4
<1>4. CASE NextPage
  BY <1>4 DEF NextPage, limiter
<1>5. CASE Save
  BY <1>5 DEF Save, limiter
<1>6. CASE SaveFails
  BY <1>6 DEF SaveFails, limiter
<1>7. CASE CountEmpty
  BY <1>7 DEF CountEmpty, limiter
<1>8. ASSUME NEW quit \in Outcomes, NEW launch \in Outcomes, OpenBrowser(quit, launch)
      PROVE  PlacesInv'
  BY <1>8 DEF OpenBrowser, limiter
<1>9. ASSUME NEW quit \in Outcomes, NEW launch \in Outcomes, OnCaptcha(quit, launch)
      PROVE  PlacesInv'
  BY <1>9 DEF OnCaptcha, Wait
<1>10. ASSUME NEW shown \in {"cards", "nothing", "empty", "captcha", "error"},
              LoadPage(shown)
       PROVE  PlacesInv'
  BY <1>10 DEF LoadPage
<1>11. CASE OnCards
  BY <1>11 DEF OnCards, RecordSuccess
<1>12. CASE OnNothing
  <2>1. CASE attempt < MaxRetries
    <3>1. rested'
      BY <1>12, <2>1 DEF OnNothing, WaitBetweenLoads
    <3> QED BY <1>12, <2>1, <3>1 DEF OnNothing
  <2>2. CASE ~(attempt < MaxRetries)
    BY <1>12, <2>2 DEF OnNothing
  <2> QED BY <2>1, <2>2
<1>13. CASE OnError
  <2>1. CASE attempt < MaxRetries
    <3>1. rested'
      BY <1>13, <2>1 DEF OnError, WaitBetweenLoads
    <3> QED BY <1>13, <2>1, <3>1 DEF OnError
  <2>2. CASE ~(attempt < MaxRetries)
    BY <1>13, <2>2 DEF OnError
  <2> QED BY <2>1, <2>2
<1>14. ASSUME NEW quit \in Outcomes, StopBrowser(quit)
       PROVE  PlacesInv'
  BY <1>14 DEF StopBrowser, limiter
<1>15. CASE Interrupt
  BY <1>15 DEF Interrupt, limiter
<1>16. CASE Crash
  BY <1>16 DEF Crash, crawl, limiter
<1>17. CASE UNCHANGED vars
  BY <1>17 DEF vars, crawl, limiter
<1> QED BY <1>1, <1>2, <1>3, <1>4, <1>5, <1>6, <1>7, <1>8, <1>9, <1>10, <1>11, <1>12,
           <1>13, <1>14, <1>15, <1>16, <1>17 DEF Next, Collect

LEMMA StepInv == Inv /\ [Next]_vars => Inv'
<1> SUFFICES ASSUME Inv, [Next]_vars PROVE Inv'
  OBVIOUS
<1>1. LimiterType' /\ DriverInv' /\ PlacesInv'
  BY LimiterSteps, BrowserSteps, PlaceSteps
<1> QED BY <1>1 DEF Inv, TypeOK, PlaceType, DriverInv, BrowserInv, OneDriver, PlacesInv

(***************************************************************************)
(* DomClick's session.                                                     *)
(***************************************************************************)

\* Where the run of pages that added nothing, and that is being counted, ends.
DomCounts ==
    /\ dom_pc \in {"testing", "turn", "end", "barren", "failing", "blocked", "ended"}
    /\ dom_page \in Nat \ {0}
    /\ dom_empties \in Nat
    /\ dom_pc = "testing" => dom_empties = 0
    /\ dom_pc = "turn" /\ dom_empties >= 1 => dom_page - 1 \in dom_barren
    /\ dom_pc = "turn" /\ dom_empties >= 2 => dom_page - 2 \in dom_barren
    /\ dom_pc = "barren" => {dom_page - 1, dom_page} \subseteq dom_barren
    /\ dom_pc = "failing" => {dom_page - 2, dom_page - 1, dom_page} \subseteq dom_barren

LEMMA DomInit == Dom!Init => DomCounts
BY DomAssumption DEF Dom!Init, DomCounts, Dom!Parameters

LEMMA DomStep == DomCounts /\ [Dom!Next]_dom => DomCounts'
<1> SUFFICES ASSUME DomCounts, [Dom!Next]_dom PROVE DomCounts'
  OBVIOUS
<1> USE DomAssumption DEF DomCounts, Dom!Parameters
<1>1. ASSUME NEW count \in 1..dom_empties + 1, count \in {1, dom_empties + 1},
             NEW limit, NEW exit, <<limit, exit>> \in {<<2, "barren">>, <<3, "failing">>},
             dom_pc = "turn", Dom!CountEmpty(count, limit, exit)
      PROVE  DomCounts'
  BY <1>1 DEF Dom!CountEmpty, Dom!NextPage
<1>2. CASE Dom!PageFails
  BY <1>1, <1>2 DEF Dom!PageFails, Dom!Asks
<1>3. ASSUME NEW named \in BOOLEAN, Dom!PageShowsNothing(named)
      PROVE  DomCounts'
  BY <1>1, <1>3 DEF Dom!PageShowsNothing, Dom!Asks
<1>4. ASSUME NEW named \in BOOLEAN, Dom!PageNotSaved(named)
      PROVE  DomCounts'
  BY <1>1, <1>4 DEF Dom!PageNotSaved, Dom!Asks
<1>5. ASSUME NEW named \in BOOLEAN, NEW parsed, Dom!PageSaved(parsed, named)
      PROVE  DomCounts'
  BY <1>5 DEF Dom!PageSaved, Dom!NextPage
<1>6. ASSUME NEW named \in BOOLEAN, Dom!PageSaysNothing(named)
      PROVE  DomCounts'
  BY <1>6 DEF Dom!PageSaysNothing
<1>7. ASSUME NEW answers \in BOOLEAN, Dom!TestConnection(answers)
      PROVE  DomCounts'
  BY <1>7 DEF Dom!TestConnection, Dom!End, Dom!Forget, Dom!crawl
<1>8. CASE Dom!EndOfPages \/ Dom!PageBlocked
  BY <1>8 DEF Dom!EndOfPages, Dom!PageBlocked, Dom!crawl
<1>9. CASE Dom!LeaveRoom \/ Dom!Interrupt
  BY <1>9 DEF Dom!LeaveRoom, Dom!Interrupt, Dom!End, Dom!Forget
<1>10. CASE Dom!Move \/ UNCHANGED dom
  BY <1>10 DEF Dom!Move, Dom!crawl, dom
<1> QED BY <1>2, <1>3, <1>4, <1>5, <1>6, <1>7, <1>8, <1>9, <1>10
        DEF Dom!Next, Dom!Collect

(***************************************************************************)
(* How many offers of DomClick's list hide from a session that asks for    *)
(* its pages by their offset.                                              *)
(***************************************************************************)

\* What stands in s after the first lo places, up to the place hi.
Between(s, lo, hi) == {s[k] : k \in {i \in 1..Len(s) : lo < i /\ i <= hi}}

\* A piece of a sequence, and two of them in a row.
LEMMA PieceOf ==
    ASSUME NEW s \in Seq(Nat), NEW i \in 1..Len(s) + 1, NEW j \in 0..Len(s)
    PROVE  LET t == SubSeq(s, i, j)
           IN  /\ t \in Seq(Nat)
               /\ Len(t) = IF i <= j THEN j - i + 1 ELSE 0
               /\ \A k \in 1..j - i + 1 : t[k] = s[i + k - 1]
<1>1. \A k \in i..j : s[k] \in Nat
  OBVIOUS
<1> QED BY <1>1, SubSeqProperties

LEMMA InARow ==
    ASSUME NEW s \in Seq(Nat), NEW t \in Seq(Nat)
    PROVE  /\ s \o t \in Seq(Nat)
           /\ Len(s \o t) = Len(s) + Len(t)
           /\ \A k \in 1..Len(s) : (s \o t)[k] = s[k]
           /\ \A k \in 1..Len(t) : (s \o t)[Len(s) + k] = t[k]
<1>1. \A k \in 1..Len(s) + Len(t) :
         (s \o t)[k] = IF k <= Len(s) THEN s[k] ELSE t[k - Len(s)]
  BY ConcatProperties
<1>2. s \o t \in Seq(Nat) /\ Len(s \o t) = Len(s) + Len(t)
  BY ConcatProperties
<1>3. \A k \in 1..Len(t) : (s \o t)[Len(s) + k] = t[k]
  <2> TAKE k \in 1..Len(t)
  <2>1. /\ Len(s) + k \in 1..Len(s) + Len(t)
        /\ ~(Len(s) + k <= Len(s)) /\ (Len(s) + k) - Len(s) = k
    OBVIOUS
  <2> QED BY <1>1, <2>1
<1> QED BY <1>1, <1>2, <1>3

\* The list without its i-th offer, and with another as its j-th.
Less(s, i) == SubSeq(s, 1, i - 1) \o SubSeq(s, i + 1, Len(s))
More(s, j, offer) == SubSeq(s, 1, j - 1) \o <<offer>> \o SubSeq(s, j, Len(s))

\* Those from the j-th place on stand one place further back.
MadeRoom(s, j, offer, t) ==
    /\ t \in Seq(Nat) /\ Len(t) = Len(s) + 1 /\ t[j] = offer
    /\ \A k \in 1..j - 1 : t[k] = s[k]
    /\ \A k \in j..Len(s) : t[k + 1] = s[k]

\* Taking the i-th away brings those behind it one place forward.
LEMMA WithdrawalShifts ==
    ASSUME NEW s \in Seq(Nat), NEW i \in 1..Len(s), NEW t, t = Less(s, i)
    PROVE  /\ t \in Seq(Nat) /\ Len(t) = Len(s) - 1
           /\ \A k \in 1..i - 1 : t[k] = s[k]
           /\ \A k \in i + 1..Len(s) : t[k - 1] = s[k]
<1> DEFINE a == SubSeq(s, 1, i - 1)
           b == SubSeq(s, i + 1, Len(s))
<1>1. /\ a \in Seq(Nat) /\ Len(a) = i - 1
      /\ \A k \in 1..i - 1 : a[k] = s[k]
  BY PieceOf
<1>2. /\ b \in Seq(Nat) /\ Len(b) = Len(s) - i
      /\ \A k \in 1..Len(s) - i : b[k] = s[i + k]
  BY PieceOf
<1>3. t = a \o b
  BY DEF Less
<1> HIDE DEF a, b
<1>4. /\ t \in Seq(Nat) /\ Len(t) = Len(a) + Len(b)
      /\ \A k \in 1..Len(a) : t[k] = a[k]
      /\ \A k \in 1..Len(b) : t[Len(a) + k] = b[k]
  <2>1. /\ a \o b \in Seq(Nat) /\ Len(a \o b) = Len(a) + Len(b)
        /\ \A k \in 1..Len(a) : (a \o b)[k] = a[k]
        /\ \A k \in 1..Len(b) : (a \o b)[Len(a) + k] = b[k]
    BY <1>1, <1>2, InARow
  <2> QED BY <1>3, <2>1, Zenon
<1>5. ASSUME NEW k \in i + 1..Len(s) PROVE t[k - 1] = s[k]
  <2>1. k - i \in 1..Len(s) - i /\ (i - 1) + (k - i) = k - 1 /\ i + (k - i) = k
    OBVIOUS
  <2>2. b[k - i] = s[k]
    BY <1>2, <2>1
  <2>3. t[(i - 1) + (k - i)] = b[k - i]
    BY <1>1, <1>2, <1>4, <2>1
  <2> QED BY <2>1, <2>2, <2>3
<1> QED BY <1>1, <1>2, <1>4, <1>5

\* Putting an offer at the j-th place brings those from there on one place back.
LEMMA InsertionShifts ==
    ASSUME NEW s \in Seq(Nat), NEW j \in 1..Len(s) + 1, NEW offer \in Nat
    PROVE  MadeRoom(s, j, offer, More(s, j, offer))
<1> DEFINE a == SubSeq(s, 1, j - 1)
           b == SubSeq(s, j, Len(s))
           c == a \o <<offer>>
           t == More(s, j, offer)
<1>1. /\ a \in Seq(Nat) /\ Len(a) = j - 1
      /\ \A k \in 1..j - 1 : a[k] = s[k]
  BY PieceOf
<1>2. /\ b \in Seq(Nat) /\ Len(b) = Len(s) - j + 1
      /\ \A k \in 1..Len(s) - j + 1 : b[k] = s[j + k - 1]
  BY PieceOf
<1>3. t = c \o b
  BY DEF More
<1> HIDE DEF a, b, t
<1>4. /\ <<offer>> \in Seq(Nat) /\ Len(<<offer>>) = 1 /\ <<offer>>[1] = offer
  OBVIOUS
<1>5. /\ c \in Seq(Nat) /\ Len(c) = j
      /\ \A k \in 1..j - 1 : c[k] = s[k]
      /\ c[j] = offer
  <2>1. /\ c \in Seq(Nat) /\ Len(c) = Len(a) + Len(<<offer>>)
        /\ \A k \in 1..Len(a) : c[k] = a[k]
        /\ \A k \in 1..Len(<<offer>>) : c[Len(a) + k] = <<offer>>[k]
    BY <1>1, <1>4, InARow, Zenon
  <2> HIDE DEF c
  <2> QED BY <1>1, <1>4, <2>1
<1> HIDE DEF c
<1>6. /\ t \in Seq(Nat) /\ Len(t) = Len(c) + Len(b)
      /\ \A k \in 1..Len(c) : t[k] = c[k]
      /\ \A k \in 1..Len(b) : t[Len(c) + k] = b[k]
  <2>1. /\ c \o b \in Seq(Nat) /\ Len(c \o b) = Len(c) + Len(b)
        /\ \A k \in 1..Len(c) : (c \o b)[k] = c[k]
        /\ \A k \in 1..Len(b) : (c \o b)[Len(c) + k] = b[k]
    BY <1>2, <1>5, InARow
  <2> QED BY <1>3, <2>1, Zenon
<1>7. ASSUME NEW k \in j..Len(s) PROVE t[k + 1] = s[k]
  <2>1. /\ k - j + 1 \in 1..Len(s) - j + 1
        /\ j + (k - j + 1) = k + 1 /\ j + (k - j + 1) - 1 = k
    OBVIOUS
  <2>2. b[k - j + 1] = s[k]
    BY <1>2, <2>1
  <2>3. t[j + (k - j + 1)] = b[k - j + 1]
    BY <1>2, <1>5, <1>6, <2>1
  <2> QED BY <2>1, <2>2, <2>3
<1>8. MadeRoom(s, j, offer, t)
  BY <1>2, <1>5, <1>6, <1>7 DEF MadeRoom
<1> QED BY <1>8 DEF t

\* No offer is in the list that was not there, but the one that came.
Offers(s) == {s[k] : k \in 1..Len(s)}

LEMMA WithdrawalKeepsOffers ==
    ASSUME NEW s \in Seq(Nat), NEW i \in 1..Len(s)
    PROVE  /\ Less(s, i) \in Seq(Nat) /\ Len(Less(s, i)) = Len(s) - 1
           /\ Offers(Less(s, i)) \subseteq Offers(s)
<1> DEFINE t == Less(s, i)
<1>1. /\ t \in Seq(Nat) /\ Len(t) = Len(s) - 1
      /\ \A k \in 1..i - 1 : t[k] = s[k]
      /\ \A k \in i + 1..Len(s) : t[k - 1] = s[k]
  BY WithdrawalShifts
<1> HIDE DEF t
<1>2. ASSUME NEW k \in 1..Len(t) PROVE t[k] \in Offers(s)
  <2>1. CASE k < i
    BY <1>1, <2>1 DEF Offers
  <2>2. CASE k >= i
    <3>1. k + 1 \in i + 1..Len(s) /\ (k + 1) - 1 = k
      BY <1>1, <2>2
    <3>2. t[k] = s[k + 1] /\ k + 1 \in 1..Len(s)
      BY <1>1, <3>1
    <3> QED BY <3>2 DEF Offers
  <2> QED BY <2>1, <2>2
<1>3. Offers(t) \subseteq Offers(s)
  BY <1>2 DEF Offers
<1> QED BY <1>1, <1>3 DEF t

LEMMA ListingKeepsOffers ==
    ASSUME NEW s \in Seq(Nat), NEW j \in 1..Len(s) + 1, NEW offer \in Nat
    PROVE  /\ More(s, j, offer) \in Seq(Nat)
           /\ Offers(More(s, j, offer)) \subseteq Offers(s) \cup {offer}
<1> DEFINE t == More(s, j, offer)
<1>1. MadeRoom(s, j, offer, t)
  BY InsertionShifts
<1> HIDE DEF t
<1>2. ASSUME NEW k \in 1..Len(t) PROVE t[k] \in Offers(s) \cup {offer}
  <2>1. CASE k < j
    <3>1. k \in 1..j - 1 /\ k \in 1..Len(s)
      BY <2>1
    <3>2. t[k] = s[k]
      BY <1>1, <3>1 DEF MadeRoom
    <3> QED BY <3>1, <3>2 DEF Offers
  <2>2. CASE k > j
    <3>1. Len(t) = Len(s) + 1
      BY <1>1 DEF MadeRoom
    <3>2. k - 1 \in j..Len(s) /\ (k - 1) + 1 = k /\ k - 1 \in 1..Len(s)
      BY <2>2, <3>1
    <3>3. t[(k - 1) + 1] = s[k - 1]
      BY <1>1, <3>2 DEF MadeRoom
    <3> QED BY <3>2, <3>3 DEF Offers
  <2>3. CASE k = j
    BY <1>1, <2>3 DEF MadeRoom
  <2> QED BY <2>1, <2>2, <2>3
<1>3. Offers(t) \subseteq Offers(s) \cup {offer}
  BY <1>2 DEF Offers
<1> QED BY <1>1, <1>3 DEF t, MadeRoom

\* An offer that is withdrawn, listed or moved takes one offer at the most out of a
\* part of the list.
HidesOne(s, t, lo, hi) ==
    \E offer : Between(s, lo, hi) \subseteq Between(t, lo, hi) \cup {offer}

LEMMA WithdrawalHidesOne ==
    ASSUME NEW s \in Seq(Nat), NEW lo \in Nat, NEW hi \in Nat, NEW i \in 1..Len(s)
    PROVE  HidesOne(s, Less(s, i), lo, hi)
<1> DEFINE t == Less(s, i)
           p == IF i <= lo THEN lo + 1 ELSE i
<1>1. /\ t \in Seq(Nat) /\ Len(t) = Len(s) - 1
      /\ \A k \in 1..i - 1 : t[k] = s[k]
      /\ \A k \in i + 1..Len(s) : t[k - 1] = s[k]
  BY WithdrawalShifts
<1> HIDE DEF t
<1>2. ASSUME NEW k \in 1..Len(s), lo < k, k <= hi, k # p
      PROVE  s[k] \in Between(t, lo, hi)
  <2>1. CASE k < i
    <3>1. k \in 1..Len(t) /\ t[k] = s[k]
      BY <1>1, <2>1
    <3> QED BY <1>2, <3>1 DEF Between
  <2>2. CASE k > i
    <3>1. k - 1 \in 1..Len(t) /\ lo < k - 1 /\ k - 1 <= hi /\ t[k - 1] = s[k]
      BY <1>1, <1>2, <2>2
    <3> QED BY <3>1 DEF Between
  <2> QED BY <1>2, <2>1, <2>2
<1>3. Between(s, lo, hi) \subseteq Between(t, lo, hi) \cup {s[p]}
  BY <1>2 DEF Between
<1> QED BY <1>3 DEF HidesOne, t

LEMMA ListingHidesOne ==
    ASSUME NEW s \in Seq(Nat), NEW lo \in Nat, NEW hi \in Nat, NEW j \in 1..Len(s) + 1,
           NEW offer \in Nat
    PROVE  HidesOne(s, More(s, j, offer), lo, hi)
<1> DEFINE t == More(s, j, offer)
<1>1. MadeRoom(s, j, offer, t)
  BY InsertionShifts
<1> HIDE DEF t
<1>2. ASSUME NEW k \in 1..Len(s), lo < k, k <= hi, k # hi
      PROVE  s[k] \in Between(t, lo, hi)
  <2>1. CASE k < j
    <3>1. k \in 1..Len(t) /\ t[k] = s[k]
      BY <1>1, <2>1 DEF MadeRoom
    <3> QED BY <1>2, <3>1 DEF Between
  <2>2. CASE k >= j
    <3>1. k + 1 \in 1..Len(t) /\ lo < k + 1 /\ k + 1 <= hi /\ t[k + 1] = s[k]
      BY <1>1, <1>2, <2>2 DEF MadeRoom
    <3> QED BY <3>1 DEF Between
  <2> QED BY <1>2, <2>1, <2>2
<1>3. Between(s, lo, hi) \subseteq Between(t, lo, hi) \cup {s[hi]}
  BY <1>2 DEF Between
<1> QED BY <1>3 DEF HidesOne, t

LEMMA MoveHidesOne ==
    ASSUME NEW s \in Seq(Nat), NEW lo \in Nat, NEW hi \in Nat,
           NEW i \in 1..Len(s), NEW j \in 1..Len(s)
    PROVE  HidesOne(s, More(Less(s, i), j, s[i]), lo, hi)
<1> DEFINE r == Less(s, i)
           t == More(r, j, s[i])
           p == IF i <= lo THEN lo + 1 ELSE IF i <= hi THEN i ELSE hi
           q(k) == IF k < i THEN k ELSE k - 1
<1>1. /\ r \in Seq(Nat) /\ Len(r) = Len(s) - 1
      /\ \A k \in 1..i - 1 : r[k] = s[k]
      /\ \A k \in i + 1..Len(s) : r[k - 1] = s[k]
  BY WithdrawalShifts
<1> HIDE DEF r
<1>2. s[i] \in Nat /\ j \in 1..Len(r) + 1
  BY <1>1
<1>3. MadeRoom(r, j, s[i], t)
  BY <1>1, <1>2, InsertionShifts
<1> HIDE DEF t
<1>4. ASSUME NEW k \in 1..Len(s), lo < k, k <= hi, k # p
      PROVE  s[k] \in Between(t, lo, hi)
  <2>1. CASE k # i
    <3>1. q(k) \in 1..Len(r) /\ r[q(k)] = s[k]
      <4>1. CASE k < i
        <5>1. k \in 1..Len(r) /\ r[k] = s[k]
          BY <1>1, <4>1
        <5> QED BY <4>1, <5>1
      <4>2. CASE k > i
        <5>1. k - 1 \in 1..Len(r) /\ r[k - 1] = s[k]
          BY <1>1, <4>2
        <5> QED BY <4>2, <5>1
      <4> QED BY <2>1, <4>1, <4>2
    <3>2. CASE q(k) < j
      <4>1. q(k) \in 1..Len(t) /\ t[q(k)] = s[k]
        <5> HIDE DEF q
        <5> QED BY <1>3, <3>1, <3>2 DEF MadeRoom
      <4>2. lo < q(k) /\ q(k) <= hi
        BY <1>4, <2>1
      <4> HIDE DEF q
      <4> QED BY <4>1, <4>2 DEF Between
    <3>3. CASE q(k) >= j
      <4>1. q(k) + 1 \in 1..Len(t) /\ t[q(k) + 1] = s[k]
        <5> HIDE DEF q
        <5>1. q(k) \in j..Len(r) /\ q(k) + 1 \in 1..Len(r) + 1
          BY <3>1, <3>3
        <5> QED BY <1>3, <3>1, <5>1 DEF MadeRoom
      <4>2. lo < q(k) + 1 /\ q(k) + 1 <= hi
        BY <1>4, <2>1
      <4> HIDE DEF q
      <4> QED BY <4>1, <4>2 DEF Between
    <3> QED BY <3>1, <3>2, <3>3
  <2>2. CASE k = i
    BY <1>4, <2>2
  <2> QED BY <2>1, <2>2
<1>5. Between(s, lo, hi) \subseteq Between(t, lo, hi) \cup {s[p]}
  BY <1>4 DEF Between
<1> QED BY <1>5 DEF HidesOne, t, r

(***************************************************************************)
(* What DomClick's session must still come upon.                           *)
(***************************************************************************)

\* The module of DomClick counts as this one does.
LEMMA OneCardinality == \A S : Dom!Cardinality(S) = Cardinality(S)
BY DEF Dom!Cardinality, Cardinality

\* The place in the list after which no page is asked for any more.
ReadTo ==
    IF total # 0 /\ total < LastPage * CardsPerPage THEN total ELSE LastPage * CardsPerPage

\* What is still listed, was on no page so far, and stands on none to come.
Hidden == Dom!Wanted \ (saved \cup missed \cup Between(list, Dom!Offset, ReadTo))

DomLoss ==
    /\ total \in Nat /\ moves \in Nat
    /\ list \in Seq(Nat)
    /\ dom_pc = "testing" => dom_page = FirstPage /\ total = 0 /\ moves = 0
    /\ dom_pc = "turn" => Cardinality(Hidden) <= moves
    /\ LossBounded

LEMMA OffsetIs ==
    ASSUME DomCounts
    PROVE  /\ Dom!Offset \in Nat /\ LastPage * CardsPerPage \in Nat
           /\ ReadTo \in Int \/ total \notin Nat
           /\ dom_page' = dom_page + 1 => Dom!Offset' = Dom!Offset + CardsPerPage
           /\ dom_page > LastPage => Dom!Offset >= LastPage * CardsPerPage
<1> USE DomAssumption DEF Dom!Parameters, DomCounts, Dom!Offset
<1>1. CardsPerPage \in Nat /\ dom_page - 1 \in Nat /\ LastPage \in Nat
  OBVIOUS
<1>2. \A a, b, c \in Nat : a * c \in Nat /\ (a >= b => a * c >= b * c)
  OBVIOUS
<1>3. dom_page' = dom_page + 1 => Dom!Offset' = Dom!Offset + CardsPerPage
  <2> SUFFICES ASSUME dom_page' = dom_page + 1
               PROVE  (dom_page' - 1) * CardsPerPage
                        = (dom_page - 1) * CardsPerPage + CardsPerPage
    OBVIOUS
  <2>1. \A a, c \in Nat : (a + 1) * c = a * c + c
    OBVIOUS
  <2>2. dom_page' - 1 = (dom_page - 1) + 1
    OBVIOUS
  <2> QED BY <1>1, <2>1, <2>2
<1>4. dom_page > LastPage => dom_page - 1 >= LastPage
  OBVIOUS
<1> QED BY <1>1, <1>2, <1>3, <1>4 DEF ReadTo

\* The offers that are looked for can be counted.
LEMMA WantedIsFinite ==
    ASSUME list \in Seq(Nat)
    PROVE  /\ Dom!Wanted \subseteq Nat \ {0}
           /\ IsFiniteSet(Dom!Wanted)
<1> USE DomAssumption DEF Dom!Parameters
<1>1. (FirstPage - 1) * CardsPerPage \in Nat /\ LastPage * CardsPerPage \in Nat
  OBVIOUS
<1>2. {list[k] : k \in DOMAIN list} \subseteq Nat
  OBVIOUS
<1>3. Dom!Wanted \subseteq 1..LastPage * CardsPerPage
  BY <1>1, <1>2 DEF Dom!Wanted
<1>4. IsFiniteSet(1..LastPage * CardsPerPage)
  BY <1>1, FS_Interval
<1>5. Dom!Wanted \in SUBSET (1..LastPage * CardsPerPage)
  BY <1>3
<1>6. IsFiniteSet(Dom!Wanted)
  BY <1>4, <1>5, FS_Subset
<1> QED BY <1>1, <1>3, <1>6

\* When nothing is left between, all that was not come upon hides.
LEMMA AllIsHidden ==
    ASSUME DomLoss, dom_pc = "turn", Between(list, Dom!Offset, ReadTo) = {}
    PROVE  Cardinality(Dom!Wanted \ (saved \cup missed)) <= moves
<1>1. Hidden = Dom!Wanted \ (saved \cup missed)
  BY DEF Hidden
<1> QED BY <1>1 DEF DomLoss

\* A page that is read, whatever comes of it, hides nothing.
LEMMA PageHidesNone ==
    ASSUME DomCounts, DomLoss, dom_pc = "turn",
           UNCHANGED <<list, moves>>, dom_page' = dom_page + 1,
           total' = total \/ (total = 0 /\ total' = Len(list)),
           saved \cup missed \cup (Dom!Cards \ {0}) \subseteq saved' \cup missed'
    PROVE  Cardinality(Hidden') <= moves'
<1> USE DEF DomLoss
<1>1. Dom!Wanted' = Dom!Wanted
  BY DEF Dom!Wanted
<1>2. /\ Dom!Offset \in Nat /\ Dom!Offset' = Dom!Offset + CardsPerPage
      /\ LastPage * CardsPerPage \in Nat /\ CardsPerPage \in Nat
  BY OffsetIs, DomAssumption DEF Dom!Parameters
<1>3. ASSUME NEW n \in Hidden' PROVE n \in Hidden
  <2>1. /\ n \in Dom!Wanted /\ n # 0 /\ n \notin saved \cup missed
        /\ n \notin Dom!Cards
    BY <1>1, <1>3, WantedIsFinite DEF Hidden
  <2>2. ASSUME NEW k \in 1..Len(list), n = list[k], Dom!Offset < k, k <= ReadTo
        PROVE  FALSE
    <3>1. k > Dom!Offset + CardsPerPage
      BY <1>2, <2>1, <2>2 DEF Dom!Cards
    <3>2. k <= ReadTo'
      BY <1>2, <2>2 DEF ReadTo
    <3>3. n \in Between(list', Dom!Offset', ReadTo')
      BY <1>2, <2>2, <3>1, <3>2 DEF Between
    <3> QED BY <1>3, <3>3 DEF Hidden
  <2>3. n \notin Between(list, Dom!Offset, ReadTo)
    BY <2>2 DEF Between
  <2> QED BY <2>1, <2>3 DEF Hidden
<1>4. IsFiniteSet(Hidden)
  BY WantedIsFinite, FS_Subset DEF Hidden
<1>5. Cardinality(Hidden') <= Cardinality(Hidden)
  BY <1>3, <1>4, FS_Subset
<1>6. Cardinality(Hidden) \in Nat /\ Cardinality(Hidden') \in Nat
  BY <1>3, <1>4, FS_Subset, FS_CardinalityType
<1> QED BY <1>5, <1>6

\* A change of the list hides one offer at the most.
LEMMA ChangeHidesOne ==
    ASSUME DomCounts, DomLoss, Dom!Move
    PROVE  DomLoss'
<1> USE DEF DomLoss
<1>1. /\ dom_pc = "turn" /\ moves' = moves + 1
      /\ UNCHANGED <<dom_pc, dom_page, total, saved, missed>>
  BY DEF Dom!Move, Dom!crawl
<1>2. Dom!Offset \in Nat /\ LastPage * CardsPerPage \in Nat /\ ReadTo \in Nat
  BY OffsetIs DEF ReadTo
<1>3. Dom!Offset' = Dom!Offset /\ ReadTo' = ReadTo
  BY <1>1 DEF Dom!Offset, ReadTo
<1>4. /\ list' \in Seq(Nat)
      /\ HidesOne(list, list', Dom!Offset, ReadTo)
      /\ Offers(list') \subseteq Offers(list) \cup {0}
  <2> USE <1>2
  <2>0. DOMAIN list = 1..Len(list)
    OBVIOUS
  <2>1. ASSUME NEW i \in 1..Len(list), list' = Less(list, i)
        PROVE  <1>4!:
    BY <2>1, WithdrawalHidesOne, WithdrawalKeepsOffers
  <2>2. ASSUME NEW j \in 1..Len(list) + 1, list' = More(list, j, 0)
        PROVE  <1>4!:
    BY <2>2, ListingHidesOne, ListingKeepsOffers
  <2>3. ASSUME NEW i \in 1..Len(list), NEW j \in 1..Len(list),
               list' = More(Less(list, i), j, list[i])
        PROVE  <1>4!:
    <3>1. /\ Less(list, i) \in Seq(Nat) /\ j \in 1..Len(Less(list, i)) + 1
          /\ Offers(Less(list, i)) \subseteq Offers(list)
      BY WithdrawalKeepsOffers
    <3>2. list[i] \in Offers(list) /\ list[i] \in Nat
      BY DEF Offers
    <3>3. /\ list' \in Seq(Nat)
          /\ Offers(list') \subseteq Offers(Less(list, i)) \cup {list[i]}
      BY <2>3, <3>1, <3>2, ListingKeepsOffers
    <3>4. HidesOne(list, list', Dom!Offset, ReadTo)
      BY <2>3, MoveHidesOne
    <3> QED BY <3>1, <3>2, <3>3, <3>4
  <2>4. \/ \E i \in 1..Len(list) : list' = Less(list, i)
        \/ \E j \in 1..Len(list) + 1 : list' = More(list, j, 0)
        \/ \E i, j \in 1..Len(list) : list' = More(Less(list, i), j, list[i])
    BY <2>0 DEF Dom!Move, Dom!Without, Dom!Putting, Less, More
  <2> QED BY <2>1, <2>2, <2>3, <2>4
<1>5. Dom!Wanted' \subseteq Dom!Wanted
  <2>1. (FirstPage - 1) * CardsPerPage \in Nat
    BY DomAssumption DEF Dom!Parameters
  <2>2. \A s \in Seq(Nat) : {s[k] : k \in DOMAIN s} = Offers(s)
    BY DEF Offers
  <2>3. {list'[k] : k \in DOMAIN list'} \subseteq {list[k] : k \in DOMAIN list} \cup {0}
    BY <1>4, <2>2
  <2>4. \A n \in Dom!Wanted' : n # 0
    <3>1. \A k \in DOMAIN list' : list'[k] \in Nat
      BY <1>4
    <3> QED BY <2>1, <3>1 DEF Dom!Wanted
  <2> QED BY <2>3, <2>4 DEF Dom!Wanted
<1>6. PICK y : Hidden' \subseteq Hidden \cup {y}
  <2>1. PICK y : Between(list, Dom!Offset, ReadTo)
                    \subseteq Between(list', Dom!Offset, ReadTo) \cup {y}
    BY <1>4 DEF HidesOne
  <2>2. Between(list, Dom!Offset, ReadTo)' = Between(list', Dom!Offset, ReadTo)
    BY <1>3 DEF Between
  <2>3. Hidden' \subseteq Hidden \cup {y}
    BY <1>1, <1>5, <2>1, <2>2 DEF Hidden
  <2> QED BY <2>3
<1>7. IsFiniteSet(Hidden)
  BY WantedIsFinite, FS_Subset DEF Hidden
<1>8. Cardinality(Hidden') <= Cardinality(Hidden) + 1
  <2>1. /\ IsFiniteSet(Hidden \cup {y}) /\ Cardinality(Hidden) \in Nat
        /\ Cardinality(Hidden \cup {y}) <= Cardinality(Hidden) + 1
    <3>1. Cardinality(Hidden) \in Nat
      BY <1>7, FS_CardinalityType
    <3>2. /\ IsFiniteSet(Hidden \cup {y})
          /\ Cardinality(Hidden \cup {y}) = IF y \in Hidden THEN Cardinality(Hidden)
                                            ELSE Cardinality(Hidden) + 1
      BY <1>7, FS_AddElement, Zenon
    <3> QED BY <3>1, <3>2
  <2>2. /\ Cardinality(Hidden') <= Cardinality(Hidden \cup {y})
        /\ Cardinality(Hidden') \in Nat /\ Cardinality(Hidden \cup {y}) \in Nat
    BY <1>6, <2>1, FS_Subset, FS_CardinalityType
  <2> QED BY <2>1, <2>2
<1>9. Cardinality(Hidden') \in Nat /\ Cardinality(Hidden) \in Nat
  BY <1>6, <1>7, FS_AddElement, FS_Subset, FS_CardinalityType
<1>10. LossBounded'
  BY <1>1 DEF LossBounded, Dom!LossBounded
<1> QED BY <1>1, <1>4, <1>8, <1>9, <1>10

\* A session that comes to a room type has lost nothing of its list.
LEMMA NothingHidesAtFirst ==
    ASSUME DomCounts, dom_pc' = "turn", dom_page' = FirstPage, list' \in Dom!Lists,
           total' = 0, moves' = 0
    PROVE  list' \in Seq(Nat) /\ Cardinality(Hidden') <= moves'
<1> USE DomAssumption DEF Dom!Parameters
<1>1. PICK m \in Nat : list' = [i \in 1..m |-> i]
  BY DEF Dom!Lists
<1>2. /\ list' \in Seq(Nat) /\ Len(list') = m /\ DOMAIN list' = 1..m
      /\ \A k \in 1..m : list'[k] = k
  BY <1>1
<1>3. ASSUME NEW n \in Hidden' PROVE FALSE
  <2>1. /\ n \in 1..m
        /\ (FirstPage - 1) * CardsPerPage < n /\ n <= LastPage * CardsPerPage
    BY <1>2, <1>3 DEF Hidden, Dom!Wanted
  <2>2. Dom!Offset' = (FirstPage - 1) * CardsPerPage /\ ReadTo' = LastPage * CardsPerPage
    BY DEF Dom!Offset, ReadTo
  <2>3. n \in Between(list', Dom!Offset', ReadTo')
    BY <1>2, <2>1, <2>2 DEF Between
  <2> QED BY <1>3, <2>3 DEF Hidden
<1>4. Hidden' = {}
  BY <1>3
<1>5. Cardinality(Hidden') = 0
  BY <1>4, FS_EmptySet
<1> QED BY <1>2, <1>5

LEMMA DomLossInit == Dom!Init => DomLoss
BY DomAssumption DEF Dom!Init, DomLoss, Dom!Parameters, LossBounded, Dom!LossBounded

LEMMA DomLossStep == DomCounts /\ DomLoss /\ [Dom!Next]_dom => DomLoss'
<1> SUFFICES ASSUME DomCounts, DomLoss, [Dom!Next]_dom PROVE DomLoss'
  OBVIOUS
<1>1. Len(list) \in Nat /\ moves \in Nat /\ total \in Nat /\ list \in Seq(Nat)
  BY DEF DomLoss
<1>2. ASSUME dom_pc = "turn", dom_pc' \in {"turn", "barren", "failing"},
             UNCHANGED <<list, moves>>, dom_pc' = "turn" => dom_page' = dom_page + 1,
             total' = total \/ (total = 0 /\ total' = Len(list)),
             saved \cup missed \cup (Dom!Cards \ {0}) \subseteq saved' \cup missed'
      PROVE  DomLoss'
  <2>1. dom_pc' = "turn" => Cardinality(Hidden') <= moves'
    BY <1>2, PageHidesNone
  <2> QED BY <1>1, <1>2, <2>1 DEF DomLoss, LossBounded, Dom!LossBounded
<1>3. ASSUME NEW count, NEW limit, NEW exit \in {"barren", "failing"},
             dom_pc = "turn", Dom!CountEmpty(count, limit, exit),
             total' = total \/ (total = 0 /\ total' = Len(list))
      PROVE  DomLoss'
  BY <1>2, <1>3 DEF Dom!CountEmpty, Dom!NextPage
<1>4. CASE Dom!PageFails
  BY <1>3, <1>4 DEF Dom!PageFails, Dom!Asks
<1>5. ASSUME NEW named \in BOOLEAN,
             Dom!PageShowsNothing(named) \/ Dom!PageNotSaved(named)
      PROVE  DomLoss'
  BY <1>3, <1>5 DEF Dom!PageShowsNothing, Dom!PageNotSaved, Dom!Asks, Dom!Name
<1>6. ASSUME NEW named \in BOOLEAN, NEW parsed \in SUBSET Dom!Cards,
             Dom!PageSaved(parsed, named)
      PROVE  DomLoss'
  BY <1>2, <1>6 DEF Dom!PageSaved, Dom!NextPage, Dom!Asks, Dom!Name
<1>7. ASSUME NEW named \in BOOLEAN, Dom!PageSaysNothing(named)
      PROVE  DomLoss'
  <2>1. dom_pc = "turn" /\ Dom!Cards = {}
    BY <1>7 DEF Dom!PageSaysNothing, Dom!Asks
  <2>2. Dom!Offset \in Nat /\ CardsPerPage \in Nat \ {0}
    BY OffsetIs, DomAssumption DEF Dom!Parameters
  <2>3. Between(list, Dom!Offset, ReadTo) = {}
    <3>1. ~(Dom!Offset < Len(list))
      <4> SUFFICES ASSUME Dom!Offset < Len(list) PROVE FALSE
        OBVIOUS
      <4>1. Dom!Offset + 1 \in DOMAIN list
        BY <1>1, <2>2
      <4>2. list[Dom!Offset + 1] \in Dom!Cards
        BY <2>2, <4>1 DEF Dom!Cards
      <4> QED BY <2>1, <4>2
    <3> QED BY <1>1, <2>2, <3>1 DEF Between
  <2>4. Cardinality(Dom!Wanted \ (saved \cup missed)) <= moves
    BY <2>1, <2>3, AllIsHidden
  <2>5. /\ dom_pc' = "end" /\ UNCHANGED <<list, moves, saved, missed>>
        /\ total' = total \/ total' = Len(list)
    BY <1>7 DEF Dom!PageSaysNothing, Dom!Name
  <2>6. (Dom!Wanted \ (saved \cup missed))' = Dom!Wanted \ (saved \cup missed)
    BY <2>5 DEF Dom!Wanted
  <2>7. LossBounded'
    BY <2>4, <2>5, <2>6, OneCardinality DEF LossBounded, Dom!LossBounded
  <2> QED BY <1>1, <2>5, <2>7 DEF DomLoss
<1>8. CASE Dom!EndOfPages
  <2>1. /\ dom_pc = "turn" /\ dom_pc' = "end"
        /\ dom_page > LastPage \/ (total # 0 /\ Dom!Offset >= total)
        /\ UNCHANGED <<list, moves, saved, missed, total>>
    BY <1>8 DEF Dom!EndOfPages, Dom!Reached, Dom!crawl
  <2>2. /\ Dom!Offset \in Nat /\ LastPage * CardsPerPage \in Nat
        /\ dom_page > LastPage => Dom!Offset >= LastPage * CardsPerPage
    BY OffsetIs
  <2>3. ReadTo \in Nat /\ ReadTo <= Dom!Offset
    BY <1>1, <2>1, <2>2 DEF ReadTo
  <2>4. Between(list, Dom!Offset, ReadTo) = {}
    BY <1>1, <2>2, <2>3 DEF Between
  <2>5. Cardinality(Dom!Wanted \ (saved \cup missed)) <= moves
    BY <2>1, <2>4, AllIsHidden
  <2>6. (Dom!Wanted \ (saved \cup missed))' = Dom!Wanted \ (saved \cup missed)
    BY <2>1 DEF Dom!Wanted
  <2>7. LossBounded'
    BY <2>1, <2>5, <2>6, OneCardinality DEF LossBounded, Dom!LossBounded
  <2> QED BY <1>1, <2>1, <2>7 DEF DomLoss
<1>9. CASE Dom!PageBlocked
  BY <1>1, <1>9 DEF Dom!PageBlocked, Dom!crawl, DomLoss, LossBounded, Dom!LossBounded
<1>10. CASE Dom!End
  BY <1>10 DEF Dom!End, Dom!Forget, DomLoss, LossBounded, Dom!LossBounded
<1>11. ASSUME NEW answers \in BOOLEAN, Dom!TestConnection(answers)
       PROVE  DomLoss'
  <2>1. CASE answers
    <3>1. /\ dom_pc' = "turn" /\ dom_page' = FirstPage /\ list' \in Dom!Lists
          /\ total' = 0 /\ moves' = 0
      BY <1>11, <2>1 DEF Dom!TestConnection, Dom!crawl, DomLoss
    <3> QED BY <3>1, NothingHidesAtFirst DEF DomLoss, LossBounded, Dom!LossBounded
  <2> QED BY <1>10, <1>11, <2>1 DEF Dom!TestConnection
<1>12. CASE Dom!LeaveRoom
  <2>1. CASE dom_room < Len(Rooms)
    <3>1. /\ dom_pc' = "turn" /\ dom_page' = FirstPage /\ list' \in Dom!Lists
          /\ total' = 0 /\ moves' = 0
      BY <1>12, <2>1 DEF Dom!LeaveRoom, Dom!Forget
    <3> QED BY <3>1, NothingHidesAtFirst DEF DomLoss, LossBounded, Dom!LossBounded
  <2> QED BY <1>10, <1>12, <2>1 DEF Dom!LeaveRoom
<1>13. CASE Dom!Interrupt
  BY <1>10, <1>13 DEF Dom!Interrupt
<1>14. CASE Dom!Move
  BY <1>14, ChangeHidesOne
<1>15. CASE UNCHANGED dom
  BY <1>15 DEF dom, DomLoss, LossBounded, Dom!LossBounded, Dom!Wanted, Hidden, Between,
               Dom!Offset, ReadTo
<1> QED BY <1>4, <1>5, <1>6, <1>7, <1>8, <1>9, <1>11, <1>12, <1>13, <1>14, <1>15
        DEF Dom!Next, Dom!Collect

(***************************************************************************)
(* The types of DomClick's session.                                        *)
(***************************************************************************)

\* The count of empty pages stops at its limit, and no page is read before the first
\* or after the last.
DomType ==
    /\ Dom!TypeOK
    /\ dom_page >= FirstPage
    /\ dom_pc = "turn" => dom_empties <= 2

LEMMA DomTypeInit == Dom!Init => DomType
<1>1. Len(Rooms) \in Nat \ {0}
  OBVIOUS
<1> QED BY <1>1, DomAssumption DEF Dom!Init, DomType, Dom!TypeOK, Dom!Parameters

LEMMA DomTypeStep ==
    ASSUME DomType, DomCounts, DomLoss, DomLoss', [Dom!Next]_dom
    PROVE  DomType'
<1> USE DomAssumption DEF Dom!Parameters, DomType, Dom!TypeOK
<1>1. /\ list' \in Seq(Nat) /\ total' \in Nat
      /\ Dom!Cards \subseteq Nat
  BY DEF DomLoss, Dom!Cards
<1>2. ASSUME NEW count \in 1..dom_empties + 1, NEW limit \in {2, 3},
             NEW exit \in {"barren", "failing"}, Dom!CountEmpty(count, limit, exit), Dom!Asks
      PROVE  DomType'
  BY <1>1, <1>2 DEF Dom!CountEmpty, Dom!NextPage, Dom!Asks
<1>3. CASE Dom!PageFails
  BY <1>2, <1>3 DEF Dom!PageFails
<1>4. ASSUME NEW named \in BOOLEAN,
             Dom!PageShowsNothing(named) \/ Dom!PageNotSaved(named)
      PROVE  DomType'
  BY <1>2, <1>4 DEF Dom!PageShowsNothing, Dom!PageNotSaved
<1>5. ASSUME NEW named \in BOOLEAN, NEW parsed \in SUBSET Dom!Cards,
             Dom!PageSaved(parsed, named)
      PROVE  DomType'
  BY <1>1, <1>5 DEF Dom!PageSaved, Dom!NextPage
<1>6. ASSUME NEW named \in BOOLEAN, Dom!PageSaysNothing(named)
      PROVE  DomType'
  BY <1>1, <1>6 DEF Dom!PageSaysNothing
<1>7. CASE Dom!End
  BY <1>1, <1>7 DEF Dom!End, Dom!Forget
<1>8. ASSUME NEW answers \in BOOLEAN, Dom!TestConnection(answers)
      PROVE  DomType'
  <2>1. CASE answers
    <3>1. dom_pc = "testing" /\ dom_pc' = "turn" /\ dom_empties = 0
      BY <1>8, <2>1 DEF Dom!TestConnection, DomCounts
    <3>2. UNCHANGED <<dom_room, dom_page, dom_empties, moves, saved, missed, dom_barren>>
      BY <1>8, <2>1 DEF Dom!TestConnection, Dom!crawl
    <3> QED BY <1>1, <3>1, <3>2
  <2> QED BY <1>7, <1>8, <2>1 DEF Dom!TestConnection
<1>9. CASE Dom!LeaveRoom
  BY <1>1, <1>7, <1>9 DEF Dom!LeaveRoom, Dom!Forget
<1>10. CASE Dom!Interrupt
  BY <1>7, <1>10 DEF Dom!Interrupt
<1>11. CASE Dom!EndOfPages \/ Dom!PageBlocked
  BY <1>11 DEF Dom!EndOfPages, Dom!PageBlocked, Dom!crawl
<1>12. CASE Dom!Move
  BY <1>1, <1>12 DEF Dom!Move, Dom!crawl
<1>13. CASE UNCHANGED dom
  BY <1>13 DEF dom
<1> QED BY <1>3, <1>4, <1>5, <1>6, <1>8, <1>9, <1>10, <1>11, <1>12, <1>13
        DEF Dom!Next, Dom!Collect

(***************************************************************************)
(* The session of either site.                                             *)
(***************************************************************************)

\* What holds of DomClick's session.
DomInv == DomType /\ DomCounts /\ DomLoss

\* A step of a session is one of the site that it reads.
LEMMA MainSteps ==
    ASSUME [MainNext]_main
    PROVE  [Next]_vars /\ [Dom!Next]_dom
BY DEF MainNext, Run, RunDom, main

\* The invariant of every session.
THEOREM Invariant == MainSpec => [](Inv /\ DomInv)
<1>1. MainInit => Inv /\ DomInv
  BY InitInv, DomInit, DomLossInit, DomTypeInit DEF MainInit, DomInv
<1>2. Inv /\ DomInv /\ [MainNext]_main => (Inv /\ DomInv)'
  BY StepInv, DomStep, DomLossStep, DomTypeStep, MainSteps DEF DomInv
<1> QED BY <1>1, <1>2, PTL DEF MainSpec

(***************************************************************************)
(* What follows from it.                                                   *)
(***************************************************************************)

\* Every variable keeps its type; the multiplier stays between its bounds.
THEOREM TypeCorrect == MainSpec => []TypeOK
<1>1. Inv => TypeOK
  BY DEF Inv
<1> QED BY Invariant, <1>1, PTL

\* The same of DomClick's session.
THEOREM DomclickTypeCorrect == MainSpec => []Dom!TypeOK
<1>1. DomInv => Dom!TypeOK
  BY DEF DomInv, DomType
<1> QED BY Invariant, <1>1, PTL

\* A change of DomClick's list hides one of its offers at the most, though pages are
\* asked for by offset and the total is that of the first page.
THEOREM LossIsBounded == MainSpec => []LossBounded
<1>1. DomInv => LossBounded
  BY DEF DomInv, DomLoss
<1> QED BY Invariant, <1>1, PTL

\* No two loads without a pause, whatever came between them.
THEOREM LoadsArePaced == MainSpec => []PausedBetweenLoads
<1>1. Inv => PausedBetweenLoads
  BY DEF Inv, RestsFirst, PausedBetweenLoads
<1> QED BY Invariant, <1>1, PTL

\* A crawl that runs smoothly again gets its pace back, step by step, whatever
\* slowed it down and however long ago.
THEOREM PaceComesBack == MainSpec => []PaceRecovers
<1>1. MainInit => PaceInv
  <2> SUFFICES ASSUME MainInit PROVE PaceInv
    OBVIOUS
  <2>1. results = << >> /\ clean = 0
    BY DEF MainInit, Init, LimiterInit
  <2>2. Len(results) = 0
    BY <2>1
  <2> QED BY <2>1, <2>2 DEF PaceInv, WindowClean, PaceRecovers, AtMost
<1>2. Inv /\ PaceInv /\ [MainNext]_main => PaceInv'
  BY PaceSteps, MainSteps, InvParts
<1>3. PaceInv => PaceRecovers
  BY DEF PaceInv
<1> QED BY Invariant, <1>1, <1>2, <1>3, PTL DEF MainSpec

\* A dead Chrome is replaced within one period of the rotation.
THEOREM DeadChromeIsReplaced == MainSpec => []DeadChromeReplaced
<1>1. Inv => DeadChromeReplaced
  BY DEF Inv, TypeOK, BrowserType, OneDriver, DeadChromeReplaced
<1> QED BY Invariant, <1>1, PTL

\* The session leaves no Chrome behind but for those it lost to a failure.
THEOREM NoChromeIsLeft == MainSpec => []NoChromeLeft
<1>1. Inv => NoChromeLeft
  BY DEF Inv, OneDriver, NoChromeLeft
<1> QED BY Invariant, <1>1, PTL

\* What was parsed is saved before the session goes on, or stops for a captcha.
THEOREM ParsedPagesAreSaved == MainSpec => []ParsedIsSaved
<1>1. Inv => ParsedIsSaved
  BY DEF Inv, TypeOK, SavesInTurn, ParsedIsSaved
<1> QED BY Invariant, <1>1, PTL

\* A room type of either site is left early only after two pages in a row
\* without anything, on DomClick three when the last one failed.
THEOREM RoomsAreLeftForCause == MainSpec => RoomsLeftForCause
<1> DEFINE Leaves == room' # room \/ (outcome' = "done" /\ outcome = "none")
           Read == page > LastPage \/ {page - 1, page} \subseteq barren
<1>1. Inv /\ [Next]_vars => (Leaves => Read)
  <2> SUFFICES ASSUME Inv, [Next]_vars, Leaves PROVE Read
    OBVIOUS
  <2>1. LeaveRoom
    BY DEF Next, Collect, StartBrowser, TakePage, LeaveRoom, NextPage, Save, SaveFails,
           CountEmpty, OpenBrowser, OnCaptcha, LoadPage, OnCards, OnNothing, OnError,
           StopBrowser, Interrupt, Crash, Goto, Close, Retry, place, crawl, vars
  <2> QED BY <2>1 DEF LeaveRoom, Inv, TypeOK, SavesInTurn, CountsEmpties, EmptyRun
<1>2. Inv /\ [MainNext]_main => [Leaves => Read]_vars
  BY <1>1, MainSteps
<1>3. DomInv' => [ /\ dom_pc' = "barren" =>
                        {dom_page' - 1, dom_page'} \subseteq dom_barren'
                   /\ dom_pc' = "failing" =>
                        {dom_page' - 2, dom_page' - 1, dom_page'} \subseteq dom_barren'
                 ]_(Dom!vars)
  BY DEF DomInv, DomCounts
<1> QED BY Invariant, <1>2, <1>3, PTL
        DEF MainSpec, RoomsLeftForCause, RoomsReadToTheEnd, Dom!GivenUpForCause
=============================================================================
