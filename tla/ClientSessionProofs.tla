------------------------- MODULE ClientSessionProofs -------------------------
(***************************************************************************)
(* For any tabs, any number of requests in flight and any sessions: a page *)
(* gives the server no cause to end the user's sessions unless a refresh   *)
(* token was held twice or an answer was lost, and no request is carried   *)
(* out twice.                                                              *)
(***************************************************************************)
EXTENDS ClientSession, TLAPS

\* Nobody holds k.
Settled(k) == /\ stored # k
              /\ \A t \in Tabs : ~Keeps(t, k)
              /\ \A c \in Calls : ~Holds(c, k)

\* A session that is not born is known to nobody, and has no successor.
Born == \A k \in Tokens : state[k] = "unborn" =>
            /\ Settled(k)
            /\ \A c \in Calls : call[c].fresh # k
            /\ successor[k] = NoToken

\* The history of shared tokens is up to date.
Noted == \A k \in Tokens : Shared(k) => k \in shared

\* What a refused refresh leaves behind is dead.
OuterDead == \A c \in Calls :
    /\ call[c].outer # NoToken => Refreshing(c) /\ state[call[c].outer] = "dead"
    /\ call[c].step = "rotate" => call[c].token # call[c].outer
    /\ call[c].step = "refreshed" /\ call[c].fresh # NoToken => call[c].token # call[c].outer
    /\ call[c].step = "refreshed" /\ call[c].result = "refused" => state[call[c].token] = "dead"

\* A new token is known to nobody but the answer that brings it.
FreshAlone == \A c \in Calls, k \in Tokens : call[c].fresh = k =>
    /\ call[c].step \in {"answered", "refreshed"} /\ call[c].result = "ok"
    /\ successor[k] = NoToken
    /\ Settled(k)
    /\ \A d \in Calls : d # c => call[d].fresh # k

\* When k was replaced and nothing excuses a replay, nobody holds k any more
\* or the answer that replaces it is on its way.
InAnswer(c, k) == /\ call[c].step = "refreshed" /\ call[c].token = k
                  /\ call[c].fresh # NoToken /\ call[c].tab # NoTab
Excused == \A k \in Tokens :
    successor[k] # NoToken /\ k \notin shared \cup strayed
        => Settled(k) \/ \E c \in Calls : InAnswer(c, k)

\* Where the server has not carried a request out.
NotDone == \A c \in Calls :
    \/ call[c].step = "request"
    \/ call[c].step = "answered" /\ call[c].result = "refused"
    \/ Refreshing(c) /\ call[c].retried
    => ~call[c].done

Custody == Born /\ Noted /\ OuterDead /\ FreshAlone /\ Excused
IInv == TypeOK /\ Custody /\ NotDone

-----------------------------------------------------------------------------
(* What steps do to the tokens: every action is one of these.              *)

Others(c) == \A d \in Calls : d # c => call'[d] = call[d]

\* A request gains no token; an answer with a new one that it had is noted.
Fades(c) ==
    /\ call'[c].fresh = NoToken
    /\ Refreshing(c)' => /\ Refreshing(c) /\ call'[c].token = call[c].token
                         /\ call'[c].outer \in {call[c].outer, NoToken}
    /\ call'[c].outer # NoToken => Refreshing(c)'
    /\ call'[c].step = "rotate" => \/ call[c].step = "rotate"
                                   \/ state[call[c].token] = "alive"
    /\ call'[c].step = "refreshed" /\ call'[c].result = "refused"
           => state'[call'[c].token] = "dead"
    /\ \A k \in Tokens : InAnswer(c, k) => k \in strayed'

\* Sessions only die, pages only forget or read localStorage.
Loses ==
    /\ successor' = successor
    /\ \A k \in Tokens : \/ state'[k] = state[k]
                         \/ state[k] # "unborn" /\ state'[k] = "dead"
    /\ stored' \in {stored, NoToken}
    /\ \A t \in Tabs : tab'[t].refresh \in {tab[t].refresh, stored, NoToken}
    /\ \A c \in Calls : call'[c] = call[c] \/ Fades(c)
    /\ strayed \subseteq strayed'

\* A page presents the token of its store.
Presents(c) ==
    /\ call[c].tab \in Tabs /\ call[c].result # "ok"
    /\ tab[call[c].tab].refresh # NoToken
    /\ call'[c].step = "refresh" /\ call'[c].token = tab[call[c].tab].refresh
    /\ call'[c].fresh = NoToken
    /\ call'[c].outer # NoToken => /\ call[c].step = "refreshed" /\ call[c].result = "refused"
                                   /\ call'[c].outer = call[c].token
    /\ Others(c)
    /\ UNCHANGED <<state, successor, stored, tab, strayed>>

\* A page saves the tokens of an answer.
Saves(c) ==
    /\ call[c].tab \in Tabs
    /\ stored' = call[c].fresh /\ tab'[call[c].tab].refresh = call[c].fresh
    /\ \A t \in Tabs : t # call[c].tab => tab'[t].refresh = tab[t].refresh
    /\ call'[c].fresh = NoToken /\ call'[c].outer = NoToken
    /\ \/ call'[c].step = "request"
       \/ /\ call'[c].step = "refresh" /\ call'[c].token = call[c].outer
          /\ call[c].outer # NoToken
    /\ Others(c)
    /\ UNCHANGED <<state, successor, strayed>>

\* The server opens a session.
Opens(c, new) ==
    /\ state[new] = "unborn" /\ state' = [state EXCEPT ![new] = "alive"]
    /\ call[c].step = "request" /\ call'[c].step = "answered" /\ call'[c].result = "ok"
    /\ call'[c].fresh = new /\ call'[c].outer = call[c].outer
    /\ Others(c)
    /\ UNCHANGED <<successor, stored, tab, strayed>>

\* The server rotates a session.
Rotates(c, new) ==
    /\ call[c].step = "rotate" /\ call[c].token # new /\ state[new] = "unborn"
    /\ state' = [state EXCEPT ![call[c].token] = "dead", ![new] = "alive"]
    /\ successor' = [successor EXCEPT ![call[c].token] = new]
    /\ call'[c].step = "refreshed" /\ call'[c].result = "ok" /\ call'[c].fresh = new
    /\ call'[c].token = call[c].token /\ call'[c].outer = call[c].outer
    /\ call'[c].tab = call[c].tab
    /\ call[c].tab = NoTab => call[c].token \in strayed'
    /\ strayed \subseteq strayed'
    /\ Others(c)
    /\ UNCHANGED <<stored, tab>>

Moves == \/ Loses
         \/ \E c \in Calls : Presents(c) \/ Saves(c)
         \/ \E c \in Calls, new \in Tokens : Opens(c, new) \/ Rotates(c, new)

LEMMA NotedNext ==
    ASSUME Note PROVE Noted'
BY DEF Note, Noted

LEMMA LosesCustody ==
    ASSUME ClientAssumption, TypeOK, TypeOK', Custody, Loses, Note
    PROVE  Custody'
<1> USE DEF Custody
<1>1. ASSUME NEW k \in Tokens, Settled(k)
      PROVE  Settled(k)'
    BY <1>1 DEF Settled, Keeps, Holds, Refreshing, Loses, Fades, ClientAssumption
<1>2. ASSUME NEW c \in Calls, NEW k \in Tokens, call'[c].fresh = k
      PROVE  call'[c] = call[c]
    BY <1>2 DEF Loses, Fades, ClientAssumption
<1>3. Born'
    BY <1>1, <1>2 DEF Born, Loses, TypeOK
<1>4. OuterDead'
    <2> SUFFICES ASSUME NEW c \in Calls
                 PROVE  /\ call'[c].outer # NoToken => Refreshing(c)' /\ state'[call'[c].outer] = "dead"
                        /\ call'[c].step = "rotate" => call'[c].token # call'[c].outer
                        /\ call'[c].step = "refreshed" /\ call'[c].fresh # NoToken => call'[c].token # call'[c].outer
                        /\ call'[c].step = "refreshed" /\ call'[c].result = "refused" => state'[call'[c].token] = "dead"
        BY DEF OuterDead
    <2>1. CASE call'[c] = call[c]
        BY <2>1 DEF OuterDead, Loses, TypeOK, Call, Maybe, Refreshing
    <2>2. CASE Fades(c)
        BY <2>2 DEF OuterDead, Loses, Fades, TypeOK, Call, Maybe, Refreshing
    <2> QED
        BY <2>1, <2>2 DEF Loses
<1>5. FreshAlone'
    BY <1>1, <1>2 DEF FreshAlone, Loses
<1>6. Excused'
    <2> SUFFICES ASSUME NEW k \in Tokens, successor'[k] # NoToken, k \notin shared' \cup strayed'
                 PROVE  Settled(k)' \/ \E c \in Calls : InAnswer(c, k)'
        BY DEF Excused
    <2>1. Settled(k) \/ \E c \in Calls : InAnswer(c, k)
        BY DEF Excused, Loses, Note
    <2>2. ASSUME NEW c \in Calls, InAnswer(c, k)
          PROVE  InAnswer(c, k)'
        BY <2>2 DEF InAnswer, Loses, Fades
    <2> QED
        BY <1>1, <2>1, <2>2
<1> QED
    BY <1>3, <1>4, <1>5, <1>6, NotedNext

LEMMA PresentsCustody ==
    ASSUME ClientAssumption, TypeOK, TypeOK', Custody, Note, NEW c \in Calls, Presents(c)
    PROVE  Custody'
<1> USE DEF Custody
<1> DEFINE k0 == tab[call[c].tab].refresh
<1>0. call[c].fresh = NoToken /\ k0 \in Tokens
    BY DEF Presents, FreshAlone, TypeOK, Call, Page, Maybe
<1>1. ASSUME NEW k \in Tokens, Settled(k)
      PROVE  Settled(k)'
    BY <1>1 DEF Settled, Keeps, Holds, Refreshing, Presents, Others, ClientAssumption
<1>3. Born'
    BY <1>1 DEF Born, Presents, Others, ClientAssumption
<1>4. OuterDead'
    BY <1>0 DEF OuterDead, Presents, Others, Refreshing
<1>5. FreshAlone'
    BY <1>1 DEF FreshAlone, Presents, Others, ClientAssumption
<1>6. Excused'
    <2> SUFFICES ASSUME NEW k \in Tokens, successor'[k] # NoToken, k \notin shared' \cup strayed'
                 PROVE  Settled(k)' \/ \E d \in Calls : InAnswer(d, k)'
        BY DEF Excused
    <2>1. Settled(k) \/ \E d \in Calls : InAnswer(d, k)
        BY DEF Excused, Presents, Note
    <2>2. ASSUME NEW d \in Calls, InAnswer(d, k)
          PROVE  InAnswer(d, k)'
        BY <1>0, <2>2 DEF InAnswer, Presents, Others
    <2> QED
        BY <1>1, <2>1, <2>2
<1> QED
    BY <1>3, <1>4, <1>5, <1>6, NotedNext

LEMMA SavesCustody ==
    ASSUME ClientAssumption, TypeOK, TypeOK', Custody, Note, NEW c \in Calls, Saves(c)
    PROVE  Custody'
<1> USE DEF Custody
<1> DEFINE f == call[c].fresh
<1>1. ASSUME NEW k \in Tokens, Settled(k), k # f
      PROVE  Settled(k)'
    BY <1>1 DEF Settled, Keeps, Holds, Refreshing, Saves, Others, OuterDead, ClientAssumption
<1>2. f \in Maybe /\ (f # NoToken => successor[f] = NoToken /\ state[f] # "unborn")
    BY DEF FreshAlone, Born, TypeOK, Call, Maybe
<1>3. Born'
    BY <1>1, <1>2 DEF Born, Saves, Others, ClientAssumption
<1>4. OuterDead'
    BY DEF OuterDead, Saves, Others, Refreshing
<1>5. FreshAlone'
    BY <1>1 DEF FreshAlone, Saves, Others, ClientAssumption
<1>6. Excused'
    <2> SUFFICES ASSUME NEW k \in Tokens, successor'[k] # NoToken, k \notin shared' \cup strayed'
                 PROVE  Settled(k)' \/ \E d \in Calls : InAnswer(d, k)'
        BY DEF Excused
    <2>1. Settled(k) \/ \E d \in Calls : InAnswer(d, k)
        BY DEF Excused, Saves, Note
    <2>2. k # f
        BY <1>2 DEF Saves, ClientAssumption
    <2>3. CASE Settled(k)
        BY <1>1, <2>2, <2>3
    <2>4. ASSUME NEW d \in Calls, d # c, InAnswer(d, k)
          PROVE  InAnswer(d, k)'
        BY <2>4 DEF InAnswer, Saves, Others
    <2>5. CASE InAnswer(c, k)
        <3>1. ~Shared(k) /\ Holds(c, k) /\ k # call[c].outer
            BY <2>5 DEF Noted, Note, InAnswer, Holds, Refreshing, OuterDead
        <3>2. \A d \in Calls : ~Holds(d, k)'
            BY <2>5, <3>1 DEF Shared, Holds, Refreshing, Saves, Others, InAnswer, ClientAssumption
        <3>3. stored' # k /\ \A t \in Tabs : ~Keeps(t, k)'
            BY <2>2, <3>1 DEF Shared, Keeps, Saves
        <3> QED
            BY <3>2, <3>3 DEF Settled
    <2> QED
        BY <2>1, <2>3, <2>4, <2>5
<1> QED
    BY <1>3, <1>4, <1>5, <1>6, NotedNext

LEMMA OpensCustody ==
    ASSUME ClientAssumption, TypeOK, TypeOK', Custody, Note,
           NEW c \in Calls, NEW new \in Tokens, Opens(c, new)
    PROVE  Custody'
<1> USE DEF Custody
<1>0. call[c].outer = NoToken /\ call[c].fresh = NoToken
    BY DEF OuterDead, FreshAlone, Opens, Refreshing, TypeOK, Call, Maybe
<1>1. ASSUME NEW k \in Tokens, Settled(k)
      PROVE  Settled(k)'
    BY <1>1 DEF Settled, Keeps, Holds, Refreshing, Opens, Others
<1>2. \A k \in Tokens : k # new => state'[k] = state[k]
    BY DEF Opens, TypeOK
<1>3. Born'
    BY <1>1, <1>2 DEF Born, Opens, Others, TypeOK
<1>4. OuterDead'
    BY <1>0, <1>2 DEF OuterDead, Opens, Others, Refreshing, TypeOK, Call, Maybe
<1>5. FreshAlone'
    BY <1>1 DEF FreshAlone, Born, Opens, Others
<1>6. Excused'
    <2> SUFFICES ASSUME NEW k \in Tokens, successor'[k] # NoToken, k \notin shared' \cup strayed'
                 PROVE  Settled(k)' \/ \E d \in Calls : InAnswer(d, k)'
        BY DEF Excused
    <2>1. Settled(k) \/ \E d \in Calls : InAnswer(d, k)
        BY DEF Excused, Opens, Note
    <2>2. ASSUME NEW d \in Calls, InAnswer(d, k)
          PROVE  InAnswer(d, k)'
        BY <2>2 DEF InAnswer, Opens, Others
    <2> QED
        BY <1>1, <2>1, <2>2
<1> QED
    BY <1>3, <1>4, <1>5, <1>6, NotedNext

LEMMA RotatesCustody ==
    ASSUME ClientAssumption, TypeOK, TypeOK', Custody, Note,
           NEW c \in Calls, NEW new \in Tokens, Rotates(c, new)
    PROVE  Custody'
<1> USE DEF Custody
<1> DEFINE k0 == call[c].token
<1>0. /\ k0 \in Tokens /\ k0 # new /\ call[c].fresh = NoToken
      /\ state'[k0] = "dead" /\ successor'[k0] = new /\ state'[new] = "alive"
      /\ \A k \in Tokens : k # new /\ k # k0 => state'[k] = state[k]
      /\ \A k \in Tokens : k # k0 => successor'[k] = successor[k]
    BY DEF FreshAlone, Rotates, TypeOK, Call, Maybe
<1>1. ASSUME NEW k \in Tokens
      PROVE  Settled(k)' <=> Settled(k)
    BY DEF Settled, Keeps, Holds, Refreshing, Rotates, Others
<1>2. Holds(c, k0)
    BY DEF Holds, Refreshing, Rotates
<1>3. Born'
    BY <1>0, <1>1 DEF Born, Rotates, Others, TypeOK
<1>4. OuterDead'
    <2> SUFFICES ASSUME NEW d \in Calls
                 PROVE  /\ call'[d].outer # NoToken => Refreshing(d)' /\ state'[call'[d].outer] = "dead"
                        /\ call'[d].step = "rotate" => call'[d].token # call'[d].outer
                        /\ call'[d].step = "refreshed" /\ call'[d].fresh # NoToken => call'[d].token # call'[d].outer
                        /\ call'[d].step = "refreshed" /\ call'[d].result = "refused" => state'[call'[d].token] = "dead"
        BY DEF OuterDead
    <2>1. \A k \in Tokens : state[k] = "dead" => state'[k] = "dead"
        BY <1>0 DEF Rotates
    <2>2. CASE d = c
        BY <2>1, <2>2 DEF OuterDead, Rotates, Refreshing, TypeOK, Call, Maybe
    <2>3. CASE d # c
        BY <2>1, <2>3 DEF OuterDead, Rotates, Others, Refreshing, TypeOK, Call, Maybe
    <2> QED
        BY <2>2, <2>3
<1>5. FreshAlone'
    <2> SUFFICES ASSUME NEW d \in Calls, NEW k \in Tokens, call'[d].fresh = k
                 PROVE  /\ call'[d].step \in {"answered", "refreshed"} /\ call'[d].result = "ok"
                        /\ successor'[k] = NoToken
                        /\ Settled(k)'
                        /\ \A e \in Calls : e # d => call'[e].fresh # k
        BY DEF FreshAlone
    <2>1. CASE d = c
        BY <1>0, <1>1, <2>1 DEF Born, Rotates, Others
    <2>2. CASE d # c
        <3>1. call'[d] = call[d] /\ Settled(k) /\ k # k0 /\ k # new
            BY <1>2, <2>2 DEF FreshAlone, Born, Settled, Rotates, Others
        <3> QED
            BY <1>0, <1>1, <2>2, <3>1 DEF FreshAlone, Rotates, Others
    <2> QED
        BY <2>1, <2>2
<1>6. Excused'
    <2> SUFFICES ASSUME NEW k \in Tokens, successor'[k] # NoToken, k \notin shared' \cup strayed'
                 PROVE  Settled(k)' \/ \E d \in Calls : InAnswer(d, k)'
        BY DEF Excused
    <2>1. CASE k = k0
        BY <2>1, <1>0 DEF InAnswer, Rotates, ClientAssumption
    <2>2. CASE k # k0
        <3>1. Settled(k) \/ \E d \in Calls : InAnswer(d, k)
            BY <1>0, <2>2 DEF Excused, Rotates, Note
        <3>2. ASSUME NEW d \in Calls, InAnswer(d, k)
              PROVE  InAnswer(d, k)'
            BY <3>2, <2>2 DEF InAnswer, Rotates, Others
        <3> QED
            BY <1>1, <3>1, <3>2
    <2> QED
        BY <2>1, <2>2
<1> QED
    BY <1>3, <1>4, <1>5, <1>6, NotedNext

LEMMA MovesCustody ==
    ASSUME ClientAssumption, TypeOK, TypeOK', Custody, Moves, Note
    PROVE  Custody'
BY LosesCustody, PresentsCustody, SavesCustody, OpensCustody, RotatesCustody DEF Moves

-----------------------------------------------------------------------------
(* The pieces of script keep their types.                                  *)

Busy == {"refresh", "rotate", "refreshed"}
CallsTyped == /\ call' \in [Calls -> Call]
              /\ \A d \in Calls : call'[d].step \in Busy => call'[d].token \in Tokens

LEMMA SetNext ==
    ASSUME TypeOK, NEW c \in Calls, NEW r \in Call, Set(c, r), r.step \in Busy => r.token \in Tokens
    PROVE  CallsTyped /\ call'[c] = r /\ Others(c)
BY DEF TypeOK, Set, Busy, CallsTyped, Others

LEMMA NoCallType ==
    ASSUME ClientAssumption
    PROVE  /\ NoCall \in Call /\ NoCall.step = "idle" /\ NoCall.fresh = NoToken
           /\ NoCall.outer = NoToken /\ NoCall.result = "none"
           /\ Closed \in Page
BY DEF NoCall, Call, Maybe, Kinds, Closed, Page

LEMMA EndNext ==
    ASSUME ClientAssumption, TypeOK, NEW c \in Calls, End(c)
    PROVE  /\ CallsTyped /\ Others(c)
           /\ call'[c].step = "idle" /\ call'[c].fresh = NoToken /\ call'[c].outer = NoToken
<1>1. Set(c, NoCall)
    BY DEF End, Set
<1>2. ~(NoCall.step \in Busy)
    BY NoCallType DEF Busy
<1> QED
    BY <1>1, <1>2, NoCallType, SetNext

LEMMA SentType ==
    ASSUME ClientAssumption, NEW t \in Tabs, NEW kind \in Kinds, NEW body \in Maybe, NEW pair \in Maybe
    PROVE  /\ Sent(t, kind, body, pair) \in Call
           /\ Sent(t, kind, body, pair).step = "request"
           /\ Sent(t, kind, body, pair).fresh = NoToken
           /\ Sent(t, kind, body, pair).outer = NoToken
           /\ ~Sent(t, kind, body, pair).done
           /\ Sent(t, kind, body, pair).tab = t
<1>1. NoCall \in Call
    BY NoCallType
<1>2. Sent(t, kind, body, pair) \in Call
    BY <1>1 DEF Sent, Call, Maybe
<1>3. Sent(t, kind, body, pair).step = "request"
    BY SMT DEF Sent, NoCall
<1>4. Sent(t, kind, body, pair).fresh = NoToken
    BY SMT DEF Sent, NoCall
<1>5. Sent(t, kind, body, pair).outer = NoToken
    BY SMT DEF Sent, NoCall
<1>6. ~Sent(t, kind, body, pair).done
    BY SMT DEF Sent, NoCall
<1>7. Sent(t, kind, body, pair).tab = t
    BY SMT DEF Sent, NoCall
<1> QED
    BY <1>2, <1>3, <1>4, <1>5, <1>6, <1>7

LEMMA PresentingType ==
    ASSUME TypeOK, NEW c \in Calls, NEW k \in Tokens
    PROVE  /\ Presenting(c, k) \in Call
           /\ Presenting(c, k).step = "refresh" /\ Presenting(c, k).token = k
           /\ Presenting(c, k).fresh = NoToken
           /\ Presenting(c, k).tab = call[c].tab /\ Presenting(c, k).outer = call[c].outer
           /\ Presenting(c, k).done = call[c].done
           /\ Presenting(c, k).retried = call[c].retried
<1> call[c] \in Call
    BY DEF TypeOK
<1> QED
    BY DEF Presenting, Call, Maybe

LEMMA AnsweredNext ==
    ASSUME TypeOK, NEW c \in Calls, NEW result \in {"ok", "refused", "failed"},
           NEW fresh \in Maybe, Answered(c, result, fresh)
    PROVE  /\ CallsTyped /\ Others(c)
           /\ call'[c].step = "answered" /\ call'[c].result = result
           /\ call'[c].fresh = fresh /\ call'[c].outer = call[c].outer
           /\ call'[c].tab = call[c].tab
           /\ result # "ok" => call'[c].done = call[c].done
<1> DEFINE dn == call[c].done \/ result = "ok"
<1> DEFINE r == [call[c] EXCEPT !.step = "answered", !.result = result, !.fresh = fresh,
                                !.bearer = NoToken, !.done = dn]
<1>0. call[c] \in Call
    BY DEF TypeOK
<1>1. Set(c, r)
    BY DEF Answered
<1>2. dn \in BOOLEAN /\ (result # "ok" => dn = call[c].done)
    BY <1>0 DEF Call
<1> HIDE DEF dn
<1>3. /\ r \in Call /\ r.step = "answered" /\ r.result = result /\ r.fresh = fresh
      /\ r.outer = call[c].outer /\ r.tab = call[c].tab
    BY <1>0, <1>2 DEF Call, Maybe
<1>4. r.done = dn
    BY <1>0 DEF Call
<1> HIDE DEF r
<1>5. CallsTyped /\ call'[c] = r /\ Others(c)
    BY <1>1, <1>3, SetNext DEF Busy
<1> QED
    BY <1>2, <1>3, <1>4, <1>5

LEMMA RefreshedNext ==
    ASSUME TypeOK, NEW c \in Calls, NEW result \in {"ok", "refused", "failed"},
           NEW fresh \in Maybe, Refreshed(c, result, fresh), call[c].token \in Tokens
    PROVE  /\ CallsTyped /\ Others(c)
           /\ call'[c].step = "refreshed" /\ call'[c].result = result
           /\ call'[c].fresh = fresh /\ call'[c].outer = call[c].outer
           /\ call'[c].token = call[c].token /\ call'[c].tab = call[c].tab
           /\ call'[c].done = call[c].done /\ call'[c].retried = call[c].retried
<1> DEFINE r == [call[c] EXCEPT !.step = "refreshed", !.result = result, !.fresh = fresh]
<1>0. call[c] \in Call
    BY DEF TypeOK
<1>1. /\ r \in Call /\ r.step = "refreshed" /\ r.result = result /\ r.fresh = fresh
      /\ r.outer = call[c].outer /\ r.tab = call[c].tab /\ r.token = call[c].token
      /\ r.done = call[c].done /\ r.retried = call[c].retried
    BY <1>0 DEF Call, Maybe
<1>2. Set(c, r)
    BY DEF Refreshed
<1> HIDE DEF r
<1> QED
    BY <1>1, <1>2, SetNext

LEMMA OrphanType ==
    ASSUME ClientAssumption, NEW r \in Call
    PROVE  /\ Orphan(r) \in Call
           /\ Orphan(r).outer = NoToken /\ ~Orphan(r).retried
           /\ Orphan(r).step \in Busy =>
                  Orphan(r).token = r.token /\ Orphan(r).step = r.step /\ r.step # "refreshed"
           /\ Orphan(r).step = "request" => r.step = "request" /\ Orphan(r).done = r.done
           /\ Orphan(r).step # "answered" /\ Orphan(r).step # "refreshed"
           /\ Orphan(r).fresh = NoToken \/ (Orphan(r).fresh = r.fresh
                  /\ r.step # "answered" /\ r.step # "refreshed")
<1>1. CASE r.step \in {"answered", "refreshed"}
    <2>1. Orphan(r) = NoCall
        BY <1>1 DEF Orphan
    <2>2. ~NoCall.retried
        BY DEF NoCall
    <2> QED
        BY <2>1, <2>2, NoCallType DEF Busy
<1>2. CASE ~(r.step \in {"answered", "refreshed"})
    <2> DEFINE o == [r EXCEPT !.tab = NoTab, !.retried = FALSE, !.outer = NoToken, !.last = FALSE]
    <2>1. Orphan(r) = o
        BY <1>2 DEF Orphan
    <2>2. /\ o \in Call /\ o.outer = NoToken /\ o.retried = FALSE
          /\ o.token = r.token /\ o.step = r.step /\ o.fresh = r.fresh
        BY DEF Call, Maybe
    <2>3. o.done = r.done
        BY DEF Call
    <2> HIDE DEF o
    <2> QED
        BY <1>2, <2>1, <2>2, <2>3
<1> QED
    BY <1>1, <1>2

LEMMA SaveNext ==
    ASSUME TypeOK, NEW t \in Tabs, NEW k \in Maybe, Save(t, k)
    PROVE  /\ stored' = k /\ tab' \in [Tabs -> Page] /\ tab'[t].refresh = k
           /\ \A u \in Tabs : u # t => tab'[u] = tab[u]
BY DEF TypeOK, Save, Page, Maybe

LEMMA ClearAuthNext ==
    ASSUME TypeOK, NEW t \in Tabs, NEW leave \in BOOLEAN, ClearAuth(t, leave)
    PROVE  /\ stored' = NoToken /\ tab' \in [Tabs -> Page] /\ tab'[t].refresh = NoToken
           /\ \A u \in Tabs : u # t => tab'[u] = tab[u]
BY DEF TypeOK, ClearAuth, Page, Maybe

-----------------------------------------------------------------------------
(* The ledger's operations, seen from here.                                *)

Dies == \A k \in Tokens : state'[k] = state[k] \/ (state[k] # "unborn" /\ state'[k] = "dead")

LEMMA RevokeNext ==
    ASSUME TypeOK, NEW ended, Ledger!Revoke("user", ended)
    PROVE  state' \in [Tokens -> {"unborn", "alive", "dead"}] /\ successor' = successor /\ Dies
<1>1. ended \subseteq {t \in Tokens : state[t] # "unborn"}
    BY DEF Ledger!Revoke, Ledger!Born
<1>2. /\ state' = [t \in Tokens |-> IF t \in ended THEN "dead" ELSE state[t]]
      /\ successor' = successor
    BY DEF Ledger!Revoke
<1> QED
    BY <1>1, <1>2 DEF TypeOK, Dies

LEMMA OpenNext ==
    ASSUME TypeOK, NEW new \in Unborn, Ledger!Open(new, "user", {})
    PROVE  /\ state' = [state EXCEPT ![new] = "alive"] /\ successor' = successor
           /\ state[new] = "unborn" /\ new \in Tokens
BY DEF Ledger!Open, TypeOK, Unborn

LEMMA RotateNext ==
    ASSUME TypeOK, NEW k \in Tokens, NEW new \in Unborn, Ledger!Rotate(k, new)
    PROVE  /\ state' = [state EXCEPT ![k] = "dead", ![new] = "alive"]
           /\ successor' = [successor EXCEPT ![k] = new]
           /\ state[k] # "unborn" /\ state[new] = "unborn" /\ new \in Tokens /\ new # k
BY DEF Ledger!Rotate, TypeOK, Unborn

-----------------------------------------------------------------------------
(* Every action is a move, keeps the types, and keeps NotDone.             *)

Fine == TypeOK' /\ NotDone' /\ Moves /\ Note

LEMMA TypeNext ==
    ASSUME TypeOK, Note, CallsTyped,
           state' \in [Tokens -> {"unborn", "alive", "dead"}], successor' \in [Tokens -> Maybe],
           expired' \subseteq Tokens, stored' \in Maybe, tab' \in [Tabs -> Page],
           asked' \in 0..MaxAsked, strayed' \subseteq Tokens
    PROVE  TypeOK'
<1>1. shared' \subseteq Tokens
    BY DEF Note, TypeOK
<1> QED
    BY <1>1 DEF TypeOK, CallsTyped, Busy

StillUndone(c) ==
    \/ call'[c].step = "request"
    \/ call'[c].step = "answered" /\ call'[c].result = "refused"
    \/ Refreshing(c)' /\ call'[c].retried
    => ~call'[c].done

LEMMA NotDoneNext ==
    ASSUME NotDone, NEW c \in Calls, Others(c), StillUndone(c)
    PROVE  NotDone'
BY DEF NotDone, Others, StillUndone, Refreshing

LEMMA SameCalls ==
    ASSUME TypeOK, NotDone, call' = call
    PROVE  CallsTyped /\ NotDone'
BY DEF TypeOK, NotDone, CallsTyped, Busy, Refreshing

\* One request has changed, and holds no more than before.
LEMMA FadesMove ==
    ASSUME NEW c \in Calls, Others(c), Fades(c), successor' = successor, Dies,
           stored' \in {stored, NoToken}, strayed \subseteq strayed',
           \A t \in Tabs : tab'[t].refresh \in {tab[t].refresh, stored, NoToken}
    PROVE  Moves
<1>1. \A d \in Calls : call'[d] = call[d] \/ Fades(d)
    BY DEF Others
<1> QED
    BY <1>1 DEF Moves, Loses, Dies

\* A request that is not being refreshed.
LEMMA Plain ==
    ASSUME ClientAssumption, IInv, NEW c \in Calls, ~Refreshing(c)
    PROVE  /\ call[c].outer = NoToken
           /\ call[c].step # "answered" => call[c].fresh = NoToken
           /\ \A k \in Tokens : ~InAnswer(c, k)
BY DEF IInv, Custody, OuterDead, FreshAlone, InAnswer, Refreshing, TypeOK, Call, Maybe

LEMMA RefuseFine ==
    ASSUME ClientAssumption, IInv, NEW c \in Calls, Refuse(c)
    PROVE  Fine
<1> USE DEF IInv
<1>1. call[c].step = "request" /\ ~Refreshing(c)
    BY DEF Refuse, Refreshing
<1>2. /\ CallsTyped /\ Others(c)
      /\ call'[c].step = "answered" /\ call'[c].result = "refused"
      /\ call'[c].fresh = NoToken /\ call'[c].outer = call[c].outer
      /\ call'[c].done = call[c].done
    BY AnsweredNext DEF Refuse, Maybe
<1>3. TypeOK'
    BY <1>2, TypeNext DEF Refuse, BrowserUnchanged, TypeOK
<1>4. NotDone'
    BY <1>1, <1>2, NotDoneNext DEF StillUndone, NotDone
<1>5. Fades(c)
    BY <1>1, <1>2, Plain DEF Fades, Refreshing
<1>6. Moves
    BY <1>2, <1>5, FadesMove DEF Refuse, BrowserUnchanged, Dies
<1> QED
    BY <1>3, <1>4, <1>6 DEF Fine, Refuse

LEMMA ServeFine ==
    ASSUME ClientAssumption, IInv, NEW c \in Calls, Serve(c)
    PROVE  Fine
<1> USE DEF IInv
<1>1. /\ call[c].step = "request" /\ ~Refreshing(c)
      /\ UNCHANGED <<expired, stored, tab, asked, strayed>> /\ Note
    BY DEF Serve, Refreshing, BrowserUnchanged
<1>2. ASSUME NEW fresh \in Maybe, Answered(c, "ok", fresh)
      PROVE  /\ CallsTyped /\ Others(c) /\ NotDone'
             /\ call'[c].step = "answered" /\ call'[c].result = "ok"
             /\ call'[c].fresh = fresh /\ call'[c].outer = NoToken
    <2>1. /\ CallsTyped /\ Others(c)
          /\ call'[c].step = "answered" /\ call'[c].result = "ok"
          /\ call'[c].fresh = fresh /\ call'[c].outer = call[c].outer
        BY <1>2, AnsweredNext
    <2> QED
        BY <1>1, <2>1, NotDoneNext, Plain DEF StillUndone, Refreshing
<1>3. ASSUME Answered(c, "ok", NoToken), successor' = successor, Dies,
             state' \in [Tokens -> {"unborn", "alive", "dead"}]
      PROVE  Fine
    <2>1. /\ CallsTyped /\ Others(c) /\ NotDone'
          /\ call'[c].step = "answered" /\ call'[c].result = "ok"
          /\ call'[c].fresh = NoToken /\ call'[c].outer = NoToken
        BY <1>2, <1>3 DEF Maybe
    <2>2. TypeOK'
        BY <1>1, <1>3, <2>1, TypeNext DEF TypeOK
    <2>3. Fades(c)
        BY <1>1, <2>1, Plain DEF Fades, Refreshing
    <2>4. Moves
        BY <1>1, <1>3, <2>1, <2>3, FadesMove
    <2> QED
        BY <1>1, <2>1, <2>2, <2>4 DEF Fine
<1>4. CASE Answered(c, "ok", NoToken) /\ UNCHANGED <<state, successor>>
    BY <1>3, <1>4 DEF Dies, TypeOK
<1>5. ASSUME NEW ended, Ledger!Revoke("user", ended), Answered(c, "ok", NoToken)
      PROVE  Fine
    BY <1>3, <1>5, RevokeNext
<1>6. ASSUME NEW new \in Unborn, Ledger!Open(new, "user", {}), Answered(c, "ok", new)
      PROVE  Fine
    <2>1. /\ state' = [state EXCEPT ![new] = "alive"] /\ successor' = successor
          /\ state[new] = "unborn" /\ new \in Tokens
        BY <1>6, OpenNext
    <2>2. /\ CallsTyped /\ Others(c) /\ NotDone'
          /\ call'[c].step = "answered" /\ call'[c].result = "ok"
          /\ call'[c].fresh = new /\ call'[c].outer = NoToken
        BY <1>2, <1>6, <2>1 DEF Maybe
    <2>3. TypeOK'
        BY <1>1, <2>1, <2>2, TypeNext DEF TypeOK
    <2>4. Opens(c, new)
        BY <1>1, <2>1, <2>2, Plain DEF Opens
    <2> QED
        BY <1>1, <2>1, <2>2, <2>3, <2>4 DEF Fine, Moves
<1> QED
    BY <1>4, <1>5, <1>6 DEF Serve

LEMMA LookFine ==
    ASSUME ClientAssumption, IInv, NEW c \in Calls, Look(c)
    PROVE  Fine
<1> USE DEF IInv
<1> DEFINE k == call[c].token
<1>1. /\ call[c].step = "refresh" /\ Refreshing(c) /\ k \in Tokens /\ call[c] \in Call
      /\ UNCHANGED <<expired, stored, tab, asked, strayed>> /\ Note
    BY DEF Look, Refreshing, BrowserUnchanged, TypeOK
<1>2. call[c].fresh = NoToken /\ \A x \in Tokens : ~InAnswer(c, x)
    BY <1>1 DEF Custody, FreshAlone, InAnswer, Call, Maybe
<1>3. ASSUME Refreshed(c, "refused", NoToken), successor' = successor, Dies, state'[k] = "dead",
             state' \in [Tokens -> {"unborn", "alive", "dead"}]
      PROVE  Fine
    <2>1. /\ CallsTyped /\ Others(c)
          /\ call'[c].step = "refreshed" /\ call'[c].result = "refused"
          /\ call'[c].fresh = NoToken /\ call'[c].outer = call[c].outer /\ call'[c].token = k
          /\ call'[c].done = call[c].done /\ call'[c].retried = call[c].retried
        BY <1>1, <1>3, RefreshedNext DEF Maybe
    <2>2. TypeOK'
        BY <1>1, <1>3, <2>1, TypeNext DEF TypeOK
    <2>3. NotDone'
        BY <1>1, <2>1, NotDoneNext DEF StillUndone, NotDone, Refreshing
    <2>4. Fades(c)
        BY <1>1, <1>2, <1>3, <2>1 DEF Fades, Refreshing
    <2>5. Moves
        BY <1>1, <1>3, <2>1, <2>4, FadesMove
    <2> QED
        BY <1>1, <2>2, <2>3, <2>5 DEF Fine
<1>4. CASE successor[k] # NoToken /\ Ledger!Revoke("user", Alive) /\ Refreshed(c, "refused", NoToken)
    <2>1. state' \in [Tokens -> {"unborn", "alive", "dead"}] /\ successor' = successor /\ Dies
        BY <1>4, RevokeNext
    <2>2. state[k] \in {"alive", "dead"}
        BY <1>1, <1>4 DEF Custody, Born, TypeOK
    <2>3. state'[k] = "dead"
        BY <1>1, <1>4, <2>2 DEF Ledger!Revoke, Alive
    <2> QED
        BY <1>3, <1>4, <2>1, <2>3
<1>5. CASE state[k] = "dead" /\ Refreshed(c, "refused", NoToken) /\ UNCHANGED <<state, successor>>
    BY <1>3, <1>5 DEF Dies, TypeOK
<1>6. CASE state[k] = "alive" /\ Set(c, [call[c] EXCEPT !.step = "rotate"]) /\ UNCHANGED <<state, successor>>
    <2> DEFINE r == [call[c] EXCEPT !.step = "rotate"]
    <2>1. /\ r \in Call /\ r.step = "rotate" /\ r.fresh = NoToken /\ r.outer = call[c].outer
          /\ r.token = k /\ r.done = call[c].done /\ r.retried = call[c].retried
        BY <1>1, <1>2 DEF Call
    <2>2. Set(c, r)
        BY <1>6
    <2> HIDE DEF r
    <2>3. CallsTyped /\ call'[c] = r /\ Others(c)
        BY <1>1, <2>1, <2>2, SetNext
    <2>4. TypeOK'
        BY <1>1, <1>6, <2>3, TypeNext DEF TypeOK
    <2>5. NotDone'
        BY <1>1, <2>1, <2>3, NotDoneNext DEF StillUndone, NotDone, Refreshing
    <2>6. Fades(c)
        BY <1>1, <1>2, <1>6, <2>1, <2>3 DEF Fades, Refreshing
    <2>7. Moves
        BY <1>1, <1>6, <2>3, <2>6, FadesMove DEF Dies
    <2> QED
        BY <1>1, <2>4, <2>5, <2>7 DEF Fine
<1> QED
    BY <1>4, <1>5, <1>6 DEF Look

LEMMA RotateFine ==
    ASSUME ClientAssumption, IInv, NEW c \in Calls, Rotate(c)
    PROVE  Fine
<1> USE DEF IInv
<1>1. /\ call[c].step = "rotate" /\ Refreshing(c) /\ call[c].token \in Tokens
      /\ UNCHANGED <<expired, stored, tab, asked>> /\ Note
      /\ strayed \subseteq strayed' /\ strayed' \subseteq Tokens
      /\ call[c].tab = NoTab => call[c].token \in strayed'
    BY DEF Rotate, Refreshing, BrowserUnchanged, TypeOK
<1>2. PICK new \in Unborn : Ledger!Rotate(call[c].token, new) /\ Refreshed(c, "ok", new)
    BY DEF Rotate
<1>3. /\ state' = [state EXCEPT ![call[c].token] = "dead", ![new] = "alive"]
      /\ successor' = [successor EXCEPT ![call[c].token] = new]
      /\ state[new] = "unborn" /\ new \in Tokens /\ new # call[c].token
    BY <1>1, <1>2, RotateNext
<1>4. /\ CallsTyped /\ Others(c)
      /\ call'[c].step = "refreshed" /\ call'[c].result = "ok"
      /\ call'[c].fresh = new /\ call'[c].outer = call[c].outer
      /\ call'[c].token = call[c].token /\ call'[c].tab = call[c].tab
      /\ call'[c].done = call[c].done /\ call'[c].retried = call[c].retried
    BY <1>1, <1>2, <1>3, RefreshedNext DEF Maybe
<1>5. TypeOK'
    BY <1>1, <1>3, <1>4, TypeNext DEF TypeOK, Maybe
<1>6. NotDone'
    BY <1>1, <1>4, NotDoneNext DEF StillUndone, NotDone, Refreshing
<1>7. Rotates(c, new)
    BY <1>1, <1>3, <1>4 DEF Rotates
<1> QED
    BY <1>1, <1>3, <1>5, <1>6, <1>7 DEF Fine, Moves

LEMMA FailFine ==
    ASSUME ClientAssumption, IInv, NEW c \in Calls, Fail(c)
    PROVE  Fine
<1> USE DEF IInv
<1>1. UNCHANGED <<state, successor, expired, stored, tab, asked>> /\ Note /\ Dies /\ call[c] \in Call
    BY DEF Fail, BrowserUnchanged, Dies, TypeOK
<1>2. CASE call[c].step \in {"request", "answered"} /\ Answered(c, "failed", NoToken) /\ strayed' = strayed
    <2>1. ~Refreshing(c)
        BY <1>2 DEF Refreshing
    <2>2. /\ CallsTyped /\ Others(c)
          /\ call'[c].step = "answered" /\ call'[c].result = "failed"
          /\ call'[c].fresh = NoToken /\ call'[c].outer = call[c].outer
        BY <1>2, AnsweredNext DEF Maybe
    <2>3. TypeOK'
        BY <1>1, <1>2, <2>2, TypeNext DEF TypeOK
    <2>4. NotDone'
        BY <2>2, NotDoneNext DEF StillUndone, Refreshing
    <2>5. Fades(c)
        BY <2>1, <2>2, Plain DEF Fades, Refreshing
    <2>6. Moves
        BY <1>1, <1>2, <2>2, <2>5, FadesMove
    <2> QED
        BY <1>1, <2>3, <2>4, <2>6 DEF Fine
<1>3. CASE /\ Refreshing(c) /\ Refreshed(c, "failed", NoToken)
           /\ strayed' = IF call[c].fresh = NoToken THEN strayed ELSE strayed \cup {call[c].token}
    <2>1. call[c].token \in Tokens /\ strayed \subseteq strayed' /\ strayed' \subseteq Tokens
        BY <1>3 DEF TypeOK, Refreshing
    <2>2. /\ CallsTyped /\ Others(c)
          /\ call'[c].step = "refreshed" /\ call'[c].result = "failed"
          /\ call'[c].fresh = NoToken /\ call'[c].outer = call[c].outer
          /\ call'[c].token = call[c].token
          /\ call'[c].done = call[c].done /\ call'[c].retried = call[c].retried
        BY <1>3, <2>1, RefreshedNext DEF Maybe
    <2>3. TypeOK'
        BY <1>1, <2>1, <2>2, TypeNext DEF TypeOK
    <2>4. NotDone'
        BY <1>3, <2>2, NotDoneNext DEF StillUndone, NotDone, Refreshing
    <2>5. Fades(c)
        BY <1>3, <2>2 DEF Fades, Refreshing, InAnswer
    <2>6. Moves
        BY <1>1, <2>1, <2>2, <2>5, FadesMove
    <2> QED
        BY <1>1, <2>3, <2>4, <2>6 DEF Fine
<1> QED
    BY <1>2, <1>3 DEF Fail

LEMMA ElsewhereFine ==
    ASSUME ClientAssumption, IInv, EndElsewhere
    PROVE  Fine
<1> USE DEF IInv
<1>1. /\ UNCHANGED <<expired, stored, tab, asked, strayed>> /\ call' = call /\ Note
      /\ state' \in [Tokens -> {"unborn", "alive", "dead"}] /\ successor' = successor /\ Dies
    BY RevokeNext DEF EndElsewhere, BrowserUnchanged
<1>2. CallsTyped /\ NotDone'
    BY <1>1, SameCalls
<1>3. TypeOK'
    BY <1>1, <1>2, TypeNext DEF TypeOK
<1> QED
    BY <1>1, <1>2, <1>3 DEF Fine, Moves, Loses, Dies

LEMMA ExpireFine ==
    ASSUME ClientAssumption, IInv, NEW k \in Tokens, Expire(k)
    PROVE  Fine
<1> USE DEF IInv
<1>1. /\ UNCHANGED <<state, successor, stored, tab, asked, strayed>> /\ call' = call /\ Note
      /\ expired' \subseteq Tokens
    BY DEF Expire, TypeOK
<1>2. CallsTyped /\ NotDone'
    BY <1>1, SameCalls
<1>3. TypeOK'
    BY <1>1, <1>2, TypeNext DEF TypeOK
<1> QED
    BY <1>1, <1>2, <1>3 DEF Fine, Moves, Loses, Dies

-----------------------------------------------------------------------------
(* The user's actions.                                                     *)

LEMMA PageLoadFine ==
    ASSUME ClientAssumption, IInv, NEW c \in Calls, NEW t \in Tabs, PageLoad(c, t)
    PROVE  Fine
<1> USE DEF IInv
<1> DEFINE Gone(d) == call[d].tab = t
           old == [d \in Calls |-> IF Gone(d) THEN Orphan(call[d]) ELSE call[d]]
<1>1. /\ call[c].step = "idle" /\ ~Refreshing(c) /\ Note
      /\ tab' = [tab EXCEPT ![t] = [Closed EXCEPT !.open = TRUE, !.refresh = stored]]
      /\ call' = IF stored = NoToken THEN old ELSE [old EXCEPT ![c] = Sent(t, "load", NoToken, stored)]
      /\ strayed' = strayed \cup {call[d].token : d \in {e \in Calls :
                        Gone(e) /\ call[e].step = "refreshed" /\ call[e].fresh # NoToken}}
      /\ UNCHANGED <<state, successor, expired, stored>> /\ asked' \in 0..MaxAsked
    BY DEF PageLoad, Refreshing, ServerUnchanged, TypeOK, ClientAssumption
<1>2. /\ tab' \in [Tabs -> Page]
      /\ \A u \in Tabs : tab'[u].refresh \in {tab[u].refresh, stored, NoToken}
    <2> DEFINE page == [Closed EXCEPT !.open = TRUE, !.refresh = stored]
    <2>1. page \in Page /\ page.refresh = stored
        BY NoCallType DEF Page, TypeOK
    <2>2. tab' = [tab EXCEPT ![t] = page]
        BY <1>1
    <2> HIDE DEF page
    <2> QED
        BY <2>1, <2>2 DEF TypeOK
<1>3. ASSUME NEW d \in Calls
      PROVE  /\ old[d] \in Call
             /\ old[d].step \in Busy => old[d].token \in Tokens
             /\ ~Gone(d) => old[d] = call[d]
             /\ Gone(d) => old[d] = Orphan(call[d])
             /\ call[d] \in Call
    <2>1. call[d] \in Call /\ (call[d].step \in Busy => call[d].token \in Tokens)
        BY DEF TypeOK, Busy
    <2> QED
        BY <2>1, OrphanType
<1>4. Sent(t, "load", NoToken, stored) \in Call /\ Sent(t, "load", NoToken, stored).step = "request"
      /\ Sent(t, "load", NoToken, stored).fresh = NoToken /\ Sent(t, "load", NoToken, stored).outer = NoToken
      /\ ~Sent(t, "load", NoToken, stored).done
    <2>1. stored \in Maybe /\ NoToken \in Maybe /\ "load" \in Kinds
        BY DEF TypeOK, Maybe, Kinds
    <2> QED
        BY <2>1, SentType
<1>5. ASSUME NEW d \in Calls
      PROVE  call'[d] = old[d] \/ (d = c /\ call'[d] = Sent(t, "load", NoToken, stored))
    BY <1>1
<1>6. CallsTyped
    <2>1. call' \in [Calls -> Call]
        BY <1>1, <1>3, <1>4
    <2> QED
        BY <2>1, <1>3, <1>4, <1>5 DEF CallsTyped, Busy
<1> HIDE DEF old
<1>7. strayed \subseteq strayed' /\ strayed' \subseteq Tokens
    BY <1>1 DEF TypeOK
<1>8. TypeOK'
    BY <1>1, <1>2, <1>6, <1>7, TypeNext DEF TypeOK
<1>9. ASSUME NEW d \in Calls
      PROVE  (call'[d] = call[d] \/ Fades(d)) /\ StillUndone(d)
    <2>1. CASE call'[d] = call[d]
        BY <2>1 DEF StillUndone, NotDone, Refreshing
    <2>2. CASE d = c /\ call'[d] = Sent(t, "load", NoToken, stored)
        BY <1>1, <1>4, <2>2, Plain DEF Fades, StillUndone, Refreshing
    <2>3. CASE Gone(d) /\ call'[d] = Orphan(call[d])
        <3>1. StillUndone(d)
            BY <1>3, <2>3, OrphanType DEF StillUndone, NotDone, Refreshing
        <3>2. call'[d].fresh = NoToken /\ call'[d].outer = NoToken /\ call'[d].step # "refreshed"
            BY <1>3, <2>3, OrphanType DEF Custody, FreshAlone, Call, Maybe
        <3>3. Refreshing(d)' => call'[d].token = call[d].token /\ call'[d].step = call[d].step
            BY <1>3, <2>3, OrphanType DEF Refreshing, Busy
        <3>4. \A k \in Tokens : InAnswer(d, k) => k \in strayed'
            BY <1>1, <2>3 DEF InAnswer
        <3> QED
            BY <3>1, <3>2, <3>3, <3>4 DEF Fades, Refreshing
    <2> QED
        BY <1>3, <1>5, <2>1, <2>2, <2>3
<1>10. NotDone'
    BY <1>9 DEF NotDone, StillUndone, Refreshing
<1>11. Moves
    BY <1>1, <1>2, <1>7, <1>9 DEF Moves, Loses
<1> QED
    BY <1>1, <1>8, <1>10, <1>11 DEF Fine

LEMMA AskFine ==
    ASSUME ClientAssumption, IInv, NEW c \in Calls, NEW t \in Tabs,
           NEW kind \in Kinds, NEW body \in Maybe, Ask(c, t, kind, body)
    PROVE  Fine
<1> USE DEF IInv
<1> DEFINE r == Sent(t, kind, body, stored)
<1>1. /\ call[c].step = "idle" /\ ~Refreshing(c) /\ Note /\ Set(c, r) /\ Dies
      /\ UNCHANGED <<state, successor, expired, stored, tab, strayed>> /\ asked' \in 0..MaxAsked
    BY DEF Ask, Refreshing, ServerUnchanged, TypeOK, ClientAssumption, Dies
<1>2. /\ r \in Call /\ r.step = "request" /\ r.fresh = NoToken /\ r.outer = NoToken /\ ~r.done
    <2>1. stored \in Maybe
        BY DEF TypeOK
    <2> QED
        BY <2>1, SentType
<1> HIDE DEF r
<1>3. CallsTyped /\ call'[c] = r /\ Others(c)
    BY <1>1, <1>2, SetNext DEF Busy
<1>4. TypeOK'
    BY <1>1, <1>3, TypeNext DEF TypeOK
<1>5. NotDone'
    BY <1>2, <1>3, NotDoneNext DEF StillUndone
<1>6. Fades(c)
    BY <1>1, <1>2, <1>3, Plain DEF Fades, Refreshing
<1>7. Moves
    BY <1>1, <1>3, <1>6, FadesMove
<1> QED
    BY <1>1, <1>4, <1>5, <1>7 DEF Fine

LEMMA SignOutFine ==
    ASSUME ClientAssumption, IInv, NEW c \in Calls, NEW t \in Tabs, SignOut(c, t)
    PROVE  Fine
<1> USE DEF IInv
<1>1. CASE Ask(c, t, "logout", tab[t].refresh)
    BY <1>1, AskFine DEF TypeOK, Page, Kinds
<1>2. CASE /\ ClearAuth(t, FALSE) /\ UNCHANGED <<call, asked, strayed>>
           /\ ServerUnchanged /\ Note
    <2>1. /\ stored' = NoToken /\ tab' \in [Tabs -> Page] /\ tab'[t].refresh = NoToken
          /\ \A u \in Tabs : u # t => tab'[u] = tab[u]
        BY <1>2, ClearAuthNext
    <2>2. CallsTyped /\ NotDone'
        BY <1>2, SameCalls
    <2>3. TypeOK'
        BY <1>2, <2>1, <2>2, TypeNext DEF TypeOK, ServerUnchanged, Maybe
    <2>4. Moves
        BY <1>2, <2>1 DEF Moves, Loses, ServerUnchanged
    <2> QED
        BY <1>2, <2>2, <2>3, <2>4 DEF Fine
<1> QED
    BY <1>1, <1>2 DEF SignOut

LEMMA UserFine ==
    ASSUME ClientAssumption, IInv, UserActs
    PROVE  Fine
<1>1. PICK t \in Tabs, c \in Calls :
          PageLoad(c, t) \/ AskApi(c, t) \/ SignIn(c, t) \/ SignOut(c, t) \/ SignOutEverywhere(c, t)
    BY DEF UserActs
<1>2. CASE AskApi(c, t) \/ SignIn(c, t) \/ SignOutEverywhere(c, t)
    BY <1>2, AskFine DEF AskApi, SignIn, SignOutEverywhere, Kinds, Maybe
<1> QED
    BY <1>1, <1>2, PageLoadFine, SignOutFine

-----------------------------------------------------------------------------
(* The page's actions.                                                     *)

\* A page that takes an answer and is through with the request.
LEMMA EndFine ==
    ASSUME ClientAssumption, IInv, NEW c \in Calls, End(c), Note, ServerUnchanged,
           UNCHANGED <<asked, strayed>>, \A k \in Tokens : ~InAnswer(c, k),
           stored' \in {stored, NoToken}, tab' \in [Tabs -> Page],
           \A t \in Tabs : tab'[t].refresh \in {tab[t].refresh, stored, NoToken}
    PROVE  Fine
<1> USE DEF IInv
<1>1. /\ CallsTyped /\ Others(c)
      /\ call'[c].step = "idle" /\ call'[c].fresh = NoToken /\ call'[c].outer = NoToken
    BY EndNext
<1>2. TypeOK'
    BY <1>1, TypeNext DEF TypeOK, ServerUnchanged, Maybe
<1>3. NotDone'
    BY <1>1, NotDoneNext DEF StillUndone, Refreshing
<1>4. Fades(c)
    BY <1>1 DEF Fades, Refreshing
<1>5. Moves
    BY <1>1, <1>4, FadesMove DEF ServerUnchanged, Dies
<1> QED
    BY <1>2, <1>3, <1>5 DEF Fine

LEMMA ClearFine ==
    ASSUME ClientAssumption, IInv, NEW c \in Calls, NEW t \in Tabs, NEW leave \in BOOLEAN,
           ClearAuth(t, leave), End(c), Note, ServerUnchanged,
           UNCHANGED <<asked, strayed>>, \A k \in Tokens : ~InAnswer(c, k)
    PROVE  Fine
<1>1. /\ stored' = NoToken /\ tab' \in [Tabs -> Page] /\ tab'[t].refresh = NoToken
      /\ \A u \in Tabs : u # t => tab'[u] = tab[u]
    BY ClearAuthNext DEF IInv
<1>2. \A u \in Tabs : tab'[u].refresh \in {tab[u].refresh, stored, NoToken}
    BY <1>1
<1> QED
    BY <1>1, <1>2, EndFine

\* A page that presents a token with record r.
LEMMA PresentFine ==
    ASSUME ClientAssumption, IInv, NEW c \in Calls, NEW r \in Call, Set(c, r),
           call[c].tab \in Tabs, call[c].result # "ok", tab[call[c].tab].refresh # NoToken,
           r.step = "refresh", r.token = tab[call[c].tab].refresh, r.fresh = NoToken,
           r.outer # NoToken => /\ call[c].step = "refreshed" /\ call[c].result = "refused"
                                /\ r.outer = call[c].token,
           r.retried => ~r.done,
           Note, ServerUnchanged, UNCHANGED <<stored, tab, asked, strayed>>
    PROVE  Fine
<1> USE DEF IInv
<1>1. r.token \in Tokens
    BY DEF TypeOK, Page, Maybe
<1>2. CallsTyped /\ call'[c] = r /\ Others(c)
    BY <1>1, SetNext
<1>3. TypeOK'
    BY <1>2, TypeNext DEF TypeOK, ServerUnchanged
<1>4. NotDone'
    BY <1>2, NotDoneNext DEF StillUndone, Refreshing
<1>5. Presents(c)
    BY <1>2 DEF Presents, ServerUnchanged
<1> QED
    BY <1>3, <1>4, <1>5 DEF Fine, Moves

\* A page that saves the tokens of an answer and goes on with record r.
LEMMA SaveFine ==
    ASSUME ClientAssumption, IInv, NEW c \in Calls, NEW r \in Call, Set(c, r),
           call[c].tab \in Tabs, Save(call[c].tab, call[c].fresh),
           r.fresh = NoToken, r.outer = NoToken,
           \/ r.step = "request" /\ ~r.done
           \/ /\ r.step = "refresh" /\ r.token = call[c].outer /\ call[c].outer # NoToken
              /\ r.retried => ~r.done,
           Note, ServerUnchanged, UNCHANGED <<asked, strayed>>
    PROVE  Fine
<1> USE DEF IInv
<1>1. call[c].fresh \in Maybe /\ (call[c].outer # NoToken => call[c].outer \in Tokens)
    BY DEF TypeOK, Call, Maybe
<1>2. CallsTyped /\ call'[c] = r /\ Others(c)
    BY <1>1, SetNext DEF Busy
<1>3. /\ stored' = call[c].fresh /\ tab' \in [Tabs -> Page] /\ tab'[call[c].tab].refresh = call[c].fresh
      /\ \A u \in Tabs : u # call[c].tab => tab'[u] = tab[u]
    BY <1>1, SaveNext
<1>4. TypeOK'
    BY <1>1, <1>2, <1>3, TypeNext DEF TypeOK, ServerUnchanged
<1>5. NotDone'
    BY <1>2, NotDoneNext DEF StillUndone, Refreshing
<1>6. Saves(c)
    BY <1>2, <1>3 DEF Saves, ServerUnchanged
<1> QED
    BY <1>4, <1>5, <1>6 DEF Fine, Moves

\* What is known of a request whose answer has come to its page.
LEMMA AnswerFacts ==
    ASSUME ClientAssumption, IInv, NEW c \in Calls, NEW result, Arrived(c, result)
    PROVE  /\ call[c] \in Call /\ call[c].tab \in Tabs /\ call[c].outer = NoToken
           /\ \A k \in Tokens : ~InAnswer(c, k)
           /\ result = "refused" => ~call[c].done
<1>1. ~Refreshing(c) /\ call[c].step = "answered" /\ call[c].result = result /\ call[c].tab # NoTab
    BY DEF Arrived, Refreshing
<1>2. call[c] \in Call
    BY DEF IInv, TypeOK
<1> QED
    BY <1>1, <1>2, Plain DEF IInv, NotDone, Call

LEMMA TakeAnswerFine ==
    ASSUME ClientAssumption, IInv, NEW c \in Calls, TakeAnswer(c)
    PROVE  Fine
<1> USE DEF IInv
<1> DEFINE t == call[c].tab
<1>1. /\ call[c] \in Call /\ t \in Tabs /\ \A k \in Tokens : ~InAnswer(c, k)
      /\ UNCHANGED <<asked, strayed>> /\ ServerUnchanged /\ Note
    BY AnswerFacts DEF TakeAnswer
<1>2. CASE End(c) /\ UNCHANGED <<stored, tab>>
    BY <1>1, <1>2, EndFine DEF TypeOK
<1>3. CASE Save(t, call[c].fresh) /\ Set(c, Sent(t, "profile", NoToken, call[c].fresh))
    <2>1. call[c].fresh \in Maybe /\ NoToken \in Maybe /\ "profile" \in Kinds
        BY <1>1 DEF Call, Maybe, Kinds
    <2> QED
        BY <1>1, <1>3, <2>1, SentType, SaveFine
<1>4. CASE tab' = [tab EXCEPT ![t].authed = TRUE] /\ End(c) /\ UNCHANGED stored
    <2>1. tab' \in [Tabs -> Page] /\ \A u \in Tabs : tab'[u].refresh = tab[u].refresh
        BY <1>1, <1>4 DEF TypeOK, Page
    <2> QED
        BY <1>1, <1>4, <2>1, EndFine
<1>5. CASE ClearAuth(t, FALSE) /\ End(c)
    BY <1>1, <1>5, ClearFine
<1>6. CASE stored' = NoToken /\ tab' = [tab EXCEPT ![t].leaving = TRUE] /\ End(c)
    <2>1. tab' \in [Tabs -> Page] /\ \A u \in Tabs : tab'[u].refresh = tab[u].refresh
        BY <1>1, <1>6 DEF TypeOK, Page
    <2> QED
        BY <1>1, <1>6, <2>1, EndFine
<1> QED
    BY <1>2, <1>3, <1>4, <1>5, <1>6 DEF TakeAnswer

LEMMA RenewFine ==
    ASSUME ClientAssumption, IInv, NEW c \in Calls, Renew(c)
    PROVE  Fine
<1> USE DEF IInv
<1> DEFINE t == call[c].tab
<1>1. /\ Arrived(c, "refused") /\ call[c] \in Call /\ t \in Tabs /\ call[c].outer = NoToken
      /\ ~call[c].done /\ \A k \in Tokens : ~InAnswer(c, k)
      /\ UNCHANGED <<asked, strayed>> /\ ServerUnchanged /\ Note
    BY AnswerFacts DEF Renew
<1>2. CASE /\ tab[t].refresh # NoToken
           /\ Set(c, [Presenting(c, tab[t].refresh) EXCEPT !.retried = TRUE])
           /\ UNCHANGED <<stored, tab>>
    <2> DEFINE p == Presenting(c, tab[t].refresh)
               r == [p EXCEPT !.retried = TRUE]
    <2>1. /\ p \in Call /\ p.step = "refresh" /\ p.token = tab[t].refresh /\ p.fresh = NoToken
          /\ p.outer = NoToken /\ p.done = call[c].done
        BY <1>1, <1>2, PresentingType DEF TypeOK, Page, Maybe
    <2> HIDE DEF p
    <2>2. /\ r \in Call /\ r.step = "refresh" /\ r.token = tab[t].refresh /\ r.fresh = NoToken
          /\ r.outer = NoToken /\ r.done = call[c].done
        BY <2>1 DEF Call
    <2>3. Set(c, r)
        BY <1>2 DEF p
    <2> HIDE DEF r
    <2> QED
        BY <1>1, <1>2, <2>2, <2>3, PresentFine DEF Arrived
<1>3. CASE ClearAuth(t, TRUE) /\ End(c)
    BY <1>1, <1>3, ClearFine
<1> QED
    BY <1>2, <1>3 DEF Renew

LEMMA TakeErrorFine ==
    ASSUME ClientAssumption, IInv, NEW c \in Calls, TakeError(c)
    PROVE  Fine
<1> USE DEF IInv
<1> DEFINE t == call[c].tab
<1>1. /\ call[c] \in Call /\ t \in Tabs /\ call[c].outer = NoToken /\ call[c].result # "ok"
      /\ \A k \in Tokens : ~InAnswer(c, k)
      /\ UNCHANGED <<asked, strayed>> /\ ServerUnchanged /\ Note
    BY AnswerFacts DEF TakeError, Arrived
<1>2. CASE End(c) /\ UNCHANGED <<stored, tab>>
    BY <1>1, <1>2, EndFine DEF TypeOK
<1>3. CASE ClearAuth(t, FALSE) /\ End(c)
    BY <1>1, <1>3, ClearFine
<1>4. CASE stored' = NoToken /\ tab' = [tab EXCEPT ![t].leaving = TRUE] /\ End(c)
    <2>1. tab' \in [Tabs -> Page] /\ \A u \in Tabs : tab'[u].refresh = tab[u].refresh
        BY <1>1, <1>4 DEF TypeOK, Page
    <2> QED
        BY <1>1, <1>4, <2>1, EndFine
<1>5. CASE /\ tab[t].refresh # NoToken
           /\ Set(c, [Presenting(c, tab[t].refresh) EXCEPT !.kind = "reload", !.retried = FALSE])
           /\ UNCHANGED <<stored, tab>>
    <2> DEFINE p == Presenting(c, tab[t].refresh)
               r == [p EXCEPT !.kind = "reload", !.retried = FALSE]
    <2>1. /\ p \in Call /\ p.step = "refresh" /\ p.token = tab[t].refresh /\ p.fresh = NoToken
          /\ p.outer = NoToken
        BY <1>1, <1>5, PresentingType DEF TypeOK, Page, Maybe
    <2> HIDE DEF p
    <2>2. /\ r \in Call /\ r.step = "refresh" /\ r.token = tab[t].refresh /\ r.fresh = NoToken
          /\ r.outer = NoToken /\ ~r.retried
        BY <2>1 DEF Call, Kinds
    <2>3. Set(c, r)
        BY <1>5 DEF p
    <2> HIDE DEF r
    <2> QED
        BY <1>1, <1>5, <2>2, <2>3, PresentFine
<1> QED
    BY <1>2, <1>3, <1>4, <1>5 DEF TakeError

\* What is known of a refresh whose answer has come to its page.
LEMMA RefreshFacts ==
    ASSUME ClientAssumption, IInv, NEW c \in Calls, NEW result, RefreshArrived(c, result)
    PROVE  /\ call[c] \in Call /\ call[c].tab \in Tabs /\ call[c].token \in Tokens
           /\ call[c].step = "refreshed" /\ call[c].result = result /\ Refreshing(c)
           /\ call[c].retried => ~call[c].done
           /\ result # "ok" => \A k \in Tokens : ~InAnswer(c, k)
<1>1. call[c].step = "refreshed" /\ call[c].result = result /\ call[c].tab # NoTab /\ Refreshing(c)
    BY DEF RefreshArrived, Refreshing
<1>2. call[c] \in Call /\ call[c].token \in Tokens
    BY <1>1 DEF IInv, TypeOK
<1> QED
    BY <1>1, <1>2 DEF IInv, NotDone, Custody, FreshAlone, InAnswer, Call, Maybe

LEMMA RenewedFine ==
    ASSUME ClientAssumption, IInv, NEW c \in Calls, Renewed(c)
    PROVE  Fine
<1> USE DEF IInv
<1> DEFINE t == call[c].tab
           k == call[c].fresh
<1>1. /\ call[c] \in Call /\ t \in Tabs /\ (call[c].retried => ~call[c].done)
      /\ Save(t, k) /\ UNCHANGED <<asked, strayed>> /\ ServerUnchanged /\ Note
    BY RefreshFacts DEF Renewed
<1>2. CASE /\ call[c].outer # NoToken
           /\ Set(c, [Presenting(c, call[c].outer) EXCEPT !.outer = NoToken, !.last = TRUE])
    <2> DEFINE p == Presenting(c, call[c].outer)
               r == [p EXCEPT !.outer = NoToken, !.last = TRUE]
    <2>1. /\ p \in Call /\ p.step = "refresh" /\ p.token = call[c].outer /\ p.fresh = NoToken
          /\ p.done = call[c].done /\ p.retried = call[c].retried
        BY <1>1, <1>2, PresentingType DEF Call, Maybe
    <2> HIDE DEF p
    <2>2. /\ r \in Call /\ r.step = "refresh" /\ r.token = call[c].outer /\ r.fresh = NoToken
          /\ r.outer = NoToken /\ r.done = call[c].done /\ r.retried = call[c].retried
        BY <2>1 DEF Call, Maybe
    <2>3. Set(c, r)
        BY <1>2 DEF p
    <2> HIDE DEF r
    <2> QED
        BY <1>1, <1>2, <2>2, <2>3, SaveFine
<1>3. CASE Set(c, [Sent(t, call[c].kind, call[c].body, k)
                       EXCEPT !.retried = call[c].retried, !.done = call[c].retried /\ call[c].done])
    <2> DEFINE p == Sent(t, call[c].kind, call[c].body, k)
               dn == call[c].retried /\ call[c].done
               r == [p EXCEPT !.retried = call[c].retried, !.done = dn]
    <2>0. call[c].kind \in Kinds /\ call[c].body \in Maybe /\ k \in Maybe
        BY <1>1 DEF Call
    <2>1. p \in Call /\ p.step = "request" /\ p.fresh = NoToken /\ p.outer = NoToken
        BY <1>1, <2>0, SentType
    <2>2. dn = FALSE /\ call[c].retried \in BOOLEAN
        BY <1>1 DEF Call
    <2>3. Set(c, r)
        BY <1>3
    <2> HIDE DEF p, dn
    <2>4. r \in Call /\ r.step = "request" /\ r.fresh = NoToken /\ r.outer = NoToken
        BY <2>1, <2>2 DEF Call
    <2>5. ~r.done
        BY <2>1, <2>2 DEF Call
    <2> HIDE DEF r
    <2> QED
        BY <1>1, <2>3, <2>4, <2>5, SaveFine
<1> QED
    BY <1>2, <1>3 DEF Renewed

LEMMA RenewAgainFine ==
    ASSUME ClientAssumption, IInv, NEW c \in Calls, RenewAgain(c)
    PROVE  Fine
<1> USE DEF IInv
<1> DEFINE t == call[c].tab
           p == Presenting(c, tab[t].refresh)
           r == [p EXCEPT !.outer = call[c].token]
<1>1. /\ call[c] \in Call /\ t \in Tabs /\ (call[c].retried => ~call[c].done)
      /\ call[c].step = "refreshed" /\ call[c].result = "refused" /\ call[c].token \in Tokens
      /\ tab[t].refresh # NoToken /\ Set(c, r)
      /\ UNCHANGED <<stored, tab, asked, strayed>> /\ ServerUnchanged /\ Note
    BY RefreshFacts DEF RenewAgain
<1>2. /\ p \in Call /\ p.step = "refresh" /\ p.token = tab[t].refresh /\ p.fresh = NoToken
      /\ p.done = call[c].done /\ p.retried = call[c].retried
    BY <1>1, PresentingType DEF TypeOK, Page, Maybe
<1> HIDE DEF p
<1>3. /\ r \in Call /\ r.step = "refresh" /\ r.token = tab[t].refresh /\ r.fresh = NoToken
      /\ r.outer = call[c].token /\ r.done = call[c].done /\ r.retried = call[c].retried
    BY <1>1, <1>2 DEF Call, Maybe
<1> HIDE DEF r
<1> QED
    BY <1>1, <1>3, PresentFine

LEMMA GiveUpFine ==
    ASSUME ClientAssumption, IInv, NEW c \in Calls, GiveUp(c)
    PROVE  Fine
<1>1. /\ call[c].tab \in Tabs /\ \A k \in Tokens : ~InAnswer(c, k)
      /\ UNCHANGED <<asked, strayed>> /\ ServerUnchanged /\ Note /\ End(c)
    BY RefreshFacts DEF GiveUp
<1>2. \E leave \in BOOLEAN : ClearAuth(call[c].tab, leave)
    BY DEF GiveUp
<1> QED
    BY <1>1, <1>2, ClearFine

LEMMA DropFine ==
    ASSUME ClientAssumption, IInv, NEW c \in Calls, Drop(c)
    PROVE  Fine
<1>1. /\ \A k \in Tokens : ~InAnswer(c, k)
      /\ End(c) /\ UNCHANGED <<stored, tab, asked, strayed>> /\ ServerUnchanged /\ Note
    BY DEF Drop, InAnswer
<1>2. tab' \in [Tabs -> Page]
    BY <1>1 DEF IInv, TypeOK
<1> QED
    BY <1>1, <1>2, EndFine

LEMMA NextFine ==
    ASSUME ClientAssumption, IInv, Next
    PROVE  Fine
<1>1. ASSUME NEW c \in Calls, Proceed(c) \/ Fail(c)
      PROVE  Fine
    BY <1>1, RefuseFine, ServeFine, LookFine, RotateFine, TakeAnswerFine, RenewFine,
       TakeErrorFine, RenewedFine, RenewAgainFine, GiveUpFine, DropFine, FailFine
       DEF Proceed
<1> QED
    BY <1>1, UserFine, ElsewhereFine, ExpireFine DEF Next

-----------------------------------------------------------------------------
(* Theorems.                                                               *)

LEMMA InitIInv ==
    ASSUME ClientAssumption, Init
    PROVE  IInv
<1>1. TypeOK
    BY NoCallType DEF Init, TypeOK, Maybe
<1>2. Born /\ Noted
    BY NoCallType DEF Init, Born, Noted, Settled, Shared, Holds, Refreshing, Keeps, Closed,
                      ClientAssumption
<1>3. OuterDead /\ FreshAlone /\ NotDone
    BY NoCallType DEF Init, OuterDead, FreshAlone, NotDone, Refreshing, ClientAssumption
<1>4. Excused
    BY DEF Init, Excused
<1> QED
    BY <1>1, <1>2, <1>3, <1>4 DEF IInv, Custody

LEMMA NextIInv ==
    ASSUME ClientAssumption, IInv, [Next]_vars
    PROVE  IInv'
<1>1. CASE Next
    <2>1. Fine
        BY <1>1, NextFine
    <2>2. Custody'
        BY <2>1, MovesCustody DEF Fine, IInv
    <2> QED
        BY <2>1, <2>2 DEF Fine, IInv
<1>2. CASE UNCHANGED vars
    BY <1>2 DEF vars, IInv, TypeOK, Custody, Born, Noted, OuterDead, FreshAlone, Excused,
                NotDone, Settled, Shared, Holds, Keeps, Refreshing, InAnswer
<1> QED
    BY <1>1, <1>2

\* The inductive invariant: who may hold a token that was replaced.
THEOREM Invariant == ASSUME ClientAssumption PROVE Spec => []IInv
<1>1. Init => IInv
    BY InitIInv
<1>2. IInv /\ [Next]_vars => IInv'
    BY NextIInv
<1> QED
    BY <1>1, <1>2, PTL DEF Spec

\* Every page, request and token keeps its type: nothing presents a token that
\* it does not have.
THEOREM TypeCorrect == ASSUME ClientAssumption PROVE Spec => []TypeOK
<1>1. IInv => TypeOK
    BY DEF IInv
<1> QED
    BY <1>1, Invariant, PTL

\* Tokens are taken for stolen only after two pages or two refreshes held one,
\* or an answer was lost.
THEOREM OnlyOverlapOrLossLooksLikeTheft ==
    ASSUME ClientAssumption PROVE Spec => []NoInnocentReplay
<1>1. IInv => NoInnocentReplay
    <2> SUFFICES ASSUME IInv, NEW c \in Calls,
                        call[c].step = "refresh", successor[call[c].token] # NoToken,
                        call[c].token \notin shared \cup strayed
                 PROVE  FALSE
        BY DEF NoInnocentReplay
    <2>1. call[c].token \in Tokens /\ Holds(c, call[c].token)
        BY DEF IInv, TypeOK, Holds, Refreshing
    <2>2. PICK d \in Calls : InAnswer(d, call[c].token)
        BY <2>1 DEF IInv, Custody, Excused, Settled
    <2>3. d # c /\ Holds(d, call[c].token)
        BY <2>2 DEF InAnswer, Holds, Refreshing
    <2> QED
        BY <2>1, <2>3 DEF IInv, Custody, Noted, Shared
<1> QED
    BY <1>1, Invariant, PTL

\* What is sent again was not carried out before.
THEOREM SentAgainOnlyIfRefused == ASSUME ClientAssumption PROVE Spec => []ExecutedOnce
<1>1. IInv => ExecutedOnce
    BY DEF IInv, NotDone, ExecutedOnce
<1> QED
    BY <1>1, Invariant, PTL
=============================================================================
