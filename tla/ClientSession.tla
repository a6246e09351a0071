---------------------------- MODULE ClientSession ----------------------------
(***************************************************************************)
(* The tabs of one browser and the refresh tokens they hold: the store     *)
(* (store/auth.store.ts), the axios interceptors (api/client.ts) and the   *)
(* pages that sign in and out, against the sessions of auth-service.       *)
(*                                                                         *)
(* The server's table is a SessionLedger, which RefreshSessions shows the  *)
(* server to implement.  A tab's script runs to its next await in one      *)
(* piece; between two pieces other tabs, the server, the network and the   *)
(* user act.  All tabs share localStorage; each keeps its own copy of the  *)
(* refresh token in the store.                                             *)
(*                                                                         *)
(* A request that comes back 401 is sent once more after refreshTokens();  *)
(* POST /auth/refresh goes through the same interceptor, so a refresh that *)
(* comes back 401 starts a refresh of its own, and is itself sent again    *)
(* when that one succeeds.                                                 *)
(***************************************************************************)
EXTENDS Naturals, FiniteSets

CONSTANTS
    Tabs, NoTab,        \* NoTab: the page that sent the request is gone
    Calls,              \* requests in flight at one time
    Tokens, NoToken,    \* refresh tokens, each with the access token born with it
    MaxAsked            \* bound on what the user does

VARIABLES
    state,      \* the ledger: "unborn", "alive" or "dead"
    successor,  \* the ledger: what replaced a session
    expired,    \* tokens whose access token has expired
    stored,     \* access_token and refresh_token of localStorage: one pair
    tab,        \* the store of each tab
    call,       \* the requests in flight
    asked,      \* number of things the user has done
    shared,     \* history: tokens that two pages or two refreshes held at a time
    strayed     \* history: replaced tokens whose successor reached no page

vars == <<state, successor, expired, stored, tab, call, asked, shared, strayed>>

Owner(t) == IF state[t] = "unborn" THEN "nobody" ELSE "user"

\* The server's side: one user, the one who sits at this browser.
Ledger == INSTANCE SessionLedger
              WITH Users <- {"user"}, NoUser <- "nobody",
                   owner <- [t \in Tokens |-> Owner(t)]

Maybe == Tokens \cup {NoToken}

Page == [open    : BOOLEAN,
         refresh : Maybe,      \* refreshToken
         authed  : BOOLEAN,    \* isAuthenticated
         leaving : BOOLEAN]    \* window.location.href = '/login' is under way

Kinds == {"none", "api", "login", "profile", "logout", "logout_all",
          "load",      \* initialize(): the first getMe
          "reload"}    \* initialize(): its own refreshTokens and the second getMe

Call == [tab     : Tabs \cup {NoTab},
         kind    : Kinds,
         step    : {"idle", "request", "answered", "refresh", "rotate", "refreshed"},
         bearer  : Maybe,      \* whose access token the request carries
         body    : Maybe,      \* the refresh token in the body of a logout
         done    : BOOLEAN,    \* history: the server has carried it out
         retried : BOOLEAN,    \* _retry of the request
         token   : Maybe,      \* the refresh token that is presented
         outer   : Maybe,      \* the refused refresh this one was made for
         last    : BOOLEAN,    \* _retry of the refresh
         result  : {"none", "ok", "refused", "failed"},  \* 2xx, 401, anything else
         fresh   : Maybe]      \* the pair in the answer

NoCall == [tab |-> NoTab, kind |-> "none", step |-> "idle", bearer |-> NoToken,
           body |-> NoToken, done |-> FALSE, retried |-> FALSE, token |-> NoToken,
           outer |-> NoToken, last |-> FALSE, result |-> "none", fresh |-> NoToken]

Closed == [open |-> FALSE, refresh |-> NoToken, authed |-> FALSE, leaving |-> FALSE]

TypeOK ==
    /\ state \in [Tokens -> {"unborn", "alive", "dead"}]
    /\ successor \in [Tokens -> Maybe]
    /\ expired \subseteq Tokens
    /\ stored \in Maybe
    /\ tab \in [Tabs -> Page]
    /\ call \in [Calls -> Call]
    /\ \A c \in Calls :
           call[c].step \in {"refresh", "rotate", "refreshed"} => call[c].token \in Tokens
    /\ asked \in 0..MaxAsked
    /\ shared \subseteq Tokens /\ strayed \subseteq Tokens

ASSUME ClientAssumption ==
    /\ NoToken \notin Tokens /\ NoTab \notin Tabs
    /\ MaxAsked \in Nat

Unborn == {t \in Tokens : state[t] = "unborn"}
Alive == {t \in Tokens : state[t] = "alive"}

\* The browser as an earlier visit left it: signed out, or with a session.
Init ==
    /\ stored \in Maybe
    /\ state = [t \in Tokens |-> IF t = stored THEN "alive" ELSE "unborn"]
    /\ successor = [t \in Tokens |-> NoToken]
    /\ expired = {}
    /\ tab = [t \in Tabs |-> Closed]
    /\ call = [c \in Calls |-> NoCall]
    /\ asked = 0
    /\ shared = {} /\ strayed = {}

-----------------------------------------------------------------------------
(* Who holds a refresh token.                                              *)

Refreshing(c) == call[c].step \in {"refresh", "rotate", "refreshed"}
Holds(c, k) == Refreshing(c) /\ k \in {call[c].token, call[c].outer}
Keeps(t, k) == tab[t].refresh = k

Shared(k) ==
    \/ \E c, d \in Calls : c # d /\ Holds(c, k) /\ Holds(d, k)
    \/ \E t, u \in Tabs : t # u /\ Keeps(t, k) /\ Keeps(u, k)
    \/ \E c \in Calls, t \in Tabs : call[c].tab # t /\ Holds(c, k) /\ Keeps(t, k)

\* Part of every step: the history of shared tokens.
Note == shared' = shared \cup {k \in Tokens : Shared(k)'}

Loading(t) == \E c \in Calls : call[c].tab = t /\ call[c].kind \in {"load", "reload"}

-----------------------------------------------------------------------------
(* Pieces of script.  They say what becomes of a page and of a request;    *)
(* the actions below put them together.                                    *)

\* A request as the request interceptor sends it: with the access token
\* that is in localStorage then.
Sent(t, kind, body, pair) ==
    [NoCall EXCEPT !.tab = t, !.kind = kind, !.step = "request",
                   !.body = body, !.bearer = pair]

\* refreshTokens() of a page that has a refresh token.
Presenting(c, k) == [call[c] EXCEPT !.step = "refresh", !.token = k,
                                    !.result = "none", !.fresh = NoToken]

\* Mutant: the tokens go to localStorage only.
SaveStorageOnly(t, k) == stored' = k /\ UNCHANGED tab

\* _saveTokens
Save(t, k) == /\ stored' = k
              /\ tab' = [tab EXCEPT ![t].refresh = k]

\* clearAuth, with or without the way to the login page.
ClearAuth(t, leave) ==
    /\ stored' = NoToken
    /\ tab' = [tab EXCEPT ![t].refresh = NoToken, ![t].authed = FALSE,
                          ![t].leaving = leave \/ tab[t].leaving]

End(c) == call' = [call EXCEPT ![c] = NoCall]
Set(c, r) == call' = [call EXCEPT ![c] = r]

ServerUnchanged == UNCHANGED <<state, successor, expired>>

-----------------------------------------------------------------------------
(* The user.                                                               *)

\* What remains of a request whose page is gone: what the server will do.
Orphan(r) == IF r.step \in {"answered", "refreshed"} THEN NoCall
             ELSE [r EXCEPT !.tab = NoTab, !.retried = FALSE,
                            !.outer = NoToken, !.last = FALSE]

\* A page is opened or loaded again, by the user or by window.location: what
\* its old script was waiting for is dropped, and initialize() asks who the
\* stored tokens belong to.
PageLoad(c, t) ==
    LET Gone(d) == call[d].tab = t
        old == [d \in Calls |-> IF Gone(d) THEN Orphan(call[d]) ELSE call[d]]
    IN  /\ tab[t].leaving \/ asked < MaxAsked
        /\ asked' = IF tab[t].leaving THEN asked ELSE asked + 1
        /\ call[c].step = "idle"
        /\ tab' = [tab EXCEPT ![t] = [Closed EXCEPT !.open = TRUE, !.refresh = stored]]
        /\ call' = IF stored = NoToken THEN old
                   ELSE [old EXCEPT ![c] = Sent(t, "load", NoToken, stored)]
        /\ strayed' = strayed \cup {call[d].token : d \in {e \in Calls :
                          Gone(e) /\ call[e].step = "refreshed" /\ call[e].fresh # NoToken}}
        /\ UNCHANGED stored /\ ServerUnchanged /\ Note

Ask(c, t, kind, body) ==
    /\ tab[t].open /\ ~Loading(t) /\ asked < MaxAsked
    /\ asked' = asked + 1
    /\ call[c].step = "idle"
    /\ Set(c, Sent(t, kind, body, stored))
    /\ UNCHANGED <<stored, tab, strayed>> /\ ServerUnchanged /\ Note

\* Any request of a page that is signed in; the pages that need no sign-in
\* send nothing that matters here.
AskApi(c, t) == tab[t].authed /\ Ask(c, t, "api", NoToken)
SignIn(c, t) == ~tab[t].authed /\ Ask(c, t, "login", NoToken)
SignOut(c, t) ==
    /\ tab[t].authed
    /\ IF tab[t].refresh # NoToken
       THEN Ask(c, t, "logout", tab[t].refresh)
       ELSE /\ ClearAuth(t, FALSE)
            /\ UNCHANGED <<call, asked, strayed>> /\ ServerUnchanged /\ Note
SignOutEverywhere(c, t) == tab[t].authed /\ Ask(c, t, "logout_all", NoToken)

-----------------------------------------------------------------------------
(* The server, and the time.                                               *)

Answered(c, result, fresh) ==
    Set(c, [call[c] EXCEPT !.step = "answered", !.result = result, !.fresh = fresh,
                           !.bearer = NoToken,
                           !.done = call[c].done \/ result = "ok"])

BrowserUnchanged == UNCHANGED <<expired, stored, tab, asked>>

\* decode_access_token: the access token is looked up nowhere.
Authorized(c) == call[c].bearer # NoToken /\ call[c].bearer \notin expired

\* A wrong password is a 401 too: at a sign-in, and from a page that asks for the
\* present one before it changes something.
Refuse(c) ==
    /\ call[c].step = "request"
    /\ call[c].kind \in {"login", "api"} \/ ~Authorized(c)
    /\ Answered(c, "refused", NoToken)
    /\ UNCHANGED <<state, successor, strayed>> /\ BrowserUnchanged /\ Note

Serve(c) ==
    /\ call[c].step = "request"
    /\ \/ /\ call[c].kind \in {"api", "profile", "load", "reload"} /\ Authorized(c)
          /\ Answered(c, "ok", NoToken)
          /\ UNCHANGED <<state, successor>>
       \/ \E new \in Unborn :
              /\ call[c].kind = "login"
              /\ Ledger!Open(new, "user", {})
              /\ Answered(c, "ok", new)
       \/ /\ call[c].kind = "logout" /\ Authorized(c)
          /\ Ledger!Revoke("user", {call[c].body} \cap Alive)
          /\ Answered(c, "ok", NoToken)
       \/ /\ call[c].kind = "logout_all" /\ Authorized(c)
          /\ Ledger!Revoke("user", Alive)
          /\ Answered(c, "ok", NoToken)
    /\ UNCHANGED strayed /\ BrowserUnchanged /\ Note

Refreshed(c, result, fresh) ==
    Set(c, [call[c] EXCEPT !.step = "refreshed", !.result = result, !.fresh = fresh])

\* refresh_tokens finds the row: alive, already replaced (every session of
\* the user ends), or otherwise dead.
Look(c) ==
    /\ call[c].step = "refresh"
    /\ LET k == call[c].token
       IN  \/ /\ successor[k] # NoToken
              /\ Ledger!Revoke("user", Alive)
              /\ Refreshed(c, "refused", NoToken)
           \/ /\ successor[k] = NoToken /\ state[k] = "dead"
              /\ Refreshed(c, "refused", NoToken)
              /\ UNCHANGED <<state, successor>>
           \/ /\ successor[k] = NoToken /\ state[k] = "alive"
              /\ Set(c, [call[c] EXCEPT !.step = "rotate"])
              /\ UNCHANGED <<state, successor>>
    /\ UNCHANGED strayed /\ BrowserUnchanged /\ Note

\* ... and commits the rotation, whatever has happened to the row since.
Rotate(c) ==
    /\ call[c].step = "rotate"
    /\ \E new \in Unborn :
           /\ Ledger!Rotate(call[c].token, new)
           /\ Refreshed(c, "ok", new)
    /\ strayed' = IF call[c].tab = NoTab THEN strayed \cup {call[c].token} ELSE strayed
    /\ BrowserUnchanged /\ Note

\* The request, the handler or the answer is lost: anything but a 2xx or a 401.
Fail(c) ==
    /\ call[c].result # "failed"
    /\ \/ /\ call[c].step \in {"request", "answered"}
          /\ Answered(c, "failed", NoToken)
          /\ UNCHANGED strayed
       \/ /\ Refreshing(c)
          /\ Refreshed(c, "failed", NoToken)
          /\ strayed' = IF call[c].fresh = NoToken THEN strayed
                        ELSE strayed \cup {call[c].token}
    /\ UNCHANGED <<state, successor>> /\ BrowserUnchanged /\ Note

\* Sessions end without this browser: by age, by the limit on sessions, by a
\* new password, or from another device.
EndElsewhere ==
    /\ \E ended \in SUBSET Alive : ended # {} /\ Ledger!Revoke("user", ended)
    /\ UNCHANGED <<call, strayed>> /\ BrowserUnchanged /\ Note

\* Of the access tokens only those matter that a request still carries or will.
Expire(k) ==
    /\ k = stored \/ \E c \in Calls : call[c].bearer = k
    /\ k \notin expired
    /\ expired' = expired \cup {k}
    /\ UNCHANGED <<state, successor, stored, tab, call, asked, strayed>> /\ Note

-----------------------------------------------------------------------------
(* The page takes an answer.                                               *)

Arrived(c, result) ==
    call[c].step = "answered" /\ call[c].result = result /\ call[c].tab # NoTab
RefreshArrived(c, result) ==
    call[c].step = "refreshed" /\ call[c].result = result /\ call[c].tab # NoTab

TakeAnswer(c) ==
    LET t == call[c].tab
    IN  /\ Arrived(c, "ok")
        /\ \/ /\ call[c].kind = "api"
              /\ End(c) /\ UNCHANGED <<stored, tab>>
           \/ /\ call[c].kind = "login"
              /\ Save(t, call[c].fresh)
              /\ Set(c, Sent(t, "profile", NoToken, call[c].fresh))
           \/ /\ call[c].kind \in {"profile", "load", "reload"}
              /\ tab' = [tab EXCEPT ![t].authed = TRUE]
              /\ End(c) /\ UNCHANGED stored
           \/ /\ call[c].kind = "logout"
              /\ ClearAuth(t, FALSE) /\ End(c)
           \/ /\ call[c].kind = "logout_all"
              /\ stored' = NoToken
              /\ tab' = [tab EXCEPT ![t].leaving = TRUE]
              /\ End(c)
        /\ UNCHANGED <<asked, strayed>> /\ ServerUnchanged /\ Note

\* Mutant: the interceptor sends again whatever the error.
RenewOnAnyError(c) ==
    LET t == call[c].tab
    IN  /\ Arrived(c, "refused") \/ Arrived(c, "failed")
        /\ ~call[c].retried /\ tab[t].refresh # NoToken
        /\ Set(c, [Presenting(c, tab[t].refresh) EXCEPT !.retried = TRUE])
        /\ UNCHANGED <<stored, tab, asked, strayed>> /\ ServerUnchanged /\ Note

\* The first 401 of a request.
Renew(c) ==
    LET t == call[c].tab
    IN  /\ Arrived(c, "refused") /\ ~call[c].retried
        /\ \/ /\ tab[t].refresh # NoToken
              /\ Set(c, [Presenting(c, tab[t].refresh) EXCEPT !.retried = TRUE])
              /\ UNCHANGED <<stored, tab>>
           \/ /\ tab[t].refresh = NoToken
              /\ ClearAuth(t, TRUE) /\ End(c)
        /\ UNCHANGED <<asked, strayed>> /\ ServerUnchanged /\ Note

\* Any other error goes to the caller; a logout clears the store all the same.
TakeError(c) ==
    LET t == call[c].tab
    IN  /\ Arrived(c, "failed") \/ (Arrived(c, "refused") /\ call[c].retried)
        /\ \/ /\ call[c].kind \in {"api", "login", "profile"}
              /\ End(c) /\ UNCHANGED <<stored, tab>>
           \/ /\ call[c].kind = "logout" \/ call[c].kind = "reload"
              /\ ClearAuth(t, FALSE) /\ End(c)
           \/ /\ call[c].kind = "logout_all"
              /\ stored' = NoToken
              /\ tab' = [tab EXCEPT ![t].leaving = TRUE]
              /\ End(c)
           \/ /\ call[c].kind = "load" /\ tab[t].refresh # NoToken
              /\ Set(c, [Presenting(c, tab[t].refresh) EXCEPT !.kind = "reload",
                                                              !.retried = FALSE])
              /\ UNCHANGED <<stored, tab>>
           \/ /\ call[c].kind = "load" /\ tab[t].refresh = NoToken
              /\ ClearAuth(t, FALSE) /\ End(c)
        /\ UNCHANGED <<asked, strayed>> /\ ServerUnchanged /\ Note

\* initialize() refreshes by itself, and nothing waits for that but it.
Initializing(c) == call[c].kind = "reload" /\ ~call[c].retried

\* A refresh has succeeded: the tokens are saved, and what waited for them is
\* sent again: the refused refresh with the token it had, or the request.
Renewed(c) ==
    LET t == call[c].tab
        k == call[c].fresh
    IN  /\ RefreshArrived(c, "ok")
        /\ Save(t, k)
        /\ \/ /\ call[c].outer # NoToken
              /\ Set(c, [Presenting(c, call[c].outer) EXCEPT !.outer = NoToken, !.last = TRUE])
           \/ /\ call[c].outer = NoToken
              /\ Set(c, [Sent(t, call[c].kind, call[c].body, k)
                             EXCEPT !.retried = call[c].retried,
                                    !.done = call[c].retried /\ call[c].done])
        /\ UNCHANGED <<asked, strayed>> /\ ServerUnchanged /\ Note

\* A refresh is refused: the interceptor starts another one, with the token
\* that the store holds by now.
RenewAgain(c) ==
    LET t == call[c].tab
    IN  /\ RefreshArrived(c, "refused") /\ ~call[c].last
        /\ tab[t].refresh # NoToken
        /\ Set(c, [Presenting(c, tab[t].refresh) EXCEPT !.outer = call[c].token])
        /\ UNCHANGED <<stored, tab, asked, strayed>> /\ ServerUnchanged /\ Note

\* A refresh has failed for good.  The interceptor that waits for it clears
\* the store and goes to the login page; initialize() only clears the store.
GiveUp(c) ==
    LET t == call[c].tab
    IN  /\ \/ RefreshArrived(c, "failed")
           \/ /\ RefreshArrived(c, "refused")
              /\ call[c].last \/ tab[t].refresh = NoToken
        /\ \/ /\ ~Initializing(c) \/ call[c].outer # NoToken \/ call[c].result = "refused"
              /\ ClearAuth(t, TRUE)
           \/ /\ Initializing(c) /\ call[c].outer = NoToken
              /\ call[c].last \/ call[c].result = "failed"
              /\ ClearAuth(t, FALSE)
        /\ End(c)
        /\ UNCHANGED <<asked, strayed>> /\ ServerUnchanged /\ Note

\* An answer to a page that is gone.
Drop(c) ==
    /\ call[c].step \in {"answered", "refreshed"} /\ call[c].tab = NoTab
    /\ End(c)
    /\ UNCHANGED <<stored, tab, asked, strayed>> /\ ServerUnchanged /\ Note

-----------------------------------------------------------------------------
\* What the server and the page do with a request, failures aside.
Proceed(c) ==
    \/ Refuse(c) \/ Serve(c) \/ Look(c) \/ Rotate(c)
    \/ TakeAnswer(c) \/ Renew(c) \/ TakeError(c)
    \/ Renewed(c) \/ RenewAgain(c) \/ GiveUp(c) \/ Drop(c)

UserActs ==
    \E t \in Tabs :
        \E c \in Calls : \/ PageLoad(c, t) \/ AskApi(c, t) \/ SignIn(c, t)
                         \/ SignOut(c, t) \/ SignOutEverywhere(c, t)

Next ==
    \/ UserActs
    \/ EndElsewhere
    \/ \E k \in Tokens : Expire(k)
    \/ \E c \in Calls : Proceed(c) \/ Fail(c)

Spec == Init /\ [][Next]_vars

\* The server answers, a script that can go on goes on, and a page that is
\* being left is loaded.  Nothing makes the user act or a request fail.
Leave(t) == tab[t].leaving /\ \E c \in Calls : PageLoad(c, t)
Fairness ==
    /\ \A c \in Calls : WF_vars(Proceed(c))
    /\ \A t \in Tabs : WF_vars(Leave(t))
FairSpec == Spec /\ Fairness

-----------------------------------------------------------------------------
(* Properties.                                                             *)

\* The server takes a refresh token that was replaced for a stolen one and
\* ends every session of the user.  A page that works alone, one refresh at a
\* time, and loses no answer never gives it cause: what is presented after it
\* was replaced was held by two pages or by two refreshes at one time, or its
\* successor reached no page.
NoInnocentReplay ==
    \A c \in Calls : call[c].step = "refresh" /\ successor[call[c].token] # NoToken
                         => call[c].token \in shared \cup strayed

\* The interceptor sends a request again only when the server has not carried
\* it out: what is in flight to the server was not done before.
ExecutedOnce == \A c \in Calls : call[c].step = "request" => ~call[c].done

\* PrivateRoute and PublicRoute show a spinner while initialize() finds out
\* whether the user is signed in: a page that is opened comes out of it.
PageOpens == \A t \in Tabs : Loading(t) ~> ~Loading(t)
=============================================================================
