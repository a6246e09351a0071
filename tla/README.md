# Verification of the real-estate price forecasting system

TLA+ models of the parts of this repository whose correctness depends on the
order in which things happen, the TLC runs that check them on small instances,
and TLAPS proofs that hold for every instance. Paths below are relative to the
repository; `PROJECT.json` names, for every definition, the lines it models, and
for every hazard the line where it bites and the properties that cover it.

Contents: [the system](#the-system) · [modules](#modules) ·
[sessions](#refresh-sessions) · [rate limiter](#rate-limiter) ·
[accounts](#user-accounts) · [browser](#the-browsers-session) ·
[predictions](#predictions) · [detail queue](#detail-queue) ·
[listing sessions](#listing-sessions) · [flat record](#flat-record) ·
[price model](#price-model) · [what disagrees](#where-code-and-words-disagree) · [runs](#runs) ·
[not modelled](#not-modelled) · [plan](#plan)

## The system

| part | state it keeps | operations | talks to |
|---|---|---|---|
| auth-service, accounts | table `users`: role, flags, password hash, TOTP secret, unique name, address and phone | register, confirm e-mail, reset and change password, change name and phone, set up / confirm / disable 2FA, the administrators' actions | PostgreSQL, SMTP |
| auth-service, sessions | table `refresh_sessions`: a row per refresh token | login, login_2fa, refresh, logout, logout of all devices, end of sessions at a password change or reset | PostgreSQL, the browser |
| auth-service, rate limiter | a dictionary of time stamps per key, in memory | `check_rate_limit`, two cleanups | in front of five endpoints |
| auth-service, audit log, blacklist, internal API | an append-only log; a table nobody fills | log, list; cleanup; two reads for main-backend | PostgreSQL |
| main-backend | table `predictions` | create, list, get, delete | auth-service (`get_user`), forecasting-service (`predict`) |
| forecasting-service, training and API | three files that training writes; the predictor the server keeps of them | train; load at the first request, predict, health, restart | main-backend |
| forecasting-service, collection | SQLite table `flats`, used as a work queue | listings insert, detail sessions claim / finish / fail / block, resets | two web sites, one browser each |
| forecasting-service, pacing and browser | delay multiplier, counters and schedule of pauses; a Chrome and a page count, all in memory | record success / error / captcha, wait; start, stop, restart, open a page | the collectors |
| forecasting-service, parsers | none: cards and pages to dictionaries | read a card, read a detail page, merge, upsert and update | SQLite |
| main-frontend | tokens in each page's store and in localStorage | initialize, sign in, refresh on 401, sign out | auth-service, main-backend |

A user's browser signs in at auth-service, keeps the pair of tokens, and calls
main-backend with the access token. main-backend verifies the token itself,
asks auth-service for the user's standing and forecasting-service for the
number, and stores both success and failure. The collection side runs on its
own: listings put flats into SQLite, detail sessions fetch each flat, and the
model is trained from the result.

**What is hard in it.**

* *Transactions that interleave.* A request of auth-service is one PostgreSQL
  transaction at READ COMMITTED that gives way to other requests at each awaited
  statement. Nothing is read `FOR UPDATE`, so whatever was read before a write
  may be stale when it is written back.
* *Committed, but the answer is lost.* A rotated refresh token whose answer never
  came is presented again, and that is exactly what reuse detection looks for.
* *Whole rows written from copies.* `users.update` writes each column in which the
  handler's copy differs from the row.
* *Limits*: sessions per user, calls in a window, keys in a dictionary, attempts
  on a flat.
* *Death in the middle of a claim*, and time stamps in two text formats and two
  time zones that decide what is stale.
* *Several pages, one token*: tabs share localStorage and each keeps its own copy.
* *A list that moves while it is read* by offset, page after page, with the total of
  the first page.
* *Three files and a reader*: training replaces them in place, one after the other,
  in the directory the server reads.
* *A browser that dies unnoticed* beneath retries, captchas, rotations and give-ups.
* *One column, many sources*: cards, a page's state, its elements and two sites
  speak of the same column, by different rules, in any order and at the same time.

What makes each part correct:

| part | it is correct when |
|---|---|
| sessions | whatever interleaves, each commit is one whole operation on the table; a dead session never comes back; ending all sessions misses none it saw; no answer carries a token that was not stored; every request ends |
| limiter | no window lets too many calls through, as far as it is kept; waiting as told is enough; dead keys do not keep new ones out |
| accounts | the owner cannot be lost; unique values stay unique; deleted is final; a request changes only what it is about unless it was overtaken |
| browser | a replaced token is presented again only where pages or refreshes overlapped or an answer was lost; nothing is carried out twice; a page opens |
| queue | no flat is stuck or retried for ever; what is settled stays settled; a session that ends early leaves nothing behind that was due |
| predictions | what an answer said is what the table holds, once the late commit is through; a row is deleted for one caller; nobody is served unvetted; a total covers its page; every request ends |
| listing sessions | each load is paced; a dead browser is replaced and none is left behind; a room type is not left early without cause; no more offers are hidden than the list had changes; a smooth crawl gets its pace back; the session ends |
| price model | each value stands in the column the model was trained on; the same question gets one predictor's answer |
| records | a value in the table was on a page; the newest word of one mind stands; nothing known is lost in silence |

## Modules

| module | what it is |
|---|---|
| `SessionLedger` | abstract: sessions are opened, rotated and revoked in whole operations |
| `RefreshSessions` | the seven requests of auth-service that touch sessions, statement by statement; implements `SessionLedger` |
| `AttemptLog` | abstract: a limiter that keeps every call it ever let through |
| `RateLimiter` | the in-memory sliding window, which forgets; implements `AttemptLog` |
| `AccountBook` | abstract: what each endpoint may change of an account |
| `UserAccounts` | every request that writes `users`, with stale copies and row locks; keeps to `AccountBook` unless overtaken |
| `ClientSession` | tabs, store and interceptors of the front end, composed with a `SessionLedger` as the server |
| `PredictionGateway` | main-backend: orders, histories and deletions of predictions across three services, with the commit that follows the answer |
| `WorkQueue` | abstract: flats as work items of exclusive workers |
| `DetailQueue` | `storage.py` and the two detail collectors, statement by statement; implements `WorkQueue` when sessions take turns |
| `AdaptiveLimiter` | the Cian collector's pace: results, multiplier, schedule of long pauses |
| `BrowserManager` | the Chrome of a collector, with failing starts and quits and unnoticed deaths |
| `ListingCrawl` | Cian's listing session, over the two modules before |
| `DomclickCrawl` | DomClick's listing session, and the list of offers that changes under it |
| `CollectListings` | the script that runs the one or the other |
| `FlatRecord` | what cards and detail pages of both sites become in a flat's row |
| `PriceModel` | the files of training, the server's cache of them, requests |
| `MC<module>` | constants, initial tables and symmetry for TLC |
| `<module>Proofs` | the theorems; those of `FlatRecord` and of `PriceModel` are in `ForecastDataProofs` |

`ClientSession` does not repeat the server: it uses the actions of
`SessionLedger`, which `RefreshSessions` is shown (by TLC and by proof) to
implement. `ListingCrawl` EXTENDS `AdaptiveLimiter` and `BrowserManager`, whose
operations are parts of its actions; `CollectListings` EXTENDS it and takes
`DomclickCrawl` by INSTANCE. `FlatRecord` stands beside `DetailQueue`: one says
what becomes of a flat's columns, the other who works on the flat. The one recursive
definition is the function `Eased` of `AdaptiveLimiter`.

**Time.** Clocks are naturals up to `MaxTime`; what matters of the code's
durations is their order, and the constants carry it (`REFRESH_TTL`,
`Window`, `Cooldown`, `StaleTimeout`, ...).

## Refresh sessions

*Code:* `auth_service/app/auth/service.py`, `app/profile/service.py`,
`external/database/refresh_session_repo.py`, `domain/entities.py`.
*State:* the committed table; per request a program counter, what it has read,
and the writes its transaction has buffered; what clients were told.

Each awaited statement is one action: read, lock-and-write, commit. An UPDATE
waits while another transaction holds the row, and re-evaluates its condition
when it gets it, as PostgreSQL does at READ COMMITTED; a transaction may fail at
any statement (`Abort`), and an answer may be lost after the commit.
`revoke_all_for_user` takes its rows in one step; a deadlock between two of them
is an abort of one. `update_last_used` runs before the new row is there, so it
matches nothing; `needs_rehash` is never taken with one hash setting;
`cleanup_expired` and the blacklist have no callers. `SetActive` lets other
requests switch a user on and off at any time, which is more than the code does.
A session is refreshable at the very instant of `expires_at` and is not counted
then: `>` on one side, `>` on the other.

*The second factor.* `login` of a user who has one gives an auth token, which
`login_2fa` turns into a session. The token is in `authTokens` with its expiry, and
the model notes the password it was asked for with. `login_2fa` looks at the token's
signature, its age and the user, and at nothing else: it neither consumes the token nor asks
whether the password has changed since (`auth_service/app/auth/service.py:265` has the TODO). So for
`AUTH_TTL` after a password change the old password's tokens still open sessions, and
`NoSessionOutlivesPassword` says exactly that: every living session goes back to
the present password, or to such a token used in time.

*Fairness.* `WF(Proceed(r))`: the event loop resumes a request whose statement
is answered. `SF(Waits(r))`: PostgreSQL queues waiters of a row, so one cannot
be passed over for ever. None on beginning a request or on aborts.

*Proved* (`RefreshSessionsProofs`, any users, tokens, requests, limits): type
correctness, `RotationAtomic`, `HandedOutIsStored`, `RevokeAllComplete`,
`RevokedForever`, and that every step is a step or a stutter of `SessionLedger`.
`RotationAtomic` is not inductive: a commit merges a buffer, so one has to know
what buffers can hold. The invariant adds: a row has one transaction writing it
(`OneWriter`), a token to be inserted belongs to one request and is not in the
table (`FreshIsMine`), the new row and the replaced one are buffered together
(`Prepared`, `Buffered`), and a revoke-all holds every row it saw alive
(`Swept`).

*Proved where one kind of request is alone* with its user, any number of requests of
other users running beside it (`Alone(r)`): `NoSessionOutlivesPassword` if changes of the
password are alone (`PasswordChangesAlone`), `ImplementsStrictLedger` if refreshes are
(`RotationsAlone`), and, with finitely many tokens, `SignInKeepsCap` if sign-ins are
(`SignInsAlone`). The theorems read `Spec /\ []PasswordChangesAlone => []...`; the run has one
request at a time, where all three hypotheses hold of themselves. So each of these promises is
broken by races of one kind of request only, between requests of one user. The strict ledger, in which only a living
session is replaced, needs what a refresh found to be still so when it commits
(`ReplacesAlive`). `NoSessionOutlivesPassword` needs what a
request in flight may do to the password that the table still shows (`InFlightStands`), and
`SignInKeepsCap` that what a sign-in counted is still what the table holds when it commits
(`RoomFor`). That others do not disturb this is one argument for all three: a request leaves alone what
others have read and buffered (`OthersWait`), and a commit the rows of other users
(`OtherUsersRows`). Concurrent sign-ins can exceed `MAX_SESSIONS_PER_USER`,
since count, pick, revoke and create are four statements. Even alone a user may be above the cap: a
session refreshed in the instant of its expiry was not counted by the sign-ins before, and
the one a sign-in ends may expire before the commit. So the property says that the
cap is kept *or* an active session was ended for the new one, and that the oldest go.

*Only model-checked:* `RequestTerminates`, which is liveness.

## Rate limiter

*Code:* `auth_service/external/rate_limiter/memory.py` and its uses in
`dependencies.py` and `config.py`. `check_rate_limit` holds the lock and awaits
nothing inside it, so a call is one action: drop old entries, look for room, clean up
if the dictionary is full, refuse or append. The background cleanup and a
restart are the other actions. `reset` and `get_remaining` have no callers.

`RetryAfterHonoured` follows the number the caller was given (`int(x) + 1`
seconds, with a clock finer than a second: `Second` ticks) and demands a free
attempt after it. `ImplementsLog`: pruning and both cleanups show in no answer. `AttemptLog` has no
buckets, only the log of all calls let through, and answers from it: nobody is refused who had
not used up the limit within the window, and a key is refused for want of room only if it has no call in its
window, while `MAX_KEYS` others were used within the hour the cleanup keeps. The 60 s told
in that refusal promise nothing and are not a property.

*Long windows.* Both cleanups hard-code 3600 s (`MaxWindow`), and
`RATE_LIMIT_REGISTER_WINDOW_SECONDS` (`config.py:102`) has no upper bound. The default is
3600 s, on the edge. With a longer window the cleanups forget calls that still count, so the
limit holds in any 3600 s and not in the window: `Kept` is the shorter of the two, and
`SlidingWindow` and the log's `Accept` and `Full` speak of it. `RetryAfterHonoured` and the
log's `TooMany` need no such exception. No assumption relates windows and `MaxWindow`.

*Proved:* these and typing, and that the dictionary never outgrows `MAX_KEYS`. The invariant
says what a bucket holds of the accepted calls: all that are kept (`HoldsRecent`), nothing else
(`HoldsAccepted`), and always the last ones (`HoldsLater`: what was forgotten is older), within
the limit (`WithinLimit`); and it carries each promised moment to the time it falls due
(`PromisesKept`). So a bucket counts no fewer than the log has in the kept part
(`BucketCountsRecent`) and no more than it has in the window (`BucketCountsNoMore`), an
injection each way; a key outside the dictionary has no bucket (`OnlyTracked`), and each bucket
that a cleanup leaves is a key in use.

## User accounts

*Code:* `auth_service/app/{auth,profile,admin}/service.py`,
`external/database/repositories.py`. Thirteen requests: `Begin` reads the row,
checks it and holds the changed copy; `Check` runs `exists_by_*`; `Reread`
is the second SELECT in `users.update` and finds the columns in which the copy
differs; `Flush` waits for the row and for equal unique values in flight, and
fails if the row is gone or a value clashes; `Commit` makes it visible and marks
the others that hold a copy of that row as `overtaken`. `Abort` at any time.

*Abstractions.* Equality of hashes is equality of passwords. Refused requests
change nothing and are stutters. E-mailed tokens are always at hand. Only the
owner's token deletes and changes roles; the owner's role is set by hand, so
it is in the initial table. What a password change does to sessions is in
`RefreshSessions`.

*Properties.* `OwnerStands`, `NamesStayUnique` (over committed rows and those in
flight), `DeletedStaysDeleted`, and `SerialUnlessOvertaken`: each commit of a
request that nobody overtook is a step of `AccountBook`. An overtaken one
may undo what others did; that is the code's real behaviour.

*Proved:* these four and typing, for any number of requests and accounts. The
invariant says what a copy in flight still has to do with the row (`AllLegit`),
that a row has one writer (`OneWriter`), that a copy being registered has a uid of
its own (`RegisterAlone`), and that all versions of different rows are apart.

## The browser's session

*Code:* `main-frontend/react-2fa-auth/src/store/auth.store.ts`,
`api/client.ts`, `api/auth.api.ts`, and the pages that sign in and out.
A tab's script runs to its next await in one action. `stored` is the pair in
localStorage; each tab has the store's own copy of the refresh token; a `call` is
a request in flight with the token it carries and whether it was retried.
The server opens, rotates and revokes through the ledger; `EndElsewhere` is
whatever else ends a session (another device, eviction, age, an administrator).

*Abstractions.* The access token is named by the refresh token born with it; the
store's own access token is irrelevant, since the request interceptor reads
localStorage. A sign-in with two factors is one request. A refresh that is
refused refreshes again through the same interceptor; of that chain `outer`
keeps only the parent, because a refused token stays refused
(`RevokedStaysRevoked`) and further parents only reject. A network failure is
`Fail`: any end other than 2xx or 401. A 401 also answers a call that was authorised, when the
present password it carries is wrong (`profile/service.py:53`). A request whose page was closed is an
orphan: the server may act on it and nobody hears the answer. Left out:
React's double start in development, and accounts that are deactivated and
activated again.

*Fairness.* `WF(Proceed(c))`: the server answers and the script takes the answer.
`WF(Leave(t))`: the browser follows `location.href`. None on the user, on
failures, on expiry or on what other devices do.

*Proved:* typing, `NoInnocentReplay` and `ExecutedOnce`, for any number of tabs and
requests. The invariant is custody: which pages, requests and localStorage may
still hold a token that has been replaced, that a new token is known only to the
answer that brings it, and that everything else was noted as shared or strayed.
Every action of the module is one of five moves (loses, presents, saves, opens,
rotates), and custody is shown once per move.

## Predictions

*Code:* `main_backend/app/predictions/{router,service}.py`, `app/dependencies.py`,
`external/database/{unit_of_work,repositories}.py`, and the two clients of
`external/integrations`. An order is `Begin`, `Verify` or `VerifyTimesOut` (up to
`MaxAttempts`, the `stop_after_attempt(3)` of `get_user`), `Forecast`, `Insert`,
`Answer`, `Commit`; a history is `Begin`, `ReadPage`, `Count`, `Answer`,
`Commit`; a deletion is `Begin`, `Delete`, `Answer`, `Commit`. `Fail` ends any of
them at any of its awaits. `Refuse` is the way out of every error: roll back, then
answer. `SetActive` is auth-service's administrators beside all that.

*The commit follows the answer.* `get_uow` is a dependency with `yield`, and the
FastAPI of `uv.lock` (0.135.4) runs what follows the `yield` after the response was
sent. So `Answer` and `Commit` are two actions: in between, the client knows of
an id that no query finds, and a commit that fails then makes the answer untrue.
`broken` remembers those, and `AnswersAreKept` and `DeletedOnce` speak of the
others. A failed forecast is not an error to the unit of work: the handler returns
503 with the prediction it made, so its row is committed (`CommitUnlessFailed`
is the mutant that raises instead).

*Retries.* `get_user` lets timeouts and refused connections out, and tries three
times; `predict` has the same decorator and turns them into
`ForecastingServiceUnavailable` first, so it is called once. `Forecast` is one
step. The user may be disabled after the check and still be served;
`OnlyVettedAreServed` says what is left of it: auth-service had the user active
at some time between the order and the model call.

*Abstractions.* Predictions are numbered in the order of `created_at`; features and
prices are left out, the outcome is kept. A token of any user may name any
prediction that was ever made. A commit whose connection drops is a failed one. The
account check of auth-service is read from its committed state; that a deleted
account may return is more than the code does. `get_prediction` changes nothing.

*Fairness.* `WF(Proceed(r))`: each call has its timeout (`AUTH_CLIENT_TIMEOUT` 5 s,
`FORECASTING_CLIENT_TIMEOUT` 30 s), after which the event loop goes on with the
request. `SF(Delete(r))`: PostgreSQL queues who waits for a row. None on `Begin`,
`Fail` or `SetActive`.

*Proved*, for any users, requests and bounds: typing, `AnswersAreKept`,
`OnlyVettedAreServed` and `DeletedOnce`. None of them is inductive: one has to
know that a prediction number belongs to one order (`Apart`; `Reserved`: there is a
number for every order in flight), that nothing is stored or said of a number not
given out (`Unmade`), that who is about to answer a deletion holds the row's lock and the row is still
there (`Holding`), and what each request knows at each of its points
(`AllGood`). `TotalCountsThePage` counts sets that change between two statements:
`CountInv` keeps, for a history between them, that the rows of its page and those
before it are still among the user's rows unless one of them was deleted (`passed`), and a page is
found from the top by the least-number principle, since a definition by
recursion is out of the provers' reach. `RequestEnds` is liveness and only model-checked.

## Detail queue

*Code:* `forecasting_service/data/storage.py`, `data/collector.py` (Cian) and
`parsers/domclick/parser.py`. Each statement of `storage.py` commits by
itself, and a claim is two of them: `Select`, `Claim`. Sessions run in `Slots`
(several overlap, one means taking turns) and are of one of two kinds: a Cian
session resets blocked flats on request and stale ones at start, counts what is
left, and takes flats of either site; a DomClick session takes its own and
stops at the first block. An interrupted session leaves its flat in progress.
A page of listings looks every url up outside the transaction and then saves all of
them in one; an insert that clashes rolls its page back.

`last_attempt_at` is written as `YYYY-MM-DD HH:MM:SS` in UTC and compared as text
with a local `YYYY-MM-DDTHH:MM:SS`. On equal dates the blank sorts before `T`, so
the comparison is one of dates: `Date(t) = t \div DayLength`, with the offset
of local time from UTC as a constant.

*Properties.* `InProgressIsHeld`: a flat in progress is in some session's hands
or that session died. `EffortBounded`: attempts stay under
`max_attempts` plus what overlapping sessions can add, again for each time the
flat was set back. `SettledUntouched`: only a session that took the flat before it
was settled changes it. `StaleRecovered`: a starting Cian session finds all
claims older than the timeout (the text comparison is too eager, never too
late, east of Greenwich). `NothingLeftBehind`: a session that ends with room in its
batch leaves nothing that was due. `ImplementsQueue`: as long as no two sessions have
overlapped, the table is a `WorkQueue`.

*Proved:* all of them and typing. The invariant says
who has a flat in hand (`InHand`), that what is in progress has a time
(`Stamped`), that a pending flat has room for the attempts still to come
(`PendingBounded`).

*Left out:* the columns of a flat (see [flat record](#flat-record)), exports, browser
restarts and delays.

## Listing sessions

*Code:* `forecasting_service/scripts/collect_listings.py` and what it runs. For Cian
`parsers/cian/parser.py` (the listing session), `parsers/common/rate_limiter.py`,
`parsers/common/browser.py`; for DomClick `parsers/domclick/{parser,http_client,page_parser}.py`.
The two share the arguments and nothing else, so a session of `CollectListings` is of one
site or the other (`source`), or lacks DomClick's cookie and does nothing.

**Cian** (`ListingCrawl`). One sequential program over a site that answers as it likes:
`TakePage` (with the pause before it), `OpenBrowser` (`get_page` up to the load, with the
rotation), `LoadPage`, what follows from what it showed (`OnCards`, `OnNothing`,
`OnCaptcha`, `OnError`), `Save`, `CountEmpty`, `NextPage`, `LeaveRoom`, `StopBrowser`.
Beside it, Chrome dies (`Crash`) and the operator interrupts. Each start and quit of
Chrome may fail, and may leave a process running that no one drives (a `stray`);
quitting a dead one fails too, which the code swallows.

*Abstractions.* Delays are drawn at random and multiplied; kept are that a sleep took
place (`rested`), when the long pauses fall due, and the multiplier, in
parts of `Unit`. `page_count` is read modulo `rotate_ua_every` only. What a saved
page does to the table is in `DetailQueue` and `FlatRecord`. At this commit
`browser.py:467` has a dictionary key without a value, which Python does not
compile; the model takes the code with some string there.

*Met on the way.* `driver` stays set when Chrome dies, so the manager never starts a
new one by itself: only a rotation or a captcha replaces it. With
`rotate_ua_every = 10` and five attempts a page, a Chrome that dies in the load that begins a page
costs two pages, and two pages in a row end the room type. `recent_captchas`
counts every failure of the window, errors included, though its log line speaks of
captchas. A restart that fails in the captcha handler ends the whole session.

**DomClick** (`DomclickCrawl`). Pages are asked for by HTTP, by their offset in a
list, once each. Each action from `PageFails` to `PageSaved` is one turn of the
loop: the test of the total, the request, what is made of the answer. The site's
`list` is part of the state and changes while it is read (`Move`: an offer is
withdrawn, a new one appears, one changes its place). The numbers are the places the
offers had when the session came to the room type; `saved` and `missed` are history.

*Abstractions.* Where the page says that there is nothing, or names a total, it is right at
that moment; `named` is whether it is recognised, which totals of one digit never are
(`MinTotal`). A page may parse into any subset of its cards. The pause between pages is a
plain `sleep` and is left out. What is refused as Qrator's answer is `PageBlocked`.

*Properties.* `LossBounded`: a room type that was read to its end has every
offer that was listed throughout, but for those on pages that failed and one for each
change of the list. That is not obvious: the total is the first page's, the end is computed
from it, and offers that slide forward over a page boundary are never seen.
`RoomsLeftForCause`: a room type is left early only after two pages in a row that
added nothing; on DomClick three if the last of them failed, as one counter has two limits there
(`parser.py:257`). Qrator's answer ends a room type too, at once, and needs no such run.

*Fairness.* `WF(Run(Collect))`, `WF(RunDom(Dom!Collect))`: a session is one thread that
goes on as long as it can; page loads and requests have a time-out. None on deaths,
interrupts, moves, or on what the site answers.

*Proved* (any rooms, pages, retries, window, rotation, faults, lists and moves): typing of
both sessions, `LossBounded`, `PausedBetweenLoads`, `DeadChromeReplaced`, `NoChromeLeft`,
`ParsedIsSaved`, `RoomsLeftForCause`, `PaceRecovers`. The invariant adds where the session
must have slept since the last load (`RestsFirst`), that the loads with a dead driver are
among those since the last rotation (`OneDriver`), at which points a page may be parsed and
not saved (`SavesInTurn`), where a counted run of empty pages ends (`CountsEmpties`), and the
same for DomClick's shared count (`DomCounts`).

`LossBounded` counts offers, and needs to know which ones the session will still come to: those
between its offset and the last place it will read, the end of the list or of the last page by the
first page's total (`ReadTo`). `Hidden` are the wanted offers, listed throughout and not on a page that
failed, that it has neither read nor will come to. The invariant (`DomLoss`) is that there are no more of
them than changes of the list. A withdrawal moves what follows it one place
forward, an insertion one place back, and a move is both: whichever it is, at most one offer crosses an end of
the stretch that is to be read (`HidesOne`, `ChangeHidesOne`). A page takes none out of it: what it was shown is read
or failed (`PageHidesNone`). At the end of the room type the stretch is empty, so
whatever is missing is hidden.

`PaceRecovers` is about the recursive function `Eased`: how slow the pace may be after
k steps back from the ceiling. That the recursion defines a function at all is shown first
(`EasedIsDefined`), by approximations up to each n and, in place of induction, the least
n without one. Then the window ends with as many successes as came since the last
failure, or is full of them (`WindowClean`), so each success from the one that fills it on takes
a step back, and a step keeps the order (`EasingKeepsOrder`).

## Flat record

*Code:* `parsers/domclick/{state_parser,detail_parser,parser}.py`,
`parsers/cian/detail_parser.py`, the card parsers, and the statements of `data/storage.py`
that write columns. No statement computes one column from another, so the module follows one
column at a time, any of `Columns`, which has one for each rule by which the
parsers read: numbers and texts of a listing, fields of the offer, of the house, of
the complex, of the seller, flags by key, lengths of lists of photos, and so on. Each
place of a card or page that speaks of the column shows nothing
(`Missing`), an empty text (`Blank`), something the parser makes nothing of (`Odd`),
or a value; and `StateValue`, `HtmlValue`, `Merge`, `CianValue`,
`Relisted` and `Detailed` say what becomes of it. A session reads, then
writes: `ReadCard`, `SaveCard`; `Select`, `Claim`, `ReadPage`, `Record`; and may
give up, die, or be reset in between. `DetailQueue` has the selection and its order;
here only what the columns see of it is kept.

*Abstractions.* Selectors, labels and regular expressions are left out: which
element is meant is given, whether it can be read is open. The bathrooms of either
kind have two places each in the state (`best`, `other`; `best2`, `other2`) and are added up
(`BathroomCount`). Flats are independent, so there is one. A column that is put
together from several places (`author_type`, the joined labels of security or views) is not
followed, but for the bathrooms: `Columns` has one for each rule by which a place is read.

*Properties.* `OnlyWhatWasShown`: no merge, default, conversion or overtaking makes
a value up. For the bathrooms that means a sum of one count of connected and one of separated
ones, each of which the page shows; the code picks them apart (`state_parser.py:1351`), so
where the original and the normalised part of the state differ the sum may be one that neither
shows. `NewestWordStands`: unless sessions overtake one another (`overlaid`), the newest card or
page that is of one mind about the column decides the row, its state before its elements. Of
one mind is what shows one readable thing, or a plain no; where something unreadable stands
beside it the page is not, and the row may have what it said or what it was.
`KnownStaysKnown`: whoever overtakes whom, what is known is lost only in the two ways
of `Losses`.

*Met on the way.* A state without the list of keys records `False` over a `True` that
an earlier page gave (`state_parser.py:607`). Except for names, an unusable text
in the original place hides a usable one in the normalised place
(`state_parser.py:1083`). An empty item of a Cian page empties a known text. A state
without a product card still gives entries, so a page with nothing readable is
`done`. A Cian session takes DomClick flats too, recognises nothing on their
pages and records the empty result as `done` (`collector.py:235`). And when sessions
overtake each other, an older page is recorded over a newer one.

*Proved* (any sessions, values and number of reads): all three and typing. The
invariant says what a session may have at hand: a reading that its
card or page supports (`ReadFaithfully`), read in turn unless `overlaid`
(`InTurn`). That the two parsers give only such readings is proved by itself, place by
place (`DomclickIsFaithful`, `CianIsFaithful`).

## Price model

*Code:* `data/normalize_dataset.py` and `data/train_final.py` (what columns there are,
which files are written and in what order), `api/dependencies.py`, `ml/predictor.py`,
`api/v1/predictions.py`, `api/main.py`. *State:* what each of the three files holds
(a generation of training, nothing, or a file begun and not finished), the
training under way, what `lru_cache` keeps, and each request with what it has
read so far.

A training is `Train`, then `BeginFile` and `EndFile` three times: model, scaler, names,
none of them replaced atomically; it may die anywhere. Its paths are relative to
the directory it is run in; run in `data/`, as its inputs want, it writes the very files
the server reads. `get_predictor` is a plain function, so for a prediction it runs in the
thread pool and two of them may load at once (`LoadModel`, `LoadScaler`, `LoadNames`,
`Keep`); `/health` calls it on the event loop and answers nobody else meanwhile
(`LoopFree`). `lru_cache` keeps what the first to return has loaded, and no exception; a
later one answers with its own. A predictor made of files of two trainings stays until
the server is started again.

*Abstractions.* A value stands for itself: the numbers, `expm1`, the multiplier of
the horizon and the constant version and confidence are left out. A row is what stands
in which column. The columns of a generation are the measures and one for each category
its flats happen to have. Requests are taken to give all the measures; one that lacks some
fails with 500.

*Properties.* `SoundUnlessSpoilt`: whoever read files of one generation answers, and
each value is in the column the model was trained on. `AnswersAgree`: all who find a
predictor are answered by the same one until a restart. Both leave room for the code's
real weakness, `spoilt`: names of one generation with the scaler of another are
refused by the scaler, but a model of another generation takes any row of as many
columns as its own, and answers wrongly and silently.

*Proved* (any columns, trainings, requests): both and typing. The invariant: a file that is
being written is torn, a predictor that is not spoilt is of one training (`OfOneTraining`),
who loads has read what the files still hold (`ReadsWhole`), in order
(`ReadsInTurn`), and who did not load uses what is kept (`UsesTheKept`).


## Where code and words disagree

One run ends in a counterexample, against a sentence of the repository:
`client_spinner`. A page shows its loader only while it checks the session; but a
refresh that is refused refreshes again, without end.

Met while modelling, and part of the modelled behaviour without a run of their own:
"Revokes ALL refresh sessions for the current user" (`auth_service/app/auth/router.py:183`):
a rotation that commits while the UPDATE waits for the row it replaces inserts a row the
UPDATE never sees, and the session goes on under the new token
(`RevokeAllComplete` says what the UPDATE does end);
`cooldown_minutes: int = 30` (`storage.py:459`): by the comparison of
`storage.py:490` a flat that failed is taken again at once on the same date;
a change of name or a password reset that read its row before the second factor
was enabled writes `two_factor_enabled = False` back, though the endpoint that
disables it "Requires current TOTP code AND password"
(`auth_service/app/profile/router.py:130`);
a sign-out whose access token has expired is renewed first and then sent again with the
*old* refresh token, so the renewed session stays alive; a nested refresh that
succeeds sends the refused token once more and then clears the store, even of a
fresh sign-in; two tabs that refresh together trip reuse detection; a network
failure during a refresh signs the user out; a starting Cian session takes the
flats of a running one for stale.
"2 пустые подряд" and "3 ошибки подряд" (two empty pages, three errors in a row;
`parsers/domclick/parser.py:275` and `:323`): one counter takes both, so one error and one
empty page are two empty ones; and since it is set to 0 before each page is saved, a table
that refuses every page never stops the session. A Qrator block leaves the room type, though
the log says that a new cookie is needed, and the next one is asked for with the old.
"Передаём категориальные признаки как есть (бэкенд с extra="allow" примет)"
(`PredictionPage.tsx:141`): main-backend takes them, and the `FlatFeatures` of
forecasting-service (`ml/predictor.py:21`) drops them before the
model is asked, so the columns of categories are 0 in every row that is served.
`ForecastingClient.health_check` reads `model_loaded` under `data`
(`forecasting_client.py:59`), where the answer has it at the top; nothing calls it.
In `normalize_dataset.py:161` 'предчистов' is never reached, since 'чистов' is looked for
first; the age of a house is counted from the browser's year when served and from 2026 when
trained.

## Runs

| run | shows | bounds, and why they suffice | states |
|---|---|---|---|
| `sessions_races` | under any interleaving of two requests, rotation and revocation are whole, answers are kept, and the table is a ledger | 1 user with a second factor, 2 requests, 3 tokens, cap 1. Races here are between pairs; three tokens allow a rotation of a rotation beside a sign-in that evicts. The clock stands: expiry is in the next run | 1.5 M |
| `sessions_serial` | the sequential code keeps the cap, evicts the oldest, and no session outlives the password it was opened with | 1 request at a time, 3 tokens, clock to 2, both lifetimes 1, cap 2: sessions and auth tokens of different age, some expired | 1.0 M |
| `sessions_ends` | every request ends | 2 requests, 2 tokens, no symmetry (liveness) | 136 k |
| `rate_limiter` | no window takes too many calls, waiting as told is enough, the answers are those of a limiter that forgets nothing | 4 keys with room for 2, three windows: shorter than the cleanup's, as long, and longer, 4 calls, clock to 9 with 2 ticks a second | 2.0 M |
| `queue` | no flat stuck, bounded effort, settled stays settled, stale found, nothing left; `WorkQueue` is implemented while sessions take turns | 2 slots, 2 listings that race for a url, a flat of each site, 2 sessions in all, clock to 2 | 837 k |
| `accounts_races` | owner, uniqueness, deletion, serial unless overtaken | 3 slots, 3 requests of any kind, on the owner, an account in each of the four states a quiet system leaves it in, and a uid that registers | 645 k |
| `client_pages` | replays are never innocent, nothing is executed twice | 2 tabs, 2 requests in flight, 3 tokens, 3 things the user does | 1.7 M |
| `gateway` | answers are kept, deletions are for one, only vetted users are served, totals cover their pages, every request ends | 2 users, 2 requests at a time and 3 in all, page size and offset up to 1, 3 attempts. A pair of requests is enough for each race; the third gives a history two rows, or a deletion a row to be raced for; no symmetry (liveness) | 470 k |
| `crawl` | Cian: loads are paced, a dead Chrome is replaced, none is left, the pace recovers. DomClick: no offer is hidden without a change of the list. Both: rooms are not left without cause, the session ends | 2 room types of 4 pages. Cian: 2 attempts a page and a rotation every 4 loads: the code's ratio, 10 loads being two pages of 5; a window of 2, a ceiling two steps above the floor, 2 faults, so that a quit and a start may both fail, or Chrome die twice. DomClick: 2 cards a page, up to 3 offers and 2 changes of the list, a total that is recognised from 3 on: lists that end within a page, at its end, and before it | 1.07 M |
| `record` | nothing is made up, the newest word stands, what is known is kept | each of the columns, either site, 2 sessions, 2 values, none or one bathroom of a kind, 4 cards and pages: one that fills the row, two that race, one after | 1.04 M |
| `price_model` | values stand in their columns unless the files were read while they changed; who finds a predictor gets one and the same | 3 generations of which two have equally many columns and not the same ones, 2 requests: two loads that race, or one that finds | 475 k |
| `client_spinner` | counterexample, under fairness | 1 tab, 1 thing the user does | |

`CHECK_DEADLOCK FALSE` wherever a model may stop because its bound is used up
(tokens, sessions, requests, the clock); the limiter's run checks deadlock. The
bounds are constants: `MaxTime`, `MaxPassword`, `MaxCalls`, `MaxSessions`,
`MaxRequests`, `MaxAsked`, `MaxLimit`, `MaxFaults`, `MaxReads`, and the sizes of the sets.
`MaxRetries`, `RotateEvery`, `Window` and the limits are the code's own, made small. The theorems hold for
all their values, and so need none of these arguments.

Symmetry is used for requests, tokens, tabs, slots, keys and readers, which the modules
treat alike, and never with a liveness property.

To repeat them: `tlc -config <cfg> <MC module>` with the pairs listed in
`PROJECT.json`, and `tlapm` on the proof modules.

**How the proofs are laid out.** Each `*Proofs` module shows its inductive invariant
for the initial states and for each action of `Next`, one step per action and
under it one per conjunct the action can disturb, and derives the properties from it.
The assumptions on constants are the named `ASSUME`s of the modules, which TLC
evaluates in the runs: sentinels are not values (`NoToken \notin Tokens`), bounds are
naturals, sets that are counted are finite.

Out of the prover's reach, so only model-checked: liveness
(`RequestTerminates`, `RequestEnds`, `SessionEnds`, `PageOpens`). Induction over data has to do
without the library's theorems, which take an operator as a parameter; where it is
needed (`PaceRecovers`, `TotalCountsThePage`) the proofs take the least
counterexample instead. Type invariants are proved and not repeated in the runs.

## Not modelled

* *Audit log*: appended in the caller's transaction, read by one page.
* *Token blacklist*: nothing fills or asks it but one internal endpoint.
* *Redis limiter*: not instantiated. *E-mail*: pure I/O.
* *Access tokens*: stateless signatures, verified by main-backend alone; what is stale in them lasts until they
  expire, by design.
* *The numbers of the model* (XGBoost, the scaler, the factor of the horizon): no state. *Field extraction* from HTML: selectors,
  labels and regular expressions; what becomes of what they find is in `FlatRecord`.
* *Rendering and forms* of the front end.

## Plan

What could be added, most important first:

1. `hooks/usePrediction.ts` of the front end, where two requests under way share one
   `isLoading` and the later answer, not the later question, is the `result`.
2. Composition of `FlatRecord` with `DetailQueue`: the queue's attempts and the
   record's reads of the same flat.
