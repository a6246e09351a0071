----------------------------- MODULE ListingCrawl -----------------------------
(***************************************************************************)
(* A listing session of the Cian collector (parsers/cian/parser.py): the   *)
(* pages of each room type, loaded one after the other through the         *)
(* BrowserManager, at the pace of the AdaptiveLimiter, and saved one by    *)
(* one.  The site answers as it likes; Chrome may die and the operator     *)
(* interrupt the session at any time.  What a listed flat becomes in the   *)
(* table is DetailQueue's concern: here a page was saved or was not.       *)
(***************************************************************************)
EXTENDS AdaptiveLimiter, BrowserManager, FiniteSets

CONSTANTS
    Rooms,      \* the room types, a sequence
    FirstPage,  \* start_page
    LastPage,   \* end_page
    MaxRetries  \* max_retries

\* The command line gives at least one room type, and --pages in any order.
ASSUME CrawlAssumption ==
    /\ Rooms \in Seq(STRING) /\ Rooms # << >>
    /\ FirstPage \in Nat /\ LastPage \in Nat
    /\ MaxRetries \in Nat \ {0}

VARIABLES
    pc,        \* where collect and collect_page are
    room,      \* room_idx, from 1
    page,
    attempt,
    empties,   \* consecutive_empty
    outcome,   \* history: how the session came to its end
    barren,    \* history: pages of this room type that gave nothing
    unsaved    \* history: the page, if any, that was parsed and is not saved

place == <<room, page>>
crawl == <<pc, room, page, attempt, empties, outcome, barren, unsaved>>
vars == <<limiter, browser, crawl>>

Places == {"starting", "turn", "opening", "loading", "cards", "saving", "nothing",
           "captcha", "error", "barren", "next", "section", "closing", "ended"}

TypeOK ==
    /\ LimiterType /\ BrowserType
    /\ pc \in Places
    /\ room \in 1..Len(Rooms)
    /\ page \in Nat
    /\ attempt \in 1..MaxRetries
    /\ empties \in 0..2
    /\ outcome \in {"none", "done", "captcha", "failed", "interrupted"}
    /\ barren \subseteq FirstPage..LastPage
    /\ unsaved \subseteq {page}

Init ==
    /\ LimiterInit /\ BrowserInit
    /\ pc = "starting"
    /\ room = 1 /\ page = FirstPage /\ attempt = 1 /\ empties = 0
    /\ outcome = "none"
    /\ barren = {} /\ unsaved = {}

Goto(p) == pc' = p
Close(why) == pc' = "closing" /\ outcome' = why

(***************************************************************************)
(* collect: the rooms and their pages.                                     *)
(***************************************************************************)

StartBrowser(launch) ==
    /\ pc = "starting"
    /\ Start(launch)
    /\ IF launch = "ok" THEN Goto("turn") /\ UNCHANGED outcome ELSE Close("failed")
    /\ UNCHANGED <<limiter, page_count, place, attempt, empties, barren, unsaved>>

TakePage ==
    /\ pc = "turn"
    /\ page <= LastPage
    /\ IF page > FirstPage \/ room > 1 THEN WaitBetweenLoads
                                       ELSE UNCHANGED <<rested, long_pause_in>>
    /\ attempt' = 1
    /\ Goto("opening")
    /\ UNCHANGED <<results, multiplier, clean, browser, place, empties, outcome,
                   barren, unsaved>>

\* The pages are read: on to the next room type, after a pause unless its name
\* is the last one's.
LeaveRoom ==
    /\ \/ pc = "section"
       \/ pc = "turn" /\ page > LastPage
    /\ IF Rooms[room] # Rooms[Len(Rooms)] THEN Wait
                                          ELSE UNCHANGED <<rested, long_pause_in>>
    /\ IF room < Len(Rooms)
       THEN /\ room' = room + 1 /\ page' = FirstPage
            /\ Goto("turn")
            /\ UNCHANGED outcome
       ELSE Close("done") /\ UNCHANGED place
    /\ empties' = 0
    /\ barren' = {}
    /\ UNCHANGED <<results, multiplier, clean, browser, attempt, unsaved>>

\* Mutant: the count of empty pages is not reset.
SaveNoReset ==
    /\ pc = "saving"
    /\ unsaved' = {}
    /\ Goto("next")
    /\ UNCHANGED <<limiter, browser, place, attempt, empties, outcome, barren>>

\* bulk_upsert_from_listing: one transaction for the page.
Save ==
    /\ pc = "saving"
    /\ unsaved' = {}
    /\ empties' = 0
    /\ Goto("next")
    /\ UNCHANGED <<limiter, browser, place, attempt, outcome, barren>>

\* The table is locked by another session: the page is rolled back, and nothing
\* catches the error.  get_stats, after the page, may fail alike.
SaveFails ==
    /\ pc \in {"saving", "next"}
    /\ Close("failed")
    /\ UNCHANGED <<limiter, browser, place, attempt, empties, barren, unsaved>>

CountEmpty ==
    /\ pc = "barren"
    /\ barren' = barren \cup {page}
    /\ empties' = empties + 1
    /\ Goto(IF empties' >= 2 THEN "section" ELSE "next")
    /\ UNCHANGED <<limiter, browser, place, attempt, outcome, unsaved>>

NextPage ==
    /\ pc = "next"
    /\ page' = page + 1
    /\ Goto("turn")
    /\ UNCHANGED <<limiter, browser, room, attempt, empties, outcome, barren, unsaved>>

(***************************************************************************)
(* collect_page: the attempts at one page.                                 *)
(***************************************************************************)

Retry == attempt' = attempt + 1 /\ Goto("opening")

OpenBrowser(quit, launch) ==
    /\ pc = "opening"
    /\ OpenPage(quit, launch)
    /\ Goto(IF launch = "ok" THEN "loading" ELSE "error")
    /\ UNCHANGED <<limiter, place, attempt, empties, outcome, barren, unsaved>>

\* What a load shows: cards that parse, none, the site's word that there is
\* nothing, a captcha nobody solved in time, or an exception; with Chrome dead,
\* an exception.
LoadPage(shown) ==
    /\ pc = "loading"
    /\ driver = "dead" => shown = "error"
    /\ rested' = FALSE
    /\ Goto(IF shown = "empty" THEN "barren" ELSE shown)
    /\ UNCHANGED <<results, multiplier, long_pause_in, clean, browser, place, attempt,
                   empties, outcome, barren, unsaved>>

OnCards ==
    /\ pc = "cards"
    /\ RecordSuccess
    /\ unsaved' = {page}
    /\ Goto("saving")
    /\ UNCHANGED <<browser, place, attempt, empties, outcome, barren>>

\* Mutant: a page without cards is loaded again at once.
OnNothingAtOnce ==
    /\ pc = "nothing"
    /\ IF attempt < MaxRetries THEN Retry ELSE Goto("barren") /\ UNCHANGED attempt
    /\ UNCHANGED <<limiter, browser, place, empties, outcome, barren, unsaved>>

\* Nothing is recorded; the last attempt gives the page up.
OnNothing ==
    /\ pc = "nothing"
    /\ IF attempt < MaxRetries
       THEN WaitBetweenLoads /\ Retry
       ELSE Goto("barren") /\ UNCHANGED <<rested, long_pause_in, attempt>>
    /\ UNCHANGED <<results, multiplier, clean, browser, place, empties, outcome,
                   barren, unsaved>>

\* Mutant: the attempts that meet a captcha are not counted.
OnCaptchaForEver(quit, launch) ==
    /\ pc = "captcha"
    /\ RecordCaptcha
    /\ Wait
    /\ Restart(quit, launch)
    /\ IF launch = "ok" THEN Goto("opening") /\ UNCHANGED outcome ELSE Close("failed")
    /\ UNCHANGED <<page_count, place, attempt, empties, barren, unsaved>>

\* A restart that fails leaves the except clause, and the session.  On the last
\* attempt the captcha ends the session too.
OnCaptcha(quit, launch) ==
    /\ pc = "captcha"
    /\ RecordCaptcha
    /\ IF attempt < MaxRetries
       THEN /\ Wait
            /\ Restart(quit, launch)
            /\ IF launch = "ok" THEN Retry /\ UNCHANGED outcome
                                ELSE Close("failed") /\ UNCHANGED attempt
       ELSE /\ quit = "ok" /\ launch = "ok"
            /\ Close("captcha")
            /\ UNCHANGED <<rested, long_pause_in, attempt, driver, chromes, strays,
                           dead_loads, faults>>
    /\ UNCHANGED <<page_count, place, empties, barren, unsaved>>

\* After the last attempt collect_page returns [], and nothing waits.
OnError ==
    /\ pc = "error"
    /\ RecordError
    /\ IF attempt < MaxRetries
       THEN WaitBetweenLoads /\ Retry
       ELSE Goto("barren") /\ UNCHANGED <<rested, long_pause_in, attempt>>
    /\ UNCHANGED <<browser, place, empties, outcome, barren, unsaved>>

(***************************************************************************)
(* The end, and what may come at any time.                                 *)
(***************************************************************************)

StopBrowser(quit) ==
    /\ pc = "closing"
    /\ Stop(quit)
    /\ Goto("ended")
    /\ UNCHANGED <<limiter, page_count, place, attempt, empties, outcome, barren, unsaved>>

\* Ctrl+C: the finally clause runs.
Interrupt ==
    /\ pc \notin {"starting", "closing", "ended"}
    /\ Close("interrupted")
    /\ UNCHANGED <<limiter, browser, place, attempt, empties, barren, unsaved>>

Crash ==
    /\ ChromeDies
    /\ UNCHANGED <<limiter, crawl>>

Collect ==
    \/ \E launch \in Outcomes : StartBrowser(launch)
    \/ TakePage \/ LeaveRoom \/ NextPage
    \/ Save \/ SaveFails \/ CountEmpty
    \/ \E quit, launch \in Outcomes :
          \/ OpenBrowser(quit, launch)
          \/ OnCaptcha(quit, launch)
    \/ \E shown \in {"cards", "nothing", "empty", "captcha", "error"} : LoadPage(shown)
    \/ OnCards \/ OnNothing \/ OnError
    \/ \E quit \in Outcomes : StopBrowser(quit)

Next == Collect \/ Interrupt \/ Crash

\* The session is a sequential program: it goes on as long as it can.
Spec == Init /\ [][Next]_vars /\ WF_vars(Collect)
-----------------------------------------------------------------------------
(***************************************************************************)
(* Why it works: what holds between any two steps.                         *)
(***************************************************************************)

\* Between taking a page and having counted it.
Reading == {"opening", "loading", "cards", "saving", "nothing", "captcha", "error",
            "barren", "next"}

RestsFirst ==
    \/ rested
    \/ /\ pc \notin {"starting", "opening", "loading"}
       /\ pc = "turn" => page > FirstPage \/ room > 1

OneDriver ==
    /\ chromes = strays + Running
    /\ pc \in {"starting", "ended"} => driver = "none"
    /\ dead_loads <= IF driver = "dead" THEN page_count ELSE 0

SavesInTurn ==
    /\ outcome = "none" <=> pc \notin {"closing", "ended"}
    /\ unsaved # {} => pc = "saving" \/ outcome \in {"failed", "interrupted"}

\* Where a run of empty pages that is being counted ends.
EmptyRun ==
    CASE pc = "next"    -> empties = 1 => page \in barren
      [] pc = "section" -> {page - 1, page} \subseteq barren
      [] OTHER          -> empties = 1 => page - 1 \in barren

CountsEmpties ==
    /\ pc \in Reading => page \in FirstPage..LastPage
    /\ page >= FirstPage
    /\ pc = "section" \/ outcome # "none" \/ empties < 2
    /\ outcome = "none" => EmptyRun

Inv == TypeOK /\ RestsFirst /\ OneDriver /\ SavesInTurn /\ CountsEmpties
-----------------------------------------------------------------------------
\* However retries, give-ups, captchas, room changes and restarts follow one
\* another, the session never asks the site for a page without having slept
\* through a pause of the limiter since the page before.
PausedBetweenLoads == pc = "loading" => rested

\* A Chrome that died fails fewer than rotate_ua_every loads after the one it died in,
\* although nothing looks whether it lives: the rotation counts failing loads too.
DeadChromeReplaced == dead_loads < RotateEvery

\* No Chrome outlives the session, or runs beside its driver, but for those whose
\* quit failed, and those that failed after they started and before the manager
\* had them.
NoChromeLeft ==
    /\ chromes = strays + Running
    /\ pc = "ended" => driver = "none"

\* The log says that the data is saved when a captcha stops the session: every page
\* that was parsed is in the table, when the session moves on, is done, or
\* stops for a captcha.
ParsedIsSaved ==
    \/ pc \in {"turn", "opening", "loading", "section"}
    \/ outcome \in {"done", "captcha"}
    => unsaved = {}

\* A room type is left before its last page only after two pages in a row that
\* gave nothing, the last of which is the page that was just read.
RoomsReadToTheEnd ==
    [][room' # room \/ (outcome' = "done" /\ outcome = "none")
        => page > LastPage \/ {page - 1, page} \subseteq barren]_vars
=============================================================================
