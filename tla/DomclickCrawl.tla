---------------------------- MODULE DomclickCrawl ----------------------------
(***************************************************************************)
(* A listing session of the DomClick collector (parsers/domclick/), which  *)
(* asks for the pages of each room type by their offset in a list that the *)
(* site goes on changing: offers come, go and move while pages are read.   *)
(* The numbers of a list's offers are the places they had when the         *)
(* session came to the room type.                                          *)
(***************************************************************************)
EXTENDS Naturals, Sequences, FiniteSets

CONSTANTS
    Rooms,         \* the room types, a sequence
    FirstPage,     \* start_page
    LastPage,      \* end_page
    CardsPerPage,  \* CARDS_PER_PAGE
    MinTotal,      \* the smallest total that is recognised: it has two digits
    MaxOffers,     \* bound on the offers of a room type
    MaxMoves       \* bound on the changes of a list while it is read

Parameters ==
    /\ Rooms \in Seq(STRING) /\ Rooms # << >>
    /\ FirstPage \in Nat \ {0} /\ LastPage \in Nat
    /\ CardsPerPage \in Nat \ {0} /\ MinTotal \in Nat \ {0}
    /\ MaxOffers \in Nat /\ MaxMoves \in Nat

VARIABLES
    pc,       \* where collect and _collect_room_type are
    room,     \* the room type, from 1
    page,
    total,    \* total_offers, 0 for None
    empties,  \* consecutive_empty
    list,     \* the site's: numbers of offers, 0 for those that came since
    moves,    \* how often the list changed
    saved,    \* history: the offers of this list that are in the table
    missed,   \* history: those that were on a page in vain
    barren    \* history: the pages that added nothing

crawl == <<room, page, total, empties, saved, missed, barren>>
vars == <<pc, crawl, list, moves>>

TypeOK ==
    /\ pc \in {"testing", "turn", "end", "barren", "failing", "blocked", "ended"}
    /\ room \in 1..Len(Rooms)
    /\ page \in Nat \ {0}
    /\ total \in Nat /\ empties \in 0..3 /\ moves \in 0..MaxMoves
    /\ list \in Seq(Nat)
    /\ saved \subseteq Nat /\ missed \subseteq Nat
    /\ barren \subseteq FirstPage..LastPage

Lists == {[i \in 1..n |-> i] : n \in 0..MaxOffers}

Init ==
    /\ pc = "testing"
    /\ room = 1 /\ page = FirstPage /\ total = 0 /\ empties = 0
    /\ list = << >> /\ moves = 0
    /\ saved = {} /\ missed = {} /\ barren = {}

(***************************************************************************)
(* The site.                                                               *)
(***************************************************************************)

Without(i) == SubSeq(list, 1, i - 1) \o SubSeq(list, i + 1, Len(list))
Putting(offer, i, s) == SubSeq(s, 1, i - 1) \o <<offer>> \o SubSeq(s, i, Len(s))

\* An offer is withdrawn, a new one is listed, or one changes its place.
Move ==
    /\ pc = "turn" /\ moves < MaxMoves
    /\ moves' = moves + 1
    /\ \/ \E i \in DOMAIN list : list' = Without(i)
       \/ \E i \in 1..(Len(list) + 1) : list' = Putting(0, i, list)
       \/ \E i, j \in DOMAIN list : list' = Putting(list[i], j, Without(i))
    /\ UNCHANGED <<pc, crawl>>

Offset == (page - 1) * CardsPerPage

\* What the page has when it is asked for.
Cards == {list[i] : i \in {k \in DOMAIN list : Offset < k /\ k <= Offset + CardsPerPage}}

\* The total is taken from the first page that names one.
Name(named) ==
    total' = IF total = 0 /\ named /\ Len(list) >= MinTotal THEN Len(list) ELSE total

(***************************************************************************)
(* collect, and the loop of _collect_room_type.                            *)
(***************************************************************************)

\* What was read is in the table, and all else is forgotten.
Forget ==
    /\ total' = 0 /\ empties' = 0 /\ moves' = 0
    /\ saved' = {} /\ missed' = {} /\ barren' = {}

End == pc' = "ended" /\ list' = << >> /\ Forget /\ UNCHANGED <<room, page>>

\* Without an answer that looks like a page the cookie is taken to be bad.
TestConnection(answers) ==
    /\ pc = "testing"
    /\ IF answers
       THEN pc' = "turn" /\ list' \in Lists /\ UNCHANGED <<crawl, moves>>
       ELSE End

\* Mutant: the test counts the page that is asked for.
ReachedTooSoon == total # 0 /\ Offset + CardsPerPage >= total

Reached == total # 0 /\ Offset >= total

Asks == pc = "turn" /\ page <= LastPage /\ ~Reached

EndOfPages ==
    /\ pc = "turn" /\ (page > LastPage \/ Reached)
    /\ pc' = "end"
    /\ UNCHANGED <<crawl, list, moves>>

NextPage == pc' = "turn" /\ page' = page + 1

\* Mutant: one page less is enough.
GiveUpAtOnce(count, limit, exit) ==
    /\ empties' = count
    /\ barren' = barren \cup {page}
    /\ missed' = missed \cup (Cards \ {0})
    /\ IF count >= limit - 1 THEN pc' = exit /\ UNCHANGED page ELSE NextPage
    /\ UNCHANGED <<room, saved, list, moves>>

\* The page gave nothing: one more of them.  As many as the limit, and the room type
\* is left: by which of the two exits, the page that is the last decides.
CountEmpty(count, limit, exit) ==
    /\ empties' = count
    /\ barren' = barren \cup {page}
    /\ missed' = missed \cup (Cards \ {0})
    /\ IF count >= limit THEN pc' = exit /\ UNCHANGED page ELSE NextPage
    /\ UNCHANGED <<room, saved, list, moves>>

\* Qrator's answer: the room type is left, the session goes on to the next.
PageBlocked ==
    /\ Asks
    /\ pc' = "blocked"
    /\ UNCHANGED <<crawl, list, moves>>

\* No answer, or one of another status: the page is not asked for again.
PageFails ==
    /\ Asks
    /\ CountEmpty(empties + 1, 3, "failing")
    /\ UNCHANGED total

PageSaysNothing(named) ==
    /\ Asks /\ Cards = {}
    /\ Name(named)
    /\ pc' = "end"
    /\ UNCHANGED <<room, page, empties, saved, missed, barren, list, moves>>

\* No card, or none that is recognised.
PageShowsNothing(named) ==
    /\ Asks
    /\ Name(named)
    /\ CountEmpty(empties + 1, 2, "barren")

\* Those cards that parse are upserted in one transaction.
PageSaved(parsed, named) ==
    /\ Asks /\ parsed # {}
    /\ Name(named)
    /\ saved' = saved \cup (parsed \ {0})
    /\ missed' = missed \cup (Cards \ (parsed \cup {0}))
    /\ empties' = 0
    /\ NextPage
    /\ UNCHANGED <<room, barren, list, moves>>

\* The table is locked by another session.  The page counts as empty, and the
\* count has just been reset: a table that takes no page ends nothing.
PageNotSaved(named) ==
    /\ Asks /\ Cards # {}
    /\ Name(named)
    /\ CountEmpty(1, 3, "failing")

LeaveRoom ==
    /\ pc \in {"end", "barren", "failing", "blocked"}
    /\ IF room < Len(Rooms)
       THEN /\ pc' = "turn" /\ room' = room + 1 /\ page' = FirstPage
            /\ list' \in Lists
            /\ Forget
       ELSE End

\* Ctrl+C, which nothing catches.
Interrupt == pc # "ended" /\ End

Collect ==
    \/ \E answers \in BOOLEAN : TestConnection(answers)
    \/ EndOfPages \/ PageBlocked \/ PageFails
    \/ \E named \in BOOLEAN :
          \/ PageSaysNothing(named) \/ PageShowsNothing(named) \/ PageNotSaved(named)
          \/ \E parsed \in SUBSET Cards : PageSaved(parsed, named)
    \/ LeaveRoom

Next == Collect \/ Interrupt \/ Move

\* A sequential program: it goes on as long as it can.
Spec == Init /\ [][Next]_vars /\ WF_vars(Collect)
-----------------------------------------------------------------------------
\* The offers that the pages should show and that are still listed.
Wanted == {n \in {list[i] : i \in DOMAIN list} :
              (FirstPage - 1) * CardsPerPage < n /\ n <= LastPage * CardsPerPage}

\* When a room type has been read to its end, an offer that is listed from first
\* to last and not in the table was on a page that failed, or hides behind a
\* change of the list: each change hides one offer at the most, although
\* pages are asked for by offset and the total is that of the first page.
LossBounded == pc = "end" => Cardinality(Wanted \ (saved \cup missed)) <= moves

\* A room type is given up at a page without cards only after two pages in a row
\* that added nothing, and at a page that fails only after three, the last of which
\* is the page that was just read, although failing and empty pages share one count
\* that goes on across them.  (The third exit is Qrator's answer.)
GivenUpForCause ==
    [][ /\ pc' = "barren" => {page' - 1, page'} \subseteq barren'
        /\ pc' = "failing" => {page' - 2, page' - 1, page'} \subseteq barren' ]_vars
=============================================================================
