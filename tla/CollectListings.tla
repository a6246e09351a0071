--------------------------- MODULE CollectListings ---------------------------
(***************************************************************************)
(* scripts/collect_listings.py: a listing session of the site that         *)
(* --source names.  The two collectors take the same room types and pages  *)
(* and share nothing else; DomClick's wants a cookie of the operator's.    *)
(***************************************************************************)
EXTENDS ListingCrawl

CONSTANTS
    CardsPerPage, MinTotal, MaxOffers, MaxMoves  \* of DomclickCrawl

VARIABLES
    source,  \* --source, and whether --dc-cookie comes with it
    dom_pc, dom_room, dom_page, dom_empties, dom_barren,
    total, list, moves, saved, missed

dom == <<dom_pc, dom_room, dom_page, dom_empties, dom_barren,
         total, list, moves, saved, missed>>
main == <<source, vars, dom>>

Dom == INSTANCE DomclickCrawl WITH
          pc <- dom_pc, room <- dom_room, page <- dom_page,
          empties <- dom_empties, barren <- dom_barren

ASSUME DomAssumption == Dom!Parameters

MainInit ==
    /\ source \in {"cian", "domclick", "no cookie"}
    /\ Init /\ Dom!Init

Run(next) == source = "cian" /\ next /\ UNCHANGED <<source, dom>>
RunDom(next) == source = "domclick" /\ next /\ UNCHANGED <<source, vars>>

MainNext == Run(Next) \/ RunDom(Dom!Next)

MainSpec ==
    /\ MainInit /\ [][MainNext]_main
    /\ WF_main(Run(Collect)) /\ WF_main(RunDom(Dom!Collect))
-----------------------------------------------------------------------------
\* DomClick's list may change while it is read: each change hides one offer at
\* the most (DomclickCrawl).
LossBounded == Dom!LossBounded

\* A room type of either site is given up only after two pages in a row that gave
\* nothing, on DomClick three when the last one failed; the last of them is the page
\* that was just read (ListingCrawl, DomclickCrawl).  Qrator's answer ends a room
\* type too.
RoomsLeftForCause == RoomsReadToTheEnd /\ Dom!GivenUpForCause

\* Every session of either site comes to its end, whatever the site answers: no
\* captcha, dead browser or failing page is retried for ever.
SessionEnds == <>(
    CASE source = "cian"      -> pc = "ended"
      [] source = "domclick"  -> dom_pc = "ended"
      [] source = "no cookie" -> TRUE)
=============================================================================
