------------------------------ MODULE FlatRecord ------------------------------
(***************************************************************************)
(* What the table of flats holds of one flat, as cards of listings and     *)
(* detail pages of both collectors are read and merged into its row        *)
(* (parsers/, data/storage.py).  DetailQueue says who works on a flat and  *)
(* when; this module says what comes of it.                                *)
(*                                                                         *)
(* No statement computes one column from another, so the row is followed   *)
(* in one column at a time, any of Columns, which has one of each kind of  *)
(* rule by which the parsers read.  A place of a page or card that can     *)
(* speak of the column shows nothing (Missing), an empty text (Blank),     *)
(* something the column's parser makes nothing of (Odd), or a value.       *)
(***************************************************************************)
EXTENDS Integers

CONSTANTS
    Readers,   \* the sessions that may run at a time
    Values,    \* what a column may say; a flag says Yes
    Counts,    \* the bathrooms of one kind that a place of DomClick's state may show
    One, Yes,  \* of Values: the number 1, and True
    Missing,   \* None, NULL, a key or an element that is not there
    Blank,     \* ""
    Odd,       \* on a page only: a text without the number that is looked for, ...
    No,        \* False or 0 where a list is missing or empty
    NoKey,     \* the dictionary has no such key; the page has none to offer
    MaxReads   \* bound on cards and pages read

ASSUME RecordAssumption ==
    /\ One \in Values /\ Yes \in Values
    /\ Counts \subseteq Nat /\ Counts \cap {Missing, Blank, Odd} = {}
    /\ \A a, b \in Counts \cup {0} : a + b > 0 => a + b \in Values
    /\ Values \cap {Missing, Blank, Odd, No, NoKey} = {}
    /\ Missing \notin {Blank, Odd, No, NoKey} /\ Blank \notin {Odd, No, NoKey}
    /\ Odd \notin {No, NoKey} /\ No # NoKey
    /\ MaxReads \in Nat

(***************************************************************************)
(* Columns.  Each stands for those that the same part of DomClick's state  *)
(* fills by the same rule, or that only a Cian page fills.                 *)
(***************************************************************************)

ListingNumbers == {"price"}
ListingTexts == {"district"}
ListingColumns == ListingNumbers \cup ListingTexts

OfferColumns == {"living_meters", "bathroom_count"}
NamedColumns == {"finish_type"}
HouseColumns == {"elevator_passenger", "floor_type", "entrances_count"}
KeyColumns == {"has_concierge", "has_intercom"}
ComplexColumns == {"jk_name"}
SellerColumns == {"is_owner", "seller_name"}
ActivityColumns == {"views_count"}
MarketColumns == {"market_price"}
HousePhotos == {"house_photo_facade_count"}
PhotoColumns == {"offer_photos_count"} \cup HousePhotos
TermColumns ==
    {"seller_phone_visible", "tariff_name", "area_common_property", "has_domclick_plan"}
CianColumns == {"cadastral_number"}

DetailColumns ==
    OfferColumns \cup NamedColumns \cup HouseColumns \cup KeyColumns \cup ComplexColumns
    \cup SellerColumns \cup ActivityColumns \cup MarketColumns \cup PhotoColumns
    \cup TermColumns \cup CianColumns
Columns == ListingColumns \cup DetailColumns

\* Kept as they are, or taken of a list; the others are converted to numbers and
\* booleans.
RawTexts == {"floor_type", "jk_name", "seller_name", "tariff_name"}
Texts == RawTexts \cup NamedColumns \cup CianColumns
Flags == KeyColumns \cup {"has_domclick_plan"}
Listed == Flags \cup PhotoColumns

\* What the places of a column may show: in the state, and in an element.  An empty
\* list is as good as none.
InState(c) ==
    {Missing} \cup
    IF c = "bathroom_count" THEN Counts \cup {Blank, Odd} ELSE
    IF c \in Flags THEN {Yes, No} ELSE
    IF c \in PhotoColumns THEN Values ELSE
    IF c \in ListingTexts \cup RawTexts THEN Values \cup {Blank}
    ELSE Values \cup {Blank, Odd}
InElement(c) ==
    {Missing} \cup
    IF c \in KeyColumns THEN {Yes} ELSE
    IF c \in Texts \cup ListingTexts THEN Values \cup {Blank}
    ELSE Values \cup {Blank, Odd}
OnlyIn(c, columns, places) == IF c \in columns THEN places ELSE {Missing}

ToNumber(shows) == IF shows \in Values THEN shows ELSE Missing
FirstNotNone(a, b) == IF a # Missing THEN a ELSE b
\* dict.setdefault
SetDefault(entry, v) == IF entry = NoKey THEN v ELSE entry

(***************************************************************************)
(* DomClick: window.__SSR_STATE__, its places in the order in which they   *)
(* are asked, and the elements of the page, in the order of the parser.    *)
(* The page speaks of price and district too, which no one stores.         *)
(***************************************************************************)

InMain == {"living_meters", "elevator_passenger", "finish_type", "floor_type"}
\* What the building and new-building sections have besides.
InSections == {"living_meters", "elevator_passenger", "finish_type", "jk_name", "district"}

\* Of the places in the state, some have no second, and bathrooms, connected and
\* separated, have two each; of the flags' elements,
\* has_intercom's is taken out again.
TwoPlaces ==
    Columns \ (CianColumns \cup MarketColumns \cup HousePhotos \cup {"area_common_property"})

\* The state is not in the page or no JSON; parse_detail_state breaks off, at a null
\* where it takes an object; or it gives its entries.
StateOutcomes == {"none", "breaks", "read"}

\* more: other columns have elements.
DomclickPage(c) ==
    [state: StateOutcomes, more: BOOLEAN,
     best: OnlyIn(c, Columns \ CianColumns, InState(c)),
     other: OnlyIn(c, TwoPlaces, InState(c)),
     best2: OnlyIn(c, {"bathroom_count"}, InState(c)),
     other2: OnlyIn(c, {"bathroom_count"}, InState(c)),
     first: OnlyIn(c, InMain \cup {"has_concierge"}, InElement(c)),
     second: IF c = "elevator_passenger" THEN {Missing, Odd, One}
             ELSE OnlyIn(c, InSections, InElement(c))]

\* Mutant: what cannot be read is counted as one.
ConvertedOrOne(p) ==
    LET shows == FirstNotNone(p.best, p.other)
    IN  IF shows = Odd THEN One ELSE ToNumber(shows)

\* A first place that cannot be read hides the other.
Converted(p) == ToNumber(FirstNotNone(p.best, p.other))

\* The bathrooms of either kind, of which a place that cannot be read has none, are
\* added up; none at all are not recorded.
AsCount(shows) == IF shows \in Counts THEN shows ELSE 0
Bathrooms(connected, separated) ==
    LET total == AsCount(connected) + AsCount(separated)
    IN  IF total > 0 THEN total ELSE Missing

\* Each kind is taken from the first place that shows something of it.
BathroomCount(p) ==
    Bathrooms(FirstNotNone(p.best, p.other), FirstNotNone(p.best2, p.other2))

\* Of a name, an unreadable first place does not hide the other.
Named(p) == FirstNotNone(ToNumber(p.best), ToNumber(p.other))

\* Whether a key is in the first list that is not empty, how long the list is or how
\* many of a kind are in it, or whether there is an address of a plan.
InList(p) == LET list == FirstNotNone(p.best, p.other)
             IN  IF list = Missing THEN No ELSE list

StateValue(c, p) ==
    IF c \in NamedColumns THEN Named(p) ELSE
    IF c \in Listed THEN InList(p) ELSE
    IF c \in RawTexts \cup ListingTexts THEN FirstNotNone(p.best, p.other) ELSE
    IF c = "bathroom_count" THEN BathroomCount(p)
    ELSE Converted(p)

StateEntry(c, p) == IF p.state = "read" THEN StateValue(c, p) ELSE NoKey

\* Of the items of a page, the first that can be read.
MainItem(p) == IF p.first \in Values THEN p.first ELSE NoKey

\* The sections come after them.  Those of a new building give what they have,
\* readable or not, and the heading overwrites.
HtmlValue(c, p) ==
    LET main == MainItem(p)
    IN  IF p.second = Missing THEN main ELSE
        IF c = "living_meters" THEN SetDefault(main, ToNumber(p.second)) ELSE
        IF p.second = Odd THEN main ELSE
        IF c = "jk_name" THEN p.second
        ELSE SetDefault(main, p.second)

\* Mutant: the elements win.
MergeStateFirst(html, state) == IF html = NoKey THEN state ELSE html

\* _merge_detail_dicts
Merge(html, state) == IF state \in {NoKey, Missing, Blank} THEN html ELSE state

\* Every state that was read gives some entries, whatever is in it.
DomclickFails(c, p) == p.state # "read" /\ ~p.more /\ HtmlValue(c, p) = NoKey

DomclickValue(c, p) == Merge(HtmlValue(c, p), StateEntry(c, p))

(***************************************************************************)
(* Cian: the items of the flat's or the building's group, the last of      *)
(* which counts, and the sections on the residential complex and of the    *)
(* register.                                                               *)
(***************************************************************************)

InGroups == {"living_meters", "bathroom_count", "finish_type", "elevator_passenger",
             "floor_type", "entrances_count", "has_concierge"}
InLaterSections == {"finish_type", "jk_name", "cadastral_number"}

CianPage(c) ==
    [first: OnlyIn(c, InGroups, InElement(c)), second: OnlyIn(c, InGroups, InElement(c)),
     later: OnlyIn(c, InLaterSections, InElement(c))]

\* A bathroom without a number is one.
BathroomItem(item) == IF item \in Values THEN item ELSE One

\* Texts are kept as they are.
LastItem(c, p) ==
    LET item == IF p.second # Missing THEN p.second ELSE p.first
    IN  IF item = Missing THEN NoKey ELSE
        IF c = "bathroom_count" THEN BathroomItem(item) ELSE
        IF c = "elevator_passenger" THEN (IF item \in Values THEN item ELSE NoKey) ELSE
        IF c \in {"living_meters", "entrances_count"} THEN ToNumber(item)
        ELSE item

CianValue(c, p) ==
    IF p.later = Missing \/ (c = "jk_name" /\ p.later = Blank) THEN LastItem(c, p)
    ELSE IF c = "finish_type" THEN SetDefault(LastItem(c, p), p.later)
    ELSE p.later

(***************************************************************************)
(* The table.                                                              *)
(***************************************************************************)

\* update_detail; the details may name columns that are not DETAIL_FIELDS.
Detailed(c, old, v) == IF c \in DetailColumns /\ v \notin {NoKey, Missing} THEN v ELSE old

\* _insert_from_listing; texts that it does not name begin empty.
Inserted(c, v) ==
    IF c \in ListingColumns THEN v ELSE IF c \in Texts THEN Blank ELSE Missing

\* Mutant: a card without a price clears it.
RelistedAnyway(c, old, v) ==
    IF c \in ListingNumbers \/ (c \in ListingTexts /\ v # Blank) THEN v ELSE old

\* _update_from_listing, of numbers and of texts.
Relisted(c, old, v) ==
    IF \/ c \in ListingNumbers /\ v # Missing
       \/ c \in ListingTexts /\ v # Blank
    THEN v ELSE old

\* What a card gives.  Texts that are not found are "", and a DomClick card has no
\* district.
CianCard(c) ==
    IF c \in ListingNumbers THEN Values \cup {Missing} ELSE
    IF c \in ListingTexts THEN Values \cup {Blank} ELSE {Missing}
DomclickCard(c) ==
    IF c \in ListingTexts THEN {Blank} ELSE CianCard(c)

VARIABLES
    column,   \* the one that is followed
    site,     \* whose flat it is
    status,   \* detail_status, "unlisted" if there is no row
    value,    \* what the row has in the column
    reader,   \* the session: what it does, and what it read
    reads,    \* history: cards and pages read
    shown,    \* history: the values that cards and pages showed
    word,     \* history: what the row may have, going by the newest that was written
    newest,   \* history: when that was read
    overlaid  \* history: a session read while another was about to write

vars == <<column, site, status, value, reader, reads, shown, word, newest, overlaid>>

Card == IF site = "cian" THEN CianCard(column) ELSE DomclickCard(column)

Readings == Values \cup {Missing, Blank, No, NoKey}
Jobs == {"idle", "listing", "selected", "claimed", "recording"}
Reader == [job: Jobs, kind: {"cian", "domclick"}, read: Readings,
           says: SUBSET (Values \cup {Blank, Odd, No}), at: Nat]

TypeOK ==
    /\ column \in Columns /\ site \in {"cian", "domclick"}
    /\ status \in {"unlisted", "pending", "in_progress", "done", "failed", "blocked"}
    /\ value \in Values \cup {Missing, Blank, No}
    /\ reader \in [Readers -> Reader]
    /\ reads \in Nat
    /\ shown \subseteq Values
    /\ word \subseteq Values \cup {Missing, Blank, No}
    /\ newest \in Nat
    /\ overlaid \in BOOLEAN

Idle == [job |-> "idle", kind |-> "cian", read |-> NoKey, says |-> {}, at |-> 0]

Init ==
    /\ column \in Columns /\ site \in {"cian", "domclick"}
    /\ status = "unlisted" /\ value = Missing
    /\ reader = [r \in Readers |-> Idle]
    /\ reads = 0 /\ shown = {} /\ word = {Missing, Blank} /\ newest = 0
    /\ overlaid = FALSE

(***************************************************************************)
(* What was said: kept beside the program, to compare the row with.        *)
(***************************************************************************)

\* What is one readable thing, or a plain no.
OneMind(says) == \E v \in Values \cup {No} : says = {v}

\* What two places show of one thing.
AnyOf(places) == IF places = {Missing} THEN places ELSE places \ {Missing}

\* Of the bathrooms a page shows every sum of one count of each kind, wherever in the
\* state it finds the two; a sum of nothing is as unreadable as a text is.
BathroomsShown(p) ==
    IF {p.best, p.other, p.best2, p.other2} = {Missing} THEN {} ELSE
    {IF n = Missing THEN Odd ELSE n :
        n \in {Bathrooms(a, b) : a \in AnyOf({p.best, p.other}),
                                b \in AnyOf({p.best2, p.other2})}}

StateShows(c, p) ==
    IF c = "bathroom_count" THEN BathroomsShown(p) ELSE {p.best, p.other} \ {Missing}

\* The state goes before the elements where its places agree; if they do not, all
\* that the page shows of the column counts.  A state without the list says no.
DomclickSays(c, p) ==
    LET places == IF p.state = "read" THEN StateShows(c, p) ELSE {}
        state == IF p.state = "read" /\ c \in Listed /\ places = {} THEN {No} ELSE places
    IN  IF OneMind(state) THEN state ELSE state \cup ({p.first, p.second} \ {Missing})

\* A bathroom item that has no number says one.
CianSays(c, p) ==
    LET elements == {p.first, p.second, p.later} \ {Missing}
    IN  IF c = "bathroom_count" /\ elements \cap {Blank, Odd} # {}
        THEN elements \cup {One} ELSE elements

\* What may come of a page: whether it fails, what is read, what it says.
DomclickReads ==
    [c \in Columns |->
        {[fails |-> DomclickFails(c, p), read |-> DomclickValue(c, p),
          says |-> IF c \in DetailColumns THEN DomclickSays(c, p) ELSE {}] :
            p \in DomclickPage(c)}]
CianReads ==
    [c \in Columns |->
        {[fails |-> FALSE, read |-> CianValue(c, p), says |-> CianSays(c, p)] :
            p \in CianPage(c)}]

\* A Cian session finds nothing it knows on a page of DomClick.
PageReads(kind) ==
    IF kind = "domclick" THEN DomclickReads[column] ELSE
    IF site = "cian" THEN CianReads[column]
    ELSE {[fails |-> FALSE, read |-> NoKey, says |-> {}]}

\* The session now has this at hand; another that does the same may overtake it.
Holds(r, job, kind, read, says) ==
    /\ reads < MaxReads
    /\ reads' = reads + 1
    /\ shown' = shown \cup (says \cap Values)
    /\ overlaid' = (overlaid \/ \E s \in Readers \ {r} : reader[s].job = job)
    /\ reader' = [reader EXCEPT ![r] = [job |-> job, kind |-> kind, read |-> read,
                                        says |-> says, at |-> reads']]

\* What the row may have once r has written: what was silent changes nothing, what
\* was of one mind stands, and what was not leaves all that it said possible.
Hear(r) ==
    LET says == reader[r].says
    IN  IF says # {} /\ reader[r].at > newest
        THEN /\ word' = IF OneMind(says) THEN says ELSE word \cup (says \ {Odd})
             /\ newest' = reader[r].at
        ELSE UNCHANGED <<word, newest>>

(***************************************************************************)
(* The sessions.                                                           *)
(***************************************************************************)

ReadCard(r, v) ==
    /\ reader[r].job = "idle"
    /\ v \in Card
    /\ Holds(r, "listing", site, v, {v} \ {Missing, Blank})
    /\ UNCHANGED <<column, site, status, value, word, newest>>

SaveCard(r) ==
    /\ reader[r].job = "listing"
    /\ IF status = "unlisted"
       THEN status' = "pending" /\ value' = Inserted(column, reader[r].read)
       ELSE UNCHANGED status /\ value' = Relisted(column, value, reader[r].read)
    /\ Hear(r)
    /\ reader' = [reader EXCEPT ![r] = Idle]
    /\ UNCHANGED <<column, site, reads, shown, overlaid>>

\* A Cian session takes flats of either site.
Select(r, kind) ==
    /\ reader[r].job = "idle"
    /\ status \in {"pending", "failed"}
    /\ kind = "domclick" => site = "domclick"
    /\ reader' = [reader EXCEPT ![r] = [Idle EXCEPT !.job = "selected", !.kind = kind]]
    /\ UNCHANGED <<column, site, status, value, reads, shown, word, newest, overlaid>>

Claim(r) ==
    /\ reader[r].job = "selected"
    /\ status' = "in_progress"
    /\ reader' = [reader EXCEPT ![r].job = "claimed"]
    /\ UNCHANGED <<column, site, value, reads, shown, word, newest, overlaid>>

ReadPage(r) ==
    /\ reader[r].job = "claimed"
    /\ \E p \in PageReads(reader[r].kind) :
          /\ ~p.fails
          /\ Holds(r, "recording", reader[r].kind, p.read, p.says)
    /\ UNCHANGED <<column, site, status, value, word, newest>>

\* A page that does not load, is blocked, or has nothing in it.
GiveUp(r, how) ==
    /\ reader[r].job = "claimed"
    /\ status' = how
    /\ reader' = [reader EXCEPT ![r] = Idle]
    /\ UNCHANGED <<column, site, value, reads, shown, word, newest, overlaid>>

\* update_detail, of as little as an empty dictionary.
Record(r) ==
    /\ reader[r].job = "recording"
    /\ status' = "done"
    /\ value' = Detailed(column, value, reader[r].read)
    /\ Hear(r)
    /\ reader' = [reader EXCEPT ![r] = Idle]
    /\ UNCHANGED <<column, site, reads, shown, overlaid>>

\* A session ends with what it had at hand: also if another has inserted the flat
\* between its SELECT and its INSERT.
Die(r) ==
    /\ reader[r].job # "idle"
    /\ reader' = [reader EXCEPT ![r] = Idle]
    /\ UNCHANGED <<column, site, status, value, reads, shown, word, newest, overlaid>>

\* reset_blocked and reset_stale_in_progress.
Reset ==
    /\ status \in {"blocked", "in_progress"}
    /\ status' = "pending"
    /\ UNCHANGED <<column, site, value, reader, reads, shown, word, newest, overlaid>>

Next ==
    \/ \E r \in Readers :
          \/ \E v \in Card : ReadCard(r, v)
          \/ \E kind \in {"cian", "domclick"} : Select(r, kind)
          \/ \E how \in {"failed", "blocked"} : GiveUp(r, how)
          \/ SaveCard(r) \/ Claim(r) \/ ReadPage(r) \/ Record(r) \/ Die(r)
    \/ Reset

Spec == Init /\ [][Next]_vars
-----------------------------------------------------------------------------
\* Whatever is in the row stands on a card or a page that was read of this flat:
\* merging the state with the elements, defaults, conversions and sessions that
\* overtake one another never make a value up.  The bathrooms are a sum of one count
\* of connected and one of separated ones that one page shows, but not always in
\* the same part of it: two in the original data and two in the normalised may
\* give three.
OnlyWhatWasShown == value \in Values => value \in shown

\* Unless sessions overtake one another, the newest word stands: where all that a
\* page's state shows of the column, or its elements if it shows nothing, is one
\* readable thing, the row has it; a page or card that is silent, on a site that is
\* not the session's own too, leaves the row as it was.
NewestWordStands == ~overlaid => value \in word

\* What may become of a known value: a flag or count is set to no by a state without
\* the list, and a text is emptied by a detail page that shows it and leaves it empty.
Losses == (IF column \in Listed THEN {No} ELSE {})
          \cup (IF column \in Texts THEN {Blank} ELSE {})

\* Nothing else that is known of a flat is ever lost, whoever overtakes whom.
KnownStaysKnown == [][(value \in Values) => (value' \in Values \cup Losses)]_vars
=============================================================================
