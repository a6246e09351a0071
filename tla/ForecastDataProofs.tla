-------------------------- MODULE ForecastDataProofs --------------------------
(***************************************************************************)
(* Proofs about the two ends of forecasting-service's data: what the table *)
(* of flats says (FlatRecord), for any number of sessions and of readings  *)
(* and whatever columns may say; and what the price model makes of the     *)
(* files that training leaves (PriceModel), for any number of requests and *)
(* of trainings and whatever columns the flats have.                       *)
(***************************************************************************)
EXTENDS FlatRecord, PriceModel, TLAPS

USE RecordAssumption DEF RecordAssumption

(***************************************************************************)
(* The kinds of columns, and what the places of a page may show.           *)
(***************************************************************************)

\* The rules of the state exclude one another.
LEMMA KindsOfColumns ==
    /\ NamedColumns \cap (Flags \cup PhotoColumns \cup RawTexts \cup ListingTexts) = {}
    /\ Flags \cap (PhotoColumns \cup RawTexts \cup ListingTexts) = {}
    /\ PhotoColumns \cap (RawTexts \cup ListingTexts) = {}
    /\ DetailColumns \cap ListingColumns = {}
    /\ RawTexts \cup NamedColumns \cup CianColumns \subseteq DetailColumns
    /\ Texts \cap Listed = {}
    /\ ListingNumbers \cap ListingTexts = {}
BY DEF NamedColumns, Flags, KeyColumns, PhotoColumns, HousePhotos, RawTexts, ListingTexts,
    DetailColumns, ListingColumns, ListingNumbers, CianColumns, Texts, Listed,
    OfferColumns, HouseColumns, ComplexColumns, SellerColumns, ActivityColumns,
    MarketColumns, TermColumns

\* A place of the state shows what a place of it may.
LEMMA StatePlaces ==
    ASSUME NEW c \in Columns, c # "bathroom_count",
           NEW p \in DomclickPage(c), NEW x \in {p.best, p.other}
    PROVE  /\ x \in Values \cup {Missing, Blank, Odd, No}
           /\ x = No => c \in Flags
           /\ x = Blank => c \notin Flags \cup PhotoColumns
           /\ x = Odd => c \notin Flags \cup PhotoColumns \cup RawTexts \cup ListingTexts
<1>1. x \in InState(c)
  BY DEF DomclickPage, OnlyIn, InState
<1>2. CASE c \in Flags
  BY <1>1, <1>2, KindsOfColumns DEF InState
<1>3. CASE c \in PhotoColumns
  BY <1>1, <1>3, KindsOfColumns DEF InState
<1>4. CASE c \in RawTexts \cup ListingTexts
  BY <1>1, <1>4, KindsOfColumns DEF InState
<1>5. CASE c \notin Flags \cup PhotoColumns \cup RawTexts \cup ListingTexts
  BY <1>1, <1>5 DEF InState
<1> QED BY <1>2, <1>3, <1>4, <1>5

(***************************************************************************)
(* What is read of the state.                                              *)
(***************************************************************************)

\* The bathrooms are one column of the offer.
LEMMA BathroomsAreCounted ==
    /\ "bathroom_count" \in DetailColumns
    /\ "bathroom_count" \notin NamedColumns \cup Listed \cup RawTexts \cup ListingTexts
    /\ "bathroom_count" \in TwoPlaces /\ "bathroom_count" \in Columns \ CianColumns
BY DEF DetailColumns, OfferColumns, NamedColumns, Listed, Flags, KeyColumns, PhotoColumns,
    HousePhotos, RawTexts, ListingTexts, TwoPlaces, Columns, CianColumns, MarketColumns

\* A sum of bathrooms is a number that a column may have, or there are none.
LEMMA SumsOfBathrooms ==
    ASSUME NEW a, NEW b
    PROVE  Bathrooms(a, b) \in Values \cup {Missing}
<1>1. AsCount(a) \in Counts \cup {0} /\ AsCount(b) \in Counts \cup {0}
  BY DEF AsCount
<1> QED BY <1>1 DEF Bathrooms

\* The bathrooms are recorded as one of the sums the page shows, or not at all.
LEMMA BathroomsRead ==
    ASSUME NEW p \in DomclickPage("bathroom_count")
    PROVE  LET v == BathroomCount(p)
               shows == BathroomsShown(p)
           IN  /\ v \in shows \cup {Missing} /\ v \in Values \cup {Missing}
               /\ v = Missing /\ shows # {} => Odd \in shows
               /\ shows \subseteq Values \cup {Odd}
<1> DEFINE a == FirstNotNone(p.best, p.other)
           b == FirstNotNone(p.best2, p.other2)
           connected == AnyOf({p.best, p.other})
           separated == AnyOf({p.best2, p.other2})
           n == Bathrooms(a, b)
           none == {p.best, p.other, p.best2, p.other2} = {Missing}
           said == IF n = Missing THEN Odd ELSE n
<1>1. a \in connected /\ b \in separated
  BY DEF FirstNotNone, AnyOf
<1>2. n \in Values \cup {Missing}
  BY SumsOfBathrooms
<1>3. BathroomCount(p) = n
  BY DEF BathroomCount
<1>4. none => n = Missing
  BY DEF FirstNotNone, Bathrooms, AsCount
<1>5. none => BathroomsShown(p) = {}
  BY DEF BathroomsShown
<1>6. ~none => said \in BathroomsShown(p)
  BY <1>1 DEF BathroomsShown
<1>7. BathroomsShown(p) \subseteq Values \cup {Odd}
  <2>1. SUFFICES ASSUME NEW x \in BathroomsShown(p) PROVE x \in Values \cup {Odd}
    OBVIOUS
  <2>2. PICK i, j : x = IF Bathrooms(i, j) = Missing THEN Odd ELSE Bathrooms(i, j)
    BY DEF BathroomsShown
  <2> QED BY <2>2, SumsOfBathrooms
<1> HIDE DEF a, b, n, none
<1> QED BY <1>2, <1>3, <1>4, <1>5, <1>6, <1>7

\* The entry is what the state shows of the column, or nothing; where no place shows
\* anything, it is a plain no of a list, and nothing of another column.
StateReads(c, p) ==
    LET v == StateValue(c, p)
        places == StateShows(c, p)
    IN  /\ v \in places \cup {Missing, No}
        /\ v # Odd
        /\ v = Blank => c \in RawTexts \cup ListingTexts
        /\ v = No => c \in Listed /\ places \subseteq {No} \cup Values
        /\ v = No /\ No \notin places => places = {}
        /\ places = {} /\ c \in Listed => v = No
        /\ \A w \in Values \cup {No} : places = {w} => v = w
        /\ places \subseteq Values \cup {Blank, Odd, No}

\* So it is with every column.
LEMMA StateReading ==
    ASSUME NEW c \in Columns, NEW p \in DomclickPage(c)
    PROVE  StateReads(c, p)
<1>0. CASE c = "bathroom_count"
  <2>1. StateValue(c, p) = BathroomCount(p) /\ StateShows(c, p) = BathroomsShown(p)
    BY <1>0, BathroomsAreCounted DEF StateValue, StateShows
  <2>2. c \notin Listed
    BY <1>0, BathroomsAreCounted
  <2>3. /\ BathroomCount(p) \in Values \cup {Missing}
        /\ BathroomCount(p) \in BathroomsShown(p) \cup {Missing}
        /\ BathroomCount(p) = Missing /\ BathroomsShown(p) # {} => Odd \in BathroomsShown(p)
        /\ BathroomsShown(p) \subseteq Values \cup {Odd}
    BY <1>0, BathroomsRead
  <2> QED BY <2>1, <2>2, <2>3 DEF StateReads
<1> SUFFICES ASSUME c # "bathroom_count" PROVE StateReads(c, p)
  BY <1>0
<1> DEFINE v == StateValue(c, p)
           places == {p.best, p.other} \ {Missing}
<1>7. StateShows(c, p) = places
  BY DEF StateShows
<1>1. /\ p.best \in Values \cup {Missing, Blank, Odd, No}
      /\ p.other \in Values \cup {Missing, Blank, Odd, No}
  BY StatePlaces
<1>2. \A x \in {p.best, p.other} :
         /\ x = No => c \in Flags
         /\ x = Blank => c \notin Flags \cup PhotoColumns
         /\ x = Odd => c \notin Flags \cup PhotoColumns \cup RawTexts \cup ListingTexts
  BY StatePlaces
<1>3. CASE c \in NamedColumns
  BY <1>1, <1>2, <1>7, <1>3, KindsOfColumns
  DEF StateReads, StateValue, Named, ToNumber, FirstNotNone, Listed
<1>4. CASE c \in Listed
  BY <1>1, <1>2, <1>7, <1>4, KindsOfColumns
  DEF StateReads, StateValue, InList, FirstNotNone, Listed
<1>5. CASE c \in RawTexts \cup ListingTexts
  BY <1>1, <1>2, <1>7, <1>5, KindsOfColumns
  DEF StateReads, StateValue, FirstNotNone, Listed
<1>6. CASE c \notin NamedColumns \cup Listed \cup RawTexts \cup ListingTexts
  BY <1>1, <1>2, <1>7, <1>6
  DEF StateReads, StateValue, Converted, ToNumber, FirstNotNone, Listed
<1> QED BY <1>3, <1>4, <1>5, <1>6

(***************************************************************************)
(* What is read of the elements, and of the whole page.                    *)
(***************************************************************************)

\* Columns that new-building sections fill keep an empty text only if they are texts.
LEMMA ElementPlaces ==
    ASSUME NEW c \in Columns, NEW p \in DomclickPage(c)
    PROVE  /\ p.first \in Values \cup {Missing, Blank, Odd}
           /\ p.second \in Values \cup {Missing, Blank, Odd}
           /\ p.second = Blank => c = "living_meters" \/ c \in Texts \cup ListingTexts
           /\ p.second # Missing => c \in InSections
<1>1. /\ p.first \in InElement(c) \cup {Missing}
      /\ \/ p.second = Missing
         \/ c = "elevator_passenger" /\ p.second \in {Missing, Odd, One}
         \/ /\ c \in InSections /\ c # "elevator_passenger"
            /\ p.second \in InElement(c)
  BY DEF DomclickPage, OnlyIn, InElement, InSections
<1>2. InElement(c) \subseteq Values \cup {Missing, Blank, Odd}
  BY DEF InElement
<1>3. c = "elevator_passenger" => c \in InSections
  BY DEF InSections
<1>4. c \in InSections /\ c # "elevator_passenger" /\ c # "living_meters"
      => c \in Texts \cup ListingTexts
  BY DEF InSections, Texts, RawTexts, NamedColumns, ListingTexts
<1> QED BY <1>1, <1>2, <1>3, <1>4

\* The entry of a column is what an element says, or there is none, or it is None; an
\* element that is not readable does not hide the other.
LEMMA HtmlReading ==
    ASSUME NEW c \in Columns, NEW p \in DomclickPage(c)
    PROVE  LET v == HtmlValue(c, p)
               places == {p.first, p.second} \ {Missing}
           IN  /\ v \in (places \ {Odd}) \cup {Missing, NoKey}
               /\ v = Blank => c \in Texts \cup ListingTexts
               /\ \A w \in Values : places = {w} => v = w
<1>1. /\ p.first \in Values \cup {Missing, Blank, Odd}
      /\ p.second \in Values \cup {Missing, Blank, Odd}
      /\ p.second = Blank => c = "living_meters" \/ c \in Texts \cup ListingTexts
  BY ElementPlaces
<1>2. CASE c = "living_meters"
  BY <1>1, <1>2 DEF HtmlValue, MainItem, SetDefault, ToNumber
<1>3. CASE c # "living_meters"
  BY <1>1, <1>3 DEF HtmlValue, MainItem, SetDefault
<1> QED BY <1>2, <1>3

\* What the record may make of what a page says: it takes something of it, or
\* nothing if the page is not of one mind.
Faithful(read, says) ==
    \/ read \in says \ {Odd}
    \/ read \in {NoKey, Missing} /\ ~OneMind(says)

\* What a detail column may be overwritten with.
Writable(c, read) ==
    read \in Values \cup {NoKey, Missing}
             \cup (IF c \in Listed THEN {No} ELSE {})
             \cup (IF c \in Texts THEN {Blank} ELSE {})

\* A page of DomClick is read faithfully.
LEMMA DomclickIsFaithful ==
    ASSUME NEW c \in DetailColumns, NEW p \in DomclickPage(c)
    PROVE  /\ Faithful(DomclickValue(c, p), DomclickSays(c, p))
           /\ Writable(c, DomclickValue(c, p))
           /\ DomclickSays(c, p) \subseteq Values \cup {Blank, Odd, No}
<1> DEFINE html == HtmlValue(c, p)
           elements == {p.first, p.second} \ {Missing}
           places == StateShows(c, p)
<1>1. c \in Columns /\ c \notin ListingTexts
  BY KindsOfColumns DEF Columns, ListingColumns
<1>2. /\ html \in (elements \ {Odd}) \cup {Missing, NoKey}
      /\ html = Blank => c \in Texts
      /\ \A w \in Values : elements = {w} => html = w
      /\ elements \subseteq Values \cup {Blank, Odd}
  BY <1>1, HtmlReading, ElementPlaces
<1>3. CASE p.state # "read"
  <2>1. DomclickValue(c, p) = html
    BY <1>3 DEF DomclickValue, StateEntry, Merge
  <2>2. DomclickSays(c, p) = elements
    BY <1>3 DEF DomclickSays, OneMind
  <2> QED BY <1>2, <2>1, <2>2 DEF Faithful, Writable, OneMind
<1>4. CASE p.state = "read"
  <2> DEFINE v == StateValue(c, p)
             state == IF c \in Listed /\ places = {} THEN {No} ELSE places
  <2>1. /\ v \in places \cup {Missing, No}
        /\ v # Odd
        /\ v = Blank => c \in Texts
        /\ v = No => c \in Listed
        /\ v = No /\ No \notin places => places = {}
        /\ places = {} /\ c \in Listed => v = No
        /\ \A w \in Values \cup {No} : places = {w} => v = w
    BY <1>1, StateReading DEF StateReads, Texts
  <2>2. places \subseteq Values \cup {Blank, Odd, No}
    BY <1>1, StateReading DEF StateReads
  <2>3. /\ v \in (state \ {Odd}) \cup {Missing}
        /\ v = No => c \in Listed
        /\ v = Blank => c \in Texts
        /\ \A w \in Values \cup {No} : state = {w} => v = w
    BY <2>1
  <2>4. state \subseteq Values \cup {Blank, Odd, No}
    BY <2>2
  <2>5. DomclickValue(c, p) = IF v \in {Missing, Blank} THEN html ELSE v
    BY <1>4, <2>3, <2>4 DEF DomclickValue, StateEntry, Merge
  <2>6. DomclickSays(c, p) = IF OneMind(state) THEN state ELSE state \cup elements
    BY <1>4 DEF DomclickSays
  <2> HIDE DEF v, state, html, elements
  <2>7. CASE OneMind(state)
    <3>1. PICK w \in Values \cup {No} : state = {w}
      BY <2>7 DEF OneMind
    <3>2. DomclickValue(c, p) = w /\ DomclickSays(c, p) = {w}
      BY <2>3, <2>5, <2>6, <2>7, <3>1
    <3>3. w = No => c \in Listed
      BY <2>3, <3>1
    <3> QED BY <3>1, <3>2, <3>3 DEF Faithful, Writable
  <2>8. CASE ~OneMind(state)
    <3>1. DomclickSays(c, p) = state \cup elements
      BY <2>6, <2>8
    <3>2. CASE v \notin {Missing, Blank}
      <4>1. DomclickValue(c, p) = v
        BY <2>5, <3>2
      <4> QED BY <1>2, <2>3, <2>4, <3>1, <3>2, <4>1 DEF Faithful, Writable
    <3>3. CASE v \in {Missing, Blank}
      <4>1. DomclickValue(c, p) = html
        BY <2>5, <3>3
      <4>2. CASE html \in elements \ {Odd}
        BY <1>2, <2>4, <3>1, <4>1, <4>2 DEF Faithful, Writable
      <4>3. CASE html \in {Missing, NoKey}
        <5>1. ~OneMind(state \cup elements)
          <6>1. SUFFICES ASSUME NEW w \in Values \cup {No}, state \cup elements = {w}
                         PROVE  FALSE
            BY DEF OneMind
          <6>2. state = {} \/ state = {w}
            BY <6>1
          <6>3. state = {} /\ elements = {w} /\ w # No
            BY <1>2, <2>8, <6>1, <6>2 DEF OneMind
          <6> QED BY <1>2, <4>3, <6>3
        <5> QED BY <1>2, <2>4, <3>1, <4>1, <4>3, <5>1 DEF Faithful, Writable
      <4> QED BY <1>2, <4>2, <4>3
    <3> QED BY <3>2, <3>3
  <2> QED BY <2>7, <2>8
<1> QED BY <1>3, <1>4

\* Whatever the column, only what a row can have is read of a page of DomClick.
LEMMA DomclickReadings ==
    ASSUME NEW c \in Columns, NEW p \in DomclickPage(c)
    PROVE  DomclickValue(c, p) \in Readings
<1>1. HtmlValue(c, p) \in Readings
  BY HtmlReading, ElementPlaces DEF Readings
<1>2. StateEntry(c, p) \in Readings
  BY StateReading DEF StateReads, StateEntry, Readings
<1> QED BY <1>1, <1>2 DEF DomclickValue, Merge

\* So is a page of Cian, which says nothing of the columns of the listing.
LEMMA CianIsFaithful ==
    ASSUME NEW c \in Columns, NEW p \in CianPage(c)
    PROVE  /\ c \in DetailColumns => /\ Faithful(CianValue(c, p), CianSays(c, p))
                                     /\ Writable(c, CianValue(c, p))
           /\ c \notin DetailColumns => CianSays(c, p) = {}
           /\ CianSays(c, p) \subseteq Values \cup {Blank, Odd}
           /\ CianValue(c, p) \in Readings
<1>1. /\ p.first \in InElement(c) \cup {Missing}
      /\ p.second \in InElement(c) \cup {Missing}
      /\ p.later \in InElement(c) \cup {Missing}
      /\ c \notin InGroups => p.first = Missing /\ p.second = Missing
      /\ c \notin InLaterSections => p.later = Missing
  BY DEF CianPage, OnlyIn
<1>2. /\ InElement(c) \subseteq Values \cup {Missing, Blank, Odd}
      /\ c \in KeyColumns => InElement(c) \subseteq Values \cup {Missing}
      /\ c \notin KeyColumns /\ c \in Texts
            => InElement(c) \subseteq Values \cup {Missing, Blank}
  BY DEF InElement
<1>3. /\ c \in InGroups \cup InLaterSections => c \in DetailColumns
      /\ c \in InGroups \cup InLaterSections
            => c \in {"bathroom_count", "elevator_passenger", "living_meters",
                      "entrances_count"} \cup KeyColumns \cup Texts
      /\ c \in Texts => c \notin KeyColumns \cup {"bathroom_count", "elevator_passenger",
                                      "living_meters", "entrances_count"}
      /\ c \in KeyColumns => c \notin {"bathroom_count", "elevator_passenger",
                                      "living_meters", "entrances_count"}
  BY DEF InGroups, InLaterSections, DetailColumns, Texts, KeyColumns, OfferColumns,
      NamedColumns, HouseColumns, ComplexColumns, CianColumns, RawTexts, SellerColumns,
      TermColumns
<1>4. CASE c = "bathroom_count"
  <2>1. c \notin InLaterSections /\ c \in DetailColumns
    BY <1>4 DEF InLaterSections, DetailColumns, OfferColumns
  <2>2. CianValue(c, p) = LastItem(c, p)
    BY <1>1, <2>1 DEF CianValue
  <2>3. CianValue(c, p) \in Values \cup {NoKey}
    BY <1>4, <2>2 DEF LastItem, BathroomItem
  <2>4. Faithful(CianValue(c, p), CianSays(c, p))
    BY <1>1, <1>2, <1>4, <2>1, <2>2
    DEF LastItem, BathroomItem, CianSays, Faithful, OneMind
  <2>5. CianSays(c, p) \subseteq Values \cup {Blank, Odd}
    BY <1>1, <1>2 DEF CianSays
  <2> QED BY <2>1, <2>3, <2>4, <2>5 DEF Writable, Readings
<1>5. CASE c # "bathroom_count"
  <2>1. CianSays(c, p) = {p.first, p.second, p.later} \ {Missing}
    BY <1>5 DEF CianSays
  <2>2. CianSays(c, p) \subseteq Values \cup {Blank, Odd}
    BY <1>1, <1>2, <2>1
  <2>3. CASE c \in {"elevator_passenger", "living_meters", "entrances_count"}
    <3>1. c \notin InLaterSections /\ c \in DetailColumns
      BY <2>3 DEF InLaterSections, DetailColumns, OfferColumns, HouseColumns
    <3>2. CianValue(c, p) = LastItem(c, p)
      BY <1>1, <3>1 DEF CianValue
    <3>3. CianValue(c, p) \in Values \cup {NoKey, Missing}
      BY <1>5, <2>3, <3>2 DEF LastItem, ToNumber
    <3>4. Faithful(CianValue(c, p), CianSays(c, p))
      BY <1>1, <1>2, <1>5, <2>1, <2>3, <3>1, <3>2
      DEF LastItem, ToNumber, Faithful, OneMind
    <3> QED BY <2>2, <3>1, <3>3, <3>4 DEF Writable, Readings
  <2>4. CASE c \in KeyColumns \cup Texts
    <3>1. /\ p.first \in Values \cup {Missing, Blank}
          /\ p.second \in Values \cup {Missing, Blank}
          /\ p.later \in Values \cup {Missing, Blank}
          /\ c \notin Texts => Blank \notin {p.first, p.second, p.later}
      BY <1>1, <1>2, <2>4
    <3>2. LastItem(c, p) = IF p.second # Missing THEN p.second
                           ELSE IF p.first # Missing THEN p.first ELSE NoKey
      BY <1>3, <1>5, <2>4 DEF LastItem
    <3>0. c \in DetailColumns
      BY <2>4, KindsOfColumns DEF Texts, DetailColumns
    <3>3. CianValue(c, p) \in CianSays(c, p) \cup {NoKey}
      BY <2>1, <3>1, <3>2 DEF CianValue, SetDefault
    <3>4. CASE CianValue(c, p) # NoKey
      <4>1. CianValue(c, p) \in CianSays(c, p) \ {Odd}
        BY <2>1, <3>1, <3>3, <3>4
      <4>2. CianValue(c, p) \in Values \/ (CianValue(c, p) = Blank /\ c \in Texts)
        BY <2>1, <2>2, <3>1, <4>1
      <4> QED BY <2>2, <3>0, <4>1, <4>2 DEF Faithful, Writable, Readings
    <3>5. CASE CianValue(c, p) = NoKey
      <4>1. p.first = Missing /\ p.second = Missing /\ p.later \in {Missing, Blank}
        BY <3>1, <3>2, <3>5 DEF CianValue, SetDefault
      <4>2. ~OneMind(CianSays(c, p))
        BY <2>1, <4>1 DEF OneMind
      <4> QED BY <2>2, <3>0, <3>5, <4>2 DEF Faithful, Writable, Readings
    <3> QED BY <3>4, <3>5
  <2>5. CASE c \notin InGroups \cup InLaterSections
    <3>1. CianValue(c, p) = NoKey /\ CianSays(c, p) = {}
      BY <1>1, <2>1, <2>5 DEF CianValue, LastItem
    <3> QED BY <3>1 DEF Faithful, Writable, OneMind, Readings
  <2> QED BY <1>3, <1>5, <2>3, <2>4, <2>5
<1> QED BY <1>4, <1>5

(***************************************************************************)
(* The sessions.                                                           *)
(***************************************************************************)

\* What a session has read of a card.
CardRead(r) ==
    /\ reader[r].read \in CianCard(column)
    /\ reader[r].says = {reader[r].read} \ {Missing, Blank}

\* What it has read of a page.
PageRead(r) ==
    /\ column \in DetailColumns => /\ Faithful(reader[r].read, reader[r].says)
                                   /\ Writable(column, reader[r].read)
    /\ column \notin DetailColumns => reader[r].says = {}

Reads == {"listing", "recording"}

\* Every session read faithfully, before now.
ReadFaithfully ==
    \A r \in Readers :
        /\ reader[r].job = "listing" => CardRead(r)
        /\ reader[r].job = "recording" => PageRead(r)
        /\ reader[r].job \in Reads => /\ reader[r].says \cap Values \subseteq shown
                                      /\ reader[r].at <= reads

\* A flat that is not listed has no row to work on.
NothingUnlisted ==
    status = "unlisted" =>
        /\ value = Missing /\ {Missing, Blank} \subseteq word
        /\ \A r \in Readers : reader[r].job \in {"idle", "listing"}

\* Nobody is about to write something older than what the row has.
InTurn ==
    /\ \A r \in Readers : reader[r].job \in Reads /\ reader[r].says # {}
                          => reader[r].at > newest
    /\ \A r, s \in Readers : r # s /\ reader[r].job = reader[s].job
                             => reader[r].job \notin Reads

Inv ==
    /\ TypeOK
    /\ newest <= reads
    /\ ReadFaithfully
    /\ NothingUnlisted
    /\ OnlyWhatWasShown
    /\ ~overlaid => InTurn
    /\ NewestWordStands

\* Nothing is listed and nobody is at work.
LEMMA Initially == Init => Inv
<1> SUFFICES ASSUME Init PROVE Inv
  OBVIOUS
<1>1. Idle \in Reader /\ Idle.job = "idle"
  BY DEF Idle, Reader, Readings, Jobs
<1>2. \A r \in Readers : reader[r].job = "idle"
  BY <1>1 DEF Init
<1>3. overlaid \in BOOLEAN
  BY DEF Init
<1>4. TypeOK
  BY <1>1, <1>3 DEF Init, TypeOK
<1>5. ReadFaithfully /\ NothingUnlisted /\ InTurn
  BY <1>2 DEF Init, ReadFaithfully, NothingUnlisted, InTurn, Reads
<1>6. OnlyWhatWasShown /\ NewestWordStands /\ newest <= reads
  BY DEF Init, OnlyWhatWasShown, NewestWordStands
<1> QED BY <1>4, <1>5, <1>6 DEF Inv

\* A page is read faithfully, whoever reads it.
LEMMA PagesAreRead ==
    ASSUME column \in Columns, NEW kind \in {"cian", "domclick"}, NEW p \in PageReads(kind)
    PROVE  /\ p.read \in Readings
           /\ p.says \in SUBSET (Values \cup {Blank, Odd, No})
           /\ column \in DetailColumns => Faithful(p.read, p.says) /\ Writable(column, p.read)
           /\ column \notin DetailColumns => p.says = {}
<1>1. CASE kind = "domclick"
  <2>1. PICK q \in DomclickPage(column) :
           p = [fails |-> DomclickFails(column, q), read |-> DomclickValue(column, q),
                says |-> IF column \in DetailColumns THEN DomclickSays(column, q) ELSE {}]
    BY <1>1 DEF PageReads, DomclickReads
  <2> QED BY <2>1, DomclickIsFaithful, DomclickReadings
<1>2. CASE kind # "domclick" /\ site = "cian"
  <2>1. PICK q \in CianPage(column) :
           p = [fails |-> FALSE, read |-> CianValue(column, q), says |-> CianSays(column, q)]
    BY <1>2 DEF PageReads, CianReads
  <2> QED BY <2>1, CianIsFaithful
<1>3. CASE kind # "domclick" /\ site # "cian"
  <2>1. p.read = NoKey /\ p.says = {}
    BY <1>3 DEF PageReads
  <2> QED BY <2>1 DEF Readings, Faithful, Writable, OneMind
<1> QED BY <1>1, <1>2, <1>3

\* What a session has at hand, it read faithfully and last.
LEMMA Holding ==
    ASSUME Inv, NEW r \in Readers, NEW job \in Reads, NEW kind \in {"cian", "domclick"},
           NEW read \in Readings, NEW says \in SUBSET (Values \cup {Blank, Odd, No}),
           Holds(r, job, kind, read, says),
           job = "listing" => read \in CianCard(column) /\ says = {read} \ {Missing, Blank},
           job = "recording" =>
               /\ status # "unlisted"
               /\ column \in DetailColumns => Faithful(read, says) /\ Writable(column, read)
               /\ column \notin DetailColumns => says = {},
           UNCHANGED <<column, site, status, value, word, newest>>
    PROVE  Inv'
<1> DEFINE new == [job |-> job, kind |-> kind, read |-> read, says |-> says, at |-> reads']
<1>1. /\ reads \in Nat /\ newest \in Nat /\ newest <= reads
      /\ reader \in [Readers -> Reader]
  BY DEF Inv, TypeOK
<1>2. /\ reads' = reads + 1
      /\ reader' = [reader EXCEPT ![r] = new]
      /\ shown' = shown \cup (says \cap Values)
  BY DEF Holds
<1>3. new \in Reader
  BY <1>1, <1>2 DEF Reader, Jobs, Reads
<1>4. overlaid' \in BOOLEAN
  BY DEF Holds, Inv, TypeOK
<1>5. TypeOK'
  BY <1>1, <1>2, <1>3, <1>4 DEF Inv, TypeOK
<1>6. reader'[r] = new /\ \A s \in Readers \ {r} : reader'[s] = reader[s]
  BY <1>1, <1>2
<1>7. (newest <= reads)'
  BY <1>1, <1>2
<1>8. ReadFaithfully'
  <2>1. SUFFICES ASSUME NEW s \in Readers
                 PROVE  /\ reader'[s].job = "listing" => CardRead(s)'
                        /\ reader'[s].job = "recording" => PageRead(s)'
                        /\ reader'[s].job \in Reads =>
                              /\ reader'[s].says \cap Values \subseteq shown'
                              /\ reader'[s].at <= reads'
    BY DEF ReadFaithfully
  <2>2. CASE s = r
    BY <1>1, <1>2, <1>6, <2>2 DEF CardRead, PageRead
  <2>3. CASE s # r
    <3>1. reader'[s] = reader[s] /\ reader[s] \in Reader
      BY <1>1, <1>6, <2>3
    <3>2. /\ reader[s].job = "listing" => CardRead(s)
          /\ reader[s].job = "recording" => PageRead(s)
          /\ reader[s].job \in Reads => /\ reader[s].says \cap Values \subseteq shown
                                        /\ reader[s].at <= reads
      BY DEF Inv, ReadFaithfully
    <3> QED BY <1>1, <1>2, <3>1, <3>2 DEF CardRead, PageRead, Reader
  <2> QED BY <2>2, <2>3
<1>9. NothingUnlisted'
  BY <1>6 DEF Inv, NothingUnlisted, Reads
<1>10. OnlyWhatWasShown'
  BY <1>2 DEF Inv, OnlyWhatWasShown
<1>11. ASSUME ~overlaid' PROVE InTurn'
  <2>1. ~overlaid /\ \A s \in Readers \ {r} : reader[s].job # job
    BY <1>11 DEF Holds
  <2>2. InTurn
    BY <2>1 DEF Inv
  <2>3. reader'[r].at > newest
    BY <1>1, <1>2, <1>6
  <2> QED BY <1>6, <2>1, <2>2, <2>3 DEF InTurn
<1>12. NewestWordStands'
  <2>1. overlaid => overlaid'
    BY DEF Holds
  <2> QED BY <2>1 DEF Inv, NewestWordStands
<1> QED BY <1>5, <1>7, <1>8, <1>9, <1>10, <1>11, <1>12 DEF Inv

\* A session that sets about, gives up or dies leaves the others and the row as
\* they are.
LEMMA Turning ==
    ASSUME Inv, NEW r \in Readers, NEW new \in Reader, new.job \notin Reads,
           reader' = [reader EXCEPT ![r] = new],
           status' \in {"unlisted", "pending", "in_progress", "done", "failed", "blocked"},
           status' = "unlisted" => status = "unlisted" /\ new.job = "idle",
           UNCHANGED <<column, site, value, reads, shown, word, newest, overlaid>>
    PROVE  Inv'
<1>1. reader \in [Readers -> Reader]
  BY DEF Inv, TypeOK
<1>2. reader'[r] = new /\ \A s \in Readers \ {r} : reader'[s] = reader[s]
  BY <1>1
<1>3. TypeOK'
  <2>1. reader' \in [Readers -> Reader]
    BY <1>1
  <2>2. overlaid' \in BOOLEAN
    BY DEF Inv, TypeOK
  <2> QED BY <2>1, <2>2 DEF Inv, TypeOK
<1>4. ReadFaithfully'
  <2>1. SUFFICES ASSUME NEW s \in Readers, reader'[s].job \in Reads
                 PROVE  /\ reader'[s].job = "listing" => CardRead(s)'
                        /\ reader'[s].job = "recording" => PageRead(s)'
                        /\ reader'[s].says \cap Values \subseteq shown'
                        /\ reader'[s].at <= reads'
    BY DEF ReadFaithfully, Reads
  <2>2. reader'[s] = reader[s]
    BY <1>2, <2>1
  <2> QED BY <2>1, <2>2 DEF Inv, ReadFaithfully, CardRead, PageRead
<1>5. NothingUnlisted'
  BY <1>2 DEF Inv, NothingUnlisted
<1>6. InTurn => InTurn'
  BY <1>2 DEF InTurn
<1>7. OnlyWhatWasShown' /\ NewestWordStands' /\ (newest <= reads)'
  BY DEF Inv, OnlyWhatWasShown, NewestWordStands
<1> QED BY <1>3, <1>4, <1>5, <1>6, <1>7 DEF Inv

\* What the row may become when r writes: something of what was said, what it was,
\* or nothing where nothing was said.
Written(r) ==
    \/ value' \in reader[r].says \ {Odd}
    \/ value' = value /\ ~OneMind(reader[r].says)
    \/ status = "unlisted" /\ value' \in {Missing, Blank} /\ reader[r].says = {}

\* A session that writes in its turn makes its word the newest.
LEMMA Hearing ==
    ASSUME Inv, ~overlaid, NEW r \in Readers, reader[r].job \in Reads, Hear(r), Written(r)
    PROVE  value' \in word'
<1>1. value \in word /\ InTurn
  BY DEF Inv, NewestWordStands
<1>2. CASE reader[r].says = {}
  <2>1. word' = word
    BY <1>2 DEF Hear
  <2> QED BY <1>1, <1>2, <2>1 DEF Written, Inv, NothingUnlisted
<1>3. CASE reader[r].says # {}
  <2>1. reader[r].at > newest
    BY <1>1, <1>3 DEF InTurn
  <2>2. word' = IF OneMind(reader[r].says) THEN reader[r].says
                ELSE word \cup (reader[r].says \ {Odd})
    BY <1>3, <2>1 DEF Hear
  <2> QED BY <1>1, <1>3, <2>2 DEF Written
<1> QED BY <1>2, <1>3

\* A session that has written is idle, and the others' turns are still to come.
LEMMA Writing ==
    ASSUME Inv, NEW r \in Readers, reader[r].job \in Reads, Hear(r), Written(r),
           reader' = [reader EXCEPT ![r] = Idle],
           status' \in {"pending", "in_progress", "done", "failed", "blocked"},
           UNCHANGED <<column, site, reads, shown, overlaid>>
    PROVE  Inv'
<1>1. /\ reader \in [Readers -> Reader] /\ word \subseteq Values \cup {Missing, Blank, No}
      /\ newest \in Nat /\ reads \in Nat /\ newest <= reads
      /\ reader[r] \in Reader
  BY DEF Inv, TypeOK
<1>2. Idle \in Reader /\ Idle.job = "idle"
  BY DEF Idle, Reader, Readings, Jobs
<1>3. reader'[r] = Idle /\ \A s \in Readers \ {r} : reader'[s] = reader[s]
  BY <1>1
<1>4. /\ reader[r].says \subseteq Values \cup {Blank, Odd, No}
      /\ reader[r].says \cap Values \subseteq shown
      /\ reader[r].at \in Nat /\ reader[r].at <= reads
  BY <1>1 DEF Inv, ReadFaithfully, Reader
<1>5. value' \in Values \cup {Missing, Blank, No} /\ (value' \in Values => value' \in shown)
  BY <1>4 DEF Written, Inv, TypeOK, OnlyWhatWasShown
<1>6. word' \subseteq Values \cup {Missing, Blank, No} /\ newest' \in Nat /\ newest' <= reads
  BY <1>1, <1>4 DEF Hear, OneMind
<1>7. TypeOK'
  <2>1. reader' \in [Readers -> Reader]
    BY <1>1, <1>2
  <2>2. overlaid' \in BOOLEAN
    BY DEF Inv, TypeOK
  <2> QED BY <1>5, <1>6, <2>1, <2>2 DEF Inv, TypeOK
<1>8. ReadFaithfully'
  <2>1. SUFFICES ASSUME NEW s \in Readers, reader'[s].job \in Reads
                 PROVE  /\ reader'[s].job = "listing" => CardRead(s)'
                        /\ reader'[s].job = "recording" => PageRead(s)'
                        /\ reader'[s].says \cap Values \subseteq shown'
                        /\ reader'[s].at <= reads'
    BY DEF ReadFaithfully, Reads
  <2>2. reader'[s] = reader[s]
    BY <1>2, <1>3, <2>1 DEF Reads
  <2> QED BY <2>1, <2>2 DEF Inv, ReadFaithfully, CardRead, PageRead
<1>9. ASSUME ~overlaid PROVE InTurn'
  <2>1. InTurn
    BY <1>9 DEF Inv
  <2>2. ASSUME NEW s \in Readers, reader'[s].job \in Reads, reader'[s].says # {}
        PROVE  reader'[s].at > newest'
    <3>1. s # r /\ reader'[s] = reader[s]
      BY <1>2, <1>3, <2>2 DEF Reads
    <3>2. reader[s].at > newest /\ reader[s].job # reader[r].job
      BY <2>1, <2>2, <3>1 DEF InTurn
    <3>3. reader[r].says = {}
      <4>1. CASE reader[r].job = "listing"
        <5>1. reader[s].job = "recording" /\ CardRead(r) /\ PageRead(s)
          BY <2>2, <3>1, <3>2, <4>1 DEF Reads, Inv, ReadFaithfully
        <5>2. column \notin ListingColumns
          BY <2>2, <3>1, <5>1, KindsOfColumns DEF PageRead
        <5> QED BY <5>1, <5>2 DEF CardRead, CianCard, ListingColumns
      <4>2. CASE reader[r].job = "recording"
        <5>1. reader[s].job = "listing" /\ CardRead(s) /\ PageRead(r)
          BY <2>2, <3>1, <3>2, <4>2 DEF Reads, Inv, ReadFaithfully
        <5>2. column \in ListingColumns
          BY <2>2, <3>1, <5>1 DEF CardRead, CianCard, ListingColumns
        <5> QED BY <5>1, <5>2, KindsOfColumns DEF PageRead
      <4> QED BY <4>1, <4>2 DEF Reads
    <3> QED BY <3>1, <3>2, <3>3 DEF Hear
  <2>3. \A s, t \in Readers : s # t /\ reader'[s].job = reader'[t].job
                              => reader'[s].job \notin Reads
    BY <1>2, <1>3, <2>1 DEF InTurn, Reads
  <2> QED BY <2>2, <2>3 DEF InTurn
<1>10. NewestWordStands'
  BY Hearing DEF NewestWordStands
<1>11. NothingUnlisted'
  BY DEF NothingUnlisted
<1> QED BY <1>5, <1>6, <1>7, <1>8, <1>9, <1>10, <1>11 DEF Inv, OnlyWhatWasShown

\* A card that is saved leaves what it shows, or what was there.
LEMMA SavedAsRead ==
    ASSUME Inv, NEW r \in Readers, SaveCard(r)
    PROVE  Written(r)
<1>1. CardRead(r)
  BY DEF SaveCard, Inv, ReadFaithfully
<1>2. CASE reader[r].read \in Values
  <2>1. column \in ListingColumns
    BY <1>1, <1>2 DEF CardRead, CianCard, ListingColumns
  <2>2. value' = reader[r].read
    BY <1>2, <2>1 DEF SaveCard, Inserted, Relisted, ListingColumns
  <2> QED BY <1>1, <1>2, <2>2 DEF CardRead, Written
<1>3. CASE reader[r].read \notin Values
  <2>1. /\ reader[r].read \in {Missing, Blank}
        /\ column \in ListingNumbers => reader[r].read = Missing
        /\ column \in ListingTexts /\ column \notin ListingNumbers => reader[r].read = Blank
        /\ column \notin ListingColumns => reader[r].read = Missing
    BY <1>1, <1>3 DEF CardRead, CianCard, ListingColumns
  <2>2. reader[r].says = {}
    BY <1>1, <2>1 DEF CardRead
  <2>3. CASE status = "unlisted"
    <3>1. value' \in {Missing, Blank}
      BY <2>1, <2>3 DEF SaveCard, Inserted
    <3> QED BY <2>2, <2>3, <3>1 DEF Written
  <2>4. CASE status # "unlisted"
    <3>1. value' = value
      BY <2>1, <2>4, KindsOfColumns DEF SaveCard, Relisted, ListingColumns
    <3> QED BY <2>2, <3>1 DEF Written, OneMind
  <2> QED BY <2>3, <2>4
<1> QED BY <1>2, <1>3

\* A page that is recorded leaves what it says, or what was there.
LEMMA RecordedAsRead ==
    ASSUME Inv, NEW r \in Readers, Record(r)
    PROVE  Written(r)
<1>1. PageRead(r)
  BY DEF Record, Inv, ReadFaithfully
<1>2. value' = Detailed(column, value, reader[r].read)
  BY DEF Record
<1> QED BY <1>1, <1>2 DEF PageRead, Faithful, Detailed, Written, OneMind

(***************************************************************************)
(* The invariant, step by step.                                            *)
(***************************************************************************)

\* Every step of every session keeps it.
LEMMA Stepwise == Inv /\ [Next]_vars => Inv'
<1> SUFFICES ASSUME Inv, [Next]_vars PROVE Inv'
  OBVIOUS
<1>1. /\ reader \in [Readers -> Reader] /\ column \in Columns
      /\ site \in {"cian", "domclick"}
  BY DEF Inv, TypeOK
<1>2. ASSUME NEW r \in Readers, NEW v \in Card, ReadCard(r, v) PROVE Inv'
  <2>1. v \in CianCard(column)
    BY <1>2, KindsOfColumns DEF Card, DomclickCard, CianCard
  <2>2. /\ v \in Readings
        /\ {v} \ {Missing, Blank} \in SUBSET (Values \cup {Blank, Odd, No})
    BY <2>1 DEF CianCard, Readings
  <2>3. "listing" \in Reads
    BY DEF Reads
  <2> QED BY <1>1, <1>2, <2>1, <2>2, <2>3, Holding DEF ReadCard
<1>3. ASSUME NEW r \in Readers, SaveCard(r) PROVE Inv'
  <2>1. reader[r].job \in Reads
    BY <1>3 DEF SaveCard, Reads
  <2>2. status' \in {"pending", "in_progress", "done", "failed", "blocked"}
    BY <1>3 DEF SaveCard, Inv, TypeOK
  <2> QED BY <1>3, <2>1, <2>2, SavedAsRead, Writing DEF SaveCard
<1>4. ASSUME NEW r \in Readers, NEW kind \in {"cian", "domclick"}, Select(r, kind)
      PROVE  Inv'
  <2> DEFINE new == [Idle EXCEPT !.job = "selected", !.kind = kind]
  <2>1. new \in Reader /\ new.job \notin Reads
    BY DEF Idle, Reader, Readings, Jobs, Reads
  <2>2. status' = status /\ status # "unlisted"
    BY <1>4 DEF Select
  <2> QED BY <1>4, <2>1, <2>2, Turning DEF Select, Inv, TypeOK
<1>5. ASSUME NEW r \in Readers, Claim(r) PROVE Inv'
  <2> DEFINE new == [reader[r] EXCEPT !.job = "claimed"]
  <2>1. new \in Reader /\ new.job \notin Reads
    BY <1>1 DEF Reader, Jobs, Reads
  <2>2. reader' = [reader EXCEPT ![r] = new]
    BY <1>5 DEF Claim
  <2> QED BY <1>5, <2>1, <2>2, Turning DEF Claim
<1>6. ASSUME NEW r \in Readers, ReadPage(r) PROVE Inv'
  <2>1. PICK p \in PageReads(reader[r].kind) :
           Holds(r, "recording", reader[r].kind, p.read, p.says)
    BY <1>6 DEF ReadPage
  <2>2. reader[r].kind \in {"cian", "domclick"}
    BY <1>1 DEF Reader
  <2>3. /\ p.read \in Readings
        /\ p.says \in SUBSET (Values \cup {Blank, Odd, No})
        /\ column \in DetailColumns => Faithful(p.read, p.says) /\ Writable(column, p.read)
        /\ column \notin DetailColumns => p.says = {}
    BY <1>1, <2>2, PagesAreRead
  <2>4. status # "unlisted"
    BY <1>6 DEF ReadPage, Inv, NothingUnlisted
  <2>5. "recording" \in Reads
    BY DEF Reads
  <2>6. UNCHANGED <<column, site, status, value, word, newest>>
    BY <1>6 DEF ReadPage
  <2> HIDE DEF Reads
  <2> QED BY <2>1, <2>2, <2>3, <2>4, <2>5, <2>6, Holding
<1>7. ASSUME NEW r \in Readers, NEW how \in {"failed", "blocked"}, GiveUp(r, how)
      PROVE  Inv'
  <2>1. Idle \in Reader /\ Idle.job \notin Reads
    BY DEF Idle, Reader, Readings, Jobs, Reads
  <2> QED BY <1>7, <2>1, Turning DEF GiveUp
<1>8. ASSUME NEW r \in Readers, Record(r) PROVE Inv'
  <2>1. reader[r].job \in Reads
    BY <1>8 DEF Record, Reads
  <2> QED BY <1>8, <2>1, RecordedAsRead, Writing DEF Record
<1>9. ASSUME NEW r \in Readers, Die(r) PROVE Inv'
  <2>1. Idle \in Reader /\ Idle.job \notin Reads /\ Idle.job = "idle"
    BY DEF Idle, Reader, Readings, Jobs, Reads
  <2> QED BY <1>9, <2>1, Turning DEF Die, Inv, TypeOK
<1>10. CASE Reset
  <2>1. overlaid' \in BOOLEAN
    BY <1>10 DEF Reset, Inv, TypeOK
  <2> QED BY <1>10, <2>1 DEF Reset, Inv, TypeOK, ReadFaithfully, CardRead, PageRead,
      NothingUnlisted, OnlyWhatWasShown, InTurn, NewestWordStands
<1>11. CASE UNCHANGED vars
  <2>1. overlaid' \in BOOLEAN
    BY <1>11 DEF vars, Inv, TypeOK
  <2> QED BY <1>11, <2>1 DEF vars, Inv, TypeOK, ReadFaithfully, CardRead, PageRead,
      NothingUnlisted, OnlyWhatWasShown, InTurn, NewestWordStands
<1> QED BY <1>2, <1>3, <1>4, <1>5, <1>6, <1>7, <1>8, <1>9, <1>10, <1>11 DEF Next

\* Only saving and recording change the row; neither loses what is known.
LEMMA NothingKnownIsLost ==
    Inv /\ [Next]_vars => (value \in Values => value' \in Values \cup Losses)
<1> SUFFICES ASSUME Inv, [Next]_vars, value \in Values
             PROVE  value' \in Values \cup Losses
  OBVIOUS
<1>1. ASSUME NEW r \in Readers, SaveCard(r) PROVE value' \in Values \cup Losses
  <2>1. status # "unlisted"
    BY DEF Inv, NothingUnlisted
  <2>2. value' = Relisted(column, value, reader[r].read)
    BY <1>1, <2>1 DEF SaveCard
  <2>3. reader[r].read \in CianCard(column)
    BY <1>1 DEF SaveCard, Inv, ReadFaithfully, CardRead
  <2> QED BY <2>2, <2>3, KindsOfColumns DEF Relisted, CianCard
<1>2. ASSUME NEW r \in Readers, Record(r) PROVE value' \in Values \cup Losses
  <2>1. value' = Detailed(column, value, reader[r].read)
    BY <1>2 DEF Record
  <2>2. column \in DetailColumns => Writable(column, reader[r].read)
    BY <1>2 DEF Record, Inv, ReadFaithfully, PageRead
  <2> QED BY <2>1, <2>2 DEF Detailed, Writable, Losses
<1>3. CASE UNCHANGED value
  BY <1>3
<1> QED BY <1>1, <1>2, <1>3
    DEF Next, vars, ReadCard, Select, Claim, ReadPage, GiveUp, Die, Reset

(***************************************************************************)
(* The theorems.                                                           *)
(***************************************************************************)

\* The inductive invariant: what is about to be written was read faithfully, of this
\* flat, and in turn unless sessions overtake one another.
THEOREM Invariant == Spec => []Inv
<1> QED BY Initially, Stepwise, PTL DEF Spec

\* The row, the sessions and what was shown keep their types.
THEOREM TypeCorrect == Spec => []TypeOK
<1>1. Inv => TypeOK
  BY DEF Inv
<1> QED BY <1>1, Invariant, PTL

\* No value is in a row that no page or card of the flat showed.
THEOREM NothingIsMadeUp == Spec => []OnlyWhatWasShown
<1>1. Inv => OnlyWhatWasShown
  BY DEF Inv
<1> QED BY <1>1, Invariant, PTL

\* Unless sessions overtake one another, the row has what the newest page or card that
\* spoke of the column said.
THEOREM NewestStands == Spec => []NewestWordStands
<1>1. Inv => NewestWordStands
  BY DEF Inv
<1> QED BY <1>1, Invariant, PTL

\* A known value is replaced by another, or lost only to a missing list or an emptied
\* text.
THEOREM KnownIsKept == Spec => KnownStaysKnown
<1>1. Inv /\ [Next]_vars => [(value \in Values) => (value' \in Values \cup Losses)]_vars
  BY NothingKnownIsLost
<1> QED BY <1>1, Invariant, PTL DEF Spec, KnownStaysKnown

(***************************************************************************)
(* The price model.                                                        *)
(***************************************************************************)

USE PriceAssumption

\* A model, a scaler and columns of one generation.
OfOneTraining(loaded) ==
    /\ loaded.model \in Generations
    /\ loaded.scaler = loaded.model
    /\ loaded.columns = FeatureNames(loaded.model)

\* A request whose files did not change has read what they hold, and uses what is
\* of one generation.
ReadsWhole(r) == LET used == request[r].using IN
    ~request[r].spoilt =>
        /\ Loading(r) => Whole
        /\ request[r].pc = "scaler" => used.model = files["model"]
        /\ request[r].pc = "names" =>
              used.model = files["model"] /\ used.scaler = files["model"]
        /\ request[r].pc \in {"loaded", "ready", "answered"} => OfOneTraining(used)
        /\ request[r].pc # "failed"

\* Where the columns are read, a scaler is.
ReadsInTurn(r) == request[r].pc = "names" => request[r].using.scaler \in Generations

\* Who did not load uses what is kept.
UsesTheKept(r) ==
    ~request[r].own =>
        /\ ~Loading(r) /\ request[r].pc # "loaded"
        /\ request[r].pc \in {"ready", "answered"} =>
              predictor # NoPredictor /\ request[r].using = predictor.using

PriceInv ==
    /\ PriceType
    /\ written < 4 => generation \in Generations
    /\ writing => written < 3 /\ files[Part[written + 1]] = Torn
    /\ predictor # NoPredictor => predictor.spoilt \/ OfOneTraining(predictor.using)
    /\ \A r \in Requests : ReadsWhole(r) /\ ReadsInTurn(r) /\ UsesTheKept(r)

\* The columns of a generation are names.
LEMMA ColumnsAreNames ==
    ASSUME NEW g \in Generations
    PROVE  FeatureNames(g) \in Seq(STRING)
<1>1. Measures \in Seq(STRING) /\ OneHot[g] \in Seq(STRING)
  BY DEF PriceAssumption
<1>2. \A a, b \in Seq(STRING) : a \o b \in Seq(STRING)
  OBVIOUS
<1> QED BY <1>1, <1>2 DEF FeatureNames

\* Nobody asks.
LEMMA NoRequestIsARequest == NoRequest \in Request
<1>1. << >> \in Seq(STRING)
  OBVIOUS
<1>2. Nothing \in Loaded
  BY <1>1 DEF Nothing, Loaded
<1> QED BY <1>2 DEF NoRequest, Request

\* Before anything was trained or asked.
LEMMA PriceInitially ==
    PriceInit => PriceInv
<1> SUFFICES ASSUME PriceInit PROVE PriceInv
  OBVIOUS
<1>1. NoRequest \in Request
  BY NoRequestIsARequest
<1>2. PriceType
  <2>1. MaxTrainings \in Nat
    BY DEF PriceAssumption
  <2>2. files \in [{"model", "scaler", "names"} -> Contents]
    BY DEF PriceInit, Contents
  <2>3. request \in [Requests -> Request]
    BY <1>1 DEF PriceInit
  <2>4. generation = 0 /\ written = 4 /\ writing = FALSE
    BY DEF PriceInit
  <2>5. generation \in 0..MaxTrainings /\ written \in {0, 1, 2, 4}
    BY <2>1, <2>4
  <2> QED BY <2>2, <2>3, <2>4, <2>5 DEF PriceInit, PriceType
<1>3. \A r \in Requests : ReadsWhole(r) /\ ReadsInTurn(r) /\ UsesTheKept(r)
  BY DEF PriceInit, NoRequest, ReadsWhole, ReadsInTurn, UsesTheKept, Loading
<1> QED BY <1>2, <1>3 DEF PriceInit, PriceInv

\* The files are torn, and not of one generation, while one is written.
LEMMA NotWholeWhileWritten ==
    ASSUME PriceInv, writing PROVE ~Whole
<1>1. written \in {0, 1, 2} /\ files[Part[written + 1]] = Torn
  BY DEF PriceInv, PriceType
<1>2. /\ Part[1] = "model" /\ Part[2] = "scaler" /\ Part[3] = "names"
  BY DEF Part
<1>3. files["model"] = Torn \/ files["scaler"] = Torn \/ files["names"] = Torn
  <2>1. CASE written = 0
    BY <1>1, <1>2, <2>1
  <2>2. CASE written = 1
    BY <1>1, <1>2, <2>2
  <2>3. CASE written = 2
    BY <1>1, <1>2, <2>3
  <2> QED BY <1>1, <2>1, <2>2, <2>3
<1> QED BY <1>3 DEF Whole, PriceAssumption

\* Training spoils what is read beside it, and nothing else.
LEMMA TrainingKeepsPriceInv ==
    ASSUME PriceInv,
           Train \/ BeginFile \/ EndFile \/ TrainingDies
    PROVE  PriceInv'
<1>0. /\ \A n \in {0, 1, 2} : Part[n + 1] \in {"model", "scaler", "names"}
      /\ MaxTrainings \in Nat /\ generation \in 0..MaxTrainings
      /\ written \in {0, 1, 2, 4} /\ writing \in BOOLEAN
      /\ files \in [{"model", "scaler", "names"} -> Contents]
  BY DEF Part, PriceInv, PriceType, PriceAssumption
<1>1. CASE Train \/ TrainingDies
  <2>1. /\ UNCHANGED <<files, predictor, request>> /\ writing' = FALSE
        /\ written' \in {0, 4} /\ generation' \in 0..MaxTrainings
        /\ written' < 4 => generation' \in Generations
    BY <1>0, <1>1 DEF Train, TrainingDies, PriceInv, Generations
  <2>2. PriceType'
    BY <2>1 DEF PriceInv, PriceType
  <2> QED
    BY <2>1, <2>2 DEF PriceInv, ReadsWhole, ReadsInTurn, UsesTheKept, Loading, Whole
<1>2. CASE BeginFile
  <2>1. /\ written \in {0, 1, 2} /\ writing' = TRUE
        /\ UNCHANGED <<generation, written, predictor>>
        /\ files' = [files EXCEPT ![Part[written + 1]] = Torn]
        /\ request' = [r \in Requests |->
              IF Loading(r) THEN [request[r] EXCEPT !.spoilt = TRUE] ELSE request[r]]
    BY <1>0, <1>2 DEF BeginFile
  <2>2. files' \in [{"model", "scaler", "names"} -> Contents]
        /\ files'[Part[written + 1]] = Torn
    BY <1>0, <2>1 DEF Contents
  <2>3. \A r \in Requests :
          /\ request'[r] \in Request
          /\ request'[r].pc = request[r].pc /\ request'[r].using = request[r].using
          /\ request'[r].own = request[r].own
          /\ Loading(r) => request'[r].spoilt
          /\ ~Loading(r) => request'[r] = request[r]
    <3> SUFFICES ASSUME NEW r \in Requests
                 PROVE  /\ request'[r] \in Request
                        /\ request'[r].pc = request[r].pc
                        /\ request'[r].using = request[r].using
                        /\ request'[r].own = request[r].own
                        /\ Loading(r) => request'[r].spoilt
                        /\ ~Loading(r) => request'[r] = request[r]
      OBVIOUS
    <3>1. request[r] \in Request
      BY DEF PriceInv, PriceType
    <3>2. CASE Loading(r)
      <4>1. request'[r] = [request[r] EXCEPT !.spoilt = TRUE]
        BY <2>1, <3>2
      <4> QED BY <3>1, <3>2, <4>1 DEF Request
    <3>3. CASE ~Loading(r)
      BY <2>1, <3>1, <3>3
    <3> QED BY <3>2, <3>3
  <2>4. PriceType'
    BY <2>1, <2>2, <2>3 DEF PriceInv, PriceType
  <2>5. \A r \in Requests : ReadsWhole(r)'
    BY <2>3 DEF PriceInv, ReadsWhole, Loading
  <2>6. \A r \in Requests : ReadsInTurn(r)' /\ UsesTheKept(r)'
    BY <2>1, <2>3 DEF PriceInv, ReadsInTurn, UsesTheKept, Loading
  <2> QED BY <2>1, <2>2, <2>4, <2>5, <2>6 DEF PriceInv
<1>3. CASE EndFile
  <2>1. /\ writing /\ writing' = FALSE /\ written \in {0, 1, 2}
        /\ UNCHANGED <<generation, predictor, request>>
        /\ files' = [files EXCEPT ![Part[written + 1]] = generation]
        /\ written' = IF written = 2 THEN 4 ELSE written + 1
    BY <1>0, <1>3 DEF EndFile
  <2>2. ~Whole
    BY <2>1, NotWholeWhileWritten
  <2>3. \A r \in Requests : Loading(r) => request[r].spoilt
    BY <2>2 DEF PriceInv, ReadsWhole
  <2>4. \A r \in Requests : ReadsWhole(r)' /\ ReadsInTurn(r)' /\ UsesTheKept(r)'
    BY <2>1, <2>3 DEF PriceInv, ReadsWhole, ReadsInTurn, UsesTheKept, Loading
  <2>5. written' \in {1, 2, 4}
    BY <2>1
  <2>6. files' \in [{"model", "scaler", "names"} -> Contents]
    <3>1. generation \in Contents
      <4>1. written < 4
        BY <2>1
      <4> QED BY <4>1 DEF Contents, PriceInv
    <3> QED BY <1>0, <2>1, <3>1
  <2>7. PriceType'
    BY <2>1, <2>5, <2>6 DEF PriceInv, PriceType
  <2>8. writing' = FALSE /\ generation' \in Generations
    BY <2>1 DEF PriceInv
  <2> QED BY <2>1, <2>4, <2>7, <2>8 DEF PriceInv
<1> QED BY <1>1, <1>2, <1>3

\* What a request reads of whole files is what they hold.
LEMMA ReadingKeepsPriceInv ==
    ASSUME PriceInv, NEW r \in Requests,
           LoadModel(r) \/ LoadScaler(r) \/ LoadNames(r) \/ LoadFails(r)
    PROVE  PriceInv'
<1> DEFINE used == request[r].using
<1>1. /\ UNCHANGED <<files, generation, written, writing, predictor>>
      /\ \A q \in Requests \ {r} : request'[q] = request[q]
      /\ request[r] \in Request
  BY DEF LoadModel, LoadScaler, LoadNames, LoadFails, Step,
     disk, PriceInv, PriceType
<1>2. ASSUME NEW pc \in {"scaler", "names", "loaded", "failed"}, NEW using \in Loaded,
             Step(r, pc, using), Loading(r),
             pc = "names" => using.scaler \in Generations,
             ~request[r].spoilt =>
                /\ pc # "failed"
                /\ pc = "scaler" => using.model = files["model"]
                /\ pc = "names" => using.model = files["model"] /\ using.scaler = files["model"]
                /\ pc = "loaded" => OfOneTraining(using)
      PROVE  PriceInv'
  <2>1. /\ request' = [request EXCEPT ![r] = [request[r] EXCEPT !.pc = pc, !.using = using]]
        /\ request'[r].pc = pc /\ request'[r].using = using
        /\ request'[r].spoilt = request[r].spoilt /\ request'[r].own = request[r].own
        /\ request'[r] \in Request
    BY <1>1, <1>2 DEF Step, Request, PriceInv, PriceType
  <2>2. PriceType'
    BY <1>1, <2>1 DEF PriceInv, PriceType
  <2>3. ASSUME ~request[r].spoilt PROVE ReadsWhole(r)'
    <3>1. Whole /\ Whole'
      BY <1>1, <1>2, <2>3 DEF PriceInv, ReadsWhole, Whole
    <3> QED BY <1>1, <1>2, <2>1, <2>3, <3>1 DEF ReadsWhole, OfOneTraining
  <2>4. ReadsWhole(r)'
    BY <2>1, <2>3 DEF ReadsWhole
  <2>5. request[r].own
    BY <1>2 DEF PriceInv, UsesTheKept
  <2>6. UsesTheKept(r)' /\ ReadsInTurn(r)'
    BY <1>2, <2>1, <2>5 DEF UsesTheKept, ReadsInTurn
  <2>7. \A q \in Requests \ {r} : ReadsWhole(q)' /\ ReadsInTurn(q)' /\ UsesTheKept(q)'
    BY <1>1 DEF PriceInv, ReadsWhole, ReadsInTurn, UsesTheKept, Loading, Whole
  <2> QED BY <1>1, <2>2, <2>4, <2>6, <2>7 DEF PriceInv
<1>3. used \in Loaded
  BY <1>1 DEF Request
<1>4. ~request[r].spoilt /\ Loading(r) => Whole
  BY DEF PriceInv, ReadsWhole
<1>5. files \in [{"model", "scaler", "names"} -> Contents]
  BY DEF PriceInv, PriceType
<1>6. CASE LoadModel(r)
  <2>1. request[r].pc = "model" /\ files["model"] \in Generations
        /\ Step(r, "scaler", [used EXCEPT !.model = files["model"]])
    BY <1>6 DEF LoadModel
  <2>2. /\ [used EXCEPT !.model = files["model"]] \in Loaded
        /\ [used EXCEPT !.model = files["model"]].model = files["model"]
    BY <1>3, <2>1 DEF Loaded
  <2> HIDE DEF used
  <2> QED BY <1>2, <2>1, <2>2 DEF Loading
<1>7. CASE LoadScaler(r)
  <2>1. request[r].pc = "scaler" /\ files["scaler"] \in Generations
        /\ Step(r, "names", [used EXCEPT !.scaler = files["scaler"]])
    BY <1>7 DEF LoadScaler
  <2>2. /\ [used EXCEPT !.scaler = files["scaler"]] \in Loaded
        /\ [used EXCEPT !.scaler = files["scaler"]].scaler = files["scaler"]
        /\ [used EXCEPT !.scaler = files["scaler"]].model = used.model
    BY <1>3, <2>1 DEF Loaded
  <2>3. ~request[r].spoilt => used.model = files["model"] /\ files["scaler"] = files["model"]
    BY <1>4, <2>1 DEF PriceInv, ReadsWhole, Loading, Whole
  <2> HIDE DEF used
  <2> QED BY <1>2, <2>1, <2>2, <2>3 DEF Loading
<1>8. CASE LoadNames(r)
  <2> DEFINE named == IF files["names"] = Absent THEN used.scaler ELSE files["names"]
             now == [used EXCEPT !.columns = FeatureNames(named)]
  <2>1. request[r].pc = "names" /\ files["names"] # Torn /\ Step(r, "loaded", now)
    BY <1>8 DEF LoadNames
  <2>2. ~request[r].spoilt =>
           /\ used.model = files["model"] /\ used.scaler = files["model"]
           /\ files["model"] \in Generations /\ named = files["model"]
    BY <1>4, <2>1 DEF PriceInv, ReadsWhole, Loading, Whole
  <2>3. named \in Generations
    BY <1>5, <2>1 DEF PriceInv, ReadsInTurn, Contents
  <2> HIDE DEF named, used
  <2>4. FeatureNames(named) \in Seq(STRING)
    BY <2>3, ColumnsAreNames
  <2>5. /\ now \in Loaded
        /\ now.columns = FeatureNames(named)
        /\ now.model = used.model /\ now.scaler = used.scaler
    BY <1>3, <2>4 DEF Loaded
  <2>6. ~request[r].spoilt => OfOneTraining(now)
    BY <2>2, <2>5 DEF OfOneTraining
  <2> HIDE DEF now
  <2> QED BY <1>2, <2>1, <2>5, <2>6 DEF Loading
<1>9. CASE LoadFails(r)
  <2>1. Loading(r) /\ Step(r, "failed", used)
    BY <1>9 DEF LoadFails, Loading
  <2>2. request[r].spoilt
    BY <1>4, <1>9, <2>1 DEF LoadFails, Whole, PriceAssumption
  <2> HIDE DEF used
  <2> QED BY <1>2, <1>3, <2>1, <2>2
<1> QED BY <1>6, <1>7, <1>8, <1>9

\* A request that arrives finds the kept predictor, or begins to load.
LEMMA ArrivingKeepsPriceInv ==
    ASSUME PriceInv, NEW r \in Requests, NEW kind \in {"predict", "health"},
           Arrive(r, kind)
    PROVE  PriceInv'
<1>1. /\ UNCHANGED <<files, generation, written, writing, predictor>>
      /\ \A q \in Requests \ {r} : request'[q] = request[q]
  BY DEF Arrive, disk, PriceInv, PriceType
<1>2. NoRequest \in Request
  BY NoRequestIsARequest
<1>3. Whole \in BOOLEAN /\ Whole' = Whole
  BY <1>1 DEF Whole
<1>4. CASE predictor = NoPredictor
  <2>1. request' = [request EXCEPT ![r] =
           [NoRequest EXCEPT !.pc = "model", !.kind = kind, !.own = TRUE,
                                   !.spoilt = ~Whole]]
    BY <1>4 DEF Arrive
  <2>2. /\ request'[r] \in Request /\ request'[r].pc = "model" /\ request'[r].own
        /\ request'[r].spoilt = ~Whole
    BY <1>2, <1>3, <2>1 DEF PriceInv, PriceType, Request
  <2>3. PriceType'
    BY <1>1, <2>1, <2>2 DEF PriceInv, PriceType
  <2>4. ReadsWhole(r)' /\ ReadsInTurn(r)' /\ UsesTheKept(r)'
    BY <1>3, <2>2 DEF ReadsWhole, ReadsInTurn, UsesTheKept, Loading
  <2>5. \A q \in Requests \ {r} : ReadsWhole(q)' /\ ReadsInTurn(q)' /\ UsesTheKept(q)'
    BY <1>1 DEF PriceInv, ReadsWhole, ReadsInTurn, UsesTheKept, Loading, Whole
  <2> QED BY <1>1, <2>3, <2>4, <2>5 DEF PriceInv
<1>5. CASE predictor # NoPredictor
  <2>1. request' = [request EXCEPT ![r] =
           [NoRequest EXCEPT !.pc = "ready", !.kind = kind, !.using = predictor.using,
                                   !.spoilt = predictor.spoilt]]
    BY <1>5 DEF Arrive
  <2>2. predictor \in Predictor
    BY <1>5 DEF PriceInv, PriceType
  <2>3. /\ request'[r] \in Request /\ request'[r].pc = "ready"
        /\ request'[r].using = predictor.using /\ request'[r].spoilt = predictor.spoilt
    BY <1>2, <2>1, <2>2 DEF PriceInv, PriceType, Request, Predictor
  <2>4. PriceType'
    BY <1>1, <2>1, <2>3 DEF PriceInv, PriceType
  <2>5. ReadsWhole(r)' /\ ReadsInTurn(r)' /\ UsesTheKept(r)'
    BY <1>1, <1>5, <2>3 DEF PriceInv, ReadsWhole, ReadsInTurn, UsesTheKept, Loading,
       OfOneTraining
  <2>6. \A q \in Requests \ {r} : ReadsWhole(q)' /\ ReadsInTurn(q)' /\ UsesTheKept(q)'
    BY <1>1 DEF PriceInv, ReadsWhole, ReadsInTurn, UsesTheKept, Loading, Whole
  <2> QED BY <1>1, <2>4, <2>5, <2>6 DEF PriceInv
<1> QED BY <1>4, <1>5

\* What is kept is what a request has loaded.
LEMMA KeepingKeepsPriceInv ==
    ASSUME PriceInv, NEW r \in Requests, Keep(r)
    PROVE  PriceInv'
<1>1. /\ UNCHANGED <<files, generation, written, writing>>
      /\ request[r].pc = "loaded" /\ request[r] \in Request /\ request[r].own
      /\ request' = [request EXCEPT ![r].pc = "ready"]
      /\ predictor' = IF predictor = NoPredictor
                      THEN [using |-> request[r].using, spoilt |-> request[r].spoilt]
                      ELSE predictor
  BY DEF Keep, disk, PriceInv, PriceType, UsesTheKept
<1>2. /\ \A q \in Requests \ {r} : request'[q] = request[q]
      /\ request'[r].pc = "ready" /\ request'[r].own /\ request'[r] \in Request
      /\ request'[r].using = request[r].using /\ request'[r].spoilt = request[r].spoilt
  BY <1>1 DEF Request, PriceInv, PriceType
<1>3. ~request[r].spoilt => OfOneTraining(request[r].using)
  BY <1>1 DEF PriceInv, ReadsWhole
<1>4. predictor' \in Predictor \cup {NoPredictor}
  BY <1>1 DEF Predictor, Request, PriceInv, PriceType
<1>5. predictor' # NoPredictor => predictor'.spoilt \/ OfOneTraining(predictor'.using)
  BY <1>1, <1>3 DEF PriceInv
<1>6. PriceType'
  BY <1>1, <1>2, <1>4 DEF PriceInv, PriceType
<1>7. ReadsWhole(r)' /\ ReadsInTurn(r)' /\ UsesTheKept(r)'
  BY <1>2, <1>3 DEF ReadsWhole, ReadsInTurn, UsesTheKept, Loading, OfOneTraining
<1>8. \A q \in Requests \ {r} : ReadsWhole(q)' /\ ReadsInTurn(q)'
  BY <1>1, <1>2 DEF PriceInv, ReadsWhole, ReadsInTurn, Loading, Whole
<1>9. \A q \in Requests \ {r} : UsesTheKept(q)'
  BY <1>1, <1>2 DEF PriceInv, UsesTheKept, Loading
<1> QED BY <1>1, <1>5, <1>6, <1>7, <1>8, <1>9 DEF PriceInv, OfOneTraining

\* An answer, the end of a request, and the start of the server.
LEMMA AnsweringKeepsPriceInv ==
    ASSUME PriceInv, NEW r \in Requests, Answer(r) \/ Leave(r)
    PROVE  PriceInv'
<1>1. /\ UNCHANGED <<files, generation, written, writing, predictor>>
      /\ \A q \in Requests \ {r} : request'[q] = request[q]
      /\ request[r] \in Request
  BY DEF Answer, Leave, Step, disk, PriceInv, PriceType
<1>2. \A q \in Requests \ {r} : ReadsWhole(q)' /\ ReadsInTurn(q)' /\ UsesTheKept(q)'
  BY <1>1 DEF PriceInv, ReadsWhole, ReadsInTurn, UsesTheKept, Loading, Whole
<1>3. CASE Answer(r)
  <2>1. /\ request[r].pc = "ready" /\ request'[r].pc \in {"answered", "failed"}
        /\ request'[r].using = request[r].using /\ request'[r].spoilt = request[r].spoilt
        /\ request'[r].own = request[r].own /\ request'[r] \in Request
        /\ Fits(request[r].using) => request'[r].pc = "answered"
    BY <1>1, <1>3 DEF Answer, Step, PriceInv, PriceType, Request
  <2>2. ~request[r].spoilt => OfOneTraining(request[r].using)
    BY <2>1 DEF PriceInv, ReadsWhole
  <2>3. ~request[r].spoilt => request'[r].pc = "answered"
    BY <2>1, <2>2 DEF Fits, OfOneTraining
  <2>4. ReadsWhole(r)'
    BY <2>1, <2>2, <2>3 DEF ReadsWhole, Loading, OfOneTraining
  <2>5. ReadsInTurn(r)' /\ UsesTheKept(r)'
    BY <1>1, <2>1 DEF PriceInv, ReadsInTurn, UsesTheKept, Loading
  <2>6. PriceType'
    BY <1>1, <1>3, <2>1 DEF PriceInv, PriceType, Answer, Step
  <2> QED BY <1>1, <1>2, <2>4, <2>5, <2>6 DEF PriceInv
<1>4. CASE Leave(r)
  <2>1. request' = [request EXCEPT ![r] = NoRequest] /\ request'[r] = NoRequest
    BY <1>1, <1>4 DEF Leave, PriceInv, PriceType
  <2>2. NoRequest \in Request
    BY NoRequestIsARequest
  <2>3. PriceType'
    BY <1>1, <2>1, <2>2 DEF PriceInv, PriceType
  <2>4. ReadsWhole(r)' /\ ReadsInTurn(r)' /\ UsesTheKept(r)'
    BY <2>1 DEF NoRequest, ReadsWhole, ReadsInTurn, UsesTheKept, Loading
  <2> QED BY <1>1, <1>2, <2>3, <2>4 DEF PriceInv
<1> QED BY <1>3, <1>4

\* Every step of training and of the server, and none.
LEMMA PriceStepwise ==
    PriceInv /\ [PriceNext]_price_vars => PriceInv'
<1> SUFFICES ASSUME PriceInv, [PriceNext]_price_vars PROVE PriceInv'
  OBVIOUS
<1>1. CASE Train \/ BeginFile \/ EndFile \/ TrainingDies
  BY <1>1, TrainingKeepsPriceInv
<1>2. ASSUME NEW r \in Requests, NEW kind \in {"predict", "health"}, Arrive(r, kind)
      PROVE  PriceInv'
  BY <1>2, ArrivingKeepsPriceInv
<1>3. ASSUME NEW r \in Requests,
             \/ LoadModel(r) \/ LoadScaler(r) \/ LoadNames(r)
             \/ LoadFails(r) \/ Keep(r) \/ Answer(r) \/ Leave(r)
      PROVE  PriceInv'
  BY <1>3, ReadingKeepsPriceInv, KeepingKeepsPriceInv, AnsweringKeepsPriceInv
<1>4. CASE Restart
  <2>1. /\ UNCHANGED <<files, generation, written, writing>> /\ predictor' = NoPredictor
        /\ request' = [r \in Requests |-> NoRequest]
    BY <1>4 DEF Restart, disk
  <2>2. PriceType'
    BY <2>1, NoRequestIsARequest DEF PriceInv, PriceType
  <2>3. \A r \in Requests : ReadsWhole(r)' /\ ReadsInTurn(r)' /\ UsesTheKept(r)'
    BY <2>1 DEF NoRequest, ReadsWhole, ReadsInTurn, UsesTheKept, Loading
  <2> QED BY <2>1, <2>2, <2>3 DEF PriceInv
<1>5. CASE UNCHANGED price_vars
  BY <1>5 DEF price_vars, PriceInv, PriceType, ReadsWhole, ReadsInTurn, UsesTheKept,
     OfOneTraining, Loading, Whole
<1> QED BY <1>1, <1>2, <1>3, <1>4, <1>5 DEF PriceNext

\* The inductive invariant: what is read of whole files is of one generation, and
\* everybody who did not load uses what is kept.
THEOREM PriceInvariant == PriceSpec => []PriceInv
<1>1. PriceInit => PriceInv
  BY PriceInitially
<1>2. PriceInv /\ [PriceNext]_price_vars => PriceInv'
  BY PriceStepwise
<1> QED BY <1>1, <1>2, PTL DEF PriceSpec

\* Files, training, predictor and requests keep their types.
THEOREM PriceTypeCorrect == PriceSpec => []PriceType
<1>1. PriceInv => PriceType
  BY DEF PriceInv
<1> QED BY <1>1, PriceInvariant, PTL

\* Whatever was read while no file changed gives every value its own column, however
\* many trainings run, die and start again beside any number of requests.
THEOREM PricesAreSound ==
    PriceSpec => []SoundUnlessSpoilt
<1>1. PriceInv => SoundUnlessSpoilt
  BY DEF PriceInv, ReadsWhole, OfOneTraining, SoundUnlessSpoilt
<1> QED BY <1>1, PriceInvariant, PTL

\* All who find a predictor are answered by one.
THEOREM OnePredictorAnswers ==
    PriceSpec => []AnswersAgree
<1>1. PriceInv => AnswersAgree
  BY DEF PriceInv, UsesTheKept, AnswersAgree
<1> QED BY <1>1, PriceInvariant, PTL

=============================================================================
