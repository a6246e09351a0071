\* Two sessions, at most four cards and pages, two values of a column, and none or one
\* bathroom of a kind in a place, so up to two of them.  A flat whose details are
\* done, with no reading left, is where it stops.
CONSTANTS
    r1 = r1
    r2 = r2
    Readers = {r1, r2}
    Values = {1, 2}
    One = 1
    Yes = 1
    Counts = {0, 1}
    Missing = Missing
    Blank = Blank
    Odd = Odd
    No = No
    NoKey = NoKey
    MaxReads = 4
SPECIFICATION Spec
SYMMETRY MCSymmetry
CHECK_DEADLOCK FALSE
INVARIANTS
    OnlyWhatWasShown
    NewestWordStands
PROPERTY KnownStaysKnown
