\* Three generations, the first two of one width; two requests at a time.
SPECIFICATION PriceSpec
CONSTANTS
    Measures <- TwoMeasures
    OneHot <- ThreeGenerations
    MaxTrainings = 3
    Requests = {r1, r2}
    Zero = Zero
    Absent = Absent
    Torn = Torn
    NoPredictor = NoPredictor
SYMMETRY Symmetry
INVARIANTS
    SoundUnlessSpoilt
    AnswersAgree
CHECK_DEADLOCK FALSE
