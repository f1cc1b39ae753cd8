SPECIFICATION FairSpec
CONSTANTS
    MaxVersion = 2
    Nothing = Nothing
    Timeline <- SellingOut
    Emails = {e1, e2}
    Malformed = {e2}
    Blank = Blank
    MaxPosts = 2
    NoVerdict = NoVerdict
    StrictMode = FALSE
CHECK_DEADLOCK FALSE
INVARIANTS TypeOK VerdictTruthful OneInFlight
PROPERTY SpinnerEnds
