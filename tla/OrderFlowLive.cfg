SPECIFICATION FairSpec
CONSTANTS
    Req = {r1, r2}
    Buyers = {b1, b2}
    Apis = {a1, a2}
    Stock = 1
    NoBuyer = NoBuyer
    NoApi = NoApi
    Missing = Missing
CHECK_DEADLOCK FALSE
PROPERTIES ImplementsContract EveryRequestAnswered
