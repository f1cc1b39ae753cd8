SPECIFICATION FairSpec
CONSTANTS
    Apis = {a1, a2}
    Buyers = {b1, b2, b3}
    Quantities = {1, 2}
    Missing = Missing
    MaxAccepts = 2
    MaxFaults = 2
INVARIANTS TypeOK NoOversell OneUnitPerBuyer SentinelLast
PROPERTIES WarmTouchesNothing EventuallyServing
