SPECIFICATION StatusSpec
CONSTANTS
    MaxVersion = 2
    MaxFaults = 2
    Nothing = Nothing
    Garbage = Garbage
    Failed = Failed
    NoSale = NoSale
CHECK_DEADLOCK FALSE
INVARIANT SoleWriter
