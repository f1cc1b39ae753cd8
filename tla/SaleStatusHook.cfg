SPECIFICATION FairStatusSpec
CONSTANTS
    MaxVersion = 2
    MaxFaults = 2
    Nothing = Nothing
    Garbage = Garbage
    Failed = Failed
    NoSale = NoSale
CHECK_DEADLOCK FALSE
INVARIANTS StatusTypeOK NotStranded StreamOwnsBody NotFoundIsTerminal
PROPERTIES ImplementsView EventuallyCurrent
