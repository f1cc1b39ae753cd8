SPECIFICATION LossySpec
CONSTANTS
    Req = {r1, r2, r3}
    Buyers = {b1, b2, b3}
    Apis = {a1, a2}
    Stock = 2
    NoBuyer = NoBuyer
    NoApi = NoApi
    Missing = Missing
SYMMETRY Symmetric
CONSTRAINT WindowOpen
CHECK_DEADLOCK FALSE
INVARIANTS TypeOK StockConserved AuditAtMostOnce NoOversell CreatedOnce SoldOutIsFinal SoldOutSignalOnce
