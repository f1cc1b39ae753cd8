SPECIFICATION FairSpec
CONSTANTS
    s1 = s1
    s2 = s2
    b1 = b1
    b2 = b2
    b3 = b3
    p1 = p1
    p2 = p2
    w1 = w1
    w2 = w2
    n1 = n1
    n2 = n2
    n3 = n3
    Sales = {s1}
    Buyers = {b1, b2}
    Products = {p1}
    ProductOf <- OneProduct
    Workers = {w1, w2}
    Names = {n1, n2}
    NameOf <- StableNames
    BatchSize = 1
    MaxLen = 2
    MaxFaults = 2
PROPERTY EveryEntryPersisted
