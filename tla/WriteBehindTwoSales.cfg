SPECIFICATION Spec
CONSTANTS
    s1 = s1
    s2 = s2
    b1 = b1
    b2 = b2
    b3 = b3
    p1 = p1
    p2 = p2
    w1 = w1
    w2 = w2
    n1 = n1
    n2 = n2
    n3 = n3
    Sales = {s1, s2}
    Buyers = {b1, b2}
    Products = {p1, p2}
    ProductOf <- TwoProducts
    Workers = {w1}
    Names = {n1}
    NameOf <- StableName
    BatchSize = 2
    MaxLen = 4
    MaxFaults = 1
INVARIANT AckedIsDurable
