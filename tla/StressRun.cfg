SPECIFICATION Spec
CONSTANTS
    Primary = {p1, p2, p3}
    Spam = spam
    SpamPosts = 2
    Old = {o1}
    Quantity = 2
    Configured = {2, 3}
    MinSamples = 2
    MaxSamples = 3
    Missing = Missing
    MaxFaults = 2
CHECK_DEADLOCK FALSE
INVARIANTS TypeOK  PassLeavesOpen InterruptedResetIsSafe
PROPERTY SamplingEnds
