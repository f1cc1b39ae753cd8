SPECIFICATION Spec
CONSTANTS
    Apis = {a1, a2}
    a1 = a1
    a2 = a2
    Self = a1
    Streams = {s1}
    Stock = 2
    NoFrame = NoFrame
    Unread = Unread
    MaxReads = 2
    MaxFaults = 1
PROPERTY FramesInOrder
