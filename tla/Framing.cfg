SPECIFICATION Spec
CONSTANTS
    Conns = {c1, c2}
    Sizes = {2, 3}
    HeadLen = 2
    MaxSent = 2
INVARIANTS TypeOK Aligned
PROPERTIES WholeMessagesAreKept IsChannel
