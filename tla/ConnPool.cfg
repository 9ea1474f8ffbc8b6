SPECIFICATION FairSpec
CONSTANTS
    None = None
    Requests = {r1, r2, r3}
    PoolMax = 2
    Products = {p1}
    Order = o1
    MaxLines = 2
INVARIANTS NothingLeaks StallNeedsCreate
PROPERTY Answered
