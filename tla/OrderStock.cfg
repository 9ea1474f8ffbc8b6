SPECIFICATION FairSpec
CONSTANTS
    p1 = p1
    p2 = p2
    Nobody = Nobody
    Products = {p1, p2}
    Requests = {r1, r2, r3}
    Baskets <- MCBaskets
    InitStock <- MCInitStock
    StatusWrites = {"delivered"}
INVARIANTS TypeOK StockAccounted HeldWhileLive LocksCoverWrites
PROPERTY Answered
