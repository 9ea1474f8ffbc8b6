SPECIFICATION Spec
CONSTANTS
    p1 = p1
    p2 = p2
    Nobody = Nobody
    Products = {p1, p2}
    Requests = {r1, r2}
    Baskets <- SingleLine
    InitStock <- MCInitStock
    StatusWrites = {"delivered"}
INVARIANT StockNonNegative
