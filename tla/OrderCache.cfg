SPECIFICATION FairSpec
CONSTANTS
    c1 = c1
    None = None
    Orders = {o1}
    Customers = {c1, c2}
    Owner <- MCOwner
    Readers = {r1, r2}
    Writers = {w1, w2}
    MaxVersion = 4
    MaxNested = 1
INVARIANTS TypeOK  
PROPERTY EventuallyFresh
