SPECIFICATION Spec
CONSTANTS
    c1 = c1
    Orders = {o1}
    Customers = {c1, c2}
    Owner <- MCOwner
    Workers = {w1}
    Handlers = {h1}
    Attempts = 2
    MaxStalls = 1
    Rescheduled = {}
CHECK_DEADLOCK FALSE
INVARIANT RetriesKeepMoving
