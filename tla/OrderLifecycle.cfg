SPECIFICATION FairSpec
CONSTANTS
    c1 = c1
    Orders = {o1}
    Customers = {c1, c2}
    Owner <- MCOwner
    Workers = {w1, w2}
    Handlers = {h1}
    Attempts = 2
    MaxStalls = 1
    Rescheduled = {o1}
CHECK_DEADLOCK FALSE
INVARIANTS TypeOK SomeoneMovesOn
PROPERTIES OneStepForward DeliveredSettles JobsLeaveClosed Delivered
