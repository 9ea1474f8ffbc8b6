SPECIFICATION FairSpec
CONSTANTS
    None = None
    Keys = {k1, k2, k3}
    Clients = {c1, c2, c3}
    Elements = {e1, e2}
    MaxOps = 3
INVARIANTS
    TypeOK
    NoLostWakeup
    FirstComeFirstServed
    OneCopy
PROPERTY HandlingEnds
