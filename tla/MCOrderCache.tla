----------------------------- MODULE MCOrderCache -----------------------------
EXTENDS OrderCache, TLC

CONSTANTS c1

\* Every order belongs to c1.
MCOwner == [o \in Orders |-> c1]
=============================================================================
