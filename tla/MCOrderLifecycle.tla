--------------------------- MODULE MCOrderLifecycle ---------------------------
EXTENDS OrderLifecycle

CONSTANTS c1

\* Every order belongs to customer c1.
MCOwner == [o \in Orders |-> c1]
=============================================================================
