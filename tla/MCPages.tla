------------------------------- MODULE MCPages -------------------------------
EXTENDS Pages

\* Four rows, two of them created at the same time, one of them an order of
\* two lines.
MCRows == 1 .. 4
MCCreated == <<1, 2, 3, 3>>
MCJoined == <<1, 2, 1, 1>>
MCLimitParams == {-1, 1, 2, NaN}
MCPageParams == {-1, 0, NaN}
=============================================================================
