----------------------------- MODULE MCOrderStock -----------------------------
EXTENDS OrderStock, TLC

CONSTANTS p1, p2

One(p) == [product |-> p, quantity |-> 1]

\* One product, both products in either order, one product on two lines.
MCBaskets ==
    {<<One(p1)>>, <<One(p1), One(p2)>>, <<One(p2), One(p1)>>, <<One(p2), One(p2)>>}
SingleLine == {<<One(p1)>>}

\* One unit of p1 and two of p2.
MCInitStock == (p1 :> 1) @@ (p2 :> 2)
=============================================================================
