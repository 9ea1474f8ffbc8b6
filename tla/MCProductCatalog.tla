--------------------------- MODULE MCProductCatalog ---------------------------
EXTENDS ProductCatalog, TLC

Symmetric == Permutations(Handlers) \cup Permutations(Details)
=============================================================================
