----------------------------- MODULE MCConnPool -----------------------------
EXTENDS ConnPool, TLC

Symmetry == Permutations(Requests) \cup Permutations(Products)
=============================================================================
