----------------------------- MODULE MCAccounts -----------------------------
EXTENDS Accounts, TLC

Symmetry == Permutations(Requests) \cup Permutations(Emails) \cup Permutations(Passwords)
=============================================================================
