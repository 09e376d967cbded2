----------------------------- MODULE MCTaskQuery -----------------------------
EXTENDS TaskQuery, TLC

\* two queries are told apart by their tasks alone
Symmetry == Permutations(Queries)
=============================================================================
