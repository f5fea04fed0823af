----------------------------- MODULE MCApiKeys ------------------------------
EXTENDS ApiKeys, TLC

Symmetry == Permutations(Apps) \cup Permutations(Rows)
              \cup Permutations(RawKeys) \cup Permutations(Staff)
=============================================================================
