----------------------------- MODULE MCSessions -----------------------------
EXTENDS Sessions, TLC

Symmetry == Permutations(Reqs) \cup Permutations(Sids) \cup Permutations(Tokens)
            \cup Permutations(Users \ Seeded)
=============================================================================
