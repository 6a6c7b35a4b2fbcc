----------------------------- MODULE MCBrowser ------------------------------
EXTENDS Browser, TLC

Symmetry == Permutations(Tabs) \cup Permutations(Users)
=============================================================================
