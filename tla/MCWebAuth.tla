------------------------------ MODULE MCWebAuth ------------------------------
EXTENDS WebAuth, TLC

TabSymmetry == Permutations(Tabs)
=============================================================================
