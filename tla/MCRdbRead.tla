----------------------------- MODULE MCRdbRead ------------------------------
EXTENDS RdbRead, TLC

CONSTANTS d1, d2

MCSymmetry == Permutations(Data)
=============================================================================
