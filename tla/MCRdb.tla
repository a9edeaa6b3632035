------------------------------- MODULE MCRdb --------------------------------
EXTENDS Rdb, TLC

CONSTANTS d1, d2

MCSymmetry == Permutations(Data)
=============================================================================
