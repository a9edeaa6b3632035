------------------------------ MODULE MCRdbMem ------------------------------
(* A buffer of a few bytes and a tree of three nodes: the buffer fills up,  *)
(* and every direction of growth and every outcome of freeDumpedMem() comes *)
(* up.                                                                      *)
EXTENDS RdbMem

MCSize == 0 .. 2
=============================================================================
