------------------------------ MODULE MCDoling ------------------------------
(* Two urls on one IP, one on another.                                       *)
EXTENDS Doling

MCUrl == {<<1, 1>>, <<1, 2>>, <<2, 1>>}
=============================================================================
