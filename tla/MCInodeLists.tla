---------------------------- MODULE MCInodeLists ----------------------------
(* InodeLists for TLC: two inodes, files of two sizes. *)
EXTENDS InodeLists, TLC

CONSTANTS i1, i2

MCNrs   == {i1, i2}
MCSizes == 1..2
Symmetry == Permutations(MCNrs)
=============================================================================
