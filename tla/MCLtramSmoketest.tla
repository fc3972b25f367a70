-------------------------- MODULE MCLtramSmoketest --------------------------
(* Model-checking instance of LtramSmoketest. *)
EXTENDS LtramSmoketest, TLC

CONSTANT AllDefects

EveryMachine == SUBSET AllDefects
BulkRange == -1 .. 2
Symmetry == Permutations(LtFrames) \cup Permutations(DramFrames)
=============================================================================
