------------------------------ MODULE MCLtram ------------------------------
(* Model-checking instance of Ltram. *)
EXTENDS Ltram, TLC

Symmetry == Permutations(Procs) \cup Permutations(Pages)
              \cup Permutations(LtFrames) \cup Permutations(DramFrames)
=============================================================================
