---------------------------- MODULE MCYcsbDriver ----------------------------
(* Model-checking instances of YcsbDriver. *)
EXTENDS YcsbDriver, TLC

(* A stand-in for the 64-bit hash: injective, and not the identity. *)
Scattered == [n \in 0 .. 30 |-> (n * 7 + 3) % 31]
Symmetry == Permutations(Threads)
=============================================================================
