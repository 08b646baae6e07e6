----------------------------- MODULE MCKeyRing -----------------------------
(* Symmetry for KeyRing: no property or fairness tells kids, signers or    *)
(* rotations apart. *)
EXTENDS KeyRing, TLC

Symmetry == Permutations(Kids) \cup Permutations(Signers) \cup Permutations(Rotations)
=============================================================================
