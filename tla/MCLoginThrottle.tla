-------------------------- MODULE MCLoginThrottle --------------------------
(* Symmetry for LoginThrottle: attempts, addresses and keys are alike. *)
EXTENDS LoginThrottle, TLC

Symmetry == Permutations(Attempts) \cup Permutations(Addresses) \cup Permutations(Keys)
=============================================================================
