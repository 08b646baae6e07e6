----------------------------- MODULE MCSessions -----------------------------
(* Symmetry for Sessions: users and browsers are alike. *)
EXTENDS Sessions, TLC

Symmetry == Permutations(Users) \cup Permutations(Browsers)
=============================================================================
