--------------------------- MODULE MCTokenEndpoint ---------------------------
(* Model-checking instances of TokenEndpoint. *)
EXTENDS TokenEndpoint, TLC

TokenSymmetry == Permutations(Tokens)
Symmetry == TokenSymmetry \cup Permutations(Workers)
=============================================================================
