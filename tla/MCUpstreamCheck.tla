-------------------------- MODULE MCUpstreamCheck --------------------------
(* Symmetry for UpstreamCheck: callers, callbacks and tokens are alike. *)
EXTENDS UpstreamCheck, TLC

Symmetry == Permutations(Callers) \cup Permutations(Callbacks) \cup Permutations(Tokens)
=============================================================================
