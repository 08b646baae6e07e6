---------------------------- MODULE MCClientAuth ----------------------------
(* Symmetry for ClientAuth: calls and assertions are alike. *)
EXTENDS ClientAuth, TLC

Symmetry == Permutations(Calls) \cup Permutations(Jtis)
=============================================================================
