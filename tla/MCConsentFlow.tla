---------------------------- MODULE MCConsentFlow ----------------------------
(* Small instances of ConsentFlow. *)
EXTENDS ConsentFlow, TLC

Open == [registered |-> TRUE, released |-> {}, short |-> {}, fresh |-> {},
         forbidden |-> [u \in Users |-> {}]]

(* The server receives every claim, and keeps its scopes off the grants. *)
Releasing == [Open EXCEPT !.released = Claims, !.short = Scopes]

(* The scopes need a fresh sign-in. *)
Guarded == [Releasing EXCEPT !.fresh = Scopes]

(* The client is denied, and the scopes are gated. *)
Closed == [Guarded EXCEPT !.registered = FALSE, !.forbidden = [u \in Users |-> Scopes]]

AllPolicies == {Open, Releasing, Guarded, Closed}
ClaimPolicies == {Open, Releasing}
OnePolicy == {Open}

EachScope == {{s} : s \in Scopes}
EveryScope == {Scopes}

Symmetric == Permutations(Flows) \cup Permutations(Users) \cup Permutations(Workers)
=============================================================================
