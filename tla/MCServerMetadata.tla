-------------------------- MODULE MCServerMetadata --------------------------
(* Documents for ServerMetadata: wider and narrower by scope, flag and text, *)
(* one without descriptions, one that validation refuses. *)
EXTENDS ServerMetadata

CONSTANTS read, write, text, other

Says(t, flags) == [description |-> t, flags |-> flags]
Declares(scopes, supported) ==
  [ours |-> TRUE, declared |-> TRUE, scopes |-> scopes, supported |-> supported]

ReadOnly == Declares([s \in {read} |-> Says(text, {"step_up"})], {})
Both == Declares([s \in {read, write} |-> Says(text, {})], {read})
Reworded == Declares([s \in {read, write} |-> Says(IF s = read THEN other ELSE text,
                                                   IF s = read THEN {} ELSE {"fresh_sign_in"})], {})
Advertised == Declares([s \in {read} |-> Says(text, {"step_up"})], {read})
NamesOnly == [ours |-> TRUE, declared |-> FALSE, scopes |-> << >>, supported |-> {write}]

MCPublished == {ReadOnly, Both, Reworded, Advertised, NamesOnly}
=============================================================================
