--------------------------- MODULE ApprovalLedger ---------------------------
(***************************************************************************)
(* What the consent page promises, with nothing of how it keeps it: every  *)
(* authorization request, and every device code, gets at most one verdict, *)
(* and a user's grant comes to life only in the step that approves one of  *)
(* the user's requests.                                                    *)
(***************************************************************************)
EXTENDS Naturals

CONSTANTS Users, Items   \* Items: the requests and the device codes

VARIABLES
  verdicts,  \* verdicts[i]: how many verdicts item i has been given
  live       \* the users whose grant is live

vars == << verdicts, live >>

Init ==
  /\ verdicts = [i \in Items |-> 0]
  /\ live = {}

(* A verdict on a request settles its device code with it, unless that was  *)
(* settled before. *)
Decide(D) ==
  /\ \A i \in D : verdicts[i] = 0
  /\ verdicts' = [i \in Items |-> IF i \in D THEN 1 ELSE verdicts[i]]

Approve(D, u) == D # {} /\ Decide(D) /\ live' = live \cup {u}

Refuse(D) == Decide(D) /\ UNCHANGED live

(* One revocation may take several grants: those of a user, or of a server. *)
Revoke(U) == live' = live \ U /\ UNCHANGED verdicts

Next ==
  \/ \E D \in SUBSET Items : Refuse(D) \/ \E u \in Users : Approve(D, u)
  \/ \E U \in SUBSET Users : Revoke(U)

Spec == Init /\ [][Next]_vars
=============================================================================
