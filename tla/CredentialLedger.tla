-------------------------- MODULE CredentialLedger --------------------------
(***************************************************************************)
(* What the token endpoint promises about the credentials it hands out,    *)
(* with nothing of how it keeps the promise.                               *)
(*                                                                         *)
(* A credential (an authorization code, an approved device code, a refresh *)
(* token) is opened once, and leaves the ledger for good when it is        *)
(* exchanged or withdrawn.  An exchange turns one open credential into at  *)
(* most one new one.  So one approval of the user never stands behind two  *)
(* live credentials, however the requests interleave.                      *)
(***************************************************************************)
EXTENDS Naturals

CONSTANT Credentials

VARIABLES
  open,      \* the credentials that can still be exchanged
  retired,   \* the credentials that never can again
  answers    \* answers[c]: the token responses given for credential c

vars == << open, retired, answers >>

Init ==
  /\ open = {}
  /\ retired = {}
  /\ answers = [c \in Credentials |-> 0]

Fresh(c) == c \notin open \cup retired

(* The user approves a request: a code or a device code becomes redeemable. *)
Approve(c) ==
  /\ Fresh(c)
  /\ open' = open \cup {c}
  /\ UNCHANGED << retired, answers >>

(* A credential is exchanged; N holds the refresh token that replaces it, if any. *)
Exchange(c, N) ==
  /\ c \in open
  /\ \A n \in N : Fresh(n)
  /\ \A m, n \in N : m = n
  /\ open' = (open \ {c}) \cup N
  /\ retired' = retired \cup {c}
  /\ answers' = [answers EXCEPT ![c] = @ + 1]

(* Credentials are withdrawn: revoked, burned, refused or expired and deleted. *)
Withdraw(S) ==
  /\ S \subseteq open
  /\ open' = open \ S
  /\ retired' = retired \cup S
  /\ UNCHANGED answers

Next ==
  \/ \E c \in Credentials : Approve(c)
  \/ \E c \in Credentials, N \in SUBSET Credentials : Exchange(c, N)
  \/ \E S \in SUBSET Credentials : Withdraw(S)

Spec == Init /\ [][Next]_vars
=============================================================================
