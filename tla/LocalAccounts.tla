--------------------------- MODULE LocalAccounts ---------------------------
(* What Sessions and LoginThrottle share: the clock of the process, and the *)
(* value for what is not there, such as a cookie or a row. *)
EXTENDS Naturals

CONSTANTS
  None,
  MaxTime         \* bound: the clock

ASSUME ClockAssumption == MaxTime \in Nat /\ None \notin Nat

VARIABLE now
=============================================================================
