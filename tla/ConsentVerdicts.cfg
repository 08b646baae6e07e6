SPECIFICATION Spec
CONSTANTS
  None = None
  Users = {u1, u2}
  Browsers = {b1}
  Workers = {w1, w2}
  Flows = {f1, f2}
  Devices = {d1}
  Scopes = {admin}
  Claims = {groups}
  Requested <- EveryScope
  Policies <- AllPolicies
  MaxEvents = 3
SYMMETRY Symmetric
INVARIANTS
  ApprovalWasShown
  ClaimsWerePinned
  DeviceFollowsVerdict
PROPERTY LedgerSpec
