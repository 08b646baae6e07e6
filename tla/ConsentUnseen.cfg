SPECIFICATION Spec
CONSTANTS
  None = None
  Users = {u1}
  Browsers = {b1}
  Workers = {w1, w2}
  Flows = {f1}
  Devices = {}
  Scopes = {read}
  Claims = {groups}
  Requested <- EveryScope
  Policies <- ClaimPolicies
  MaxEvents = 2
INVARIANT ClaimsWereShown
