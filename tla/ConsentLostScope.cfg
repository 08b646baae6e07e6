SPECIFICATION Spec
CONSTANTS
  None = None
  Users = {u1}
  Browsers = {b1}
  Workers = {w1, w2}
  Flows = {f1, f2}
  Devices = {}
  Scopes = {read, write}
  Claims = {groups}
  Requested <- EachScope
  Policies <- OnePolicy
  MaxEvents = 2
SYMMETRY Symmetric
PROPERTY ApprovalKeepsScopes
