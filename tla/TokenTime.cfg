SPECIFICATION Spec
CONSTANTS
  Users = {u1}
  Clients = {k1}
  Resources = {r1}
  OfflineAccess = offline
  Scopes = {offline, admin}
  PolicyScopes = {admin}
  Codes = {c1}
  Devices = {d1}
  Tokens = {t1, t2}
  Workers = {w1}
  None = None
  CodeLifetime = 1
  DeviceLifetime = 1
  RefreshLifetime = 1
  MaxTime = 2
  MaxFailures = 0
SYMMETRY TokenSymmetry
INVARIANTS
  EvidenceKept
  ScopesWithinApproval
