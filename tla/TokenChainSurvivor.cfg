SPECIFICATION Spec
CONSTANTS
  Users = {u1}
  Clients = {k1}
  Resources = {r1}
  OfflineAccess = offline
  Scopes = {offline}
  PolicyScopes = {}
  Codes = {c1}
  Devices = {}
  Tokens = {t1, t2, t3}
  Workers = {w1, w2}
  None = None
  CodeLifetime = 1
  DeviceLifetime = 1
  RefreshLifetime = 2
  MaxTime = 0
  MaxFailures = 0
PROPERTIES
  RevokesWholeChain
