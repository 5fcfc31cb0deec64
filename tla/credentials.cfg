CONSTANTS
  User = {u, v}
  Client = {c}
  Grant = {g, h}
  Request = {r}
  None = none
  SessionTTL = 2
  codeTTL = 1
  AccessTokenTTL = 1
  RefreshTokenTTL = 2
  KeyTTLs = {0, 1}
  idleClientTTL = 1
  MaxSecret = 5
  MaxClock = 2
SPECIFICATION Spec
CONSTRAINT Bound
INVARIANTS TypeOK OneLiveRefresh CodesPointHome
PROPERTIES ReuseIsRemembered EndsForAReason NothingComesBack
SYMMETRY Symmetry
