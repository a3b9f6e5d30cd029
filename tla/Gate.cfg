SPECIFICATION Spec
CONSTANTS
  Tasks = {t1, t2}
  Callers = {c1, c2}
  Keys = {k1, k2, k3}
  Empty = empty
  JwtSecrets = {j1, j2}
  Roles = {"writer"}
  TTL = 2
  MaxLogin = 1
  MaxLogins = 2
  MaxTokens = 2
SYMMETRY Symmetry
INVARIANTS TypeOK NoDowntime BoundedRevocation
