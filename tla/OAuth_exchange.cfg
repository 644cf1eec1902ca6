CONSTANTS
  Clients = {c1, c2}
  Users = {u1}
  Scopes = {read}
  Codes = {k1}
  Tokens = {t1, t2}
  Requests = {r1, r2}
  None = None
  CodeTTL = 1
  ClientRetention = 1
  RefreshTTL = 3
  MaxActive = 2
  MaxGen = 1
  MaxNow = 2
SPECIFICATION Spec
SYMMETRY Symmetry
INVARIANT CodeSpentOnce
INVARIANT LateReuseEndsGrant
INVARIANT RotationIsSequential
INVARIANT ConsentStands
PROPERTY GrantsFollowLifecycle
