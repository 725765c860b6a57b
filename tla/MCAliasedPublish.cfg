SPECIFICATION Spec
CONSTANTS
  t1 = t1
  t2 = t2
  t3 = t3
  Topics = {t1, t2, t3}
  Maxima = {0, 1, 2}
  MaxConns = 2
  MaxPubs = 4
  MaxStored = 2
INVARIANTS TablesAgree AliasResolves AliasAvailable
SYMMETRY Perms
CHECK_DEADLOCK FALSE
