SPECIFICATION ApiSpec
CONSTANTS
  Tenants = {t1, t2, t3}
  MaxConns = 3
  Requests = {r1, r2}
  Sockets = {s1}
  None = None
  MaxConnections = 2
  MaxTime = 1
  MaxDrops = 1
INVARIANTS TypeOK PoolBounded BusyTenantsKept GracefulExit OnlyOrphansLeak
SYMMETRY Symmetry
\* The run ends when the process does.
CHECK_DEADLOCK FALSE
