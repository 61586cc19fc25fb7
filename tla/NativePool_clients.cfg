SPECIFICATION Spec
CONSTANTS
  Lease = {l1, l2}
  Client = {c1, c2, c3}
  Gen = {g1, g2}
  Proxied = {g1}
  Timeout = {t1, t2}
  ProxyLanes = 2
  MaxEntries = 2
  MaxActive = 2
  MaxWaiters = 0
  MaxConnects = 2
  NoClient = NoClient
  NoGen = NoGen
  NoKey = NoKey
CHECK_DEADLOCK FALSE
SYMMETRY Symmetry
INVARIANTS MapSound ClientLife
PROPERTIES SendsOnLiveClient
