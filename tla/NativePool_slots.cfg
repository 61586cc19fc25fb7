SPECIFICATION Spec
CONSTANTS
  Lease = {l1, l2, l3, l4}
  Client = {c1, c2}
  Gen = {g1}
  Proxied = {}
  Timeout = {t1}
  ProxyLanes = 1
  MaxEntries = 2
  MaxActive = 2
  MaxWaiters = 1
  MaxConnects = 1
  NoClient = NoClient
  NoGen = NoGen
  NoKey = NoKey
CHECK_DEADLOCK FALSE
SYMMETRY Symmetry
INVARIANT SlotsAccounted
PROPERTIES NoOvertaking ImplementsAdmission
