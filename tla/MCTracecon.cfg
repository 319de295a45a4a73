SPECIFICATION Spec
CONSTANTS
  Threads = {t1, t2}
  Hosts = {h1, h2}
  Ips = {a1, a2}
  Elems = {e1, e2, e3}
  Spares = {e2, e3}
  NULL = NULL
  MaxLookups = 1
  MaxSockets = 1
SYMMETRY Symmetry
INVARIANTS EventsAreOwn  UnreportedNeedsFullMap
