SPECIFICATION CountSpec
CONSTANTS
  c1 = c1  c2 = c2  p1 = p1  m1 = m1
  e1 = e1  e2 = e2  e3 = e3
  Cpus = {c1, c2}
  Pids = {p1}
  Mappings = {m1}
  Indices = {0}
  Elems = {e1, e2, e3}
  NULL = NULL
  MaxCount = 3
SYMMETRY Symmetry
INVARIANTS TypeOK EntriesAttributed CountsExact 
