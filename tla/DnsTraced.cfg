SPECIFICATION Spec
CONSTANTS
  Task = {t1, t2}
  Host = {h1, h2}
  Lookup = {l1, l2, l3}
  NoHost = NoHost
  NoLookup = NoLookup
  Traced = TRUE
  Eager = FALSE
  MayClear = FALSE
SYMMETRY Symmetry
INVARIANTS
  SingleFlight
  ResultForAll
