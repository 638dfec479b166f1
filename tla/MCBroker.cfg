SPECIFICATION Spec
CONSTANTS
  Runtimes = {r1}
  Requests = {c1, c2}
  Profiles = {p, q}
  Schemas = {s1, s2}
  Absent = absent
  NoProfile = none
  RefTTL = 1
  TTL = 1
  Span = 1
  MaxPages = 2
  MaxChanges = 2
SYMMETRY Symmetry
CHECK_DEADLOCK TRUE
INVARIANTS
  CalledAsSelected
  OwnPartition
  DefinitionsFresh
