SPECIFICATION Spec
CONSTANTS
  a = a
  b = b
  v1 = v1
  v2 = v2
  w1 = w1
  w2 = w2
  r1 = r1
  None = None
  Paths = {a,b}
  Writers = {w1,w2}
  Readers = {r1}
  Vers = {v1,v2}
  MaxRuns = 2
  MaxFails = 1
SYMMETRY Symmetry
CHECK_DEADLOCK FALSE
INVARIANTS
  OneMeaning
  AttachedToOwner
  NoOrphanLabel
  InsertRepairs
