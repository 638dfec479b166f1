SPECIFICATION FairSpec
CONSTANTS
  o1 = o1
  o2 = o2
  s1 = s1
  s2 = s2
  c1 = c1
  c2 = c2
  None = None
  Openers = {o1, o2}
  Skills = {s1, s2}
  Caps = {c1, c2}
  MaxFails = 2
  MaxOpens = 4
CHECK_DEADLOCK FALSE
INVARIANTS
  MigratesOnce
  OpenIsComplete
PROPERTIES
  UpgradesAtOnce
  OpenEnds
