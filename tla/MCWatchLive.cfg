SPECIFICATION FairSpec
CONSTANTS
  r1 = r1
  r2 = r2
  s1 = s1
  s2 = s2
  s3 = s3
  None = None
  q1 = q1
  q2 = q2
  w1 = w1
  w2 = w2
  Malformed = Malformed
  Roots = {r1}
  Skills = {s1}
  RootOf <- MCRootOf
  Requests = {q1}
  Workers = {w1,w2}
  MaxGen = 2
  MaxEdits = 4
  MaxRefresh = 0
  InitialRoots = {r1}
  InitialDirs = {s1}
  DirsAppear = FALSE
  DirsVanish = FALSE
  EditsWhileArming = FALSE
  EditsWhileApplying = FALSE
  FilesBreak = TRUE
CHECK_DEADLOCK FALSE
PROPERTIES
  LiveSkillStays

  

  
