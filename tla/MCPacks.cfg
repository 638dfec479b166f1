SPECIFICATION Spec
CONSTANTS
  a = a  b = b  x = x  y = y  z = z  None = None  Edited = Edited
  Callers = {a, b}
  Versions = {1, 2}
  Archives = {x, y, z}
  Unfit = {z}
  MaxCalls = 2
  MaxPublish = 1
  MaxEdits = 1
SYMMETRY Symmetric
CHECK_DEADLOCK FALSE
INVARIANTS IndexAuthentic
PROPERTIES OnlyEditedRefused InstallsAtOnce
