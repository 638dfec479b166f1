SPECIFICATION Spec
CONSTANTS
  c1 = c1  c2 = c2  c3 = c3  app = app  shell = shell  NoCaller = NoCaller
  Callers = {c1, c2, c3}
  Homes = {app, shell}
  Home <- MCHome
  MaxCalls = 3
  MaxLogins = 2
CHECK_DEADLOCK TRUE
INVARIANTS Sealed SingleFlight StoreLive
PROPERTIES Renewable CallsEnd
