SPECIFICATION CheckSpec
CONSTANTS
  c1 = c1
  c2 = c2
  c3 = c3
  p1 = p1
  p2 = p2
  Nobody = Nobody
  Callers = {c1, c2, c3}
  Processes = {p1, p2}
  ProcessOf <- MCProcessOf
  Offline = {}
  Interval = 5
  Retry = 3
  Slack = 1
  Skew = 2
  MaxPause = 1
  MaxClock = 9
  MaxRelease = 2
CHECK_DEADLOCK FALSE
INVARIANTS
  GoodResultKept
  LeaseInv
PROPERTIES
  RequestsSpaced
