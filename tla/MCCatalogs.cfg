SPECIFICATION CatalogsSpec
CONSTANTS
  p = p  q = q  good = good  bad = bad  t = t  u = u  x = x  example = example  None = None
  Commands = {p, q}
  Sources <- MCSources
  Servers <- MCServers
  Namespaces <- MCNamespaces
  Bound <- MCBound
  Tools = {t, u, x}
  Offers <- MCOffers
  Suggested <- MCSuggested
  Faithful = {good}
  Babble <- MCBabble
  Published <- MCPublished
  Earlier <- MCEarlier
  TTL = 0
  MaxPages = 4
  MaxLoad = 2
  MaxRuns = 2
  MaxChanges = 1
  MaxTime = 1
SYMMETRY Symmetric
CHECK_DEADLOCK FALSE
INVARIANTS ObservedWhole ExpiredIsStale
PROPERTIES SnapshotWhole IndexOfFiles CommandsEnd
