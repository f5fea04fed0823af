CONSTANTS
  p1 = p1
  p2 = p2
  o1 = o1
  o2 = o2
  bad = bad
  k1 = k1
  k2 = k2
  l1 = l1
  l2 = l2
  None = None
  Backends = {"mysql"}
  Databases <- MCDatabases
  Slug <- MCSlug
  Origins = {o1, o2}
  MaxTries = 2
  MaxCrashes = 0
SPECIFICATION Spec
INVARIANT
  NeverWidened
