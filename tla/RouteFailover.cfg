CONSTANTS
  p1 = p1
  s1 = s1
  r1 = r1
  o1 = o1
  pathA = pathA
  None = None
  Projects = {p1}
  Paths = {pathA}
  Origins = {o1, o2}
  Services = {s1}
  Routes = {r1}
  InitServices <- OneServices
  InitRoutes <- OneRoutes
  Admins = {a1}
  Ops = {"patchService", "patchRoute"}
  MaxOps = 2
  Readers = {g1}
  MaxAttempts = 2
  MaxFaults = 1
SPECIFICATION FailoverSpec
INVARIANTS
  FailoverInv
  StaleOnlyByRollback
PROPERTIES
  LookupTerminates
  Converges
