CONSTANTS
  p1 = p1
  p2 = p2
  s1 = s1
  s2 = s2
  s3 = s3
  r1 = r1
  r2 = r2
  r3 = r3
  o1 = o1
  o2 = o2
  pathA = pathA
  pathB = pathB
  None = None
  Projects = {p1}
  Paths = {pathA, pathB}
  Origins = {o1, o2}
  Services = {s1}
  Routes = {r1}
  InitServices <- OneServices
  InitRoutes <- OneRoutes
  Admins = {a1, a2}
  Ops = {"patchService", "patchRoute"}
  MaxOps = 2
  Readers = {g1}
  MaxAttempts = 2
  MaxFaults = 0
SPECIFICATION Spec
INVARIANTS
  Coherent
