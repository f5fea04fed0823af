CONSTANTS
  p1 = p1
  p2 = p2
  s1 = s1
  s2 = s2
  s3 = s3
  r1 = r1
  r2 = r2
  r3 = r3
  o1 = o1
  o2 = o2
  pathA = pathA
  pathB = pathB
  None = None
  Projects = {p1, p2}
  Paths = {pathA, pathB}
  Origins = {o1}
  Services = {s1, s2}
  Routes = {r1, r2, r3}
  InitServices <- TwoServices
  InitRoutes <- TwoRoutes
  Admins = {a1, a2}
  Ops = {"newRoute", "deleteRoute", "patchRoute"}
  MaxOps = 2
  Readers = {g1}
  MaxAttempts = 1
  MaxFaults = 0
SPECIFICATION Spec
SYMMETRY AdminSymmetry
INVARIANTS
  TablesInv
  TenantInv
  TablesConsistent
  TenantIsolation
