CONSTANTS
  p1 = p1
  p2 = p2
  s1 = s1
  s2 = s2
  s3 = s3
  r1 = r1
  r2 = r2
  r3 = r3
  o1 = o1
  o2 = o2
  pathA = pathA
  pathB = pathB
  None = None
  Projects = {p1}
  Paths = {pathA, pathB}
  Origins = {o1, o2}
  Services = {s1, s2}
  Routes = {r1, r2}
  InitServices <- OneServices
  InitRoutes <- OneRoutes
  Admins = {a1}
  Ops = {"newService", "newRoute", "deleteRoute", "bulk", "patchRoute", "patchService"}
  MaxOps = 2
  Readers = {g1}
  MaxAttempts = 2
  MaxFaults = 1
SPECIFICATION Spec
INVARIANTS
  IndInv
  NoStaleRefill
  CoherentInv
  Coherent
PROPERTIES
  ImplementsLookup
