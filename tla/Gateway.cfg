CONSTANTS
  a1 = a1
  a2 = a2
  r1 = r1
  r2 = r2
  Apps = {a1, a2, a3}
  Routes = {r1, r2}
  ProjectOf <- TwoProjects
  Methods = {"GET"}
  MethodRows = {m1, m2}
  GrantRows = {g1, g2}
  Requests = {w1}
  Staff = {s1, s2}
  None = None
  MaxChanges = 3
SPECIFICATION Spec
SYMMETRY Symmetry
INVARIANTS
  CheckedWhileRunning
  RefusalJustified
  GrantsWithinProject
  PoliciesConsistent
CHECK_DEADLOCK FALSE
