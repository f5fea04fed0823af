CONSTANTS
  app1 = app1
  app2 = app2
  Apps = {app1, app2}
  Emails = {e1}
  Users = {u1, u2}
  None = None
  Clients = {c1, c2}
  Staff = {s1}
  Owns <- OwnsFirst
  SiteActive = {TRUE}
  MaxStaffOps = 3
SPECIFICATION Spec
SYMMETRY Symmetry
INVARIANTS
  RevocationInv
  RevocationFinal
  OneAccountPerEmail
  TokenBoundToApp
