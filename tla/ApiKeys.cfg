CONSTANTS
  Apps = {app1, app2}
  Rows = {row1, row2}
  RawKeys = {k1, k2, k3, k4}
  Staff = {s1, s2}
  None = None
SPECIFICATION Spec
SYMMETRY Symmetry
INVARIANTS
  KeyInv
  RetiredKeysStayDead
  OneKeyPerApp
PROPERTIES
  KeysDieForCause
