CONSTANTS
  Members = {m1, m2, m3}
  Clients = {c1, c2}
  Own = Own
  None = None
  MaxCommits = 2
  MaxFailures = 1
SPECIFICATION Spec
INVARIANTS
  ReplicaInv
  RefillFresh
PROPERTIES
  ImplementsOneDatabase
  RequestsReturn
