\* A documented statement the code does not keep: a claim that breaks off after its update.
SPECIFICATION Spec
CONSTANTS
  ann = ann
  bob = bob
  c1 = c1
  c2 = c2
  c3 = c3
  r1 = r1
  Requests = {r1}
  Users = {ann, bob}
  Admins = {}
  Calls = {c1, c2}
  Faults = TRUE
  None = None
INVARIANTS
  ClaimIsAudited
CHECK_DEADLOCK FALSE
