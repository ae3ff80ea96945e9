\* No call breaks off and every started call is resumed; bob is an admin.
SPECIFICATION FairSpec
CONSTANTS
  ann = ann
  bob = bob
  c1 = c1
  c2 = c2
  c3 = c3
  r1 = r1
  Requests = {r1}
  Users = {ann, bob}
  Admins = {bob}
  Calls = {c1, c2}
  Faults = FALSE
  None = None
INVARIANTS
  OwedIsUnderWay
PROPERTIES
  ClaimIsRecorded
  EmployeeHearsOutcome
CHECK_DEADLOCK FALSE
