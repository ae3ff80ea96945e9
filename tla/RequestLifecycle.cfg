\* Three concurrent calls of two users on one request; calls may break off.
SPECIFICATION Spec
CONSTANTS
  ann = ann
  bob = bob
  c1 = c1
  c2 = c2
  c3 = c3
  r1 = r1
  Requests = {r1}
  Users = {ann, bob}
  Admins = {}
  Calls = {c1, c2, c3}
  Faults = TRUE
  None = None
SYMMETRY UsersAndCalls
INVARIANTS
  TypeOK
  NoForkedHistory
  ClaimTrailNamesClaimant
  StatusIsOnRecord
  ClaimEventIsNew
  InboxFollowsOutbox
PROPERTIES
  StatesSpec
CHECK_DEADLOCK FALSE
