\* Two addresses, two concurrent calls, an invitation and its replacement; calls may break off.
SPECIFICATION AccountsSpec
CONSTANTS
  x1 = x1
  x2 = x2
  c1 = c1
  c2 = c2
  Emails = {x1, x2}
  Admissions = {c1, c2}
  Grants <- MCGrants
  MaxInvites = 3
  AdmissionFaults = TRUE
  Nobody = Nobody
SYMMETRY AddressesAndCalls
INVARIANTS
  AccountsTypeOK
  ReplacedNotLost
PROPERTIES
  AcceptanceUsesInvitation
  LastAdminFallsToStaleToken
CHECK_DEADLOCK FALSE
