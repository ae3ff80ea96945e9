\* A request call and two document calls or jobs, and a restart; nothing fails, and the cron keeps firing.
SPECIFICATION DeskFairSpec
CONSTANTS
  ann = ann
  bob = bob
  a1 = a1
  f1 = f1
  f2 = f2
  Ticket = Ticket
  Users = {ann}
  Admins = {}
  None = None
  ApiCalls = {a1}
  Calls = {f1, f2}
  MaxDocs = 2
  MaxRestarts = 1
  Faults = FALSE
INVARIANTS
  ResolutionIsKept
  ErasedHasNoObject
PROPERTIES
  RequestsSpec
  ExpiredIsErasedOrReplaced
CHECK_DEADLOCK FALSE
