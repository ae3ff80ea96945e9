\* A documented statement the code does not keep: the backfill stores a document that was just removed.
SPECIFICATION Spec
CONSTANTS
  c1 = c1
  c2 = c2
  Calls = {c1, c2}
  MaxDocs = 1
  MaxRestarts = 1
  Faults = FALSE
PROPERTIES
  NoObjectComesBack
CHECK_DEADLOCK FALSE
