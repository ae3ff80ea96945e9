\* Two concurrent calls or jobs, S3 and the database may fail, the bucket may be added at a restart.
SPECIFICATION Spec
CONSTANTS
  c1 = c1
  c2 = c2
  Calls = {c1, c2}
  MaxDocs = 3
  MaxRestarts = 1
  Faults = TRUE
SYMMETRY CallSymmetry
INVARIANTS
  TypeOK
  ActiveHasPayload
  ErasedRowsAreEmpty
  ActiveIsBounded
PROPERTIES
  DocumentsSpec
CHECK_DEADLOCK FALSE
