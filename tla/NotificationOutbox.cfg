\* Two overlapping runs that are resumed, a backlog larger than the batch, one restart.
SPECIFICATION FairSpec
CONSTANTS
  t1 = t1
  t2 = t2
  Ticks = {t1, t2}
  MaxEvents = 2
  MaxAttempts = 3
  BatchSize = 1
  MaxRestarts = 1
INVARIANTS
  TypeOK
PROPERTIES
  DeliverySpec
  EveryEventIsSettled
CHECK_DEADLOCK FALSE
