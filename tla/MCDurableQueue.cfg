\* Two items, two workers, batches of up to two, two faults.
SPECIFICATION Spec
CONSTANTS
  Items = {i1, i2}
  Workers = {w1, w2}
  MaxAttempts = 2
  BatchLimit = 2
  MaxFaults = 2
INVARIANTS TypeOK ClaimsAreDistinct OnceForEachClaim DeadAfterLimit ExclusiveUntilStale
PROPERTIES SettledStays EventuallySettled AtLeastOnce
CHECK_DEADLOCK FALSE
