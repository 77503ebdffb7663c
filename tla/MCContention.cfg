CONSTANTS
  b1 = b1
  u1 = u1
  r1 = r1
  r2 = r2
  k1 = k1
  Buckets = {b1}
  Users = {u1}
  Requests = {r1, r2}
  Owner <- MCOwner
  BucketMax <- MCBucketMax
  UserMax <- MCUserMax
  Bytes = {}
  Deltas = {}
  CountCap = 1
  NoBucket = NoBucket
  Keys = {k1}
  Sizes = {0, 1}
  Absent = Absent
  Nowhere = Nowhere
  SerialKeys = FALSE
  MaxFaults = 0
SPECIFICATION ObjectsSpec
INVARIANTS
  NonNegative
  WithinQuota
  HoldsAccounted
PROPERTY
  HandlersEnd
