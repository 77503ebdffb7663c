CONSTANTS
  b1 = b1
  u1 = u1
  r1 = r1
  r2 = r2
  Buckets = {b1}
  Users = {u1}
  Requests = {r1, r2}
  Owner <- MCOwner
  BucketMax <- MCBucketMax
  UserMax <- MCUserMax
  Bytes = {1, 3}
  Deltas <- MCDeltas
  CountCap = 1
  NoBucket = NoBucket
SPECIFICATION QuotaSpec
INVARIANT
  NonNegative
PROPERTY
  GrowthAdmitted
