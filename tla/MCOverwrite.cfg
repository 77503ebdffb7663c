CONSTANTS
  b1 = b1
  u1 = u1
  r1 = r1
  r2 = r2
  k1 = k1
  Buckets = {b1}
  Users = {u1}
  Requests = {r1, r2}
  Owner <- MCOwner
  BucketMax <- MCUnlimitedBucket
  UserMax <- MCUnlimitedUser
  Bytes = {}
  Deltas = {}
  CountCap = 1
  NoBucket = NoBucket
  Keys = {k1}
  Sizes = {1}
  Absent = Absent
  Nowhere = Nowhere
  SerialKeys = FALSE
  MaxFaults = 0
SPECIFICATION ObjectsSpec
CONSTRAINT PutsOnly
INVARIANT
  ChargedAtRest
