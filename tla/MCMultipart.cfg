CONSTANTS
  b1 = b1
  u1 = u1
  r1 = r1
  r2 = r2
  k1 = k1
  m1 = m1
  Buckets = {b1}
  Users = {u1}
  Requests = {r1, r2}
  Owner <- MCOwner
  BucketMax <- MCBucketMax
  UserMax <- MCUserMax
  Bytes = {}
  Deltas = {}
  CountCap <- MCNoCap
  NoBucket = NoBucket
  Keys = {k1}
  Sizes = {}
  Absent = Absent
  Nowhere = Nowhere
  SerialKeys = TRUE
  MaxFaults = 1
  Uploads = {m1}
  PartNumbers = {1, 2}
  PartSizes = {1}
  FreshKeys = TRUE
SPECIFICATION Spec
SYMMETRY MCSymmetry
INVARIANTS
  TypeOK
  UploadHoldsAccounted
  OpenHoldsKept
  PartsCovered
  QuotaKept
  ChargedAtRest
